SPECIFICATION SignalSpec
CONSTANTS
  TICKS = 92
  LAG = 2
  Times <- Pauses
  Builds <- BothBuilds
  SHORT_PAUSE = 19
  LONG_PAUSE = 52
  Errors <- SomeErrors
  Pins <- SomePins
INVARIANTS SignalReadsAtFirst LogStaysConnected
PROPERTY SignalsForever
