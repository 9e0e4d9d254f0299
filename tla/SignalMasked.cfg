SPECIFICATION SignalSpec
CONSTANTS
  TICKS = 80
  LAG = 1
  Times <- Pauses
  Builds <- BothBuilds
  SHORT_PAUSE = 10
  LONG_PAUSE = 40
  Errors <- SomeErrors
  Pins <- SomePins
PROPERTY EveryErrorIsSignalled
