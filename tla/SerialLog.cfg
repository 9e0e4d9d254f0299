SPECIFICATION Spec
CONSTANTS
  FIFO_SZ = 3
  FMT_SZ = 20
  BUF_SZ = 20
  Timestamps = {0, 65535}
  Programs <- SomePrograms
INVARIANTS TypeOK LogIsReadable InBounds
PROPERTIES LogsWhatItShould LogCallEnds
