SPECIFICATION FairSpec
CONSTANTS
  TICKS = 26
  LAG = 2
  Times <- SomeTimes
  Builds <- AllBuilds
INVARIANTS TypeOK NeverLate
PROPERTIES NeverEarly SleepsAndWaitsEnd
