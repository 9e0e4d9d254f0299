SPECIFICATION Spec
CONSTANTS
  MaxBlocks = 2
  POLLS = 2
  Boards <- Fast
INVARIANTS
  TimeoutMeansNotRaised
