SPECIFICATION FairSpec
CONSTANTS
  MaxBlocks = 3
  POLLS = 2
  Boards <- BestAndWorst
INVARIANTS
  TypeOK
  NoStaleCompletion
  NoUnderrun
  QuietOnSuccess
PROPERTIES
  ImplementsBlockTransfer
  CallReturns
  CallSucceeds
