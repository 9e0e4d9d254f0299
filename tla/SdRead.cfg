SPECIFICATION FairSpec
CONSTANTS
  SD_BLKSZ = 4
  UINT16_MAX = 3
  WORD = 64
  RamAddrs <- MCRamAddrs
  Lbas <- MCLbas
  Counts <- MCCounts
  ByteCounts <- MCByteCounts
INVARIANTS
  TypeOK
  ReadInFull
  NothingOutside
PROPERTIES
  ImplementsBlockRead
  ReadReturns
