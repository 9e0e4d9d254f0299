SPECIFICATION Spec
CONSTANTS
  SD_BLKSZ = 5
  PART_NBLKS = 6
  RDWR_SZ = 10
  RUNS = 2
  Files <- MCFiles
  PART_LBA = 2
  ImagePartitions = {2, 5}
  KERN_RAM_ADDR = 5
  DTB_RAM_ADDR = 15
  HEAP_RAM_ADDR = 20
  ZIMAGE_MAGIC_OFF = 1
  WORD = 128
INVARIANTS TypeOK LoadsDoNotOverlap BootsWhatWasImaged ReadsWithinImage RefusedForAReason
