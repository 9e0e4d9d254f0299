SPECIFICATION Spec
CONSTANTS
  SD_BLKSZ = 5
  PART_NBLKS = 9
  RDWR_SZ = 10
  RUNS = 1
  Files <- OneFile
  PART_LBA = 2
  ImagePartitions = {2, 5}
  KERN_RAM_ADDR = 5
  DTB_RAM_ADDR = 15
  HEAP_RAM_ADDR = 30
  ZIMAGE_MAGIC_OFF = 1
  WORD = 42
INVARIANT OverflowMeansTooBig
