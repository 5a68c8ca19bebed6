\* Sectors of 3 bytes, every size of a 24-valued word, any read may fail.
SPECIFICATION FairSpec
CONSTANTS
  SECTOR_SIZE = 3
  Word = 24
  DiskSectors = 14
  FileSizes <- AnySize
  FirstSectors = {2, 5}
INVARIANTS
  TypeOK
  StartedOnPrefix
PROPERTY
  LoaderEnds
CHECK_DEADLOCK FALSE
