SPECIFICATION FairSpec
CONSTANTS
  Threads = {t1, t2, t3}
  None = None
  FS_DISKSIZE = 8
  FS_DIRENTRIES = 2
  FS_MAXFILEBLOCKS = 2
  MaxCrashes = 0
  CrashesTearDeletes = FALSE
  Requests <- MCRequestsLive
  InitialDisks <- MCDisksFull
PROPERTIES
  ImplementsFileSystem
  EveryRequestAnswered
