SPECIFICATION Spec
CONSTANTS
  Threads = {t1, t2, t3}
  None = None
  FS_DISKSIZE = 7
  FS_DIRENTRIES = 2
  FS_MAXFILEBLOCKS = 2
  MaxCrashes = 1
  CrashesTearDeletes = FALSE
  Requests <- MCRequests
  InitialDisks <- MCDisks
SYMMETRY Symmetry
INVARIANTS
  TypeOK
  TreeIntact
  BlocksAccounted
  NoWaitingCycle
PROPERTIES
  LockedInodesStable
  ImplementsFileSystem
