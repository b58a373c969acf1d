SPECIFICATION Spec
CONSTANTS
  Threads = {t1, t2}
  None = None
  FS_DISKSIZE = 7
  FS_DIRENTRIES = 2
  FS_MAXFILEBLOCKS = 2
  MaxCrashes = 1
  CrashesTearDeletes = TRUE
  Requests <- MCRequestsTorn
  InitialDisks <- MCDisks
SYMMETRY Symmetry
INVARIANTS
  BlocksBelongToFiles
