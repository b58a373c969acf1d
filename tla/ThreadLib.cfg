SPECIFICATION Spec
CONSTANTS
  MaxThreads = 4
  Mutexes = {m1}
  CVs = {c1}
  None = None
INVARIANTS
  TypeOK
  ThreadsConserved
  MutualExclusion
  NoLostWakeup
  JoinAfterFinish
  InterruptsMatchMode
  StacksReclaimedSafely
  SuspendedOnlyWhenStuck
