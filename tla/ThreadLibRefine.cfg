SPECIFICATION FairSpec
CONSTANTS
  MaxThreads = 3
  Mutexes = {m1}
  CVs = {c1, c2}
  None = None
PROPERTIES
  ImplementsMonitor
  NoBarging
  ReadyThreadRuns
  MutexNotStarved
