SPECIFICATION SpecOOM
CONSTANTS
  MaxThreads = 3
  Mutexes = {m1}
  CVs = {c1}
  None = None
INVARIANTS
  ReadyHasContext
