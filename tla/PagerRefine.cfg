SPECIFICATION FairSpec
CONSTANTS
  Pids = {p1, p2}
  memory_pages = 2
  swap_blocks = 1
  ArenaPages = 4
  FileBlocks = {0}
  Values = {Zero, A}
  Zero = Zero
  Unterminated = {A}
  Initial = {A}
  None = None
  SwapMayFail = TRUE
  UintPages = 65536
PROPERTIES
  ImplementsSharedMemory
  CallsReturn
