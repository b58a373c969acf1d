SPECIFICATION Spec
CONSTANTS
  Pids = {p1, p2}
  memory_pages = 3
  swap_blocks = 2
  ArenaPages = 2
  FileBlocks = {0}
  Values = {Zero, A}
  Zero = Zero
  Unterminated = {A}
  Initial = {A}
  None = None
  SwapMayFail = FALSE
  UintPages = 65536
PROPERTIES
  ChildInheritsArena
