SPECIFICATION FairSpec
CONSTANTS
  Connections = {c1}
  None = None
  Streams <- MCStreams
  Base = 3
  UINT_MAX = 7
  LONG_MAX = 31
  FS_BLOCKSIZE = 2
  FS_MAXFILEBLOCKS = 5
  FS_MAXPATHNAME = 2
  FS_MAXUSERNAME = 1
  max_message_length = 11
INVARIANTS
  TypeOK
  OnlyWholeRequests
  GoodRequestsTried
  AnswersAreTrue
PROPERTIES
  ConnectionsClose
