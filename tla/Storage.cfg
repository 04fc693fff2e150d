SPECIFICATION StorageSpec
CONSTANTS
  r1 = r1 r2 = r2
  RdProc <- RdUsers
  RdBuffer = {"b1", "b2"}
  NoBuffer = NoBuffer
  Blk = {0, 1}
  RdRetries = 2
  MaxWrites = 3
  MaxSeqNo = 5
  RdHazards = {}
  RfProc = {"p1", "p2"}
  Rfl = {0}
  RfName = {"a"}
  RfBad = {"bad"}
  RfModes <- McRfModes
  RfLens = {0, 1}
  RfDatalen = 1
  RfMaxPos = 2
  RfRetries = 2
  RfMaxSeq = 5
  RfHazards = {}
  LfProc = {"p1", "p2"}
  Lfl = {0, 1}
  LfName = {"a", "b"}
  LfModes <- McLfModes
  LfByte = {1, 2}
  Blksiz = 2
  IbLen = 1
  PerSector = 2
  NumIb = 2
  NumDb = 2
  DirSize = 2
  LfCounts = {1, 2}
  LfMaxSize = 3
  LfSeeks = {0, 2}
  LfHazards = {}
SYMMETRY StorageSymmetry
VIEW StorageView
INVARIANTS
  BuffersAccounted
  SyncMeansWritten
  CacheFresh
  ReadsWhatWasWritten
  FilesKeepBytes
  BlocksOwned
  ClosedIsOnDisk
CHECK_DEADLOCK FALSE
