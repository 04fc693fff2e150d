SPECIFICATION MachineSpec
CONSTANTS
  c1 = c1 c2 = c2 c3 = c3
  MinHeap = 2
  Hole <- McHole
  MaxHeap = 18
  MemBlk = 2
  AddrWord = 32
  Requests = {1, 2, 4, 5}
  Client <- Clients
  Port = {0, 1}
  Pool = {0}
  NumBufs = 3
  MaxCnt = {1, 2}
  MaxMsgs = 2
  MaxSeq = 3
  NoBuf = NoBuf
  TtyProc <- Pair
  IBufLen = 3
  OBufLen = 3
  EBufLen = 3
  FifoSize = 2
  Texts <- McTexts
  Reads = {0, 1, 3}
  TtyLimit = 4
  TtyHazards = {}
  NDevs = 6
  DevKind <- McDevKind
  DevName <- McDevName
  NameDev = 1
  Nnames = 9
  NmMaxlen = 40
  NmPrelen = 3
  NmRepllen = 3
  CharLimit = 20
  OtherPrefixes <- McPrefixes
  Mounts <- McMounts
  NmNames <- McNmNames
  NmStack <- McNmStack
  NmHazards = {}
  RamBlock = {0, 1}
  RamData = {1, 2}
  EthProc = {"p", "q"}
  RxRingSize = 4
  TxRingSize = 2
  RingBoundary = 2
  MaxArrivals = 6
  MaxSends = 4
  EthHazards = {}
  NetProc <- Pair
  IpOut = "ipout"
  Me = "me"
  Bcast = "bcast"
  Loop = "loop"
  NoAddr = "0"
  OnNet = {"a", "b"}
  Router = "0"
  ArpSiz = 2
  UdpSlots = 2
  UdpQsiz = 1
  IcmpSlots = 3
  IcmpQsiz = 2
  IpOqsiz = 2
  ArpRetry = 2
  NetBufs = 5
  ArpFrames <- McArpFrames
  IpPackets <- McIpPackets
  Endpoints <- McEndpoints
  Dests = {"a", "b", "me", "bcast"}
  NetHazards = {}
  DhcpRetry = 2
  DhcpReads = 2
  Leases = {"l1", "l2"}
  DnsRetry = 2
  DnsNames <- McDnsNames
  DnsReplies <- McDnsReplies
  LocalHosts = {"b"}
  TftpMaxRetries = 2
  TfPorts = {1, 2}
  TfBlocks = 3
  TfRooms = {1, 3}
  SvHazards = {}
SYMMETRY MachineSymmetry
VIEW MachineView
INVARIANTS
  HeapExact
  BufferOwnership
  CountsAccount
  InputFaithful
  OutputFaithful
  OutputGoesOn
  NamesResolve
  RingsInOrder
  PacketsAccounted
  FramesReachTheirHop
  WaitersAgree
  AnswersMatch
  SlotsReturned
CHECK_DEADLOCK FALSE
