SPECIFICATION Spec
CONSTANTS
  None = None
  Tasks = {1, 2}
  Timeout = 1
  Resend = 0
  Limits = {0, 1}
  QueueLength = 2
  MaxQueries = 2
  MaxPackets = 2
  Pcbs = {"sta4"}
  QueueLen = 2
  MaxHeap = 1
  MaxInits = 2
  Hosts <- Boards
  Ip4 <- Addresses
  Ip6 <- Addresses
  Port <- Ports
  TxtLen <- TxtLens
  OwnInstance = TRUE
  MaxSuffix = 5
  MaxPacketSize = 72
  LabelLen <- LabelLengths
  TypeLabels <- Underscored
  Host <- HostLabel
  Services <- TwoServices
  Questions <- ThreeQuestions
  Stale <- StaleLengths
  Dup = TRUE
  MaxEntries = 3
  Offers <- FourOffers
  RxPcbs = {"sta4", "sta6"}
  Names <- AllNames
  OurHost = "h2"
  OurInstances <- OneInstance
  Responses <- OneOrTwoRecords
  Queries <- QueryLists
INVARIANTS
  SearchesLive
  EndedForReason
  NoOverrun
  ReadBack
  WinnerKeepsHost
  NobodyLeft
  ResultsTrue
  AnswerTakenWhole
PROPERTIES
  QueryEnds
  NamesSettle
  FreeReturns
CHECK_DEADLOCK FALSE
