SPECIFICATION Spec
CONSTANTS
  WaitForIpv6 = FALSE
  PreferGlobal = FALSE
  MaxDrops = 1
  OtaSize = 4
  SkipSize = 3
  HeaderLines = 2
  TextBuffSize = 3
  MaxVersion = 2
  MaxResets = 1
  QueueSize = 2
  SendCount = 2
  Magics = {1, 2}
  Directions = {"down", "up"}
  Capacity = 4
  WriteLen = 2
  ReadLen = 2
  MaxBlocks = 12
  WordMod = 100
  ReconnAttempts = 2
  MaxApplies = 2
  MaxFailures = 2
  MaxBoots = 1
  Time = 2
  MaxCommands = 3
  MaxLosses = 1
  MsgLen = 2
  BufLen = 3
  MaxSent = 4
  MaxFaults = 2
  Blocks = 3
  WaitTime = 2
  Values = {"v1", "v2"}
  MaxPuts = 2
  MaxFailed = 2
  Timers = {1, 2}
  QueueLength = 2
  Apis = {"start_once", "start_periodic", "stop", "delete"}
  MaxCalls = 3
  MaxFires = 2
INVARIANTS
  WrittenIsImage
  OneSender
  BlocksInOrder
  ProvDataLive
  StatusTruthful
  BufferOwned
  EveryByteOnce
  BlocksNoGap
  StopIsFinal
PROPERTIES
  UpdateIsAtomic
  StationsReconnect
  SomeoneSends
  AllTransferred
  ProvEnds
  StopReturns
  ClientsEnd
  ObserverCatchesUp
  OsTimerFreed
CHECK_DEADLOCK FALSE
