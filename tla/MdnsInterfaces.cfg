SPECIFICATION Spec
CONSTANTS
  http = http
  ipp = ipp
  PcbOrder <- ThreePcbs
  Services = {http}
  Host = "host"
  MaxServices = 2
  QueueLength = 2
  ProbeDelays = {0}
  SlowProbe = 1
  FailedLimit = 1
  ProbeInterval = 0
  AnnounceInterval = 1
  ShareDelays = {0}
  WrapAt = 0
  Inputs <- InterfaceInputs
  MaxInputs = 3
CHECK_DEADLOCK FALSE
INVARIANTS
  ActivePcbHasPacket
PROPERTIES
  RunningEventually
