SPECIFICATION Spec
CONSTANTS
  http = http
  ipp = ipp
  PcbOrder <- OnePcb
  Services = {http, ipp}
  Host = "host"
  MaxServices = 2
  QueueLength = 3
  ProbeDelays = {1}
  SlowProbe = 1
  FailedLimit = 1
  ProbeInterval = 1
  AnnounceInterval = 2
  ShareDelays = {0}
  WrapAt = 0
  Inputs <- ConflictInputs
  MaxInputs = 4
CHECK_DEADLOCK FALSE
SYMMETRY ServiceSymmetry
INVARIANTS
  ProbeListSound
  PacketsSound
  QueuedHasAction
  NoUnprobedAnswer
