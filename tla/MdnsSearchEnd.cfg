SPECIFICATION SearchSpec
CONSTANTS
  Tasks = {1}
  Timeout = 2
  Resend = 1
  Limits = {0, 1}
  QueueLength = 2
  MaxQueries = 2
  MaxPackets = 2
CHECK_DEADLOCK FALSE
INVARIANT
  QueryWaits
