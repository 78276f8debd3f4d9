\* One client, start, stop.
CONSTANTS
  Clients = {c1}
  Requests <- AnyRequest
  MaxReads = 2
  Backlog = 1
SPECIFICATION FairSpec
PROPERTY StopReturns
CHECK_DEADLOCK FALSE
