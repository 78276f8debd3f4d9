\* Two clients whose requests come in one piece, in pieces, or never whole.
CONSTANTS
  Clients = {c1, c2}
  Requests <- AnyRequest
  MaxReads = 2
  Backlog = 1
SPECIFICATION FairSpec
INVARIANTS
  TypeOK
  BodyWhole
  NothingAfterStop
PROPERTY EveryRequestAnswered
CHECK_DEADLOCK FALSE
