CONSTANTS
  Producers = {p1}
  Consumers = {c1}
  Capacity = 2
  MaxItems = 6
SPECIFICATION FairSpec
INVARIANTS
  TypeOK
  FifoOrder
  NoSlotRace
PROPERTIES
  ImplementsFifo
  EveryItemDelivered
CHECK_DEADLOCK TRUE
