CONSTANTS
  Producers = {p1}
  Consumers = {c1, c2}
  Capacity = 2
  MaxItems = 3
SPECIFICATION Spec
INVARIANT DeliveredOnce
