CONSTANTS
  Capacity = 2
  Producers = {p1, p2}
  Consumers = {c1, c2}
  Values = {v1, v2}
  NoValue = NoValue
  MaxPush = 3
SPECIFICATION Spec
INVARIANTS
  ExclusiveNode
  PopReturnsItsPush
  IInv
PROPERTIES
  HonestFailure
  ImplementsTicketQueue
