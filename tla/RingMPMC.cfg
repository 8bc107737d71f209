SPECIFICATION Spec
CONSTANTS
  p1 = p1
  p2 = p2
  c1 = c1
  c2 = c2
  NoItem = NoItem
  Producers = {p1, p2}
  Consumers = {c1, c2}
  QueueSize = 2
  Policy = "DropNewest"
  MaxEvictRetries = 2
  MaxPush = 2
SYMMETRY Symmetry
INVARIANTS
  TypeOK
  QueuedPreserved
  ProducerOrder
  NoDataRace
  DeliveredIntact
PROPERTIES
  FullIsFull
