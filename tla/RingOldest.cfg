SPECIFICATION Spec
CONSTANTS
  p1 = p1
  p2 = p2
  c1 = c1
  NoItem = NoItem
  Producers = {p1, p2}
  Consumers = {c1}
  QueueSize = 2
  Policy = "DropOldest"
  MaxEvictRetries = 2
  MaxPush = 2
INVARIANTS
  IInv
  CountersExact
PROPERTIES
  RefinesQueue
  RefinesSlots
  CallsReturn
  NoneStranded
