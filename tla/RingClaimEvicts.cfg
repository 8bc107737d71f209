SPECIFICATION Spec
CONSTANTS
  p1 = p1
  c1 = c1
  NoItem = NoItem
  Producers = {p1}
  Consumers = {c1}
  QueueSize = 4
  Policy = "DropOldest"
  MaxEvictRetries = 4
  MaxPush = 6
PROPERTY EvictsOnlyToMakeRoom
