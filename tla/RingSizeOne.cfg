SPECIFICATION Spec
CONSTANTS
  p1 = p1
  c1 = c1
  NoItem = NoItem
  Producers = {p1}
  Consumers = {c1}
  QueueSize = 1
  Policy = "DropNewest"
  MaxEvictRetries = 2
  MaxPush = 2
INVARIANT QueuedPreserved
