SPECIFICATION Spec
CONSTANTS
  Watchers = {w1}
  Keys <- TwoKeys
  Watches <- SomeWatches
  QueueSizes = {0, 2}
  Capacity = 1
  Grace = 1
  MaxEvents = 4
  MaxBatch = 2
INVARIANTS TypeOK DetachedIsTold NoStall
PROPERTIES ImplementsEventStream OverflowsAfterGrace Delivered DoneIsRemoved
