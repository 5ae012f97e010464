SPECIFICATION Spec
CONSTANTS
  auth = auth node = node k1 = k1 k2 = k2
  Caches = {auth, node}
  Backend = Backend
  Parent <- Chain
  Keys = {k1, k2}
  Kind <- OwnKind
  Absent = Absent
  OpInit = OpInit
  QueueSize = 1
  MaxWrites = 2
  MaxFaults = 1
INVARIANTS TypeOK ReplicaInSync NoPartialReads
PROPERTIES Converges
CHECK_DEADLOCK FALSE
