SPECIFICATION Spec
CONSTANTS
  a1 = a1 a2 = a2 n1 = n1 n2 = n2 k0 = k0 k1 = k1 k2 = k2
  Keys = {k0, k1, k2} KeyOf <- KeyOfRotation None = None
  Auth = {a1}
  Nodes = {n1}
  Joining = {}
  Renamed = {n1}
  Patient = TRUE
  MaxRotations = 2
  MaxCrashes = 2
INVARIANTS NoLockout
PROPERTIES CatchesUp ReloadsSettle
