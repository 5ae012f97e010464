SPECIFICATION Spec
CONSTANTS
  Callers = {c1, c2}
  NoCaller = NoCaller
  TTL = 7
  Delay = 1
INVARIANTS TypeOK MutualExclusion
PROPERTIES ReleaseOnlyOwn OwnershipOnlyByCreate LostLockCancels
