SPECIFICATION Spec
CONSTANTS
  Locks = {l1, l2}
  Limits = {1, 2}
  Expiry = 2
  Attempts = 2
  Calls = {c1}
  Punctual = {TRUE}
SYMMETRY Symmetry
INVARIANTS TypeOK HoldersBounded
PROPERTIES OnlyOwnLease
