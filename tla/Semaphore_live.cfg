SPECIFICATION Spec
CONSTANTS
  Locks = {l1}
  Limits = {1}
  Expiry = 3
  Attempts = 2
  Calls = {c1, c2}
  Punctual = {TRUE, FALSE}
INVARIANTS HolderKnowsExpiry
PROPERTIES LapseNoticed PlaceFreed
