--------------------------- MODULE MCBackendLock ---------------------------
(* Instances of BackendLock for TLC. *)
EXTENDS BackendLock, TLC

\* Calls of RunWhileLocked are interchangeable.
Symmetry == Permutations(Callers)

=============================================================================
