---------------------------- MODULE MCSemaphore ----------------------------
(* Instances of Semaphore for TLC. *)
EXTENDS Semaphore, TLC

\* Calls of AcquireSemaphoreLock are interchangeable, and so are the calls of a
\* lock: the locks name them alike, so they are permuted for all at once.
Symmetry == Permutations(Locks) \cup Permutations(Calls)

=============================================================================
