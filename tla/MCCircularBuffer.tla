-------------------------- MODULE MCCircularBuffer --------------------------
(* Instances of CircularBuffer for TLC. *)
EXTENDS CircularBuffer

WatcherSymmetry == Permutations(Watchers)

\* Keys /1/1 and /2.
TwoKeys == {<<1, 1>>, <<2>>}

\* No prefix at all, and three of which one is redundant and stands apart from
\* the one that covers it.
SomeWatches == {<< >>, << <<1, 1>>, <<2>>, <<1>> >>}

=============================================================================
