--------------------------- MODULE MCReplicaCache ---------------------------
(* Instances of ReplicaCache for TLC. *)
EXTENDS ReplicaCache, TLC

CONSTANTS auth, node, k1, k2

\* An auth server's cache and that of a node.
Chain == (auth :> Backend) @@ (node :> auth)

\* Every item is of a kind of its own.
OwnKind == [k \in Keys |-> k]

=============================================================================
