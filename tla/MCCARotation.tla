---------------------------- MODULE MCCARotation ----------------------------
(* Instances of CARotation for TLC. *)
EXTENDS CARotation, TLC

CONSTANTS s1, s2, s3, host, user, db, h1, h2, h3, k0, a1, a2, a3, b1, b2, c0, c1

\* Three authorities, in the order of types.CertAuthTypes.
OrderOfTypes == (host :> 1) @@ (user :> 2) @@ (db :> 3)
OneType == host :> 1

\* Key k0 is the first one; the others are named after their server.
OwnerOfKeys == [k \in Keys |-> IF k \in {b1, b2} THEN s2
                                ELSE IF k \in {c0, c1} THEN s3 ELSE s1]
OneOwner == [k \in Keys |-> s1]
SharedKey == (host :> {k0}) @@ (user :> {c0}) @@ (db :> {k0})
HostKey == host :> {k0}
HSMKey == host :> {c0}

\* One process per host.
SeparateHosts == (s1 :> h1) @@ (s2 :> h2)
ThreeHosts == (s1 :> h1) @@ (s2 :> h2) @@ (s3 :> h3)
SingleHost == s1 :> h1

KeySymmetry == Permutations({a1, a2, a3} \cap Keys)

=============================================================================
