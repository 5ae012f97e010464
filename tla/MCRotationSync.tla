--------------------------- MODULE MCRotationSync ---------------------------
(* Instances of RotationSync for TLC. *)
EXTENDS RotationSync, TLC

CONSTANTS a1, a2, n1, n2, k0, k1, k2

KeyOfRotation == [i \in 0..MaxRotations |-> <<k0, k1, k2>>[i + 1]]
AuthSymmetry == Permutations({a1, a2} \cap Auth)

=============================================================================
