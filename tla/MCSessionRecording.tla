------------------------- MODULE MCSessionRecording -------------------------
(* Instances of SessionRecording for TLC. *)
EXTENDS SessionRecording

=============================================================================
