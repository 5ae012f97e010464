--------------------------- MODULE CertAuthority ---------------------------
(***************************************************************************)
(* A certificate authority and the state machine of its rotation:          *)
(* processRotationRequest of lib/auth/rotate.go and the functions it       *)
(* calls.  A key set is a set of keys; a key stands for the SSH, TLS and   *)
(* JWT pairs that newKeySet generates together.                            *)
(*                                                                         *)
(* The field State of types.Rotation is standby exactly when Phase is (or  *)
(* both are unset), so only the phase is kept.  CurrentID, a fresh uuid    *)
(* for every rotation of an authority, is a count.                         *)
(***************************************************************************)
EXTENDS Naturals

CONSTANT Keys

Phases == {"standby", "init", "update_clients", "update_servers", "rollback"}
Modes == {"", "manual", "auto"}

CertAuthorities ==
    [active : SUBSET Keys, additional : SUBSET Keys, phase : Phases, mode : Modes, id : Nat]

CA(active, additional, phase, mode, id) ==
    [active |-> active, additional |-> additional, phase |-> phase, mode |-> mode, id |-> id]

\* A self-signed authority as createSelfSignedCA writes it.
NewCertAuthority(keys) == CA(keys, {}, "standby", "", 0)

\* What components that know the authority trust.
Trusted(c) == c.active \cup c.additional

InProgress(c) == c.phase # "standby"

-----------------------------------------------------------------------------

\* Mutant: the new keys sign at once.
startNewRotationActive(c, mode, newKeys, forced) ==
    CA(newKeys, c.active, "init", mode, c.id + 1)

\* The new keys are trusted but do not sign; without a grace period they
\* replace the active ones in the same step.
startNewRotation(c, mode, newKeys, forced) ==
    IF forced THEN CA(newKeys, c.additional, "standby", mode, c.id + 1)
              ELSE CA(c.active, newKeys, "init", mode, c.id + 1)

updateClients(c, mode) == CA(c.additional, c.active, "update_clients", mode, c.id)

\* Mutant: the phase and the mode are mixed up.
updateServersMixed(c, mode) == CA(c.active, c.additional, mode, "update_servers", c.id)

updateServers(c, mode) == CA(c.active, c.additional, "update_servers", mode, c.id)

\* Mutant: the key sets are swapped back although init has not swapped them.
startRollingBackRotationSwap(c) == CA(c.additional, c.active, "rollback", "manual", c.id)

\* In the init phase the key sets have not been swapped yet.
startRollingBackRotation(c) ==
    IF c.phase = "init" THEN CA(c.active, c.additional, "rollback", "manual", c.id)
                        ELSE CA(c.additional, c.active, "rollback", "manual", c.id)

\* Mutant: the old keys stay trusted.
completeRotationKeep(c) == CA(c.active, c.additional, "standby", "", c.id)

completeRotation(c) == CA(c.active, {}, "standby", "", c.id)

-----------------------------------------------------------------------------

\* The target phases that are not refused as a BadParameter.
supported(c, target) ==
    \/ target = "init" /\ c.phase = "standby"
    \/ target = "update_clients" /\ c.phase = "init"
    \/ target = "update_servers" /\ c.phase = "update_clients"
    \/ target = "rollback" /\ c.phase \in {"init", "update_clients", "update_servers"}
    \/ target = "standby" /\ c.phase \in {"update_servers", "rollback"}

processRotationRequest(c, target, mode, newKeys, forced) ==
    IF target = "init" THEN startNewRotation(c, mode, newKeys, forced)
    ELSE IF target = "update_clients" THEN updateClients(c, mode)
    ELSE IF target = "update_servers" THEN updateServers(c, mode)
    ELSE IF target = "rollback" THEN startRollingBackRotation(c)
    ELSE completeRotation(c)

\* The phases autoRotate leaves by itself, and where it goes from them.
AutoPhases == {"init", "update_clients", "update_servers"}
nextPhase(phase) ==
    IF phase = "init" THEN "update_clients"
    ELSE IF phase = "update_clients" THEN "update_servers"
    ELSE "standby"

=============================================================================
