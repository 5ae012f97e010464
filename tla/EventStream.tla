---------------------------- MODULE EventStream ----------------------------
(***************************************************************************)
(* What a watcher of backend.CircularBuffer may rely on.  Its stream starts*)
(* with the init event and then has every event of the keys it asked for,  *)
(* once and in the order of Emit, until it is detached.  A watcher that    *)
(* cannot keep up is detached and loses the end of its stream, never a     *)
(* part in the middle; it never receives anything out of order.            *)
(***************************************************************************)
EXTENDS Naturals, Sequences

CONSTANTS Watchers, Keys, Events, InitEvent

VARIABLES interest,  \* the keys that a watcher asked for
          phase,     \* "new", "waiting" for init, "attached" or "detached"
          stream,    \* all that it has received and is still to receive
          received   \* what it has received

vars == <<interest, phase, stream, received>>

Init ==
    /\ interest = [w \in Watchers |-> {}]
    /\ phase = [w \in Watchers |-> "new"]
    /\ stream = [w \in Watchers |-> << >>]
    /\ received = [w \in Watchers |-> << >>]

Register(w, keys) ==
    /\ phase[w] = "new"
    /\ interest' = [interest EXCEPT ![w] = keys]
    /\ \/ phase' = [phase EXCEPT ![w] = "waiting"] /\ stream' = stream
       \/ /\ phase' = [phase EXCEPT ![w] = "attached"]
          /\ stream' = [stream EXCEPT ![w] = <<InitEvent>>]
    /\ UNCHANGED received

Start ==
    /\ phase' = [w \in Watchers |-> IF phase[w] = "waiting" THEN "attached" ELSE phase[w]]
    /\ stream' = [w \in Watchers |-> IF phase[w] = "waiting" THEN <<InitEvent>> ELSE stream[w]]
    /\ UNCHANGED <<interest, received>>

Emit(event) ==
    /\ stream' = [w \in Watchers |->
         IF phase[w] = "attached" /\ event.key \in interest[w]
         THEN Append(stream[w], event) ELSE stream[w]]
    /\ UNCHANGED <<interest, phase, received>>

Receive(w) ==
    /\ Len(received[w]) < Len(stream[w])
    /\ received' = [received EXCEPT ![w] = Append(@, stream[w][Len(@) + 1])]
    /\ UNCHANGED <<interest, phase, stream>>

\* The stream of one watcher ends before its time.
Overflow(w) ==
    /\ phase[w] = "attached"
    /\ phase' = [phase EXCEPT ![w] = "detached"]
    /\ \E n \in Len(received[w])..Len(stream[w]) :
          stream' = [stream EXCEPT ![w] = SubSeq(@, 1, n)]
    /\ UNCHANGED <<interest, received>>

Detach(ws) ==
    /\ \A w \in ws : phase[w] # "new"
    /\ phase' = [w \in Watchers |-> IF w \in ws THEN "detached" ELSE phase[w]]
    /\ UNCHANGED <<interest, stream, received>>

Next ==
    \/ \E w \in Watchers, keys \in SUBSET Keys : Register(w, keys)
    \/ Start
    \/ \E event \in Events : Emit(event)
    \/ \E w \in Watchers : Receive(w) \/ Overflow(w)
    \/ \E ws \in SUBSET Watchers : Detach(ws)

Spec == Init /\ [][Next]_vars

=============================================================================
