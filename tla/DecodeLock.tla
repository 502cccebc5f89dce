----------------------------- MODULE DecodeLock -----------------------------
(***************************************************************************)
(* What the engine promises the server about generations, without caches,  *)
(* reservations or channels: any number of tasks may have been started,    *)
(* one at a time decodes, and a task may end without ever decoding.        *)
(* Engine implements this module; Server is built on it.                   *)
(***************************************************************************)
CONSTANT Tasks

VARIABLE phase

lockVars == <<phase>>

Init == phase = [t \in Tasks |-> "idle"]

Start(t) ==
    /\ phase[t] = "idle"
    /\ phase' = [phase EXCEPT ![t] = "waiting"]

Decode(t) ==
    /\ phase[t] = "waiting"
    /\ \A u \in Tasks : phase[u] # "decoding"
    /\ phase' = [phase EXCEPT ![t] = "decoding"]

End(t) ==
    /\ phase[t] \in {"waiting", "decoding"}
    /\ phase' = [phase EXCEPT ![t] = "idle"]

Next == \E t \in Tasks : Start(t) \/ Decode(t) \/ End(t)

Spec == Init /\ [][Next]_lockVars
=============================================================================
