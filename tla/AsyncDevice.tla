----------------------------- MODULE AsyncDevice -----------------------------
(***************************************************************************)
(* What the caller of CoIoUring::submit relies on: a request that has been *)
(* submitted is answered once, by a post of its baton, at some later time, *)
(* in no particular order, and the caller goes on only then.               *)
(***************************************************************************)
CONSTANT Requests

VARIABLE state

Init == state = [r \in Requests |-> "idle"]

Submit(r) == state[r] = "idle" /\ state' = [state EXCEPT ![r] = "pending"]

Complete(r) == state[r] = "pending" /\ state' = [state EXCEPT ![r] = "done"]

Next == \E r \in Requests : Submit(r) \/ Complete(r)

OnceEach == Init /\ [][Next]_state

InTheEnd == \A r \in Requests : WF_state(Complete(r))

Spec == OnceEach /\ InTheEnd
=============================================================================
