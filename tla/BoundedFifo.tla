----------------------------- MODULE BoundedFifo -----------------------------
(***************************************************************************)
(* What BoundedQueue promises: a queue of at most Capacity items, put in   *)
(* and taken out one at a time, in order, none lost and none made up.      *)
(***************************************************************************)
EXTENDS Naturals, Sequences

CONSTANTS Items, Consumers, Capacity, NoItem

VARIABLES queue,   \* the items put in and not yet taken out
          held     \* what each consumer took out last

Init == queue = <<>> /\ held = [c \in Consumers |-> NoItem]

Put(x) ==
    /\ Len(queue) < Capacity
    /\ queue' = Append(queue, x)
    /\ UNCHANGED held

Take(c) ==
    /\ queue # <<>>
    /\ held' = [held EXCEPT ![c] = Head(queue)]
    /\ queue' = Tail(queue)

Next == (\E x \in Items : Put(x)) \/ (\E c \in Consumers : Take(c))

vars == <<queue, held>>

Spec == Init /\ [][Next]_vars
=============================================================================
