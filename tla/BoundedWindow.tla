---------------------------- MODULE BoundedWindow ----------------------------
(***************************************************************************)
(* What a ring of bytes promises to the producer and the consumer that     *)
(* share it: regions are handed out as long as the bytes in use fit, are   *)
(* given back oldest first, and a request is refused only when, at some    *)
(* moment since it was made, it would not have fitted.                     *)
(***************************************************************************)
EXTENDS Integers, Sequences

CONSTANTS Capacity, Sizes

VARIABLES sizes,    \* the sizes of the regions in use, oldest first
          used,     \* their sum
          request,  \* the size that is asked for, 0 when nothing is
          tight     \* the request did not fit when it was made

Init == sizes = <<>> /\ used = 0 /\ request = 0 /\ tight = FALSE

Ask(s) ==
    /\ request = 0
    /\ request' = s
    /\ tight' = (used + s > Capacity)
    /\ UNCHANGED <<sizes, used>>

Grant ==
    /\ request # 0
    /\ used + request <= Capacity
    /\ sizes' = Append(sizes, request)
    /\ used' = used + request
    /\ request' = 0
    /\ tight' = FALSE

Refuse ==
    /\ request # 0
    /\ tight
    /\ request' = 0
    /\ tight' = FALSE
    /\ UNCHANGED <<sizes, used>>

Return ==
    /\ sizes # <<>>
    /\ sizes' = Tail(sizes)
    /\ used' = used - Head(sizes)
    /\ UNCHANGED <<request, tight>>

Next == (\E s \in Sizes : Ask(s)) \/ Grant \/ Refuse \/ Return

vars == <<sizes, used, request, tight>>

Spec == Init /\ [][Next]_vars
=============================================================================
