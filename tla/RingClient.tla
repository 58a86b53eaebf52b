----------------------------- MODULE RingClient -----------------------------
(***************************************************************************)
(* SPSCRingBuffer used as its name asks: one producer that calls           *)
(* RequestWriteSpace and one consumer that calls CommitWrite with the size *)
(* of the oldest region, once it is done with it.  The producer loads the  *)
(* tail first and uses it later, when the consumer may have moved it on.   *)
(***************************************************************************)
EXTENDS Integers, Sequences

CONSTANTS kBufferSize, Word, Sizes

ASSUME ClientAssumption ==
    /\ kBufferSize \in Nat \ {0} /\ Word \in Nat /\ kBufferSize < Word
    /\ Word % kBufferSize = 0
    /\ Sizes \subseteq Nat \ {0}

VARIABLES head_, tail_,
          size,       \* the argument of the call in progress, 0 when there is none
          cur_tail,   \* what the call has loaded
          live        \* the regions in use, oldest first

Ring == INSTANCE SPSCRingBuffer

vars == <<head_, tail_, size, cur_tail, live>>

\* A region: its offset in buffer_, its size and, as history, the head_ that
\* it was reserved at.
Region == [start : 0..(kBufferSize - 1), size : Sizes, at : 0..(Word - 1)]

TypeOK ==
    /\ Ring!RingTypeOK
    /\ size \in Sizes \cup {0}
    /\ cur_tail \in 0..(Word - 1)
    /\ live \in Seq(Region)

Init ==
    /\ Ring!RingInit
    /\ size = 0 /\ cur_tail = 0 /\ live = <<>>

LoadTail(s) ==
    /\ size = 0
    /\ size' = s
    /\ cur_tail' = tail_
    /\ UNCHANGED <<head_, tail_, live>>

Reserve ==
    /\ size # 0
    /\ Ring!Fits(size, cur_tail)
    /\ live' = Append(live, [start |-> Ring!HeadIndex, size |-> size, at |-> head_])
    /\ Ring!AdvanceHead(size)
    /\ size' = 0
    /\ UNCHANGED <<tail_, cur_tail>>

Refuse ==
    /\ size # 0
    /\ ~Ring!Fits(size, cur_tail)
    /\ size' = 0
    /\ UNCHANGED <<head_, tail_, cur_tail, live>>

CommitWrite ==
    /\ live # <<>>
    /\ Ring!CommitWrite(Head(live).size)
    /\ live' = Tail(live)
    /\ UNCHANGED <<head_, size, cur_tail>>

Next == (\E s \in Sizes : LoadTail(s)) \/ Reserve \/ Refuse \/ CommitWrite

Spec == Init /\ [][Next]_vars

\* The producer asks again and again and its calls return, and the consumer
\* gives back what it holds.
FairSpec == Spec /\ WF_vars(\E s \in Sizes : LoadTail(s)) /\ WF_vars(Reserve \/ Refuse)
                 /\ WF_vars(CommitWrite)

(***************************************************************************)
(* The bytes between the cursors, as the program would compute them with   *)
(* the tail of this moment.                                                *)
(***************************************************************************)
InRing == (head_ - tail_) % Word

(***************************************************************************)
(* The cursors keep at most kBufferSize bytes apart, through the overflow  *)
(* of either of them, and so does the head and a tail loaded before.       *)
(***************************************************************************)
WindowBounded ==
    /\ InRing <= kBufferSize
    /\ size # 0 => /\ (head_ - cur_tail) % Word <= kBufferSize
                   /\ (tail_ - cur_tail) % Word <= (head_ - cur_tail) % Word

(***************************************************************************)
(* Two regions in use never share a byte of the buffer, whichever of them  *)
(* runs past the end of the first mapping (sp_ring_buffer.h lines 74-78).  *)
(***************************************************************************)
Bytes(r) == {(r.start + i) % kBufferSize : i \in 0..(r.size - 1)}

NoOverlap ==
    \A i, j \in 1..Len(live) : i # j => Bytes(live[i]) \cap Bytes(live[j]) = {}

(***************************************************************************)
(* The ring is a bounded window: every call does what BoundedWindow says,  *)
(* with the sizes in use and the bytes between the cursors.  In particular *)
(* a request is refused only if it did not fit when the tail was loaded.   *)
(***************************************************************************)
Window == INSTANCE BoundedWindow WITH
    Capacity <- kBufferSize,
    sizes    <- [i \in 1..Len(live) |-> live[i].size],
    used     <- InRing,
    request  <- size,
    tight    <- size # 0 /\ ~Ring!Fits(size, cur_tail)

IsWindow == Window!Spec

(***************************************************************************)
(* A producer that keeps asking for regions that the ring can hold is      *)
(* served again and again: the space that is given back is seen.           *)
(***************************************************************************)
KeepsServing == []<><<Reserve>>_vars
=============================================================================
