--------------------------- MODULE IoRequestSplit ---------------------------
(***************************************************************************)
(* io/io_request.h and io_request.cc: Split cuts a request into parts of   *)
(* at most max_length bytes, a plain buffer by SplitBuffer and a vector of *)
(* buffers by SplitIovec.  One step is one turn of a loop.                 *)
(*                                                                         *)
(* A buffer is known by its index in the request and a piece of it by the  *)
(* offset and the length; a plain buffer is the only one of its request.   *)
(* Positions in the file are relative to the request's own.                *)
(***************************************************************************)
EXTENDS Integers, Sequences, SequencesExt

CONSTANTS MaxBuffers, MaxSize,  \* bounds on the requests asked about
          Lengths               \* the values of max_length

\* max_length is a divisor (io_request.cc:25), and with 0 no loop would end.
ASSUME SplitAssumption ==
    /\ MaxBuffers \in Nat /\ MaxSize \in Nat
    /\ Lengths \subseteq Nat \ {0}

Buffer == {"read", "write"}
Iovec  == {"readv", "writev"}

VARIABLES
    op,          \* OpType()
    iovec,       \* the lengths of the request's buffers
    max_length,
    at,          \* the loop that runs, "done" or "aborted"
    cur, off,    \* where in the request the loop is
    pos,         \* where the part that is being made begins in the file
    remaining,   \* how much it may still take
    vecs, parts

request == <<op, iovec, max_length>>
vars == <<request, at, cur, off, pos, remaining, vecs, parts>>

Piece == [buf : Nat \ {0}, off : Nat, len : Nat]
Part  == [pos : Nat, size : Nat, iovecs : Seq(Piece)]

TypeOK ==
    /\ at \in {"buffer", "iovec", "done", "aborted"}
    /\ cur \in 1..Len(iovec) + 1 /\ off \in 0..MaxSize
    /\ pos \in Nat /\ remaining \in 0..max_length
    /\ vecs \in Seq(Piece) /\ parts \in Seq(Part)

\* Every other type of request aborts the program.
Split(type) ==
    IF type \in Buffer THEN "buffer" ELSE IF type \in Iovec THEN "iovec" ELSE "aborted"

Init ==
    /\ op \in Buffer \cup Iovec \cup {"fdatasync"}
    /\ \/ op \in Iovec /\ iovec \in SeqOf(0..MaxSize, MaxBuffers)
       \/ op \notin Iovec /\ iovec \in [1..1 -> 0..MaxSize]
    /\ max_length \in Lengths
    /\ at = Split(op)
    /\ cur = 1 /\ off = 0 /\ pos = 0 /\ remaining = max_length
    /\ vecs = <<>> /\ parts = <<>>

(***************************************************************************)
(* SplitBuffer.  The loop tests after its body: an empty buffer gives one  *)
(* empty part.                                                             *)
(***************************************************************************)
MinLength(a, b) == IF a < b THEN a ELSE b

SubReqBuffer(o, len) ==
    [pos |-> o, size |-> len, iovecs |-> <<[buf |-> 1, off |-> o, len |-> len]>>]

\* MUTANT of BufferTurn: the loop goes on while off <= size.
BufferTurnOnceMore ==
    /\ at = "buffer"
    /\ LET len == MinLength(iovec[1] - off, max_length)
       IN  /\ parts' = Append(parts, SubReqBuffer(off, len))
           /\ off' = off + len
    /\ at' = IF off < iovec[1] THEN "buffer" ELSE "done"
    /\ UNCHANGED <<request, cur, pos, remaining, vecs>>

BufferTurn ==
    /\ at = "buffer"
    /\ LET len == MinLength(iovec[1] - off, max_length)
       IN  /\ parts' = Append(parts, SubReqBuffer(off, len))
           /\ off' = off + len
    /\ at' = IF off' < iovec[1] THEN "buffer" ELSE "done"
    /\ UNCHANGED <<request, cur, pos, remaining, vecs>>

(***************************************************************************)
(* SplitIovec.                                                             *)
(***************************************************************************)
Rest == [buf |-> cur, off |-> off, len |-> iovec[cur] - off]

SubReqIovec(size, iov) == [pos |-> pos, size |-> size, iovecs |-> iov]

\* MUTANT of TakeRest: off keeps its value for the next buffer.
TakeRestOnly ==
    /\ at = "iovec" /\ cur <= Len(iovec)
    /\ Rest.len <= remaining
    /\ vecs' = Append(vecs, Rest)
    /\ remaining' = remaining - Rest.len
    /\ cur' = cur + 1
    /\ UNCHANGED <<request, at, off, pos, parts>>

\* What is left of the buffer fits.
TakeRest ==
    /\ at = "iovec" /\ cur <= Len(iovec)
    /\ Rest.len <= remaining
    /\ vecs' = Append(vecs, Rest)
    /\ remaining' = remaining - Rest.len
    /\ cur' = cur + 1 /\ off' = 0
    /\ UNCHANGED <<request, at, pos, parts>>

\* MUTANT of CutBuffer: the part is made only when it takes bytes of this buffer.
CutBufferWithRoom ==
    /\ at = "iovec" /\ cur <= Len(iovec)
    /\ Rest.len > remaining /\ remaining > 0
    /\ parts' = Append(parts, SubReqIovec(max_length, Append(vecs, [Rest EXCEPT !.len = remaining])))
    /\ off' = off + remaining
    /\ pos' = pos + max_length
    /\ vecs' = <<>> /\ remaining' = max_length
    /\ UNCHANGED <<request, at, cur>>

\* MUTANT of CutBuffer: what is already in the part is forgotten in pos.
CutBufferShort ==
    /\ at = "iovec" /\ cur <= Len(iovec)
    /\ Rest.len > remaining
    /\ LET last == IF remaining > 0 THEN <<[Rest EXCEPT !.len = remaining]>> ELSE <<>>
       IN  parts' = Append(parts, SubReqIovec(max_length, vecs \o last))
    /\ off' = off + remaining
    /\ pos' = pos + remaining
    /\ vecs' = <<>> /\ remaining' = max_length
    /\ UNCHANGED <<request, at, cur>>

\* It does not: its first bytes complete the part, or the part was complete.
CutBuffer ==
    /\ at = "iovec" /\ cur <= Len(iovec)
    /\ Rest.len > remaining
    /\ LET last == IF remaining > 0 THEN <<[Rest EXCEPT !.len = remaining]>> ELSE <<>>
       IN  parts' = Append(parts, SubReqIovec(max_length, vecs \o last))
    /\ off' = off + remaining
    /\ pos' = pos + max_length
    /\ vecs' = <<>> /\ remaining' = max_length
    /\ UNCHANGED <<request, at, cur>>

\* No part is empty, unless the whole request is.
LastPart ==
    /\ at = "iovec" /\ cur > Len(iovec)
    /\ parts' = IF vecs = <<>> THEN parts
                ELSE Append(parts, SubReqIovec(max_length - remaining, vecs))
    /\ at' = "done"
    /\ UNCHANGED <<request, cur, off, pos, remaining, vecs>>

Next == BufferTurn \/ TakeRest \/ CutBuffer \/ LastPart

Spec == Init /\ [][Next]_vars

\* Nothing but the loop runs.
FairSpec == Spec /\ WF_vars(Next)

(***************************************************************************)
(* The parts are the request: put one after the other, their pieces give   *)
(* every byte of every buffer once and in order, and the position of a     *)
(* part in the file is where its first byte belongs.                       *)
(***************************************************************************)
BytesOf(piece) == [i \in 1..piece.len |-> <<piece.buf, piece.off + i>>]

BytesOfPart(part) == FlattenSeq([i \in 1..Len(part.iovecs) |-> BytesOf(part.iovecs[i])])

RequestBytes ==
    FlattenSeq([b \in 1..Len(iovec) |-> BytesOf([buf |-> b, off |-> 0, len |-> iovec[b]])])

PartBytes(n) == FlattenSeq([k \in 1..n |-> BytesOfPart(parts[k])])

PartsAreRequest ==
    at = "done" =>
        /\ PartBytes(Len(parts)) = RequestBytes
        /\ \A k \in 1..Len(parts) : parts[k].pos = Len(PartBytes(k - 1))

(***************************************************************************)
(* The size a part claims is what its pieces hold; it is never more than   *)
(* max_length, and it is max_length for all but the last.  No part is      *)
(* empty, which the assertion that is commented out in SplitIovec (line    *)
(* 73) would say, unless the request is.                                   *)
(***************************************************************************)
PartsFull ==
    \A k \in 1..Len(parts) :
        /\ parts[k].size = Len(BytesOfPart(parts[k]))
        /\ parts[k].size <= max_length
        /\ k < Len(parts) => parts[k].size = max_length
        /\ RequestBytes # <<>> => parts[k].size > 0

(***************************************************************************)
(* Split returns (or aborts), whatever the buffers: each turn of the loop  *)
(* takes a buffer or completes a part.                                     *)
(***************************************************************************)
Terminates == <>(at \in {"done", "aborted"})
=============================================================================
