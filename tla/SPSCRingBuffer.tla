--------------------------- MODULE SPSCRingBuffer ---------------------------
(***************************************************************************)
(* The cursor arithmetic of db/sp_ring_buffer.h: a ring whose memory is    *)
(* mapped twice in a row, so that a region that runs past the end of the   *)
(* first mapping is still contiguous.  head_ and tail_ are size_t and wrap *)
(* at Word (2^64 in the program); only their distance and their residue    *)
(* modulo kBufferSize are ever used.                                       *)
(*                                                                         *)
(* The module holds the operations only.  RingClient drives them the way   *)
(* the class asks for, LogWriter drives them the way db/log_writer.h does; *)
(* each states what it assumes of the two constants: kBufferSize is        *)
(* positive, smaller than Word, and divides it (both are powers of two).   *)
(***************************************************************************)
EXTENDS Integers

CONSTANTS kBufferSize, \* bytes of the ring
          Word         \* number of values of a size_t

VARIABLES head_, tail_

RingTypeOK ==
    /\ head_ \in 0..(Word - 1)
    /\ tail_ \in 0..(Word - 1)

RingInit == head_ = 0 /\ tail_ = 0

(***************************************************************************)
(* RequestWriteSpace, in the order of its statements: the free space as    *)
(* seen through the tail that was loaded, the test, the address (an offset *)
(* into buffer_) and the new head.                                         *)
(***************************************************************************)
\* MUTANT of UsedSpace: the cursors are swapped, as in db/ring_buffer.h.
UsedSwapped(cur_tail) == (cur_tail - head_) % Word

UsedSpace(cur_tail) == (head_ - cur_tail) % Word

FreeSpace(cur_tail) == (kBufferSize - UsedSpace(cur_tail)) % Word

\* MUTANTS of Fits: off by one, either way.
FitsOneMore(size, cur_tail) == size <= FreeSpace(cur_tail) + 1
FitsStrictly(size, cur_tail) == size < FreeSpace(cur_tail)

Fits(size, cur_tail) == size <= FreeSpace(cur_tail)

HeadIndex == head_ % kBufferSize

\* MUTANT of AdvanceHead: the counter is as wide as it likes.
AdvanceUnbounded(size) == head_' = head_ + size

AdvanceHead(size) == head_' = (head_ + size) % Word

CommitWrite(size) == tail_' = (tail_ + size) % Word
=============================================================================
