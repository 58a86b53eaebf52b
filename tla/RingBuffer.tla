----------------------------- MODULE RingBuffer -----------------------------
(***************************************************************************)
(* db/ring_buffer.h: a ring whose head several producers move with a       *)
(* compare-and-swap.  Nothing in the repository uses it; here a producer   *)
(* asks for a region, fills it and gives it back, one at a time, and the   *)
(* regions come back in any order.                                         *)
(*                                                                         *)
(* The program computes the used space as tail_ - head_, so its free space *)
(* is kBufferSizeMask PLUS what is used: nothing here says that regions    *)
(* are disjoint in the buffer, only that the cursor space is handed out    *)
(* once.                                                                   *)
(***************************************************************************)
EXTENDS Integers

CONSTANTS Producers,
          kBufferSize,
          Word,        \* values of a size_t
          Sizes

VARIABLES head_, tail_,
          at,         \* where each producer is
          size,       \* its argument
          cur_head,   \* what it believes head_ to be
          slice       \* the region it has been given

vars == <<head_, tail_, at, size, cur_head, slice>>

kBufferSizeMask == kBufferSize - 1

\* start_ and end_ as offsets in buffer_, and from, the cursor it begins at.
Slice(head, n) ==
    [start_ |-> head % kBufferSize, end_ |-> (head + n) % kBufferSize, from |-> head]

TypeOK ==
    /\ head_ \in 0..(Word - 1) /\ tail_ \in 0..(Word - 1)
    /\ at \in [Producers -> {"idle", "tail", "swap", "held"}]
    /\ size \in [Producers -> Sizes \cup {0}]
    /\ cur_head \in [Producers -> 0..(Word - 1)]
    /\ \A p \in Producers : slice[p] = Slice(slice[p].from, size[p]) \/ at[p] # "held"

Init ==
    /\ head_ = 0 /\ tail_ = 0
    /\ at = [p \in Producers |-> "idle"]
    /\ size = [p \in Producers |-> 0]
    /\ cur_head = [p \in Producers |-> 0]
    /\ slice = [p \in Producers |-> Slice(0, 0)]

Goto(p, point) == at' = [at EXCEPT ![p] = point]

LoadHead(p, n) ==
    /\ at[p] = "idle"
    /\ size' = [size EXCEPT ![p] = n]
    /\ cur_head' = [cur_head EXCEPT ![p] = head_]
    /\ Goto(p, "tail")
    /\ UNCHANGED <<head_, tail_, slice>>

UsedSpace(p) == (tail_ - cur_head[p]) % Word

FreeSpace(p) == (kBufferSizeMask - UsedSpace(p)) % Word

\* The load of tail_ and the test; a refused producer has nothing.
LoadTail(p) ==
    /\ at[p] = "tail"
    /\ Goto(p, IF FreeSpace(p) < size[p] THEN "idle" ELSE "swap")
    /\ UNCHANGED <<head_, tail_, size, cur_head, slice>>

\* The bound: Word bytes, 2^64 in the program, are not handed out while one
\* producer holds its region.
Unlapped(n) ==
    \A q \in Producers : at[q] = "held" => ((head_ - slice[q].from) % Word) + n < Word

\* MUTANT of Swap: a plain store.
SwapBlindly(p) ==
    /\ at[p] = "swap"
    /\ Unlapped(size[p])
    /\ head_' = (cur_head[p] + size[p]) % Word
    /\ slice' = [slice EXCEPT ![p] = Slice(cur_head[p], size[p])]
    /\ Goto(p, "held")
    /\ UNCHANGED <<tail_, size, cur_head>>

\* MUTANT of Swap: the counter is as wide as it likes.
SwapUnbounded(p) ==
    /\ at[p] = "swap"
    /\ head_ = cur_head[p] /\ Unlapped(size[p])
    /\ head_' = cur_head[p] + size[p]
    /\ slice' = [slice EXCEPT ![p] = Slice(cur_head[p], size[p])]
    /\ Goto(p, "held")
    /\ UNCHANGED <<tail_, size, cur_head>>

Swap(p) ==
    /\ at[p] = "swap"
    /\ head_ = cur_head[p] /\ Unlapped(size[p])
    /\ head_' = (cur_head[p] + size[p]) % Word
    /\ slice' = [slice EXCEPT ![p] = Slice(cur_head[p], size[p])]
    /\ Goto(p, "held")
    /\ UNCHANGED <<tail_, size, cur_head>>

\* MUTANT of SwapFails: the head that the swap found is not kept.
SwapFailsStale(p) ==
    /\ at[p] = "swap"
    /\ Goto(p, "tail")
    /\ UNCHANGED <<head_, tail_, size, cur_head, slice>>

\* compare_exchange_weak may also fail for no reason.
SwapFails(p) ==
    /\ at[p] = "swap"
    /\ cur_head' = [cur_head EXCEPT ![p] = head_]
    /\ Goto(p, "tail")
    /\ UNCHANGED <<head_, tail_, size, slice>>

CommitWrite(p) ==
    /\ at[p] = "held"
    /\ tail_' = (tail_ + size[p]) % Word
    /\ Goto(p, "idle")
    /\ UNCHANGED <<head_, size, cur_head, slice>>

\* The loop.
Reserve(p) == LoadTail(p) \/ Swap(p) \/ SwapFails(p)

RequestWriteSpace(p) == (\E n \in Sizes : LoadHead(p, n)) \/ Reserve(p)

Next == \E p \in Producers : RequestWriteSpace(p) \/ CommitWrite(p)

Spec == Init /\ [][Next]_vars

(***************************************************************************)
(* No position of the cursor space is in two regions at once, whatever     *)
(* loads and swaps of other producers fall between those of one (lines     *)
(* 19-30), also when the head has gone round and is equal again.           *)
(***************************************************************************)
Positions(p) == {(slice[p].from + i) % Word : i \in 0..(size[p] - 1)}

GrantsDisjoint ==
    \A p, q \in Producers :
        p # q /\ at[p] = "held" /\ at[q] = "held" => Positions(p) \cap Positions(q) = {}

(***************************************************************************)
(* The loop of lines 19-31 does not turn for ever while nobody gets        *)
(* anywhere, also when no other call follows: a swap that fails leaves its *)
(* producer with a head from which it can succeed.                         *)
(***************************************************************************)
Serves ==
    \/ []<>(\A p \in Producers : at[p] \notin {"tail", "swap"})
    \/ []<>(\E p \in Producers : at[p] = "held")
=============================================================================
