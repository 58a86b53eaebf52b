---------------------------- MODULE SkipListNode ----------------------------
(***************************************************************************)
(* Node::SetKeyValue of infra/skip_list.h: threads add keys to a node of N *)
(* slots.  Bit 63 of count_ is kept apart from the bits behind it, which   *)
(* never reach it.                                                         *)
(***************************************************************************)
EXTENDS Integers

CONSTANTS Threads,
          N,      \* slots of a node, the first of which is the constructor's
          Empty   \* what a slot holds before it is written

VARIABLES
    place,     \* bit 63 of count_
    count_,    \* the other bits
    commit_,
    data_,     \* whose key each other slot holds
    at,        \* where the call of each thread is
    res,       \* the count_ it knows: [place, count]
    index      \* the number that its fetch_add returned, without bit 63

vars == <<place, count_, commit_, data_, at, res, index>>

Known == [place |-> place, count |-> count_]

\* The comparison of a whole word with N.
AtLeastN(word) == word.place \/ word.count >= N

TypeOK ==
    /\ place \in BOOLEAN /\ count_ \in Nat /\ commit_ \in Nat
    /\ data_ \in [1..(N - 1) -> Threads \cup {Empty}]
    /\ at \in [Threads -> {"start", "claim", "add", "store", "commit", "true", "false"}]
    /\ res \in [Threads -> [place : BOOLEAN, count : Nat]]
    /\ index \in [Threads -> Nat]

Init ==
    /\ place = FALSE /\ count_ = 1 /\ commit_ = 1
    /\ data_ = [i \in 1..(N - 1) |-> Empty]
    /\ at = [t \in Threads |-> "start"]
    /\ res = [t \in Threads |-> Known]
    /\ index = [t \in Threads |-> 0]

Goto(t, point) == at' = [at EXCEPT ![t] = point]

LoadCount(t) ==
    /\ at[t] = "start"
    /\ res' = [res EXCEPT ![t] = Known]
    /\ Goto(t, IF AtLeastN(Known) THEN "false" ELSE "claim")
    /\ UNCHANGED <<place, count_, commit_, data_, index>>

\* compare_exchange_weak of res by res | 1 << 63
Claim(t) ==
    /\ at[t] = "claim"
    /\ res[t] = Known
    /\ place' = TRUE
    /\ Goto(t, "add")
    /\ UNCHANGED <<count_, commit_, data_, res, index>>

\* It may also fail for no reason; res is the present count_ then, and is not
\* compared with N again.
ClaimFails(t) ==
    /\ at[t] = "claim"
    /\ res' = [res EXCEPT ![t] = Known]
    /\ UNCHANGED <<place, count_, commit_, data_, at, index>>

\* fetch_add, and the test of what it returned, bit 63 included.
TakeIndex(t) ==
    /\ at[t] = "add"
    /\ index' = [index EXCEPT ![t] = count_]
    /\ count_' = count_ + 1
    /\ Goto(t, IF AtLeastN(Known) THEN "false" ELSE "store")
    /\ UNCHANGED <<place, commit_, data_, res>>

StoreKey(t) ==
    /\ at[t] = "store"
    /\ data_' = [data_ EXCEPT ![index[t]] = t]
    /\ Goto(t, "commit")
    /\ UNCHANGED <<place, count_, commit_, res, index>>

\* The end of the function is reached without a return.
Commit(t) ==
    /\ at[t] = "commit"
    /\ commit_' = commit_ + 1
    /\ \/ Goto(t, "true") \/ Goto(t, "false")
    /\ UNCHANGED <<place, count_, data_, res, index>>

SetKeyValue(t) ==
    LoadCount(t) \/ Claim(t) \/ ClaimFails(t) \/ TakeIndex(t) \/ StoreKey(t) \/ Commit(t)

Next == \E t \in Threads : SetKeyValue(t)

Spec == Init /\ [][Next]_vars

(***************************************************************************)
(* Line 131: the highest bit of count_ takes the place for writing and the *)
(* bits behind it say which position is free.  So a thread that has set    *)
(* the bit, and to which those bits gave a position in the node, is not    *)
(* turned away without having written there.                               *)
(***************************************************************************)
PositionIsWritten ==
    \A t \in Threads :
        at[t] = "false" /\ index[t] \in 1..(N - 1) => data_[index[t]] = t
=============================================================================
