--------------------------- MODULE IntrusiveList ---------------------------
(***************************************************************************)
(* tools/list.h: a doubly linked list threaded through its elements.       *)
(* The operations ask of their caller that a new element is in no list and *)
(* that pos and the element to remove are in this one.                     *)
(***************************************************************************)
EXTENDS Integers, FiniteSets

CONSTANTS Elems,  \* a finite set
          Null    \* none of them

VARIABLES
    count_, start_, end_,  \* of the ListBase
    prev_, next_,          \* of the ListNode of each element
    members                \* history: the elements put in and not removed

vars == <<count_, start_, end_, prev_, next_, members>>

Init ==
    /\ count_ = 0 /\ start_ = Null /\ end_ = Null
    /\ prev_ = [e \in Elems |-> Null]
    /\ next_ = [e \in Elems |-> Null]
    /\ members = {}

\* An assignment through a pointer that the code has tested first.
Assign(link, p, e) == IF p = Null THEN link ELSE [link EXCEPT ![p] = e]

Prepend(elem) ==
    /\ elem \notin members
    /\ next_' = [next_ EXCEPT ![elem] = start_]
    /\ prev_' = Assign([prev_ EXCEPT ![elem] = Null], start_, elem)
    /\ start_' = elem
    /\ end_' = IF end_ = Null THEN elem ELSE end_
    /\ count_' = count_ + 1
    /\ members' = members \cup {elem}

Append(elem) ==
    /\ elem \notin members
    /\ prev_' = [prev_ EXCEPT ![elem] = end_]
    /\ next_' = Assign([next_ EXCEPT ![elem] = Null], end_, elem)
    /\ end_' = elem
    /\ start_' = IF start_ = Null THEN elem ELSE start_
    /\ count_' = count_ + 1
    /\ members' = members \cup {elem}

\* end_ moves when pos is not the last element, and stays when it is.
Insert(pos, new) ==
    /\ pos \in members /\ new \notin members
    /\ prev_' = Assign([prev_ EXCEPT ![new] = pos], next_[pos], new)
    /\ next_' = [next_ EXCEPT ![new] = next_[pos], ![pos] = new]
    /\ end_' = IF end_ # pos THEN new ELSE end_
    /\ count_' = count_ + 1
    /\ members' = members \cup {new}
    /\ UNCHANGED start_

Remove(elem) ==
    /\ elem \in members
    /\ prev_' = [Assign(prev_, next_[elem], prev_[elem]) EXCEPT ![elem] = Null]
    /\ next_' = [Assign(next_, prev_[elem], next_[elem]) EXCEPT ![elem] = Null]
    /\ end_' = IF next_[elem] = Null THEN prev_[elem] ELSE end_
    /\ start_' = IF prev_[elem] = Null THEN next_[elem] ELSE start_
    /\ count_' = count_ - 1
    /\ members' = members \ {elem}

Next ==
    \/ \E e \in Elems : Prepend(e) \/ Append(e) \/ Remove(e)
    \/ \E p, e \in Elems : Insert(p, e)

Spec == Init /\ [][Next]_vars

(***************************************************************************)
(* Map and Validate: how many elements a walk along link visits from       *)
(* first, cut off (a broken list may be a cycle) beyond the number there   *)
(* can be.                                                                 *)
(***************************************************************************)
Visited(first, link) ==
    LET Bound == Cardinality(Elems)
        walk[n \in 0..Bound] ==
            IF n = 0 THEN first ELSE IF walk[n - 1] = Null THEN Null ELSE link[walk[n - 1]]
    IN  Cardinality({n \in 0..Bound : walk[n] # Null})

(***************************************************************************)
(* The comment of Validate (list.h:124-129): the forward count from start_ *)
(* and the backward count from end_ must both equal count_.                *)
(***************************************************************************)
Validate ==
    /\ Visited(start_, next_) = count_
    /\ Visited(end_, prev_) = count_
=============================================================================
