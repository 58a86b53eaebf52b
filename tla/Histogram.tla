------------------------------ MODULE Histogram ------------------------------
(***************************************************************************)
(* tools/histogram.h: two histograms with the same buckets are filled and  *)
(* one is merged into the other.  Insert looks for the bucket by halving;   *)
(* one step is one turn of its loop.                                       *)
(*                                                                         *)
(* Nobody clears the counters behind the bounds in data_: what they hold   *)
(* at first is a choice, and is remembered.                                *)
(***************************************************************************)
EXTENDS Integers, Sequences, Functions

CONSTANTS Buckets,     \* the bounds a histogram may be made with: ascending, not empty
          Data,        \* what may be inserted
          Junk,        \* what a counter may hold at first
          MaxInserts   \* bound on the calls of Insert

Histograms == {"mine", "other"}

VARIABLES
    bucket,    \* data_[0 .. num_buckets_)
    counter,   \* data_[num_buckets_ .. 2 * num_buckets_) of each, from 1
    junk,      \* history: the first values of counter
    max_, num_, total_,
    inserted,  \* history: how often each datum went into each histogram
    at,        \* "idle", "search" or "merged"
    into,      \* the histogram, the datum and the bounds of the search
    datum, lo, hi

sums   == <<max_, num_, total_>>
search == <<into, datum, lo, hi>>
vars == <<bucket, counter, junk, sums, inserted, at, search>>

num_buckets_ == Len(bucket)

Init ==
    /\ bucket \in Buckets
    /\ junk \in [Histograms -> {[i \in 1..Len(bucket) |-> j] : j \in Junk}]
    /\ counter = junk
    /\ max_ = [h \in Histograms |-> 0]
    /\ num_ = [h \in Histograms |-> 0]
    /\ total_ = [h \in Histograms |-> 0]
    /\ inserted = [h \in Histograms |-> [d \in Data |-> 0]]
    /\ at = "idle" /\ into = "mine" /\ datum = 0 /\ lo = 0 /\ hi = 0

Insert(h, d) ==
    /\ at = "idle"
    /\ num_["mine"] + num_["other"] < MaxInserts
    /\ into' = h /\ datum' = d
    /\ lo' = 0 /\ hi' = num_buckets_ - 1
    /\ at' = "search"
    /\ UNCHANGED <<bucket, counter, junk, sums, inserted>>

Mid == lo + ((hi - lo) \div 2)

\* MUTANT of Halve: the comparison is the wrong way round.
HalveSwapped ==
    /\ at = "search" /\ hi > lo
    /\ IF datum < bucket[Mid + 1]
       THEN lo' = Mid + 1 /\ UNCHANGED hi
       ELSE hi' = Mid - 1 /\ UNCHANGED lo
    /\ UNCHANGED <<bucket, counter, junk, sums, inserted, at, into, datum>>

Halve ==
    /\ at = "search" /\ hi > lo
    /\ IF datum > bucket[Mid + 1]
       THEN lo' = Mid + 1 /\ UNCHANGED hi
       ELSE hi' = Mid - 1 /\ UNCHANGED lo
    /\ UNCHANGED <<bucket, counter, junk, sums, inserted, at, into, datum>>

Count ==
    /\ at = "search" /\ hi <= lo
    /\ counter' = [counter EXCEPT ![into][lo + 1] = @ + 1]
    /\ max_' = [max_ EXCEPT ![into] = IF @ < datum THEN datum ELSE @]
    /\ total_' = [total_ EXCEPT ![into] = @ + datum]
    /\ num_' = [num_ EXCEPT ![into] = @ + 1]
    /\ inserted' = [inserted EXCEPT ![into][datum] = @ + 1]
    /\ at' = "idle"
    /\ into' = "mine" /\ datum' = 0 /\ lo' = 0 /\ hi' = 0
    /\ UNCHANGED <<bucket, junk>>

\* max_ becomes the smaller one.
Merge ==
    /\ at = "idle"
    /\ max_' = [max_ EXCEPT !["mine"] = IF @ > max_["other"] THEN max_["other"] ELSE @]
    /\ total_' = [total_ EXCEPT !["mine"] = @ + total_["other"]]
    /\ num_' = [num_ EXCEPT !["mine"] = @ + num_["other"]]
    /\ counter' = [counter EXCEPT !["mine"] =
                      [i \in 1..num_buckets_ |-> @[i] + counter["other"][i]]]
    /\ junk' = [junk EXCEPT !["mine"] = [i \in 1..num_buckets_ |-> @[i] + junk["other"][i]]]
    /\ inserted' = [inserted EXCEPT !["mine"] = [d \in Data |-> @[d] + inserted["other"][d]]]
    /\ at' = "merged"
    /\ UNCHANGED <<bucket, search>>

Search == Halve \/ Count

Next ==
    (\E h \in Histograms, d \in Data : Insert(h, d)) \/ Search \/ Merge

Spec == Init /\ [][Next]_vars

(***************************************************************************)
(* What a reader of a histogram may rely on: the counters up to the one of *)
(* a bound count every datum up to that bound, and none beyond the next.   *)
(* (Insert, lines 36-44, does not find the bucket whose range Print        *)
(* writes, lines 73-81, but it is never further off than that, and never   *)
(* outside the counters.)  num_ and total_ are those of all data, merged   *)
(* ones included.                                                          *)
(***************************************************************************)
Upto(h, d) == SumFunction([e \in {e \in Data : e <= d} |-> inserted[h][e]])

Counted(h, i) ==
    SumFunction([j \in 1..i |-> counter[h][j]]) - SumFunction([j \in 1..i |-> junk[h][j]])

All(h) == SumFunction(inserted[h])

CountsBracket ==
    /\ at = "search" => lo \in 0..(num_buckets_ - 1) /\ hi \in -1..(num_buckets_ - 1)
    /\ \A h \in Histograms :
          /\ num_[h] = All(h)
          /\ total_[h] = SumFunction([d \in Data |-> d * inserted[h][d]])
          /\ Counted(h, num_buckets_) = All(h)
          /\ \A i \in 1..(num_buckets_ - 1) :
                Upto(h, bucket[i]) <= Counted(h, i) /\ Counted(h, i) <= Upto(h, bucket[i + 1])

(***************************************************************************)
(* The loop of Insert ends, also when the upper bound falls below zero.    *)
(***************************************************************************)
InsertReturns == at = "search" ~> at = "idle"
=============================================================================
