----------------------------- MODULE SinkProofs -----------------------------
(***************************************************************************)
(* What holds of IoSink for every finite set of requests, whatever the     *)
(* consumer refuses or submits and whatever the kernel answers: the order  *)
(* of the requests is kept, and nothing leads to a completion that has     *)
(* been told.                                                              *)
(***************************************************************************)
EXTENDS IoSink, SequenceLemmas

(***************************************************************************)
(* The inductive invariant.  A request is submitted once, so that what is  *)
(* issued and what waits have nothing in common; the kernel has only what  *)
(* has been issued and not answered; Drain offers and pops a request that  *)
(* is there, and has counted no more than what has been issued.            *)
(***************************************************************************)
Typed ==
    /\ pending_io_ \in Seq(SinkRequests)
    /\ drain \in {"idle", "test", "consume", "pop"}
    /\ processed_count \in Nat
    /\ kernel \subseteq SinkRequests
    /\ result \in [SinkRequests -> Results \cup {"none"}]
    /\ told \in [SinkRequests -> Nat]
    /\ submitted \in Seq(SinkRequests) /\ issued \in Seq(SinkRequests)

Counted == processed_count + (IF drain = "pop" THEN 1 ELSE 0) <= Len(issued)

SubmittedOnce == IsInjective(submitted) /\ IsInjective(issued)

InFront == drain \in {"consume", "pop"} => pending_io_ # <<>>

KernelHasIssued ==
    /\ kernel \subseteq Range(issued)
    /\ \A r \in kernel : result[r] = "none"
    /\ \A r \in SinkRequests : result[r] # "none" => r \in Range(issued)

ToldWithAnswer == \A r \in SinkRequests : told[r] <= IF result[r] = "none" THEN 0 ELSE 1

SinkInv ==
    /\ Typed /\ Counted /\ SubmittedOnce /\ InFront
    /\ KernelHasIssued /\ ToldWithAnswer /\ IssuedInOrder

(***************************************************************************)
(* What waits is a sequence of requests that have not been issued.         *)
(***************************************************************************)
LEMMA WaitingType ==
    ASSUME Typed, InFront
    PROVE  Waiting \in Seq(SinkRequests)
  <1>1. CASE drain = "pop"
    BY <1>1, HeadTailElements DEF Typed, InFront, Waiting
  <1>2. CASE drain # "pop"
    BY <1>2 DEF Typed, Waiting
  <1> QED BY <1>1, <1>2

LEMMA WaitingNotIssued ==
    ASSUME SinkInv
    PROVE  /\ Range(submitted) = Range(issued) \cup Range(Waiting)
           /\ Range(issued) \cap Range(Waiting) = {}
  <1>1. Waiting \in Seq(SinkRequests) /\ issued \in Seq(SinkRequests)
    BY WaitingType DEF SinkInv, Typed
  <1> QED BY <1>1, ConcatElements DEF SinkInv, SubmittedOnce, IssuedInOrder

LEMMA SinkStarts == SinkInit => SinkInv
  <1> SUFFICES ASSUME SinkInit PROVE SinkInv
    OBVIOUS
  <1>1. <<>> \in Seq(SinkRequests) /\ Len(<<>>) = 0
    OBVIOUS
  <1>2. Typed /\ Counted /\ InFront
    BY <1>1 DEF SinkInit, Typed, Counted, InFront
  <1>3. SubmittedOnce /\ KernelHasIssued /\ ToldWithAnswer
    BY <1>1 DEF SinkInit, SubmittedOnce, IsInjective, KernelHasIssued, ToldWithAnswer
  <1>4. IssuedInOrder
    BY <1>1, ConcatEmptySeq DEF SinkInit, IssuedInOrder, Waiting
  <1> QED BY <1>2, <1>3, <1>4 DEF SinkInv

(***************************************************************************)
(* Submit puts its request behind all others.                              *)
(***************************************************************************)
LEMMA SubmitStep ==
    ASSUME SinkInv, NEW r \in SinkRequests, SinkSubmit(r)
    PROVE  SinkInv'
  <1>1. /\ drain # "test" /\ r \notin Range(submitted)
        /\ pending_io_' = Append(pending_io_, r) /\ submitted' = Append(submitted, r)
        /\ UNCHANGED <<drain, processed_count, kernel, result, told, issued>>
    BY DEF SinkSubmit, drainVars
  <1>2. /\ pending_io_ \in Seq(SinkRequests) /\ submitted \in Seq(SinkRequests)
        /\ issued \in Seq(SinkRequests)
    BY DEF SinkInv, Typed
  <1>3. Typed'
    BY <1>1, <1>2, AppendElements DEF SinkInv, Typed
  <1>4. Counted' /\ KernelHasIssued' /\ ToldWithAnswer'
    BY <1>1 DEF SinkInv, Counted, KernelHasIssued, ToldWithAnswer
  <1>5. SubmittedOnce'
    BY <1>1, <1>2, AppendElements DEF SinkInv, SubmittedOnce
  <1>6. InFront'
    BY <1>1, <1>2, AppendProperties DEF InFront
  <1>7. IssuedInOrder'
    <2>1. Waiting \in Seq(SinkRequests)
      BY WaitingType DEF SinkInv
    <2>2. Waiting' = Append(Waiting, r)
      <3>1. CASE drain = "pop"
        <4>1. pending_io_ # <<>>
          BY <3>1 DEF SinkInv, InFront
        <4>2. Tail(Append(pending_io_, r)) = Append(Tail(pending_io_), r)
          BY <1>2, <4>1
        <4> QED BY <1>1, <3>1, <4>2 DEF Waiting
      <3>2. CASE drain # "pop"
        BY <1>1, <3>2 DEF Waiting
      <3> QED BY <3>1, <3>2
    <2>3. issued \o Append(Waiting, r) = Append(submitted, r)
      BY <1>2, <2>1, ConcatAppend DEF SinkInv, IssuedInOrder
    <2> QED BY <1>1, <2>2, <2>3 DEF IssuedInOrder
  <1> QED BY <1>3, <1>4, <1>5, <1>6, <1>7 DEF SinkInv

(***************************************************************************)
(* The steps of Drain.                                                     *)
(***************************************************************************)
LEMMA AcceptStep ==
    ASSUME SinkInv, Accept
    PROVE  SinkInv'
  <1> DEFINE r == Head(pending_io_)
  <1>1. /\ drain = "consume" /\ drain' = "pop"
        /\ kernel' = kernel \cup {r} /\ issued' = Append(issued, r)
        /\ UNCHANGED <<pending_io_, processed_count, result, told, submitted>>
    BY DEF Accept
  <1>2. /\ pending_io_ \in Seq(SinkRequests) /\ pending_io_ # <<>> /\ issued \in Seq(SinkRequests)
        /\ Waiting = pending_io_
    BY <1>1 DEF SinkInv, Typed, InFront, Waiting
  <1>3. r \in SinkRequests /\ r \in Range(Waiting)
    BY <1>2, HeadTailElements
  <1>4. r \notin Range(issued)
    BY <1>3, WaitingNotIssued
  <1> HIDE DEF r
  <1>5. /\ issued' \in Seq(SinkRequests) /\ Range(issued') = Range(issued) \cup {r}
        /\ IsInjective(issued')
        /\ Len(issued') = Len(issued) + 1 /\ Len(issued) \in Nat
    BY <1>1, <1>2, <1>3, <1>4, AppendElements, AppendProperties, LenProperties
       DEF SinkInv, SubmittedOnce
  <1>6. Typed' /\ InFront'
    BY <1>1, <1>2, <1>3, <1>5 DEF SinkInv, Typed, InFront
  <1>7. Counted'
    BY <1>1, <1>5 DEF SinkInv, Typed, Counted
  <1>8. SubmittedOnce' /\ ToldWithAnswer'
    BY <1>1, <1>5 DEF SinkInv, SubmittedOnce, ToldWithAnswer
  <1>9. KernelHasIssued'
    BY <1>1, <1>3, <1>4, <1>5 DEF SinkInv, KernelHasIssued
  <1>10. IssuedInOrder'
    BY <1>1, <1>2, ConcatHead DEF SinkInv, IssuedInOrder, Waiting, r
  <1> QED BY <1>6, <1>7, <1>8, <1>9, <1>10 DEF SinkInv

LEMMA PopStep ==
    ASSUME SinkInv, Pop
    PROVE  SinkInv'
  <1>1. /\ drain = "pop" /\ drain' = "test"
        /\ pending_io_' = Tail(pending_io_) /\ processed_count' = processed_count + 1
        /\ UNCHANGED <<kernel, result, told, submitted, issued>>
    BY DEF Pop
  <1>2. Tail(pending_io_) \in Seq(SinkRequests)
    BY <1>1, HeadTailElements DEF SinkInv, Typed, InFront
  <1>3. Typed' /\ InFront'
    BY <1>1, <1>2 DEF SinkInv, Typed, InFront
  <1>4. Counted'
    <2>1. Len(issued) \in Nat
      BY LenProperties DEF SinkInv, Typed
    <2> QED BY <1>1, <2>1 DEF SinkInv, Typed, Counted
  <1>5. SubmittedOnce' /\ ToldWithAnswer' /\ KernelHasIssued'
    BY <1>1 DEF SinkInv, SubmittedOnce, ToldWithAnswer, KernelHasIssued
  <1>6. IssuedInOrder'
    BY <1>1 DEF SinkInv, IssuedInOrder, Waiting
  <1> QED BY <1>3, <1>4, <1>5, <1>6 DEF SinkInv

LEMMA OtherDrainStep ==
    ASSUME SinkInv, Start \/ Test \/ Refuse
    PROVE  SinkInv'
  <1>1. /\ drain \in {"idle", "test", "consume"} /\ drain' \in {"idle", "test", "consume"}
        /\ drain' = "consume" => pending_io_ # <<>>
        /\ processed_count' \in {0, processed_count}
        /\ UNCHANGED <<pending_io_, kernel, result, told, submitted, issued>>
    BY DEF Start, Test, Refuse
  <1>2. Typed' /\ InFront'
    BY <1>1 DEF SinkInv, Typed, InFront
  <1>3. Counted'
    <2>1. Len(issued) \in Nat
      BY LenProperties DEF SinkInv, Typed
    <2> QED BY <1>1, <2>1 DEF SinkInv, Typed, Counted
  <1>4. SubmittedOnce' /\ ToldWithAnswer' /\ KernelHasIssued'
    BY <1>1 DEF SinkInv, SubmittedOnce, ToldWithAnswer, KernelHasIssued
  <1>5. IssuedInOrder'
    BY <1>1 DEF SinkInv, IssuedInOrder, Waiting
  <1> QED BY <1>2, <1>3, <1>4, <1>5 DEF SinkInv

(***************************************************************************)
(* An answer goes to a request that the kernel has, and to no other.       *)
(***************************************************************************)
LEMMA AnswerStep ==
    ASSUME SinkInv, NEW r \in SinkRequests, NEW res \in Results, CompleteWith(r, res)
    PROVE  SinkInv'
  <1>1. /\ r \in kernel /\ kernel' = kernel \ {r}
        /\ result' = [result EXCEPT ![r] = res]
        /\ \E n \in {told[r], told[r] + 1} : told' = [told EXCEPT ![r] = n]
        /\ UNCHANGED <<pending_io_, drain, processed_count, submitted, issued>>
    BY DEF CompleteWith, drainVars
  <1>2. res # "none" /\ result[r] = "none" /\ r \in Range(issued)
    BY <1>1 DEF SinkInv, KernelHasIssued, Results
  <1>3. told[r] = 0
    BY <1>2 DEF SinkInv, Typed, ToldWithAnswer
  <1>4. Typed'
    BY <1>1, <1>3 DEF SinkInv, Typed
  <1>5. Counted' /\ InFront' /\ SubmittedOnce' /\ IssuedInOrder'
    BY <1>1 DEF SinkInv, Counted, InFront, SubmittedOnce, IssuedInOrder, Waiting
  <1>6. KernelHasIssued'
    BY <1>1, <1>2 DEF SinkInv, Typed, KernelHasIssued
  <1>7. ToldWithAnswer'
    BY <1>1, <1>2, <1>3 DEF SinkInv, Typed, ToldWithAnswer
  <1> QED BY <1>4, <1>5, <1>6, <1>7 DEF SinkInv

THEOREM SinkInvariant == SinkSpec => []SinkInv
  <1>1. SinkInv /\ [SinkNext]_sinkVars => SinkInv'
    <2> SUFFICES ASSUME SinkInv, [SinkNext]_sinkVars PROVE SinkInv'
      OBVIOUS
    <2>1. CASE Drain
      BY <2>1, AcceptStep, PopStep, OtherDrainStep DEF Drain
    <2>2. CASE \E r \in SinkRequests : SinkSubmit(r)
      BY <2>2, SubmitStep
    <2>3. CASE \E r \in SinkRequests : KernelAnswers(r)
      BY <2>3, AnswerStep DEF KernelAnswers
    <2>4. CASE UNCHANGED sinkVars
      <3>1. UNCHANGED <<pending_io_, drain, processed_count, kernel, result, told,
                        submitted, issued>>
        BY <2>4 DEF sinkVars, drainVars
      <3>2. Typed' /\ Counted' /\ InFront'
        BY <3>1 DEF SinkInv, Typed, Counted, InFront
      <3>3. SubmittedOnce' /\ KernelHasIssued' /\ ToldWithAnswer' /\ IssuedInOrder'
        BY <3>1 DEF SinkInv, SubmittedOnce, KernelHasIssued, ToldWithAnswer, IssuedInOrder,
                    Waiting
      <3> QED BY <3>2, <3>3 DEF SinkInv
    <2> QED BY <2>1, <2>2, <2>3, <2>4 DEF SinkNext
  <1> QED BY SinkStarts, <1>1, PTL DEF SinkSpec

(***************************************************************************)
(* Types; in particular a Drain counts no more requests than there are.    *)
(***************************************************************************)
THEOREM SinkTypes == SinkSpec => []SinkTypeOK
  <1>1. SinkInv => SinkTypeOK
    <2> SUFFICES ASSUME SinkInv PROVE SinkTypeOK
      OBVIOUS
    <2>1. Len(issued) \in Nat /\ Len(issued) <= Cardinality(SinkRequests)
      BY SinkAssumption, InjectiveBounded, LenProperties DEF SinkInv, Typed, SubmittedOnce
    <2>2. Cardinality(SinkRequests) \in Nat
      BY SinkAssumption, FS_CardinalityType
    <2>3. processed_count \in 0..Cardinality(SinkRequests)
      BY <2>1, <2>2 DEF SinkInv, Typed, Counted
    <2> QED BY <2>3 DEF SinkInv, Typed, SinkTypeOK
  <1> QED BY <1>1, SinkInvariant, PTL

(***************************************************************************)
(* What was issued, followed by what waits, is what was submitted.         *)
(***************************************************************************)
THEOREM OrderKept == SinkSpec => []IssuedInOrder
  BY SinkInvariant, PTL DEF SinkInv

(***************************************************************************)
(* No completion is told twice, and what still leads to a request leads to *)
(* one that has not been answered.                                         *)
(***************************************************************************)
THEOREM NothingLeadsToAnswered == SinkSpec => []NoUseAfterAnswer
  <1>1. SinkInv => NoUseAfterAnswer
    <2> SUFFICES ASSUME SinkInv PROVE NoUseAfterAnswer
      OBVIOUS
    <2>1. \A r \in SinkRequests : told[r] <= 1
      BY DEF SinkInv, Typed, ToldWithAnswer
    <2>2. ASSUME NEW r \in Range(Waiting) PROVE result[r] = "none"
      <3>1. r \in SinkRequests
        <4>1. Waiting \in Seq(SinkRequests)
          BY WaitingType DEF SinkInv
        <4> QED BY <4>1, ElementOfSeq, LenProperties DEF Range
      <3> QED BY <3>1, WaitingNotIssued DEF SinkInv, KernelHasIssued
    <2> QED BY <2>1, <2>2 DEF SinkInv, KernelHasIssued, NoUseAfterAnswer
  <1> QED BY <1>1, SinkInvariant, PTL
=============================================================================
