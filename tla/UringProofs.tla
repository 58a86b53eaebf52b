---------------------------- MODULE UringProofs ----------------------------
(***************************************************************************)
(* What holds of CoIoUring for every number of requests and every size of  *)
(* the queue, the ring and the batch, whatever the kernel takes and in     *)
(* whatever order it answers: no entry of the ring is missing, no request  *)
(* is answered twice or referred to after its answer, and the callers see  *)
(* an AsyncDevice.                                                         *)
(***************************************************************************)
EXTENDS CoIoUring, SequenceLemmas

(***************************************************************************)
(* The inductive invariant.  A request that has been submitted and not     *)
(* answered is in one place only, and there only once; whatever is in a    *)
(* place has not been answered; and the batch that is under way fits into  *)
(* what is left of the ring and is still in the queue.                     *)
(***************************************************************************)
InHand == IF loop = "prep" THEN {io} ELSE {}

FirstAnswer == IF loop = "reap" THEN count + 1 ELSE 1

Unanswered == {cq[i] : i \in FirstAnswer..Len(cq)}

OnePlace ==
    /\ Range(queue_) \cap (InHand \cup Range(sq) \cup inflight \cup Unanswered) = {}
    /\ InHand \cap (Range(sq) \cup inflight \cup Unanswered) = {}
    /\ Range(sq) \cap (inflight \cup Unanswered) = {}
    /\ inflight \cap Unanswered = {}

OnceThere ==
    /\ IsInjective(queue_) /\ IsInjective(sq)
    /\ \A i, j \in FirstAnswer..Len(cq) : cq[i] = cq[j] => i = j

Somewhere == Range(queue_) \cup InHand \cup Range(sq) \cup inflight \cup Unanswered

Waits == \A r \in Somewhere : posts[r] = 0 /\ state[r] \in {"signal", "wait"}

PostedOnce == \A r \in Requests : posts[r] <= 1 /\ (state[r] \in {"new", "permit"} => posts[r] = 0)

BatchFits ==
    /\ Len(sq) <= ring_entries
    /\ loop \in {"batch", "prep"} => left + Len(sq) <= ring_entries
    /\ loop = "batch" => left <= Len(queue_)
    /\ loop = "prep" => left >= 1 /\ left - 1 <= Len(queue_) /\ io \in Requests
    /\ loop = "reap" => count <= Len(cq)

UringInv == TypeOK /\ OnePlace /\ OnceThere /\ Waits /\ PostedOnce /\ BatchFits

LEMMA Constants ==
    /\ QueueCapacity \in Nat \ {0} /\ ring_entries \in Nat \ {0} /\ max_submits_ \in Nat \ {0}
    /\ NoRequest \notin Requests
  BY UringAssumption

LEMMA Lengths ==
    ASSUME TypeOK
    PROVE  Len(queue_) \in Nat /\ Len(sq) \in Nat /\ Len(cq) \in Nat
  <1>1. queue_ \in Seq(Requests) /\ sq \in Seq(Requests) /\ cq \in Seq(Requests)
    BY DEF TypeOK
  <1> QED BY <1>1, LenProperties

(***************************************************************************)
(* The batch is no longer than the queue and than the room in the ring.    *)
(***************************************************************************)
LEMMA LeastOfThree ==
    ASSUME NEW a \in Int, NEW b \in Int, NEW c \in Int
    PROVE  /\ Least({a, b, c}) \in {a, b, c}
           /\ Least({a, b, c}) <= a /\ Least({a, b, c}) <= b /\ Least({a, b, c}) <= c
  <1>1. \E n \in {a, b, c} : \A m \in {a, b, c} : n <= m
    <2>1. CASE a <= b /\ a <= c BY <2>1
    <2>2. CASE b <= a /\ b <= c BY <2>2
    <2>3. CASE c <= a /\ c <= b BY <2>3
    <2> QED BY <2>1, <2>2, <2>3
  <1>2. Least({a, b, c}) \in {a, b, c} /\ \A m \in {a, b, c} : Least({a, b, c}) <= m
    BY <1>1 DEF Least
  <1> QED BY <1>2

LEMMA BatchRange ==
    ASSUME TypeOK, Len(sq) <= ring_entries
    PROVE  /\ BatchSize \in Nat
           /\ BatchSize <= Len(queue_)
           /\ BatchSize + Len(sq) <= ring_entries
  <1>1. Len(queue_) \in Nat /\ Len(sq) \in Nat
    BY Lengths
  <1>2. SqSpace \in Nat /\ max_submits_ \in Nat
    BY <1>1, Constants DEF SqSpace
  <1>3. /\ BatchSize \in {Len(queue_), SqSpace, max_submits_}
        /\ BatchSize <= Len(queue_) /\ BatchSize <= SqSpace
    <2>1. Len(queue_) \in Int /\ SqSpace \in Int /\ max_submits_ \in Int
      BY <1>1, <1>2
    <2> QED BY <2>1, LeastOfThree DEF BatchSize
  <1>4. BatchSize \in Nat
    BY <1>1, <1>2, <1>3
  <1> QED BY <1>1, <1>3, <1>4, Constants DEF SqSpace

(***************************************************************************)
(* Types, and the numbers of the batch.                                    *)
(***************************************************************************)
LEMMA UringInit == Init => UringInv
  <1> SUFFICES ASSUME Init PROVE UringInv
    OBVIOUS
  <1>1. queue_ \in Seq(Requests) /\ sq \in Seq(Requests) /\ cq \in Seq(Requests)
        /\ Len(sq) = 0 /\ Len(cq) = 0
    BY EmptySeq DEF Init
  <1>2. TypeOK
    BY <1>1, Constants DEF Init, TypeOK
  <1>3. /\ Range(queue_) = {} /\ Range(sq) = {} /\ Unanswered = {} /\ InHand = {}
        /\ inflight = {} /\ OnceThere
    BY <1>1 DEF Init, Range, Unanswered, FirstAnswer, InHand, OnceThere, IsInjective
  <1>4. OnePlace /\ Waits
    BY <1>3 DEF OnePlace, Waits, Somewhere
  <1>5. PostedOnce
    BY DEF Init, PostedOnce
  <1>6. BatchFits
    BY <1>1, Constants DEF Init, BatchFits
  <1> QED BY <1>2, <1>3, <1>4, <1>5, <1>6 DEF UringInv

(***************************************************************************)
(* The steps of a caller.                                                  *)
(***************************************************************************)
LEMMA SubmitStep ==
    ASSUME UringInv, NEW r \in Requests, Submit(r)
    PROVE  UringInv'
  <1> USE DEF UringInv
  <1>1. CASE SubmitWait(r)
    <2> USE <1>1 DEF SubmitWait, SetState, setting, loopVars
    <2>1. TypeOK'
      BY DEF TypeOK
    <2>2. UNCHANGED <<Range(queue_), InHand, Range(sq), inflight, Unanswered, OnceThere, Somewhere>>
      BY DEF InHand, Unanswered, FirstAnswer, OnceThere, Somewhere
    <2>3. OnePlace' /\ OnceThere'
      BY <2>2 DEF OnePlace
    <2>4. Waits' /\ PostedOnce'
      BY <2>2 DEF Waits, PostedOnce, TypeOK
    <2>5. BatchFits'
      BY DEF BatchFits
    <2> QED BY <2>1, <2>3, <2>4, <2>5
  <1>2. CASE SubmitPush(r)
    <2> USE <1>2 DEF SubmitPush, SetState, setting, loopVars
    <2>1. r \notin Somewhere /\ posts[r] = 0
      BY DEF Waits, PostedOnce
    <2>2. /\ queue_' \in Seq(Requests) /\ Range(queue_') = Range(queue_) \cup {r}
          /\ IsInjective(queue_') /\ Len(queue_') = Len(queue_) + 1
      BY <2>1, AppendElements, AppendProperties DEF TypeOK, OnceThere, Somewhere
    <2>3. UNCHANGED <<InHand, Range(sq), inflight, Unanswered>> /\ Somewhere' = Somewhere \cup {r}
      BY <2>2 DEF InHand, Unanswered, FirstAnswer, Somewhere
    <2>4. TypeOK'
      BY <2>2 DEF TypeOK
    <2>5. OnePlace'
      BY <2>1, <2>2, <2>3 DEF OnePlace, Somewhere
    <2>6. OnceThere'
      BY <2>2 DEF OnceThere, FirstAnswer
    <2>7. Waits' /\ PostedOnce'
      BY <2>1, <2>3 DEF Waits, PostedOnce, TypeOK
    <2>8. BatchFits'
      BY <2>2, Lengths DEF BatchFits, TypeOK
    <2> QED BY <2>4, <2>5, <2>6, <2>7, <2>8
  <1>3. CASE SubmitSignal(r)
    <2> USE <1>3 DEF SubmitSignal, SetState, setting, loopVars
    <2>1. TypeOK'
      BY DEF TypeOK
    <2>2. UNCHANGED <<Range(queue_), InHand, Range(sq), inflight, Unanswered, OnceThere, Somewhere>>
      BY DEF InHand, Unanswered, FirstAnswer, OnceThere, Somewhere
    <2>3. OnePlace' /\ OnceThere'
      BY <2>2 DEF OnePlace
    <2>4. Waits' /\ PostedOnce'
      BY <2>2 DEF Waits, PostedOnce, TypeOK
    <2>5. BatchFits'
      BY DEF BatchFits
    <2> QED BY <2>1, <2>3, <2>4, <2>5
  <1> QED BY <1>1, <1>2, <1>3 DEF Submit

(***************************************************************************)
(* The steps of runLoop.                                                   *)
(***************************************************************************)
LEMMA PollStep ==
    ASSUME UringInv, PollRequests \/ PollAnswers
    PROVE  UringInv'
  <1> USE DEF UringInv
  <1>1. loop = "poll" /\ loop' \in {"batch", "reap"} /\ FirstAnswer' = FirstAnswer
    BY DEF PollRequests, PollAnswers, FirstAnswer
  <1>2. UNCHANGED <<setting, state, posts, queueVars, io, sq, inflight, cq>>
    BY DEF PollRequests, PollAnswers
  <1>3. UNCHANGED <<Range(queue_), InHand, Range(sq), inflight, Unanswered, OnceThere, Somewhere>>
    BY <1>1, <1>2 DEF queueVars, InHand, Unanswered, OnceThere, Somewhere
  <1>4. OnePlace' /\ OnceThere' /\ Waits' /\ PostedOnce'
    BY <1>2, <1>3 DEF OnePlace, Waits, PostedOnce
  <1>5. CASE PollRequests
    <2>1. left' = BatchSize /\ len' = BatchSize /\ loop' = "batch" /\ count' = count
      BY <1>5 DEF PollRequests
    <2>2. left' \in Nat /\ left' <= Len(queue_) /\ left' + Len(sq) <= ring_entries
      BY <2>1, BatchRange DEF BatchFits
    <2>3. TypeOK'
      BY <1>2, <2>1, <2>2 DEF TypeOK, setting, queueVars
    <2>4. BatchFits'
      BY <1>2, <2>1, <2>2 DEF BatchFits, queueVars
    <2> QED BY <1>4, <2>3, <2>4
  <1>6. CASE PollAnswers
    <2>1. UNCHANGED <<len, left>> /\ loop' = "reap" /\ count' = 0
      BY <1>6 DEF PollAnswers
    <2>2. TypeOK'
      BY <1>2, <2>1 DEF TypeOK, setting, queueVars
    <2>3. BatchFits'
      BY <1>2, <2>1, Lengths DEF BatchFits, queueVars
    <2> QED BY <1>4, <2>2, <2>3
  <1> QED BY <1>5, <1>6

LEMMA DequeueStep ==
    ASSUME UringInv, Dequeue
    PROVE  UringInv'
  <1> USE DEF UringInv
  <1>1. /\ loop = "batch" /\ left > 0 /\ signals > 0 /\ loop' = "prep"
        /\ signals' = signals - 1 /\ permits' = permits + 1
        /\ io' = Head(queue_) /\ queue_' = Tail(queue_)
        /\ UNCHANGED <<setting, state, posts, len, left, count, sq, inflight, cq>>
    BY DEF Dequeue
  <1>2. queue_ \in Seq(Requests) /\ Len(queue_) \in Nat /\ left \in Nat /\ queue_ # <<>>
    <2>1. queue_ \in Seq(Requests) /\ Len(queue_) >= left /\ left \in Nat
      BY <1>1 DEF TypeOK, BatchFits
    <2>2. Len(<<>>) = 0
      BY EmptySeq
    <2> QED BY <1>1, <2>1, <2>2, Lengths
  <1>3. /\ io' \in Requests /\ queue_' \in Seq(Requests)
        /\ Len(queue_') = Len(queue_) - 1
        /\ Range(queue_) = {io'} \cup Range(queue_')
        /\ IsInjective(queue_') /\ io' \notin Range(queue_')
    BY <1>1, <1>2, HeadTailElements DEF OnceThere
  <1>4. InHand = {} /\ InHand' = {io'} /\ UNCHANGED <<Range(sq), inflight, Unanswered, FirstAnswer>>
    BY <1>1 DEF InHand, Unanswered, FirstAnswer
  <1>5. Somewhere' = Somewhere
    BY <1>3, <1>4 DEF Somewhere
  <1>6. TypeOK'
    BY <1>1, <1>3 DEF TypeOK, setting
  <1>7. OnePlace'
    BY <1>3, <1>4 DEF OnePlace
  <1>8. OnceThere'
    BY <1>1, <1>3, <1>4 DEF OnceThere
  <1>9. Waits' /\ PostedOnce'
    BY <1>1, <1>5 DEF Waits, PostedOnce
  <1>10. BatchFits'
    BY <1>1, <1>2, <1>3 DEF BatchFits
  <1> QED BY <1>6, <1>7, <1>8, <1>9, <1>10

LEMMA PrepareStep ==
    ASSUME UringInv, Prepare
    PROVE  UringInv'
  <1> USE DEF UringInv
  <1>1. /\ loop = "prep" /\ io \in Requests
        /\ left \in Nat /\ Len(sq) \in Nat /\ Len(queue_) \in Nat /\ ring_entries \in Nat
        /\ left >= 1 /\ left - 1 <= Len(queue_)
        /\ left + Len(sq) <= ring_entries /\ Len(sq) < ring_entries
    <2>1. /\ loop = "prep" /\ io \in Requests
          /\ left >= 1 /\ left - 1 <= Len(queue_) /\ left + Len(sq) <= ring_entries
      BY DEF Prepare, BatchFits
    <2>2. left \in Nat
      BY DEF TypeOK
    <2> QED BY <2>1, <2>2, Lengths, Constants
  <1>2. /\ sq' = Append(sq, io) /\ left' = left - 1 /\ loop' = "batch"
        /\ UNCHANGED <<setting, state, posts, queueVars, len, io, count, inflight, cq>>
    BY <1>1 DEF Prepare
  <1>3. InHand = {io} /\ io \notin Range(sq)
    BY <1>1 DEF InHand, OnePlace
  <1>4. /\ sq' \in Seq(Requests) /\ Range(sq') = Range(sq) \cup {io}
        /\ IsInjective(sq') /\ Len(sq') = Len(sq) + 1
    BY <1>1, <1>2, <1>3, AppendElements, AppendProperties DEF TypeOK, OnceThere
  <1>5. InHand' = {} /\ UNCHANGED <<Range(queue_), inflight, Unanswered, FirstAnswer>>
    BY <1>1, <1>2 DEF InHand, Unanswered, FirstAnswer, queueVars
  <1>6. Somewhere' = Somewhere
    BY <1>3, <1>4, <1>5 DEF Somewhere
  <1>7. TypeOK'
    BY <1>1, <1>2, <1>4 DEF TypeOK, setting, queueVars
  <1>8. OnePlace'
    BY <1>3, <1>4, <1>5 DEF OnePlace
  <1>9. OnceThere'
    BY <1>2, <1>4, <1>5 DEF OnceThere, queueVars
  <1>10. Waits' /\ PostedOnce'
    BY <1>2, <1>6 DEF Waits, PostedOnce
  <1>11. BatchFits'
    BY <1>1, <1>2, <1>4 DEF BatchFits, queueVars
  <1> QED BY <1>7, <1>8, <1>9, <1>10, <1>11

LEMMA EnterStep ==
    ASSUME UringInv, Enter
    PROVE  UringInv'
  <1> USE DEF UringInv
  <1>1. PICK n \in 0..Len(sq) :
            /\ inflight' = inflight \cup {sq[i] : i \in 1..n}
            /\ sq' = SubSeq(sq, n + 1, Len(sq))
            /\ loop' \in {"aborted", "reap"}
    <2>1. Len(sq) \in 0..Len(sq)
      BY Lengths
    <2> QED BY <2>1 DEF Enter
  <1>2. /\ loop = "batch" /\ count' = 0
        /\ UNCHANGED <<setting, state, posts, queueVars, len, left, io, cq>>
    BY DEF Enter
  <1> DEFINE taken == {sq[i] : i \in 1..n}
  <1>3. /\ sq' \in Seq(Requests) /\ IsInjective(sq') /\ Len(sq') = Len(sq) - n
        /\ Range(sq) = taken \cup Range(sq') /\ taken \cap Range(sq') = {}
    BY <1>1, RestElements DEF TypeOK, OnceThere
  <1>4. inflight' = inflight \cup taken
    BY <1>1
  <1>5. taken \subseteq Requests
    <2>1. sq \in Seq(Requests) /\ \A i \in 1..n : i \in 1..Len(sq)
      BY Lengths DEF TypeOK
    <2> QED BY <2>1, ElementOfSeq
  <1> HIDE DEF taken
  <1>6. /\ InHand = {} /\ InHand' = {} /\ UNCHANGED <<Range(queue_), Unanswered, FirstAnswer>>
    BY <1>1, <1>2 DEF InHand, Unanswered, FirstAnswer, queueVars
  <1>7. Somewhere' = Somewhere
    BY <1>3, <1>4, <1>6 DEF Somewhere
  <1>8. TypeOK'
    BY <1>1, <1>2, <1>3, <1>4, <1>5 DEF TypeOK, setting, queueVars
  <1>9. OnePlace'
    BY <1>3, <1>4, <1>6 DEF OnePlace
  <1>10. OnceThere'
    BY <1>2, <1>3, <1>6 DEF OnceThere, queueVars
  <1>11. Waits' /\ PostedOnce'
    BY <1>2, <1>7 DEF Waits, PostedOnce
  <1>12. BatchFits'
    <2>1. Len(sq') <= ring_entries
      BY <1>3, Lengths, Constants DEF BatchFits
    <2> QED BY <1>1, <1>2, <2>1, Lengths DEF BatchFits
  <1> QED BY <1>8, <1>9, <1>10, <1>11, <1>12

LEMMA ProcessStep ==
    ASSUME UringInv, ProcessComplete
    PROVE  UringInv'
  <1> USE DEF UringInv
  <1> DEFINE r == cq[count + 1]
  <1>1. /\ loop = "reap" /\ count \in Nat /\ count < Len(cq) /\ Len(cq) \in Nat
        /\ posts' = [posts EXCEPT ![r] = @ + 1]
        /\ state' = [state EXCEPT ![r] = IF @ = "wait" THEN "done" ELSE @]
        /\ count' = count + 1
        /\ UNCHANGED <<setting, queueVars, loop, len, left, io, sq, inflight, cq>>
    BY Lengths DEF ProcessComplete, TypeOK
  <1>2. /\ count + 1 \in 1..Len(cq)
        /\ (count + 1)..Len(cq) = {count + 1} \cup (count + 2)..Len(cq)
        /\ count + 1 \notin (count + 2)..Len(cq)
    BY <1>1
  <1>3. FirstAnswer = count + 1 /\ FirstAnswer' = count + 2
    BY <1>1 DEF FirstAnswer
  <1>4. r \in Requests
    BY <1>2, ElementOfSeq DEF TypeOK
  <1>5. Unanswered = {r} \cup Unanswered'
    BY <1>1, <1>2, <1>3 DEF Unanswered
  <1>6. r \notin Unanswered'
    BY <1>1, <1>2, <1>3 DEF Unanswered, OnceThere
  <1> HIDE DEF r
  <1>7. UNCHANGED <<Range(queue_), InHand, Range(sq), inflight>>
    BY <1>1 DEF queueVars, InHand
  <1>8. r \in Somewhere /\ Somewhere' = Somewhere \ {r}
    BY <1>5, <1>6, <1>7 DEF Somewhere, OnePlace
  <1>9. TypeOK'
    BY <1>1, <1>4 DEF TypeOK, setting, queueVars
  <1>10. OnePlace'
    BY <1>5, <1>7 DEF OnePlace
  <1>11. OnceThere'
    BY <1>1, <1>2, <1>3 DEF OnceThere, queueVars
  <1>12. Waits'
    BY <1>1, <1>8 DEF Waits, TypeOK
  <1>13. PostedOnce'
    BY <1>1, <1>4, <1>8 DEF PostedOnce, Waits, TypeOK
  <1>14. BatchFits'
    BY <1>1 DEF BatchFits
  <1> QED BY <1>9, <1>10, <1>11, <1>12, <1>13, <1>14

LEMMA AdvanceStep ==
    ASSUME UringInv, CqAdvance
    PROVE  UringInv'
  <1> USE DEF UringInv
  <1>1. /\ loop = "reap" /\ count = Len(cq) /\ loop' = "poll"
        /\ cq' = SubSeq(cq, count + 1, Len(cq))
        /\ UNCHANGED <<setting, state, posts, queueVars, len, left, io, count, sq, inflight>>
    BY DEF CqAdvance
  <1>2. cq' \in Seq(Requests) /\ Len(cq') = 0
    <2>1. cq \in Seq(Requests) /\ Len(cq) \in 0..Len(cq) /\ Len(cq) - Len(cq) = 0
      BY Lengths DEF TypeOK
    <2> QED BY <1>1, <2>1, RestElements
  <1>3. Unanswered = {} /\ Unanswered' = {} /\ FirstAnswer' = 1
    BY <1>1, <1>2, Lengths DEF Unanswered, FirstAnswer
  <1>4. UNCHANGED <<Range(queue_), InHand, Range(sq), inflight>>
    BY <1>1 DEF queueVars, InHand
  <1>5. Somewhere' = Somewhere
    BY <1>3, <1>4 DEF Somewhere
  <1>6. TypeOK'
    BY <1>1, <1>2 DEF TypeOK, setting, queueVars
  <1>7. OnePlace'
    BY <1>3, <1>4 DEF OnePlace
  <1>8. OnceThere'
    BY <1>1, <1>2, <1>3 DEF OnceThere, queueVars
  <1>9. Waits' /\ PostedOnce'
    BY <1>1, <1>5 DEF Waits, PostedOnce
  <1>10. BatchFits'
    BY <1>1 DEF BatchFits
  <1> QED BY <1>6, <1>7, <1>8, <1>9, <1>10

(***************************************************************************)
(* The kernel's step.                                                      *)
(***************************************************************************)
LEMMA AnswerStep ==
    ASSUME UringInv, NEW r \in Requests, Answer(r)
    PROVE  UringInv'
  <1> USE DEF UringInv
  <1>1. /\ r \in inflight /\ inflight' = inflight \ {r} /\ cq' = Append(cq, r)
        /\ UNCHANGED <<setting, state, posts, queueVars, loopVars, sq>>
    BY DEF Answer
  <1>2. /\ cq' \in Seq(Requests) /\ Len(cq') = Len(cq) + 1
        /\ \A i \in 1..Len(cq) : cq'[i] = cq[i]
        /\ cq'[Len(cq) + 1] = r
    BY <1>1, AppendProperties DEF TypeOK
  <1>3. /\ FirstAnswer' = FirstAnswer /\ FirstAnswer \in 1..(Len(cq) + 1)
    BY <1>1, Lengths DEF FirstAnswer, loopVars, BatchFits, TypeOK
  <1>4. /\ FirstAnswer..(Len(cq) + 1) = (FirstAnswer..Len(cq)) \cup {Len(cq) + 1}
        /\ FirstAnswer..Len(cq) \subseteq 1..Len(cq)
    BY <1>3, Lengths
  <1>5. Unanswered' = Unanswered \cup {r} /\ r \notin Unanswered
    BY <1>1, <1>2, <1>3, <1>4 DEF Unanswered, OnePlace
  <1>6. UNCHANGED <<Range(queue_), InHand, Range(sq)>>
    BY <1>1 DEF queueVars, loopVars, InHand
  <1>7. Somewhere' = Somewhere
    BY <1>1, <1>5, <1>6 DEF Somewhere
  <1>8. TypeOK'
    BY <1>1, <1>2 DEF TypeOK, setting, queueVars, loopVars
  <1>9. OnePlace'
    BY <1>1, <1>5, <1>6 DEF OnePlace
  <1>10. OnceThere'
    <2>1. \A i \in FirstAnswer..Len(cq) : cq'[i] # r
      BY <1>2, <1>4, <1>5 DEF Unanswered
    <2> QED BY <1>1, <1>2, <1>3, <1>4, <2>1 DEF OnceThere, queueVars
  <1>11. Waits' /\ PostedOnce'
    BY <1>1, <1>7 DEF Waits, PostedOnce
  <1>12. BatchFits'
    BY <1>1, <1>2, Lengths DEF BatchFits, queueVars, loopVars, TypeOK
  <1> QED BY <1>8, <1>9, <1>10, <1>11, <1>12

LEMMA UringStep == UringInv /\ [Next]_vars => UringInv'
  <1> SUFFICES ASSUME UringInv, [Next]_vars PROVE UringInv'
    OBVIOUS
  <1>1. CASE RunLoop
    BY <1>1, PollStep, DequeueStep, PrepareStep, EnterStep, ProcessStep, AdvanceStep DEF RunLoop
  <1>2. CASE \E r \in Requests : Submit(r) \/ Answer(r)
    BY <1>2, SubmitStep, AnswerStep
  <1>3. CASE UNCHANGED vars
    <2>1. UNCHANGED <<InHand, FirstAnswer, Unanswered, Range(queue_), Range(sq), inflight>>
      BY <1>3 DEF vars, queueVars, loopVars, InHand, FirstAnswer, Unanswered
    <2>2. OnePlace' /\ Somewhere' = Somewhere
      BY <2>1 DEF UringInv, OnePlace, Somewhere
    <2>3. OnceThere' /\ Waits' /\ PostedOnce'
      BY <1>3, <2>1, <2>2 DEF vars, queueVars, UringInv, OnceThere, Waits, PostedOnce
    <2>4. TypeOK' /\ BatchFits'
      BY <1>3 DEF vars, setting, queueVars, loopVars, UringInv, TypeOK, BatchFits
    <2> QED BY <2>2, <2>3, <2>4 DEF UringInv
  <1> QED BY <1>1, <1>2, <1>3 DEF Next

LEMMA UringInvariant == Spec => []UringInv
  BY UringInit, UringStep, PTL DEF Spec

(***************************************************************************)
(* Every variable of the service keeps its type.                           *)
(***************************************************************************)
THEOREM UringTypes == Spec => []TypeOK
  <1>1. UringInv => TypeOK
    BY DEF UringInv
  <1> QED BY <1>1, UringInvariant, PTL

(***************************************************************************)
(* The batch never overruns the submission ring: io_uring_get_sqe (line    *)
(* 65 of io_uring.cc) finds an entry for each request of it.               *)
(***************************************************************************)
THEOREM SqeNeverMissing == Spec => []SqeAvailable
  <1>1. UringInv => SqeAvailable
    <2> SUFFICES ASSUME UringInv, loop = "prep" PROVE Len(sq) < ring_entries
      BY DEF SqeAvailable
    <2>1. left >= 1 /\ left + Len(sq) <= ring_entries
      BY DEF UringInv, BatchFits
    <2>2. left \in Nat /\ Len(sq) \in Nat /\ ring_entries \in Nat
      BY Lengths, Constants DEF UringInv, TypeOK
    <2> QED BY <2>1, <2>2
  <1> QED BY <1>1, UringInvariant, PTL

(***************************************************************************)
(* Nothing in the queue, the rings or the kernel leads to a request that   *)
(* has been answered, and no baton is posted twice.                        *)
(***************************************************************************)
THEOREM ReferredNotGone == Spec => []ReferredAlive
  <1>1. UringInv => ReferredAlive
    <2> SUFFICES ASSUME UringInv PROVE ReferredAlive
      OBVIOUS
    <2>1. FirstAnswer - 1 \in 0..Len(cq) /\ (FirstAnswer - 1) + 1 = FirstAnswer
      BY Lengths DEF UringInv, FirstAnswer, BatchFits, TypeOK
    <2>2. Range(SubSeq(cq, FirstAnswer, Len(cq))) = Unanswered
      BY <2>1, RestElements DEF UringInv, TypeOK, Unanswered
    <2>3. Referred = Somewhere
      BY <2>2 DEF Referred, Somewhere, InHand, FirstAnswer
    <2>4. \A r \in Referred : posts[r] = 0 /\ state[r] # "done"
      BY <2>3 DEF UringInv, Waits
    <2> QED BY <2>4 DEF UringInv, PostedOnce, ReferredAlive
  <1> QED BY <1>1, UringInvariant, PTL

(***************************************************************************)
(* The refinement, without its liveness: what a caller sees of a request   *)
(* changes only when the ticket of the queue is taken and when the baton   *)
(* is posted, and these are the two steps of an AsyncDevice.               *)
(***************************************************************************)
Seen(r) == IF posts[r] > 0 THEN "done"
           ELSE IF state[r] \in {"new", "permit"} THEN "idle" ELSE "pending"

LEMMA SeenMoves ==
    ASSUME NEW r \in Requests, \A u \in Requests \ {r} : Seen(u)' = Seen(u),
           \/ Seen(r)' = Seen(r)
           \/ Seen(r) = "idle" /\ Seen(r)' = "pending"
           \/ Seen(r) = "pending" /\ Seen(r)' = "done"
    PROVE  [Device!Next]_([u \in Requests |-> Seen(u)])
  <1> DEFINE now == [u \in Requests |-> Seen(u)]
             then == [u \in Requests |-> Seen(u)']
  <1>1. CASE Seen(r)' = Seen(r)
    <2>1. then = now
      BY <1>1
    <2> QED BY <2>1
  <1>2. CASE Seen(r) # Seen(r)'
    <2>1. then = [now EXCEPT ![r] = Seen(r)'] /\ now[r] = Seen(r)
      OBVIOUS
    <2>2. Device!Submit(r) \/ Device!Complete(r)
      BY <1>2, <2>1 DEF Device!Submit, Device!Complete, Seen
    <2> QED BY <2>2 DEF Device!Next
  <1> QED BY <1>1, <1>2

(***************************************************************************)
(* To its callers the service is an AsyncDevice that answers each request  *)
(* once and only after it was submitted.                                   *)
(***************************************************************************)
THEOREM ServiceIsDevice == Spec => Device!OnceEach
  <1>1. Init => Device!Init
    BY DEF Init, Device!Init
  <1>2. UringInv /\ [Next]_vars => [Device!Next]_([r \in Requests |-> Seen(r)])
    <2> SUFFICES ASSUME UringInv, [Next]_vars
                 PROVE  [Device!Next]_([r \in Requests |-> Seen(r)])
      OBVIOUS
    <2>1. ASSUME UNCHANGED <<posts, state>>
          PROVE  [Device!Next]_([r \in Requests |-> Seen(r)])
      BY <2>1 DEF Seen
    <2>2. ASSUME NEW r \in Requests, Submit(r)
          PROVE  [Device!Next]_([u \in Requests |-> Seen(u)])
      <3>1. \A u \in Requests \ {r} : Seen(u)' = Seen(u)
        BY <2>2 DEF Submit, SubmitWait, SubmitPush, SubmitSignal, SetState, Seen, UringInv, TypeOK
      <3>2. posts[r] \in Nat /\ (state[r] \in {"new", "permit"} => posts[r] = 0)
        BY DEF UringInv, TypeOK, PostedOnce
      <3>3. Seen(r)' = Seen(r) \/ (Seen(r) = "idle" /\ Seen(r)' = "pending")
        BY <2>2, <3>2
           DEF Submit, SubmitWait, SubmitPush, SubmitSignal, SetState, Seen, UringInv, TypeOK
      <3> QED BY <3>1, <3>3, SeenMoves
    <2>3. ASSUME ProcessComplete
          PROVE  [Device!Next]_([u \in Requests |-> Seen(u)])
      <3>1. cq[count + 1] \in Requests /\ cq[count + 1] \in Unanswered
        <4>1. count + 1 \in 1..Len(cq) /\ FirstAnswer = count + 1
          BY <2>3, Lengths DEF ProcessComplete, UringInv, TypeOK, FirstAnswer
        <4> QED BY <4>1, ElementOfSeq DEF UringInv, TypeOK, Unanswered
      <3>2. PICK r \in Requests : r = cq[count + 1]
        BY <3>1
      <3>3. posts[r] = 0 /\ state[r] \in {"signal", "wait"}
        BY <3>1, <3>2 DEF UringInv, Waits, Somewhere
      <3>4. /\ posts' = [posts EXCEPT ![r] = posts[r] + 1]
            /\ state' = [state EXCEPT ![r] = IF state[r] = "wait" THEN "done" ELSE state[r]]
        BY <2>3, <3>2 DEF ProcessComplete
      <3>5. \A u \in Requests \ {r} : Seen(u)' = Seen(u)
        BY <3>4 DEF Seen, UringInv, TypeOK
      <3>6. posts'[r] = 1
        BY <3>3, <3>4 DEF UringInv, TypeOK
      <3>7. Seen(r) = "pending"
        BY <3>3 DEF Seen
      <3>8. Seen(r)' = "done"
        BY <3>6 DEF Seen
      <3> QED BY <3>5, <3>7, <3>8, SeenMoves
    <2>4. CASE \E r \in Requests : Answer(r)
      BY <2>1, <2>4 DEF Answer
    <2>5. CASE PollRequests \/ PollAnswers \/ Dequeue \/ Prepare \/ Enter \/ CqAdvance
      BY <2>1, <2>5 DEF PollRequests, PollAnswers, Dequeue, Prepare, Enter, CqAdvance
    <2>6. CASE UNCHANGED vars
      BY <2>1, <2>6 DEF vars
    <2> QED BY <2>2, <2>3, <2>4, <2>5, <2>6 DEF Next, RunLoop
  <1> QED BY <1>1, <1>2, UringInvariant, PTL DEF Spec, Device!OnceEach, Seen
=============================================================================
