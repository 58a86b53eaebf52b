---------------------------- MODULE QueueProofs ----------------------------
(***************************************************************************)
(* What holds of BoundedQueue for every number of callers and slots: its   *)
(* permits are all accounted for, so nobody who has one is ever refused a  *)
(* ticket, and no result that the code ignores is ever false.              *)
(***************************************************************************)
EXTENDS BoundedQueue, FiniteSetTheorems, SequenceTheorems, TLAPS

LEMMA Constants ==
    /\ Capacity \in Nat \ {0} /\ Rounds \in Nat
    /\ Producers \cap Consumers = {}
    /\ IsFiniteSet(Producers) /\ IsFiniteSet(Consumers)
  BY QueueAssumption

LEMMA SlotRange ==
    ASSUME NEW k \in Nat
    PROVE  Slot(k) \in 0..(Capacity - 1)
  BY Constants DEF Slot

(***************************************************************************)
(* How many of a set of callers are at certain points, before and after    *)
(* one of all the callers moves.                                           *)
(***************************************************************************)
Count(callers, points) == Cardinality(At(callers, points))

One(b) == IF b THEN 1 ELSE 0

LEMMA FiniteAt ==
    ASSUME NEW callers, IsFiniteSet(callers), NEW points
    PROVE  /\ IsFiniteSet(At(callers, points)) /\ Count(callers, points) \in Nat
           /\ \A p \in callers : pc[p] \in points => Count(callers, points) > 0
  <1>1. At(callers, points) \in SUBSET callers
    BY DEF At
  <1>2. IsFiniteSet(At(callers, points))
    BY <1>1, FS_Subset
  <1>3. Count(callers, points) \in Nat
    BY <1>2, FS_CardinalityType DEF Count
  <1>4. ASSUME NEW p \in callers, pc[p] \in points PROVE Count(callers, points) > 0
    <2>1. At(callers, points) # {}
      BY <1>4 DEF At
    <2>2. Count(callers, points) # 0
      BY <2>1, <1>2, FS_EmptySet DEF Count
    <2> QED BY <2>2, <1>3
  <1> QED BY <1>2, <1>3, <1>4

LEMMA Moves ==
    ASSUME TypeOK, NEW callers \in {Producers, Consumers}, NEW points,
           NEW p \in Callers, NEW point, Goto(p, point)
    PROVE  Count(callers, points)' =
             Count(callers, points) + One(p \in callers /\ point \in points)
                                    - One(p \in callers /\ pc[p] \in points)
  <1> DEFINE S == At(callers, points)
             T == At(callers, points)'
  <1>1. IsFiniteSet(callers) /\ callers \subseteq Callers
    BY Constants DEF Callers
  <1>2. IsFiniteSet(S) /\ Cardinality(S) \in Nat
    BY <1>1, FiniteAt DEF Count
  <1>3. pc' = [pc EXCEPT ![p] = point] /\ p \in DOMAIN pc
    BY DEF Goto, TypeOK
  <1>4. T = {u \in callers : pc'[u] \in points}
    BY DEF At
  <1>5. CASE p \in callers /\ point \in points
    <2>1. T = S \cup {p}
      BY <1>1, <1>3, <1>4, <1>5 DEF At, TypeOK
    <2>2. Cardinality(T) = IF p \in S THEN Cardinality(S) ELSE Cardinality(S) + 1
      BY <2>1, <1>2, FS_AddElement
    <2>3. p \in S <=> pc[p] \in points
      BY <1>5 DEF At
    <2> QED BY <2>2, <2>3, <1>2, <1>5 DEF One, Count
  <1>6. CASE ~(p \in callers /\ point \in points)
    <2>1. T = S \ {p}
      BY <1>1, <1>3, <1>4, <1>6 DEF At, TypeOK
    <2>2. Cardinality(T) = IF p \in S THEN Cardinality(S) - 1 ELSE Cardinality(S)
      BY <2>1, <1>2, FS_RemoveElement
    <2>3. p \in S <=> p \in callers /\ pc[p] \in points
      BY DEF At
    <2> QED BY <2>2, <2>3, <1>2, <1>6 DEF One, Count
  <1> QED BY <1>5, <1>6

LEMMA Stays ==
    ASSUME TypeOK, NEW callers \in {Producers, Consumers}, NEW points,
           NEW p \in Callers, NEW point, Goto(p, point), p \notin callers
    PROVE  Count(callers, points)' = Count(callers, points)
  <1>1. \A u \in callers : pc'[u] = pc[u]
    BY DEF Goto, TypeOK, Callers
  <1> QED BY <1>1 DEF Count, At

(***************************************************************************)
(* The four kinds of caller that hold something.                           *)
(***************************************************************************)
Entering == Count(Producers, {"permit"})
Writing  == Count(Producers, {"ticket", "signal"})
Leaving  == Count(Consumers, {"permit"})
Reading  == Count(Consumers, {"ticket", "signal"})

LEMMA Counts ==
    /\ Entering \in Nat /\ Writing \in Nat /\ Leaving \in Nat /\ Reading \in Nat
  BY Constants, FiniteAt DEF Entering, Writing, Leaving, Reading

LEMMA ProducerMoves ==
    ASSUME TypeOK, NEW p \in Producers, NEW point, Goto(p, point)
    PROVE  /\ Entering' = Entering + One(point = "permit") - One(pc[p] = "permit")
           /\ Writing' = Writing + One(point \in {"ticket", "signal"})
                                 - One(pc[p] \in {"ticket", "signal"})
           /\ Leaving' = Leaving /\ Reading' = Reading
  <1>1. p \in Callers /\ p \notin Consumers
    BY Constants DEF Callers
  <1>2. Entering' = Entering + One(point = "permit") - One(pc[p] = "permit")
    BY <1>1, Moves DEF Entering, One
  <1>3. Writing' = Writing + One(point \in {"ticket", "signal"})
                           - One(pc[p] \in {"ticket", "signal"})
    BY <1>1, Moves DEF Writing, One
  <1>4. Leaving' = Leaving /\ Reading' = Reading
    BY <1>1, Stays DEF Leaving, Reading
  <1> QED BY <1>2, <1>3, <1>4

LEMMA ConsumerMoves ==
    ASSUME TypeOK, NEW c \in Consumers, NEW point, Goto(c, point)
    PROVE  /\ Leaving' = Leaving + One(point = "permit") - One(pc[c] = "permit")
           /\ Reading' = Reading + One(point \in {"ticket", "signal"})
                                 - One(pc[c] \in {"ticket", "signal"})
           /\ Entering' = Entering /\ Writing' = Writing
  <1>1. c \in Callers /\ c \notin Producers
    BY Constants DEF Callers
  <1>2. Leaving' = Leaving + One(point = "permit") - One(pc[c] = "permit")
    BY <1>1, Moves DEF Leaving, One
  <1>3. Reading' = Reading + One(point \in {"ticket", "signal"})
                           - One(pc[c] \in {"ticket", "signal"})
    BY <1>1, Moves DEF Reading, One
  <1>4. Entering' = Entering /\ Writing' = Writing
    BY <1>1, Stays DEF Entering, Writing
  <1> QED BY <1>2, <1>3, <1>4

(***************************************************************************)
(* Types.                                                                  *)
(***************************************************************************)
LEMMA TypeInit == Init => TypeOK
  BY Constants DEF Init, TypeOK

LEMMA TypeStep == TypeOK /\ [Next]_vars => TypeOK'
  <1> SUFFICES ASSUME TypeOK, [Next]_vars PROVE TypeOK'
    OBVIOUS
  <1> USE DEF TypeOK
  <1>1. ASSUME NEW p \in Callers, NEW point \in {"idle", "permit", "ticket", "signal"},
               Goto(p, point)
        PROVE  pc' \in [Callers -> {"idle", "permit", "ticket", "signal"}]
    BY <1>1 DEF Goto
  <1>2. ASSUME NEW p \in Producers, NEW x \in Items, EnqueueWait(p, x) PROVE TypeOK'
    <2>1. p \in Callers
      BY DEF Callers
    <2>2. pc' \in [Callers -> {"idle", "permit", "ticket", "signal"}]
      BY <1>1, <1>2, <2>1 DEF EnqueueWait
    <2>3. rounds' \in [Producers -> 0..Rounds]
      BY <1>2, Constants DEF EnqueueWait
    <2>4. item' \in [Callers -> Items \cup {NoItem}]
      BY <1>2, <2>1 DEF EnqueueWait
    <2>5. enqueueSemaphore_' \in Nat
      BY <1>2 DEF EnqueueWait
    <2>6. UNCHANGED <<ticket, dequeueSemaphore_, pushTicket, popTicket, slot, turn>>
      BY <1>2 DEF EnqueueWait, queue_
    <2> QED BY <2>2, <2>3, <2>4, <2>5, <2>6
  <1>3. ASSUME NEW p \in Producers, PushTicket(p) PROVE TypeOK'
    <2>1. p \in Callers
      BY DEF Callers
    <2>2. pc' \in [Callers -> {"idle", "permit", "ticket", "signal"}]
      BY <1>1, <1>3, <2>1 DEF PushTicket
    <2> QED BY <1>3, <2>2 DEF PushTicket, semaphores
  <1>4. ASSUME NEW p \in Producers, WriteSlot(p) PROVE TypeOK'
    <2>1. p \in Callers
      BY DEF Callers
    <2>2. pc' \in [Callers -> {"idle", "permit", "ticket", "signal"}]
      BY <1>1, <1>4, <2>1 DEF WriteSlot
    <2>3. item[p] \in Items \cup {NoItem} /\ Slot(ticket[p]) \in 0..(Capacity - 1)
      BY <2>1, SlotRange
    <2> QED BY <1>4, <2>2, <2>3 DEF WriteSlot, semaphores
  <1>5. ASSUME NEW p \in Producers, SignalDequeue(p) PROVE TypeOK'
    <2>1. p \in Callers
      BY DEF Callers
    <2>2. pc' \in [Callers -> {"idle", "permit", "ticket", "signal"}]
      BY <1>1, <1>5, <2>1 DEF SignalDequeue
    <2> QED BY <1>5, <2>2 DEF SignalDequeue, queue_
  <1>6. ASSUME NEW c \in Consumers, DequeueWait(c) PROVE TypeOK'
    <2>1. c \in Callers
      BY DEF Callers
    <2>2. pc' \in [Callers -> {"idle", "permit", "ticket", "signal"}]
      BY <1>1, <1>6, <2>1 DEF DequeueWait
    <2> QED BY <1>6, <2>2 DEF DequeueWait, queue_
  <1>7. ASSUME NEW c \in Consumers, PopTicket(c) PROVE TypeOK'
    <2>1. c \in Callers
      BY DEF Callers
    <2>2. pc' \in [Callers -> {"idle", "permit", "ticket", "signal"}]
      BY <1>1, <1>7, <2>1 DEF PopTicket
    <2>3. item' \in [Callers -> Items \cup {NoItem}]
      BY <1>7, <2>1 DEF PopTicket
    <2>4. ticket' \in [Callers -> Nat] /\ popTicket' \in Nat
      BY <1>7, <2>1 DEF PopTicket
    <2> QED BY <1>7, <2>2, <2>3, <2>4 DEF PopTicket, semaphores
  <1>8. ASSUME NEW c \in Consumers, ReadSlot(c) PROVE TypeOK'
    <2>1. c \in Callers
      BY DEF Callers
    <2>2. pc' \in [Callers -> {"idle", "permit", "ticket", "signal"}]
      BY <1>1, <1>8, <2>1 DEF ReadSlot
    <2>3. Slot(ticket[c]) \in 0..(Capacity - 1)
      BY <2>1, SlotRange
    <2>4. slot[Slot(ticket[c])] \in Items \cup {NoItem}
      BY <2>3
    <2>5. item' \in [Callers -> Items \cup {NoItem}]
      BY <1>8, <2>1, <2>4 DEF ReadSlot
    <2>6. turn' \in [0..(Capacity - 1) -> Nat]
      BY <1>8, <2>3 DEF ReadSlot
    <2>7. UNCHANGED <<ticket, rounds, enqueueSemaphore_, dequeueSemaphore_, pushTicket,
                      popTicket, slot>>
      BY <1>8 DEF ReadSlot, semaphores
    <2> QED BY <2>2, <2>5, <2>6, <2>7
  <1>9. ASSUME NEW c \in Consumers, SignalEnqueue(c) PROVE TypeOK'
    <2>1. c \in Callers
      BY DEF Callers
    <2>2. pc' \in [Callers -> {"idle", "permit", "ticket", "signal"}]
      BY <1>1, <1>9, <2>1 DEF SignalEnqueue
    <2> QED BY <1>9, <2>2 DEF SignalEnqueue, queue_
  <1>10. CASE UNCHANGED vars
    BY <1>10 DEF vars, semaphores, queue_
  <1> QED BY <1>2, <1>3, <1>4, <1>5, <1>6, <1>7, <1>8, <1>9, <1>10
          DEF Next, Enqueue, Dequeue

THEOREM QueueTypes == Spec => []TypeOK
  BY TypeInit, TypeStep, PTL DEF Spec

(***************************************************************************)
(* Permits.                                                                *)
(***************************************************************************)
Permits ==
    /\ enqueueSemaphore_ + Entering + (pushTicket - popTicket) + Reading = Capacity
    /\ dequeueSemaphore_ + Leaving + Writing = pushTicket - popTicket

LEMMA PermitsIs == PermitsAccounted <=> Permits
  BY DEF PermitsAccounted, Permits, Entering, Writing, Leaving, Reading, Count

LEMMA PermitIsEnough ==
    ASSUME TypeOK, Permits
    PROVE  PermitGivesTicket
  <1>1. /\ Entering \in Nat /\ Writing \in Nat /\ Leaving \in Nat /\ Reading \in Nat
    BY Counts
  <1>2. ASSUME NEW p \in Producers, pc[p] = "permit"
        PROVE  pushTicket - popTicket < Capacity
    <2>1. Entering > 0
      BY <1>2, Constants, FiniteAt DEF Entering
    <2> QED BY <2>1, <1>1, Constants DEF Permits, TypeOK
  <1>3. ASSUME NEW c \in Consumers, pc[c] = "permit" PROVE popTicket < pushTicket
    <2>1. Leaving > 0
      BY <1>3, Constants, FiniteAt DEF Leaving
    <2> QED BY <2>1, <1>1, Constants DEF Permits, TypeOK
  <1> QED BY <1>2, <1>3 DEF PermitGivesTicket

LEMMA PermitsInit == Init => Permits
  <1> SUFFICES ASSUME Init PROVE Permits
    OBVIOUS
  <1>1. ASSUME NEW callers \in SUBSET Callers, NEW points, "idle" \notin points
        PROVE  Count(callers, points) = 0
    <2>1. At(callers, points) = {}
      BY <1>1 DEF Init, At
    <2> QED BY <2>1, FS_EmptySet DEF Count
  <1>2. Producers \in SUBSET Callers /\ Consumers \in SUBSET Callers
    BY DEF Callers
  <1>3. Entering = 0 /\ Writing = 0 /\ Leaving = 0 /\ Reading = 0
    BY <1>1, <1>2 DEF Entering, Writing, Leaving, Reading
  <1> QED BY <1>3, Constants DEF Init, Permits

LEMMA Numbers ==
    ASSUME TypeOK
    PROVE  /\ enqueueSemaphore_ \in Int /\ dequeueSemaphore_ \in Int
           /\ pushTicket \in Int /\ popTicket \in Int /\ Capacity \in Int
  BY Constants DEF TypeOK

LEMMA PermitsStep ==
    ASSUME TypeOK, Permits, [Next]_vars
    PROVE  Permits'
  <1>1. PermitGivesTicket
    BY PermitIsEnough
  <1>n. /\ enqueueSemaphore_ \in Int /\ dequeueSemaphore_ \in Int
         /\ pushTicket \in Int /\ popTicket \in Int /\ Capacity \in Int
         /\ Entering \in Int /\ Writing \in Int /\ Leaving \in Int /\ Reading \in Int
    BY Counts, Numbers
  <1>2. ASSUME NEW p \in Producers, NEW x \in Items, EnqueueWait(p, x) PROVE Permits'
    <2>1. pc[p] = "idle" /\ Goto(p, "permit")
      BY <1>2 DEF EnqueueWait
    <2>2. /\ Entering' = Entering + 1 /\ Writing' = Writing
          /\ Leaving' = Leaving /\ Reading' = Reading
      BY <2>1, ProducerMoves, Counts DEF One
    <2>3. /\ enqueueSemaphore_' = enqueueSemaphore_ - 1
          /\ dequeueSemaphore_' = dequeueSemaphore_
          /\ pushTicket' = pushTicket /\ popTicket' = popTicket
      BY <1>2 DEF EnqueueWait, queue_
    <2> QED BY <1>n, <2>2, <2>3 DEF Permits
  <1>3. ASSUME NEW p \in Producers, PushTicket(p) PROVE Permits'
    <2>1. ~QueueFull
      BY <1>1, <1>3, Numbers DEF PermitGivesTicket, PushTicket, QueueFull
    <2>2. pc[p] = "permit" /\ Goto(p, "ticket")
      BY <1>3, <2>1 DEF PushTicket
    <2>3. /\ Entering' = Entering - 1 /\ Writing' = Writing + 1
          /\ Leaving' = Leaving /\ Reading' = Reading
      BY <2>2, ProducerMoves, Counts DEF One
    <2>4. /\ enqueueSemaphore_' = enqueueSemaphore_
          /\ dequeueSemaphore_' = dequeueSemaphore_
          /\ pushTicket' = pushTicket + 1 /\ popTicket' = popTicket
      BY <1>3, <2>1 DEF PushTicket, semaphores
    <2> QED BY <1>n, <2>3, <2>4 DEF Permits
  <1>4. ASSUME NEW p \in Producers, WriteSlot(p) PROVE Permits'
    <2>1. pc[p] = "ticket" /\ Goto(p, "signal")
      BY <1>4 DEF WriteSlot
    <2>2. /\ Entering' = Entering /\ Writing' = Writing
          /\ Leaving' = Leaving /\ Reading' = Reading
      BY <2>1, ProducerMoves, Counts DEF One
    <2>3. /\ enqueueSemaphore_' = enqueueSemaphore_
          /\ dequeueSemaphore_' = dequeueSemaphore_
          /\ pushTicket' = pushTicket /\ popTicket' = popTicket
      BY <1>4 DEF WriteSlot, semaphores
    <2> QED BY <1>n, <2>2, <2>3 DEF Permits
  <1>5. ASSUME NEW p \in Producers, SignalDequeue(p) PROVE Permits'
    <2>1. pc[p] = "signal" /\ Goto(p, "idle")
      BY <1>5 DEF SignalDequeue
    <2>2. /\ Entering' = Entering /\ Writing' = Writing - 1
          /\ Leaving' = Leaving /\ Reading' = Reading
      BY <2>1, ProducerMoves, Counts DEF One
    <2>3. /\ enqueueSemaphore_' = enqueueSemaphore_
          /\ dequeueSemaphore_' = dequeueSemaphore_ + 1
          /\ pushTicket' = pushTicket /\ popTicket' = popTicket
      BY <1>5 DEF SignalDequeue, queue_
    <2> QED BY <1>n, <2>2, <2>3 DEF Permits
  <1>6. ASSUME NEW c \in Consumers, DequeueWait(c) PROVE Permits'
    <2>1. pc[c] = "idle" /\ Goto(c, "permit")
      BY <1>6 DEF DequeueWait
    <2>2. /\ Entering' = Entering /\ Writing' = Writing
          /\ Leaving' = Leaving + 1 /\ Reading' = Reading
      BY <2>1, ConsumerMoves, Counts DEF One
    <2>3. /\ enqueueSemaphore_' = enqueueSemaphore_
          /\ dequeueSemaphore_' = dequeueSemaphore_ - 1
          /\ pushTicket' = pushTicket /\ popTicket' = popTicket
      BY <1>6 DEF DequeueWait, queue_
    <2> QED BY <1>n, <2>2, <2>3 DEF Permits
  <1>7. ASSUME NEW c \in Consumers, PopTicket(c) PROVE Permits'
    <2>1. ~QueueEmpty
      BY <1>1, <1>7, Numbers DEF PermitGivesTicket, PopTicket, QueueEmpty
    <2>2. pc[c] = "permit" /\ Goto(c, "ticket")
      BY <1>7, <2>1 DEF PopTicket
    <2>3. /\ Entering' = Entering /\ Writing' = Writing
          /\ Leaving' = Leaving - 1 /\ Reading' = Reading + 1
      BY <2>2, ConsumerMoves, Counts DEF One
    <2>4. /\ enqueueSemaphore_' = enqueueSemaphore_
          /\ dequeueSemaphore_' = dequeueSemaphore_
          /\ pushTicket' = pushTicket /\ popTicket' = popTicket + 1
      BY <1>7, <2>1 DEF PopTicket, semaphores
    <2> QED BY <1>n, <2>3, <2>4 DEF Permits
  <1>8. ASSUME NEW c \in Consumers, ReadSlot(c) PROVE Permits'
    <2>1. pc[c] = "ticket" /\ Goto(c, "signal")
      BY <1>8 DEF ReadSlot
    <2>2. /\ Entering' = Entering /\ Writing' = Writing
          /\ Leaving' = Leaving /\ Reading' = Reading
      BY <2>1, ConsumerMoves, Counts DEF One
    <2>3. /\ enqueueSemaphore_' = enqueueSemaphore_
          /\ dequeueSemaphore_' = dequeueSemaphore_
          /\ pushTicket' = pushTicket /\ popTicket' = popTicket
      BY <1>8 DEF ReadSlot, semaphores
    <2> QED BY <1>n, <2>2, <2>3 DEF Permits
  <1>9. ASSUME NEW c \in Consumers, SignalEnqueue(c) PROVE Permits'
    <2>1. pc[c] = "signal" /\ Goto(c, "idle")
      BY <1>9 DEF SignalEnqueue
    <2>2. /\ Entering' = Entering /\ Writing' = Writing
          /\ Leaving' = Leaving /\ Reading' = Reading - 1
      BY <2>1, ConsumerMoves, Counts DEF One
    <2>3. /\ enqueueSemaphore_' = enqueueSemaphore_ + 1
          /\ dequeueSemaphore_' = dequeueSemaphore_
          /\ pushTicket' = pushTicket /\ popTicket' = popTicket
      BY <1>9 DEF SignalEnqueue, queue_
    <2> QED BY <1>n, <2>2, <2>3 DEF Permits
  <1>10. CASE UNCHANGED vars
    BY <1>10 DEF Permits, vars, semaphores, queue_, Entering, Writing, Leaving, Reading,
                Count, At
  <1> QED BY <1>2, <1>3, <1>4, <1>5, <1>6, <1>7, <1>8, <1>9, <1>10
          DEF Next, Enqueue, Dequeue

LEMMA PermitsInvariant == Spec => [](TypeOK /\ Permits)
  <1>1. Init => TypeOK /\ Permits
    BY TypeInit, PermitsInit
  <1>2. (TypeOK /\ Permits) /\ [Next]_vars => (TypeOK /\ Permits)'
    BY TypeStep, PermitsStep
  <1> QED BY <1>1, <1>2, PTL DEF Spec

(***************************************************************************)
(* Every permit is in its semaphore, with a caller, or in the queue as an  *)
(* item (bounded_queue.h lines 20-89).                                     *)
(***************************************************************************)
THEOREM EveryPermitAccounted == Spec => []PermitsAccounted
  BY PermitsInvariant, PermitsIs, PTL

(***************************************************************************)
(* The ignored results of writeIfNotFull and readIfNotEmpty are never      *)
(* false: nothing is dropped, and no unassigned item is returned.          *)
(***************************************************************************)
THEOREM TicketGuaranteed == Spec => []PermitGivesTicket
  <1>1. TypeOK /\ Permits => PermitGivesTicket
    BY PermitIsEnough
  <1> QED BY <1>1, PermitsInvariant, PTL

(***************************************************************************)
(* The queue in order.  The turn of a slot tells of every ticket that it   *)
(* ever serves whether the writer and whether the reader of that ticket    *)
(* has been there; no two callers have the same ticket; and a producer     *)
(* carries an item until it has written it.                                *)
(***************************************************************************)
Lap(k) == k \div Capacity

Written(k) ==
    k < pushTicket /\ \A p \in Producers : ~(pc[p] = "ticket" /\ ticket[p] = k)

Taken(k) ==
    k < popTicket /\ \A c \in Consumers : ~(pc[c] = "ticket" /\ ticket[c] = k)

TurnsCount(K) ==
    \A k \in K : /\ turn[Slot(k)] > 2 * Lap(k) <=> Written(k)
                 /\ turn[Slot(k)] > 2 * Lap(k) + 1 <=> Taken(k)

TicketsDiffer ==
    /\ \A p \in Producers : pc[p] = "ticket" => ticket[p] < pushTicket
    /\ \A c \in Consumers : pc[c] = "ticket" => ticket[c] < popTicket
    /\ \A p, q \in Producers :
          pc[p] = "ticket" /\ pc[q] = "ticket" /\ ticket[p] = ticket[q] => p = q
    /\ \A c, d \in Consumers :
          pc[c] = "ticket" /\ pc[d] = "ticket" /\ ticket[c] = ticket[d] => c = d

Carried == \A p \in Producers : pc[p] \in {"permit", "ticket"} => item[p] \in Items

FifoInv == TypeOK /\ Permits /\ TicketsDiffer /\ Carried /\ TurnsCount(Nat)

LEMMA SameTicket ==
    ASSUME NEW k \in Nat, NEW j \in Nat, Slot(j) = Slot(k), Lap(j) = Lap(k)
    PROVE  j = k
  <1>1. ASSUME NEW n \in Nat
        PROVE  n = (Capacity * (n \div Capacity)) + (n % Capacity)
    BY Constants
  <1> QED BY <1>1 DEF Slot, Lap

LEMMA LapType == ASSUME NEW k \in Nat PROVE Lap(k) \in Nat
  BY Constants DEF Lap

LEMMA TurnType == ASSUME TypeOK, NEW k \in Nat PROVE turn[Slot(k)] \in Nat
  BY SlotRange DEF TypeOK

LEMMA FifoInit == Init => FifoInv
  <1> SUFFICES ASSUME Init PROVE FifoInv
    OBVIOUS
  <1>1. TypeOK /\ Permits
    BY TypeInit, PermitsInit
  <1>2. TicketsDiffer /\ Carried
    BY DEF Init, TicketsDiffer, Carried, Callers
  <1>3. ASSUME NEW k \in Nat
        PROVE  /\ turn[Slot(k)] > 2 * Lap(k) <=> Written(k)
               /\ turn[Slot(k)] > 2 * Lap(k) + 1 <=> Taken(k)
    <2>1. turn[Slot(k)] = 0 /\ Lap(k) \in Nat
      BY SlotRange, LapType DEF Init
    <2>2. ~Written(k) /\ ~Taken(k)
      BY DEF Init, Written, Taken
    <2> QED BY <2>1, <2>2
  <1> QED BY <1>1, <1>2, <1>3 DEF FifoInv, TurnsCount

(***************************************************************************)
(* A step that neither takes a ticket nor works on a slot changes nothing  *)
(* of this.                                                                *)
(***************************************************************************)
LEMMA AsideStep ==
    ASSUME TypeOK, TicketsDiffer, TurnsCount(Nat),
           NEW p \in Callers, NEW point \in {"idle", "permit", "signal"},
           pc[p] # "ticket", Goto(p, point),
           UNCHANGED <<ticket, pushTicket, popTicket, turn>>
    PROVE  TicketsDiffer' /\ TurnsCount(Nat)'
  <1>1. \A q \in Callers : (pc'[q] = "ticket" <=> pc[q] = "ticket") /\ ticket'[q] = ticket[q]
    BY DEF Goto, TypeOK
  <1>2. Producers \subseteq Callers /\ Consumers \subseteq Callers
    BY DEF Callers
  <1>3. TicketsDiffer'
    BY <1>1, <1>2 DEF TicketsDiffer
  <1>4. \A k \in Nat : (Written(k)' <=> Written(k)) /\ (Taken(k)' <=> Taken(k))
    BY <1>1, <1>2 DEF Written, Taken
  <1>5. TurnsCount(Nat)'
    BY <1>4 DEF TurnsCount
  <1> QED BY <1>3, <1>5

LEMMA PushTicketStep ==
    ASSUME FifoInv, NEW p \in Producers, PushTicket(p)
    PROVE  TicketsDiffer' /\ TurnsCount(Nat)' /\ Carried'
  <1>1. ~QueueFull
    BY PermitIsEnough, Numbers DEF FifoInv, PermitGivesTicket, PushTicket, QueueFull
  <1>2. /\ pc[p] = "permit" /\ pc' = [pc EXCEPT ![p] = "ticket"]
        /\ ticket' = [ticket EXCEPT ![p] = pushTicket] /\ pushTicket' = pushTicket + 1
        /\ UNCHANGED <<item, popTicket, slot, turn>>
    BY <1>1 DEF PushTicket, Goto
  <1>3. Producers \subseteq Callers /\ Consumers \subseteq Callers /\ p \notin Consumers
    BY Constants DEF Callers
  <1>4. /\ pushTicket \in Nat /\ DOMAIN pc = Callers /\ DOMAIN ticket = Callers
        /\ \A q \in Callers : ticket[q] \in Nat
    BY DEF FifoInv, TypeOK
  <1>5. \A q \in Callers : q # p => pc'[q] = pc[q] /\ ticket'[q] = ticket[q]
    BY <1>2, <1>4
  <1>6. pc'[p] = "ticket" /\ ticket'[p] = pushTicket
    BY <1>2, <1>3, <1>4
  <1>7. \A q \in Producers : pc[q] = "ticket" => ticket[q] < pushTicket
    BY DEF FifoInv, TicketsDiffer
  <1>8. TicketsDiffer'
    <2>1. \A q \in Producers : pc'[q] = "ticket" => ticket'[q] < pushTicket'
      BY <1>2, <1>3, <1>4, <1>5, <1>6, <1>7
    <2>2. \A q, u \in Producers :
             pc'[q] = "ticket" /\ pc'[u] = "ticket" /\ ticket'[q] = ticket'[u] => q = u
      <3> SUFFICES ASSUME NEW q \in Producers, NEW u \in Producers, pc'[q] = "ticket",
                          pc'[u] = "ticket", ticket'[q] = ticket'[u]
                   PROVE  q = u
        OBVIOUS
      <3>1. CASE q # p /\ u # p
        BY <1>3, <1>5, <3>1 DEF FifoInv, TicketsDiffer
      <3>2. CASE q = p /\ u # p
        BY <1>3, <1>4, <1>5, <1>6, <1>7, <3>2
      <3>3. CASE q # p /\ u = p
        BY <1>3, <1>4, <1>5, <1>6, <1>7, <3>3
      <3> QED BY <3>1, <3>2, <3>3
    <2>3. \A c \in Consumers : pc'[c] = pc[c] /\ ticket'[c] = ticket[c]
      BY <1>3, <1>5
    <2> QED BY <1>2, <2>1, <2>2, <2>3 DEF FifoInv, TicketsDiffer
  <1>9. ASSUME NEW k \in Nat PROVE Written(k)' <=> Written(k)
    <2>1. CASE k = pushTicket
      BY <1>3, <1>4, <1>6, <2>1 DEF Written
    <2>2. CASE k # pushTicket
      <3>1. k < pushTicket' <=> k < pushTicket
        BY <1>2, <1>4, <2>2
      <3>2. \A q \in Producers : pc'[q] = "ticket" /\ ticket'[q] = k
                                    <=> pc[q] = "ticket" /\ ticket[q] = k
        BY <1>2, <1>3, <1>5, <1>6, <2>2
      <3> QED BY <3>1, <3>2 DEF Written
    <2> QED BY <2>1, <2>2
  <1>10. \A k \in Nat : Taken(k)' <=> Taken(k)
    BY <1>2, <1>3, <1>5 DEF Taken
  <1>11. TurnsCount(Nat)'
    BY <1>2, <1>9, <1>10 DEF FifoInv, TurnsCount
  <1>12. Carried'
    BY <1>2, <1>3, <1>5 DEF FifoInv, Carried
  <1> QED BY <1>8, <1>11, <1>12

LEMMA PopTicketStep ==
    ASSUME FifoInv, NEW c \in Consumers, PopTicket(c)
    PROVE  TicketsDiffer' /\ TurnsCount(Nat)' /\ Carried'
  <1>1. ~QueueEmpty
    BY PermitIsEnough, Numbers DEF FifoInv, PermitGivesTicket, PopTicket, QueueEmpty
  <1>2. /\ pc[c] = "permit" /\ pc' = [pc EXCEPT ![c] = "ticket"]
        /\ ticket' = [ticket EXCEPT ![c] = popTicket] /\ popTicket' = popTicket + 1
        /\ UNCHANGED <<item, pushTicket, slot, turn>>
    BY <1>1 DEF PopTicket, Goto
  <1>3. Producers \subseteq Callers /\ Consumers \subseteq Callers /\ c \notin Producers
    BY Constants DEF Callers
  <1>4. /\ popTicket \in Nat /\ DOMAIN pc = Callers /\ DOMAIN ticket = Callers
        /\ \A q \in Callers : ticket[q] \in Nat
    BY DEF FifoInv, TypeOK
  <1>5. \A q \in Callers : q # c => pc'[q] = pc[q] /\ ticket'[q] = ticket[q]
    BY <1>2, <1>4
  <1>6. pc'[c] = "ticket" /\ ticket'[c] = popTicket
    BY <1>2, <1>3, <1>4
  <1>7. \A q \in Consumers : pc[q] = "ticket" => ticket[q] < popTicket
    BY DEF FifoInv, TicketsDiffer
  <1>8. TicketsDiffer'
    <2>1. \A q \in Consumers : pc'[q] = "ticket" => ticket'[q] < popTicket'
      BY <1>2, <1>3, <1>4, <1>5, <1>6, <1>7
    <2>2. \A q, u \in Consumers :
             pc'[q] = "ticket" /\ pc'[u] = "ticket" /\ ticket'[q] = ticket'[u] => q = u
      <3> SUFFICES ASSUME NEW q \in Consumers, NEW u \in Consumers, pc'[q] = "ticket",
                          pc'[u] = "ticket", ticket'[q] = ticket'[u]
                   PROVE  q = u
        OBVIOUS
      <3>1. CASE q # c /\ u # c
        BY <1>3, <1>5, <3>1 DEF FifoInv, TicketsDiffer
      <3>2. CASE q = c /\ u # c
        BY <1>3, <1>4, <1>5, <1>6, <1>7, <3>2
      <3>3. CASE q # c /\ u = c
        BY <1>3, <1>4, <1>5, <1>6, <1>7, <3>3
      <3> QED BY <3>1, <3>2, <3>3
    <2>3. \A p \in Producers : pc'[p] = pc[p] /\ ticket'[p] = ticket[p]
      BY <1>3, <1>5
    <2> QED BY <1>2, <2>1, <2>2, <2>3 DEF FifoInv, TicketsDiffer
  <1>9. ASSUME NEW k \in Nat PROVE Taken(k)' <=> Taken(k)
    <2>1. CASE k = popTicket
      BY <1>3, <1>4, <1>6, <2>1 DEF Taken
    <2>2. CASE k # popTicket
      <3>1. k < popTicket' <=> k < popTicket
        BY <1>2, <1>4, <2>2
      <3>2. \A q \in Consumers : pc'[q] = "ticket" /\ ticket'[q] = k
                                    <=> pc[q] = "ticket" /\ ticket[q] = k
        BY <1>2, <1>3, <1>5, <1>6, <2>2
      <3> QED BY <3>1, <3>2 DEF Taken
    <2> QED BY <2>1, <2>2
  <1>10. \A k \in Nat : Written(k)' <=> Written(k)
    BY <1>2, <1>3, <1>5 DEF Written
  <1>11. TurnsCount(Nat)'
    BY <1>2, <1>9, <1>10 DEF FifoInv, TurnsCount
  <1>12. Carried'
    BY <1>2, <1>3, <1>5 DEF FifoInv, Carried
  <1> QED BY <1>8, <1>11, <1>12

(***************************************************************************)
(* The writer of a ticket, and then its reader, moves the turn of the      *)
(* ticket's slot on; for the other tickets of the slot that says nothing.  *)
(***************************************************************************)
LEMMA WriteSlotStep ==
    ASSUME FifoInv, NEW p \in Producers, WriteSlot(p)
    PROVE  TicketsDiffer' /\ TurnsCount(Nat)' /\ Carried'
  <1>1. PICK n \in Nat : n = ticket[p]
    BY DEF FifoInv, TypeOK, Callers
  <1>2. /\ pc[p] = "ticket" /\ pc' = [pc EXCEPT ![p] = "signal"]
        /\ turn[Slot(n)] = 2 * Lap(n)
        /\ turn' = [turn EXCEPT ![Slot(n)] = turn[Slot(n)] + 1]
        /\ UNCHANGED <<item, ticket, pushTicket, popTicket>>
    BY <1>1 DEF WriteSlot, Goto, Lap
  <1>3. Producers \subseteq Callers /\ Consumers \subseteq Callers /\ p \notin Consumers
    BY Constants DEF Callers
  <1>4. n \in Nat /\ n < pushTicket /\ Lap(n) \in Nat /\ Slot(n) \in 0..(Capacity - 1)
    BY <1>1, <1>2, <1>3, SlotRange, LapType DEF FifoInv, TypeOK, TicketsDiffer
  <1>5. pc'[p] = "signal" /\ \A q \in Callers : q # p => pc'[q] = pc[q]
    BY <1>2, <1>3 DEF FifoInv, TypeOK
  <1>6. TicketsDiffer' /\ Carried'
    BY <1>2, <1>3, <1>5 DEF FifoInv, TicketsDiffer, Carried
  <1>7. \A k \in Nat : Taken(k)' <=> Taken(k)
    BY <1>2, <1>3, <1>5 DEF Taken
  <1>8. ASSUME NEW k \in Nat, k # n PROVE Written(k)' <=> Written(k)
    <2>1. \A q \in Producers : pc'[q] = "ticket" /\ ticket[q] = k
                                  <=> pc[q] = "ticket" /\ ticket[q] = k
      BY <1>1, <1>3, <1>5, <1>8
    <2> QED BY <1>2, <2>1 DEF Written
  <1>9. Written(n)'
    <2>1. \A q \in Producers : q # p => ~(pc[q] = "ticket" /\ ticket[q] = n)
      BY <1>1, <1>2 DEF FifoInv, TicketsDiffer
    <2> QED BY <1>1, <1>2, <1>3, <1>4, <1>5, <2>1 DEF Written
  <1>10. /\ turn'[Slot(n)] = 2 * Lap(n) + 1
         /\ \A k \in Nat : Slot(k) # Slot(n) => turn'[Slot(k)] = turn[Slot(k)]
    BY <1>2, <1>4, SlotRange DEF FifoInv, TypeOK
  <1>11. ASSUME NEW k \in Nat
         PROVE  /\ turn'[Slot(k)] > 2 * Lap(k) <=> Written(k)'
                /\ turn'[Slot(k)] > 2 * Lap(k) + 1 <=> Taken(k)'
    <2>1. /\ turn[Slot(k)] > 2 * Lap(k) <=> Written(k)
          /\ turn[Slot(k)] > 2 * Lap(k) + 1 <=> Taken(k)
          /\ Lap(k) \in Nat
      BY LapType DEF FifoInv, TurnsCount
    <2>2. CASE k = n
      <3>1. turn'[Slot(k)] > 2 * Lap(k) /\ ~(turn'[Slot(k)] > 2 * Lap(k) + 1)
        BY <1>4, <1>10, <2>2
      <3>2. ~(turn[Slot(k)] > 2 * Lap(k) + 1)
        BY <1>2, <1>4, <2>2
      <3> QED BY <1>7, <1>9, <2>1, <2>2, <3>1, <3>2
    <2>3. CASE k # n /\ Slot(k) = Slot(n)
      <3>1. Lap(k) # Lap(n)
        BY <1>4, <2>3, SameTicket
      <3>2. /\ turn'[Slot(k)] > 2 * Lap(k) <=> turn[Slot(k)] > 2 * Lap(k)
            /\ turn'[Slot(k)] > 2 * Lap(k) + 1 <=> turn[Slot(k)] > 2 * Lap(k) + 1
        BY <1>2, <1>4, <1>10, <2>1, <2>3, <3>1
      <3> QED BY <1>7, <1>8, <2>1, <2>3, <3>2
    <2>4. CASE Slot(k) # Slot(n)
      <3>1. k # n
        BY <2>4
      <3> QED BY <1>7, <1>8, <1>10, <2>1, <2>4, <3>1
    <2> QED BY <2>2, <2>3, <2>4
  <1>12. TurnsCount(Nat)'
    BY <1>2, <1>11 DEF TurnsCount, Slot, Lap
  <1> QED BY <1>6, <1>12

LEMMA ReadSlotStep ==
    ASSUME FifoInv, NEW c \in Consumers, ReadSlot(c)
    PROVE  TicketsDiffer' /\ TurnsCount(Nat)' /\ Carried'
  <1>1. PICK n \in Nat : n = ticket[c]
    BY DEF FifoInv, TypeOK, Callers
  <1>2. /\ pc[c] = "ticket" /\ pc' = [pc EXCEPT ![c] = "signal"]
        /\ turn[Slot(n)] = 2 * Lap(n) + 1
        /\ turn' = [turn EXCEPT ![Slot(n)] = turn[Slot(n)] + 1]
        /\ item' = [item EXCEPT ![c] = slot[Slot(n)]]
        /\ UNCHANGED <<ticket, pushTicket, popTicket>>
    BY <1>1 DEF ReadSlot, Goto, Lap
  <1>3. Producers \subseteq Callers /\ Consumers \subseteq Callers /\ c \notin Producers
    BY Constants DEF Callers
  <1>4. n \in Nat /\ n < popTicket /\ Lap(n) \in Nat /\ Slot(n) \in 0..(Capacity - 1)
    BY <1>1, <1>2, <1>3, SlotRange, LapType DEF FifoInv, TypeOK, TicketsDiffer
  <1>5. /\ pc'[c] = "signal"
        /\ \A q \in Callers : q # c => pc'[q] = pc[q] /\ item'[q] = item[q]
    BY <1>2, <1>3 DEF FifoInv, TypeOK
  <1>6. TicketsDiffer' /\ Carried'
    BY <1>2, <1>3, <1>5 DEF FifoInv, TicketsDiffer, Carried
  <1>7. \A k \in Nat : Written(k)' <=> Written(k)
    BY <1>2, <1>3, <1>5 DEF Written
  <1>8. ASSUME NEW k \in Nat, k # n PROVE Taken(k)' <=> Taken(k)
    <2>1. \A q \in Consumers : pc'[q] = "ticket" /\ ticket[q] = k
                                  <=> pc[q] = "ticket" /\ ticket[q] = k
      BY <1>1, <1>3, <1>5, <1>8
    <2> QED BY <1>2, <2>1 DEF Taken
  <1>9. Taken(n)'
    <2>1. \A q \in Consumers : q # c => ~(pc[q] = "ticket" /\ ticket[q] = n)
      BY <1>1, <1>2 DEF FifoInv, TicketsDiffer
    <2> QED BY <1>1, <1>2, <1>3, <1>4, <1>5, <2>1 DEF Taken
  <1>10. /\ turn'[Slot(n)] = 2 * Lap(n) + 2
         /\ \A k \in Nat : Slot(k) # Slot(n) => turn'[Slot(k)] = turn[Slot(k)]
    BY <1>2, <1>4, SlotRange DEF FifoInv, TypeOK
  <1>11. ASSUME NEW k \in Nat
         PROVE  /\ turn'[Slot(k)] > 2 * Lap(k) <=> Written(k)'
                /\ turn'[Slot(k)] > 2 * Lap(k) + 1 <=> Taken(k)'
    <2>1. /\ turn[Slot(k)] > 2 * Lap(k) <=> Written(k)
          /\ turn[Slot(k)] > 2 * Lap(k) + 1 <=> Taken(k)
          /\ Lap(k) \in Nat
      BY LapType DEF FifoInv, TurnsCount
    <2>2. CASE k = n
      <3>1. turn'[Slot(k)] > 2 * Lap(k) /\ turn'[Slot(k)] > 2 * Lap(k) + 1
        BY <1>4, <1>10, <2>2
      <3>2. turn[Slot(k)] > 2 * Lap(k)
        BY <1>2, <1>4, <2>2
      <3> QED BY <1>7, <1>9, <2>1, <2>2, <3>1, <3>2
    <2>3. CASE k # n /\ Slot(k) = Slot(n)
      <3>1. Lap(k) # Lap(n)
        BY <1>4, <2>3, SameTicket
      <3>2. /\ turn'[Slot(k)] > 2 * Lap(k) <=> turn[Slot(k)] > 2 * Lap(k)
            /\ turn'[Slot(k)] > 2 * Lap(k) + 1 <=> turn[Slot(k)] > 2 * Lap(k) + 1
        BY <1>2, <1>4, <1>10, <2>1, <2>3, <3>1
      <3> QED BY <1>7, <1>8, <2>1, <2>3, <3>2
    <2>4. CASE Slot(k) # Slot(n)
      <3>1. k # n
        BY <2>4
      <3> QED BY <1>7, <1>8, <1>10, <2>1, <2>4, <3>1
    <2> QED BY <2>2, <2>3, <2>4
  <1>12. TurnsCount(Nat)'
    BY <1>2, <1>11 DEF TurnsCount, Slot, Lap
  <1> QED BY <1>6, <1>12

LEMMA FifoStep == FifoInv /\ [Next]_vars => FifoInv'
  <1> SUFFICES ASSUME FifoInv, [Next]_vars
               PROVE  TicketsDiffer' /\ TurnsCount(Nat)' /\ Carried'
    BY TypeStep, PermitsStep DEF FifoInv
  <1>1. Producers \subseteq Callers /\ Consumers \subseteq Callers
        /\ \A c \in Consumers : c \notin Producers
    BY Constants DEF Callers
  <1>2. ASSUME NEW p \in Producers, NEW x \in Items, EnqueueWait(p, x)
        PROVE  TicketsDiffer' /\ TurnsCount(Nat)' /\ Carried'
    <2>1. /\ pc[p] = "idle" /\ Goto(p, "permit") /\ item' = [item EXCEPT ![p] = x]
          /\ UNCHANGED <<ticket, pushTicket, popTicket, turn>>
      BY <1>2 DEF EnqueueWait, queue_
    <2>2. Carried'
      BY <1>1, <2>1 DEF FifoInv, TypeOK, Carried, Goto
    <2> QED BY <1>1, <2>1, <2>2, AsideStep DEF FifoInv
  <1>3. ASSUME NEW p \in Producers, SignalDequeue(p)
        PROVE  TicketsDiffer' /\ TurnsCount(Nat)' /\ Carried'
    <2>1. /\ pc[p] = "signal" /\ Goto(p, "idle")
          /\ UNCHANGED <<item, ticket, pushTicket, popTicket, turn>>
      BY <1>3 DEF SignalDequeue, queue_
    <2>2. Carried'
      BY <1>1, <2>1 DEF FifoInv, TypeOK, Carried, Goto
    <2> QED BY <1>1, <2>1, <2>2, AsideStep DEF FifoInv
  <1>4. ASSUME NEW c \in Consumers, DequeueWait(c) \/ SignalEnqueue(c)
        PROVE  TicketsDiffer' /\ TurnsCount(Nat)' /\ Carried'
    <2>1. /\ pc[c] # "ticket" /\ (Goto(c, "permit") \/ Goto(c, "idle"))
          /\ UNCHANGED <<item, ticket, pushTicket, popTicket, turn>>
      BY <1>4 DEF DequeueWait, SignalEnqueue, queue_
    <2>2. Carried'
      BY <1>1, <2>1 DEF FifoInv, TypeOK, Carried, Goto
    <2> QED BY <1>1, <2>1, <2>2, AsideStep DEF FifoInv
  <1>5. CASE UNCHANGED vars
    <2>1. UNCHANGED <<pc, item, ticket, pushTicket, popTicket, turn>>
      BY <1>5 DEF vars, queue_
    <2>2. \A k \in Nat : (Written(k)' <=> Written(k)) /\ (Taken(k)' <=> Taken(k))
      BY <2>1 DEF Written, Taken
    <2>3. TurnsCount(Nat)'
      BY <2>1, <2>2 DEF FifoInv, TurnsCount
    <2> QED BY <2>1, <2>3 DEF FifoInv, TicketsDiffer, Carried
  <1> QED BY <1>2, <1>3, <1>4, <1>5, PushTicketStep, WriteSlotStep, PopTicketStep, ReadSlotStep
          DEF Next, Enqueue, Dequeue

(***************************************************************************)
(* A ticket that has been taken by a producer and not yet read keeps its   *)
(* item, wherever it is.                                                   *)
(***************************************************************************)
Live(k) == k \in Nat /\ k < pushTicket /\ ~Taken(k)

Brings(p, k) == p \in Producers /\ pc[p] = "ticket" /\ ticket[p] = k

LEMMA SameItem ==
    ASSUME TicketsDiffer, NEW k,
           \A q \in Producers : Brings(q, k)' <=> Brings(q, k),
           \A q \in Producers : Brings(q, k) => item'[q] = item[q],
           (\A q \in Producers : ~Brings(q, k)) => slot'[Slot(k)] = slot[Slot(k)]
    PROVE  ItemOf(k)' = ItemOf(k)
  <1>1. CASE \E q \in Producers : Brings(q, k)
    <2>1. PICK q \in Producers : Brings(q, k)
      BY <1>1
    <2>2. \A u \in Producers : Brings(u, k) <=> u = q
      BY <2>1 DEF Brings, TicketsDiffer
    <2>3. \A u \in Producers : pc'[u] = "ticket" /\ ticket'[u] = k <=> u = q
      BY <2>2 DEF Brings
    <2>4. ItemOf(k) = item[q]
      BY <2>2 DEF Brings, ItemOf
    <2>5. ItemOf(k)' = item'[q]
      BY <2>3 DEF ItemOf
    <2> QED BY <2>1, <2>4, <2>5
  <1>2. CASE \A q \in Producers : ~Brings(q, k)
    <2>1. ItemOf(k) = slot[Slot(k)]
      BY <1>2 DEF Brings, ItemOf
    <2>2. \A q \in Producers : ~(pc'[q] = "ticket" /\ ticket'[q] = k)
      BY <1>2 DEF Brings
    <2>3. ItemOf(k)' = slot'[Slot(k)]
      BY <2>2 DEF ItemOf, Slot
    <2> QED BY <1>2, <2>1, <2>3
  <1> QED BY <1>1, <1>2

LEMMA LiveItem ==
    ASSUME FifoInv, [Next]_vars, NEW k, Live(k)
    PROVE  ItemOf(k)' = ItemOf(k)
  <1>1. /\ Producers \subseteq Callers /\ Consumers \subseteq Callers
        /\ \A c \in Consumers : c \notin Producers
        /\ k \in Nat /\ k < pushTicket /\ TicketsDiffer
        /\ DOMAIN pc = Callers /\ DOMAIN item = Callers /\ DOMAIN ticket = Callers
    BY Constants DEF Callers, Live, FifoInv, TypeOK
  <1>2. ASSUME NEW p \in Producers, NEW x \in Items, EnqueueWait(p, x)
        PROVE  ItemOf(k)' = ItemOf(k)
    <2>1. /\ pc[p] = "idle" /\ pc' = [pc EXCEPT ![p] = "permit"]
          /\ item' = [item EXCEPT ![p] = x] /\ UNCHANGED <<ticket, slot>>
      BY <1>2 DEF EnqueueWait, queue_, Goto
    <2>2. \A q \in Producers : (Brings(q, k)' <=> Brings(q, k)) /\ (q # p => item'[q] = item[q])
      BY <1>1, <2>1 DEF Brings
    <2>3. ~Brings(p, k)
      BY <2>1 DEF Brings
    <2> QED BY <1>1, <2>1, <2>2, <2>3, SameItem
  <1>3. ASSUME NEW p \in Producers, PushTicket(p) PROVE ItemOf(k)' = ItemOf(k)
    <2>1. /\ pc[p] = "permit" /\ UNCHANGED <<item, slot>>
          /\ \/ pc' = [pc EXCEPT ![p] = "signal"] /\ ticket' = ticket
             \/ pc' = [pc EXCEPT ![p] = "ticket"] /\ ticket' = [ticket EXCEPT ![p] = pushTicket]
      BY <1>3 DEF PushTicket, Goto
    <2>2. k # pushTicket
      BY <1>1 DEF FifoInv, TypeOK
    <2>3. ~Brings(p, k) /\ ~Brings(p, k)'
      BY <1>1, <2>1, <2>2 DEF Brings
    <2>4. \A q \in Producers : q # p => (Brings(q, k)' <=> Brings(q, k))
      BY <1>1, <2>1 DEF Brings
    <2> QED BY <1>1, <2>1, <2>3, <2>4, SameItem
  <1>4. ASSUME NEW p \in Producers, SignalDequeue(p) PROVE ItemOf(k)' = ItemOf(k)
    <2>1. /\ pc[p] = "signal" /\ pc' = [pc EXCEPT ![p] = "idle"]
          /\ UNCHANGED <<item, ticket, slot>>
      BY <1>4 DEF SignalDequeue, queue_, Goto
    <2>2. \A q \in Producers : Brings(q, k)' <=> Brings(q, k)
      BY <1>1, <2>1 DEF Brings
    <2> QED BY <1>1, <2>1, <2>2, SameItem
  <1>5. ASSUME NEW c \in Consumers, Dequeue(c) PROVE ItemOf(k)' = ItemOf(k)
    <2>1. slot' = slot /\ \A q \in Producers : /\ pc'[q] = pc[q] /\ ticket'[q] = ticket[q]
                                               /\ item'[q] = item[q]
      BY <1>1, <1>5 DEF Dequeue, DequeueWait, PopTicket, ReadSlot, SignalEnqueue, queue_, Goto
    <2>2. \A q \in Producers : Brings(q, k)' <=> Brings(q, k)
      BY <2>1 DEF Brings
    <2> QED BY <1>1, <2>1, <2>2, SameItem
  <1>6. ASSUME NEW p \in Producers, WriteSlot(p) PROVE ItemOf(k)' = ItemOf(k)
    <2> DEFINE n == ticket[p]
    <2>1. /\ pc[p] = "ticket" /\ pc' = [pc EXCEPT ![p] = "signal"]
          /\ turn[Slot(n)] = 2 * Lap(n)
          /\ slot' = [slot EXCEPT ![Slot(n)] = item[p]]
          /\ UNCHANGED <<item, ticket>>
      BY <1>6 DEF WriteSlot, Goto, Lap
    <2>2. n \in Nat /\ Lap(n) \in Nat /\ Slot(n) \in DOMAIN slot
      BY <1>1, SlotRange, LapType DEF FifoInv, TypeOK
    <2>3. \A q \in Producers : q # p => (Brings(q, k)' <=> Brings(q, k))
      BY <1>1, <2>1 DEF Brings
    <2>4. CASE k = n
      <3>1. \A u \in Producers : pc[u] = "ticket" /\ ticket[u] = k <=> u = p
        BY <1>1, <2>1, <2>4 DEF TicketsDiffer
      <3>2. ItemOf(k) = item[p]
        BY <3>1 DEF ItemOf
      <3>3. \A u \in Producers : ~(pc'[u] = "ticket" /\ ticket'[u] = k)
        BY <1>1, <2>1, <3>1
      <3>4. ItemOf(k)' = slot'[Slot(k)]
        BY <3>3 DEF ItemOf, Slot
      <3> QED BY <2>1, <2>2, <2>4, <3>2, <3>4
    <2>5. CASE k # n
      <3>1. \A q \in Producers : Brings(q, k)' <=> Brings(q, k)
        <4>1. ~Brings(p, k) /\ ~Brings(p, k)'
          BY <2>1, <2>5 DEF Brings
        <4> QED BY <2>3, <4>1
      <3>2. ASSUME \A q \in Producers : ~Brings(q, k) PROVE slot'[Slot(k)] = slot[Slot(k)]
        <4>1. Written(k)
          BY <1>1, <3>2 DEF Brings, Written
        <4>2. turn[Slot(k)] = 2 * Lap(k) + 1
          <5>1. turn[Slot(k)] > 2 * Lap(k) /\ ~(turn[Slot(k)] > 2 * Lap(k) + 1)
            BY <1>1, <4>1 DEF FifoInv, TurnsCount, Live
          <5>2. turn[Slot(k)] \in Nat /\ Lap(k) \in Nat
            BY <1>1, TurnType, LapType DEF FifoInv
          <5> QED BY <5>1, <5>2
        <4>3. Lap(k) \in Nat
          BY <1>1, LapType
        <4>4. Slot(k) # Slot(n)
          <5> HIDE DEF n
          <5> QED BY <2>1, <2>2, <4>2, <4>3
        <4> QED BY <2>1, <4>4
      <3> QED BY <1>1, <2>1, <3>1, <3>2, SameItem
    <2> QED BY <2>4, <2>5
  <1>7. CASE UNCHANGED vars
    BY <1>7 DEF vars, queue_, ItemOf, Slot
  <1> QED BY <1>2, <1>3, <1>4, <1>5, <1>6, <1>7 DEF Next, Enqueue

(***************************************************************************)
(* The refinement: the queue that the tickets stand for, and what each     *)
(* consumer has taken out.                                                 *)
(***************************************************************************)
Stands == [i \in 1..(pushTicket - popTicket) |-> ItemOf(popTicket + i - 1)]

Holds == [c \in Consumers |-> IF pc[c] = "ticket" THEN ItemOf(ticket[c]) ELSE item[c]]

LEMMA Lengths ==
    ASSUME FifoInv
    PROVE  /\ pushTicket \in Nat /\ popTicket \in Nat /\ pushTicket - popTicket \in Nat
           /\ \A i \in 1..(pushTicket - popTicket) : Live(popTicket + i - 1)
           /\ \A c \in Consumers : pc[c] = "ticket" => Live(ticket[c])
  <1>1. /\ pushTicket \in Nat /\ popTicket \in Nat /\ dequeueSemaphore_ \in Nat
        /\ \A c \in Consumers : ticket[c] \in Nat
    BY DEF FifoInv, TypeOK, Callers
  <1>2. pushTicket - popTicket \in Nat
    BY <1>1, Counts DEF FifoInv, Permits
  <1>3. ASSUME NEW i \in 1..(pushTicket - popTicket) PROVE Live(popTicket + i - 1)
    <2> DEFINE k == popTicket + i - 1
    <2>1. k \in Nat /\ k < pushTicket /\ ~(k < popTicket)
      BY <1>1, <1>2
    <2> QED BY <2>1 DEF Live, Taken
  <1>4. ASSUME NEW c \in Consumers, pc[c] = "ticket" PROVE Live(ticket[c])
    <2>1. ticket[c] < popTicket
      BY <1>4 DEF FifoInv, TicketsDiffer
    <2> QED BY <1>1, <1>2, <1>4, <2>1 DEF Live, Taken
  <1> QED BY <1>1, <1>2, <1>3, <1>4

LEMMA StandsSeq ==
    ASSUME FifoInv
    PROVE  \E S : Stands \in Seq(S) /\ Len(Stands) = pushTicket - popTicket /\ Items \subseteq S
  <1> DEFINE n == pushTicket - popTicket
             S == Items \cup {Stands[i] : i \in 1..n}
  <1>1. n \in Nat
    BY Lengths
  <1>2. Stands \in [1..n -> S]
    BY DEF Stands
  <1>3. Stands \in Seq(S)
    BY <1>1, <1>2, SeqDef
  <1>4. Len(Stands) = n
    <2>1. DOMAIN Stands = 1..n /\ DOMAIN Stands = 1..Len(Stands) /\ Len(Stands) \in Nat
      BY <1>2, <1>3, LenProperties
    <2> HIDE DEF n
    <2> QED BY <1>1, <2>1
  <1> QED BY <1>3, <1>4

(***************************************************************************)
(* A step that takes no ticket is a stutter of the queue.                  *)
(***************************************************************************)
LEMMA QueueStays ==
    ASSUME FifoInv, [Next]_vars, UNCHANGED <<pushTicket, popTicket>>
    PROVE  Stands' = Stands
  BY Lengths, LiveItem DEF Stands

LEMMA HoldsStays ==
    ASSUME FifoInv, [Next]_vars,
           \A c \in Consumers : /\ pc'[c] = "ticket" <=> pc[c] = "ticket"
                                /\ ticket'[c] = ticket[c] /\ item'[c] = item[c]
    PROVE  Holds' = Holds
  <1>1. \A c \in Consumers : pc[c] = "ticket" => ItemOf(ticket[c])' = ItemOf(ticket[c])
    <2> SUFFICES ASSUME NEW c \in Consumers, pc[c] = "ticket"
                 PROVE  ItemOf(ticket[c])' = ItemOf(ticket[c])
      OBVIOUS
    <2>1. PICK k : k = ticket[c]
      OBVIOUS
    <2>2. ItemOf(k)' = ItemOf(k)
      BY <2>1, Lengths, LiveItem
    <2>3. ticket'[c] = k
      BY <2>1
    <2> QED BY <2>1, <2>2, <2>3
  <1> QED BY <1>1 DEF Holds

(***************************************************************************)
(* The ticket of a producer puts its item behind all others.               *)
(***************************************************************************)
LEMMA PushIsPut ==
    ASSUME FifoInv, [Next]_vars, NEW p \in Producers, PushTicket(p)
    PROVE  /\ item[p] \in Items /\ Len(Stands) < Capacity
           /\ Stands' = Append(Stands, item[p]) /\ Holds' = Holds
  <1>1. ~QueueFull
    BY PermitIsEnough, Numbers DEF FifoInv, PermitGivesTicket, PushTicket, QueueFull
  <1>2. /\ pc[p] = "permit" /\ pc' = [pc EXCEPT ![p] = "ticket"]
        /\ ticket' = [ticket EXCEPT ![p] = pushTicket] /\ pushTicket' = pushTicket + 1
        /\ UNCHANGED <<item, popTicket, slot>>
    BY <1>1 DEF PushTicket, Goto
  <1>3. /\ DOMAIN pc = Callers /\ DOMAIN ticket = Callers /\ p \in Callers
        /\ \A c \in Consumers : c \in Callers /\ c # p
    BY Constants DEF FifoInv, TypeOK, Callers
  <1>4. item[p] \in Items
    BY <1>2 DEF FifoInv, Carried
  <1>5. PICK S : Stands \in Seq(S) /\ Len(Stands) = pushTicket - popTicket /\ Items \subseteq S
    BY StandsSeq
  <1>6. pushTicket \in Nat /\ popTicket \in Nat /\ Len(Stands) \in Nat
    BY <1>5, Lengths
  <1>7. Len(Stands) < Capacity
    BY <1>1, <1>5, <1>6, Constants DEF QueueFull
  <1>8. PICK k \in Nat : k = pushTicket
    BY <1>6
  <1>9. ItemOf(k)' = item[p]
    <2>1. \A q \in Producers : pc'[q] = "ticket" /\ ticket'[q] = k <=> q = p
      <3> SUFFICES ASSUME NEW q \in Producers, q # p, pc'[q] = "ticket", ticket'[q] = k
                   PROVE  FALSE
        BY <1>2, <1>3, <1>8
      <3>1. pc[q] = "ticket" /\ ticket[q] = k /\ q \in Callers
        BY <1>2, <1>3 DEF Callers
      <3>2. ticket[q] < pushTicket
        BY <3>1 DEF FifoInv, TicketsDiffer
      <3> QED BY <1>6, <1>8, <3>1, <3>2
    <2> QED BY <1>2, <2>1 DEF ItemOf
  <1>10. Stands' = Append(Stands, item[p])
    <2> DEFINE t == Append(Stands, item[p])
               m == pushTicket - popTicket
    <2>1. /\ DOMAIN t = 1..(m + 1) /\ t \in [1..(m + 1) -> S]
          /\ t[m + 1] = item[p] /\ \A i \in 1..m : t[i] = Stands[i]
      <3>1. /\ t \in Seq(S) /\ Len(t) = Len(Stands) + 1 /\ t[Len(Stands) + 1] = item[p]
            /\ \A i \in 1..Len(Stands) : t[i] = Stands[i]
        BY <1>4, <1>5, AppendProperties
      <3>2. t \in [1..Len(t) -> S] /\ DOMAIN t = 1..Len(t)
        BY <3>1, LenProperties
      <3> QED BY <1>5, <3>1, <3>2
    <2>2. Stands' = [i \in 1..(m + 1) |-> ItemOf(popTicket + i - 1)']
      BY <1>2, <1>6 DEF Stands
    <2>3. ASSUME NEW i \in 1..(m + 1) PROVE Stands'[i] = t[i]
      <3>1. m \in Nat
        BY Lengths
      <3>2. CASE i = m + 1
        <4>1. popTicket + i - 1 = k /\ popTicket' + i - 1 = k
          BY <1>2, <1>6, <1>8, <3>2
        <4>2. Stands'[i] = ItemOf(popTicket + i - 1)'
          BY <2>2
        <4>3. ItemOf(popTicket + i - 1)' = ItemOf(k)'
          BY <4>1
        <4> QED BY <1>9, <2>1, <3>2, <4>2, <4>3
      <3>3. CASE i # m + 1
        <4>1. i \in 1..m
          BY <3>1, <3>3
        <4>2. PICK j : j = popTicket + i - 1
          OBVIOUS
        <4>3. ItemOf(j)' = ItemOf(j)
          BY <4>1, <4>2, Lengths, LiveItem
        <4>4. popTicket' + i - 1 = j
          BY <1>2, <4>2
        <4>5. Stands'[i] = ItemOf(j)'
          BY <2>2, <4>4
        <4>6. Stands[i] = ItemOf(j)
          BY <4>1, <4>2 DEF Stands
        <4> QED BY <2>1, <4>1, <4>3, <4>5, <4>6
      <3> QED BY <3>2, <3>3
    <2>4. DOMAIN Stands' = 1..(m + 1) /\ Stands' = [i \in 1..(m + 1) |-> Stands'[i]]
      BY <2>2
    <2> QED BY <2>1, <2>3, <2>4
  <1>11. Holds' = Holds
    BY <1>2, <1>3, HoldsStays
  <1> QED BY <1>4, <1>7, <1>10, <1>11

(***************************************************************************)
(* The ticket of a consumer takes the oldest item out.                     *)
(***************************************************************************)
LEMMA PopIsTake ==
    ASSUME FifoInv, [Next]_vars, NEW c \in Consumers, PopTicket(c)
    PROVE  /\ Stands # <<>> /\ Stands' = Tail(Stands)
           /\ Holds' = [Holds EXCEPT ![c] = Head(Stands)]
  <1>1. ~QueueEmpty
    BY PermitIsEnough, Numbers DEF FifoInv, PermitGivesTicket, PopTicket, QueueEmpty
  <1>2. /\ pc[c] = "permit" /\ pc' = [pc EXCEPT ![c] = "ticket"]
        /\ ticket' = [ticket EXCEPT ![c] = popTicket] /\ popTicket' = popTicket + 1
        /\ UNCHANGED <<item, pushTicket, slot>>
    BY <1>1 DEF PopTicket, Goto
  <1>3. DOMAIN pc = Callers /\ DOMAIN ticket = Callers /\ Consumers \subseteq Callers
    BY DEF FifoInv, TypeOK, Callers
  <1>4. PICK S : Stands \in Seq(S) /\ Len(Stands) = pushTicket - popTicket
    BY StandsSeq
  <1>5. pushTicket \in Nat /\ popTicket \in Nat /\ Len(Stands) \in Nat \ {0}
    BY <1>1, <1>4, Lengths DEF QueueEmpty
  <1>6. Stands # <<>>
    BY <1>4, <1>5, EmptySeq
  <1> DEFINE m == pushTicket - popTicket
             t == Tail(Stands)
  <1>7. /\ t \in [1..(m - 1) -> S] /\ DOMAIN t = 1..(m - 1)
        /\ \A i \in 1..(m - 1) : t[i] = Stands[i + 1]
    <2>1. t \in Seq(S) /\ Len(t) = m - 1 /\ \A i \in 1..Len(t) : t[i] = Stands[i + 1]
      BY <1>4, <1>6, HeadTailProperties
    <2> QED BY <2>1, LenProperties
  <1>8. Stands' = [i \in 1..(m - 1) |-> ItemOf(popTicket + i - 1)']
    <2>1. pushTicket' - popTicket' = m - 1
      BY <1>2, <1>5
    <2> QED BY <2>1 DEF Stands
  <1>9. ASSUME NEW i \in 1..(m - 1) PROVE Stands'[i] = t[i]
    <2>1. m \in Nat /\ i + 1 \in 1..m
      BY <1>5, Lengths
    <2>2. PICK j : j = popTicket + (i + 1) - 1
      OBVIOUS
    <2>3. ItemOf(j)' = ItemOf(j)
      BY <2>1, <2>2, Lengths, LiveItem
    <2>4. popTicket' + i - 1 = j
      BY <1>2, <1>5, <2>2
    <2>5. Stands'[i] = ItemOf(j)'
      BY <1>8, <2>4
    <2>6. Stands[i + 1] = ItemOf(j)
      BY <2>1, <2>2 DEF Stands
    <2> QED BY <1>7, <2>3, <2>5, <2>6
  <1>10. Stands' = t
    <2>1. DOMAIN Stands' = 1..(m - 1) /\ Stands' = [i \in 1..(m - 1) |-> Stands'[i]]
      BY <1>8
    <2> QED BY <1>7, <1>9, <2>1
  <1>11. Holds'[c] = Head(Stands)
    <2>1. PICK k : k = popTicket
      OBVIOUS
    <2>2. 1 \in 1..m /\ popTicket + 1 - 1 = k
      BY <1>4, <1>5, <2>1
    <2>3. Head(Stands) = ItemOf(k)
      BY <1>4, <1>6, <2>2 DEF Stands
    <2>4. ItemOf(k)' = ItemOf(k)
      BY <2>1, <2>2, Lengths, LiveItem
    <2>5. pc'[c] = "ticket" /\ ticket'[c] = k
      BY <1>2, <1>3, <2>1
    <2>6. Holds'[c] = ItemOf(k)'
      BY <2>5 DEF Holds
    <2> QED BY <2>3, <2>4, <2>6
  <1>12. ASSUME NEW d \in Consumers, d # c PROVE Holds'[d] = Holds[d]
    <2>1. pc'[d] = pc[d] /\ ticket'[d] = ticket[d] /\ item'[d] = item[d]
      BY <1>2, <1>3, <1>12
    <2>2. CASE pc[d] = "ticket"
      <3>1. PICK k : k = ticket[d]
        OBVIOUS
      <3>2. ItemOf(k)' = ItemOf(k)
        BY <2>2, <3>1, Lengths, LiveItem
      <3>3. Holds'[d] = ItemOf(k)'
        BY <2>1, <2>2, <3>1 DEF Holds
      <3> QED BY <2>2, <3>1, <3>2, <3>3 DEF Holds
    <2>3. CASE pc[d] # "ticket"
      BY <2>1, <2>3 DEF Holds
    <2> QED BY <2>2, <2>3
  <1>13. Holds' = [Holds EXCEPT ![c] = Head(Stands)]
    BY <1>11, <1>12 DEF Holds
  <1> QED BY <1>6, <1>10, <1>13

(***************************************************************************)
(* What a consumer reads from its slot is what it took out.                *)
(***************************************************************************)
LEMMA ReadIsHeld ==
    ASSUME FifoInv, [Next]_vars, NEW c \in Consumers, ReadSlot(c)
    PROVE  Stands' = Stands /\ Holds' = Holds
  <1>1. PICK k \in Nat : k = ticket[c]
    BY DEF FifoInv, TypeOK, Callers
  <1>2. /\ pc[c] = "ticket" /\ pc' = [pc EXCEPT ![c] = "signal"]
        /\ turn[Slot(k)] = 2 * Lap(k) + 1
        /\ item' = [item EXCEPT ![c] = slot[Slot(k)]]
        /\ UNCHANGED <<ticket, pushTicket, popTicket, slot>>
    BY <1>1 DEF ReadSlot, Goto, Lap
  <1>3. /\ DOMAIN pc = Callers /\ DOMAIN item = Callers /\ Consumers \subseteq Callers
    BY DEF FifoInv, TypeOK, Callers
  <1>4. ItemOf(k) = slot[Slot(k)]
    <2>1. turn[Slot(k)] > 2 * Lap(k)
      BY <1>2, LapType
    <2>2. Written(k)
      BY <2>1 DEF FifoInv, TurnsCount
    <2> QED BY <2>2 DEF Written, ItemOf
  <1>5. Holds'[c] = Holds[c]
    BY <1>1, <1>2, <1>3, <1>4 DEF Holds
  <1>6. ASSUME NEW d \in Consumers, d # c PROVE Holds'[d] = Holds[d]
    <2>1. pc'[d] = pc[d] /\ ticket'[d] = ticket[d] /\ item'[d] = item[d]
      BY <1>2, <1>3, <1>6
    <2>2. CASE pc[d] = "ticket"
      <3>1. PICK j : j = ticket[d]
        OBVIOUS
      <3>2. ItemOf(j)' = ItemOf(j)
        BY <2>2, <3>1, Lengths, LiveItem
      <3>3. Holds'[d] = ItemOf(j)'
        BY <2>1, <2>2, <3>1 DEF Holds
      <3> QED BY <2>2, <3>1, <3>2, <3>3 DEF Holds
    <2>3. CASE pc[d] # "ticket"
      BY <2>1, <2>3 DEF Holds
    <2> QED BY <2>2, <2>3
  <1>7. Holds' = Holds
    BY <1>5, <1>6 DEF Holds
  <1> QED BY <1>2, <1>7, QueueStays

LEMMA QueueStep ==
    ASSUME FifoInv, [Next]_vars
    PROVE  [Fifo!Next]_<<Stands, Holds>>
  <1>1. \A p \in Producers : p \notin Consumers
    BY Constants
  <1>2. ASSUME NEW p \in Producers, PushTicket(p) PROVE Fifo!Next
    <2>1. Fifo!Put(item[p])
      BY <1>2, PushIsPut DEF Fifo!Put, Stands, Holds
    <2> QED BY <1>2, <2>1, PushIsPut DEF Fifo!Next
  <1>3. ASSUME NEW c \in Consumers, PopTicket(c) PROVE Fifo!Next
    <2>1. Fifo!Take(c)
      BY <1>3, PopIsTake DEF Fifo!Take, Stands, Holds
    <2> QED BY <2>1 DEF Fifo!Next
  <1>4. ASSUME NEW c \in Consumers, ReadSlot(c) PROVE UNCHANGED <<Stands, Holds>>
    BY <1>4, ReadIsHeld
  <1>5. ASSUME NEW p \in Producers,
               (\E x \in Items : EnqueueWait(p, x)) \/ WriteSlot(p) \/ SignalDequeue(p)
        PROVE  UNCHANGED <<Stands, Holds>>
    <2>1. /\ UNCHANGED <<ticket, pushTicket, popTicket>>
          /\ \A c \in Consumers : pc'[c] = pc[c] /\ item'[c] = item[c]
      BY <1>1, <1>5
         DEF EnqueueWait, WriteSlot, SignalDequeue, queue_, Goto, FifoInv, TypeOK, Callers
    <2> QED BY <2>1, QueueStays, HoldsStays
  <1>6. ASSUME NEW c \in Consumers, DequeueWait(c) \/ SignalEnqueue(c)
        PROVE  UNCHANGED <<Stands, Holds>>
    <2>1. /\ pc[c] # "ticket" /\ (Goto(c, "permit") \/ Goto(c, "idle"))
          /\ UNCHANGED <<item, ticket, pushTicket, popTicket>>
      BY <1>6 DEF DequeueWait, SignalEnqueue, queue_
    <2>2. \A d \in Consumers : pc'[d] = "ticket" <=> pc[d] = "ticket"
      BY <2>1 DEF Goto, FifoInv, TypeOK, Callers
    <2> QED BY <2>1, <2>2, QueueStays, HoldsStays
  <1>7. CASE UNCHANGED vars
    <2>1. UNCHANGED <<pc, item, ticket, pushTicket, popTicket>>
      BY <1>7 DEF vars, queue_
    <2> QED BY <2>1, QueueStays, HoldsStays
  <1> QED BY <1>2, <1>3, <1>4, <1>5, <1>6, <1>7 DEF Next, Enqueue, Dequeue

(***************************************************************************)
(* BoundedQueue implements BoundedFifo: first in, first out, nothing lost, *)
(* nothing made up, and never more than Capacity.                          *)
(***************************************************************************)
THEOREM QueueIsFifo == Spec => IsFifo
  <1>1. Init => Fifo!Init
    <2> SUFFICES ASSUME Init PROVE Stands = <<>> /\ Holds = [c \in Consumers |-> NoItem]
      BY DEF Fifo!Init, Stands, Holds
    <2>1. FifoInv /\ pushTicket - popTicket = 0
      BY FifoInit DEF Init
    <2>2. Stands = <<>>
      BY <2>1, StandsSeq, EmptySeq
    <2>3. Holds = [c \in Consumers |-> NoItem]
      BY DEF Init, Holds, Callers
    <2> QED BY <2>2, <2>3
  <1>2. FifoInv /\ [Next]_vars => [Fifo!Next]_(Fifo!vars)
    BY QueueStep DEF Fifo!vars, Stands, Holds
  <1>3. Init => FifoInv
    BY FifoInit
  <1>4. FifoInv /\ [Next]_vars => FifoInv'
    BY FifoStep
  <1> QED BY <1>1, <1>2, <1>3, <1>4, PTL DEF Spec, IsFifo, Fifo!Spec
=============================================================================
