---------------------------- MODULE BoundedQueue ----------------------------
(***************************************************************************)
(* infra/bounded_queue.h: an MPMC ring of slots between two semaphores.    *)
(* A caller takes a permit, then a ticket, works on the slot of its        *)
(* ticket, and gives a permit to the other side.  The results of           *)
(* writeIfNotFull and readIfNotEmpty are not looked at: were there no      *)
(* ticket to be had, the item would be dropped, or a default one returned. *)
(*                                                                         *)
(* folly::MPMCQueue and folly::fibers::Semaphore are not in the            *)
(* repository.  They are modelled by how this class uses them: a ticket is *)
(* refused when the queue is full or empty as counted in tickets, each     *)
(* slot serves its tickets in turn, and a semaphore is a counter.          *)
(***************************************************************************)
EXTENDS Integers, Sequences, FiniteSets

CONSTANTS Producers, Consumers,
          Items,       \* what is put in; each producer its own, in order
          Capacity,
          Rounds,      \* bound: items that each producer puts in
          NoItem       \* a T item; that has not been assigned

ASSUME QueueAssumption ==
    /\ Capacity \in Nat \ {0}
    /\ Rounds \in Nat
    /\ NoItem \notin Items
    /\ Producers \cap Consumers = {}
    /\ IsFiniteSet(Producers) /\ IsFiniteSet(Consumers)

VARIABLES
    pc, item, ticket,    \* of each caller
    rounds,              \* how many items each producer has put in
    enqueueSemaphore_, dequeueSemaphore_,
    pushTicket, popTicket,
    slot,                \* what the slots hold
    turn                 \* of each slot: even to be written, odd to be read

Callers == Producers \cup Consumers

semaphores == <<enqueueSemaphore_, dequeueSemaphore_>>
queue_     == <<pushTicket, popTicket, slot, turn>>
vars       == <<pc, item, ticket, rounds, semaphores, queue_>>

TypeOK ==
    /\ pc \in [Callers -> {"idle", "permit", "ticket", "signal"}]
    /\ item \in [Callers -> Items \cup {NoItem}]
    /\ ticket \in [Callers -> Nat]
    /\ rounds \in [Producers -> 0..Rounds]
    /\ enqueueSemaphore_ \in Nat /\ dequeueSemaphore_ \in Nat
    /\ pushTicket \in Nat /\ popTicket \in Nat
    /\ slot \in [0..(Capacity - 1) -> Items \cup {NoItem}]
    /\ turn \in [0..(Capacity - 1) -> Nat]

Init ==
    /\ pc = [p \in Callers |-> "idle"]
    /\ item = [p \in Callers |-> NoItem]
    /\ ticket = [p \in Callers |-> 0]
    /\ rounds = [p \in Producers |-> 0]
    /\ enqueueSemaphore_ = Capacity /\ dequeueSemaphore_ = 0
    /\ pushTicket = 0 /\ popTicket = 0
    /\ slot = [s \in 0..(Capacity - 1) |-> NoItem]
    /\ turn = [s \in 0..(Capacity - 1) |-> 0]

Goto(p, point) == pc' = [pc EXCEPT ![p] = point]

Slot(k) == k % Capacity

(***************************************************************************)
(* enqueue, co_enqueue and try_enqueue: they differ in what they do when   *)
(* there is no permit, wait or give up, and neither changes the queue.     *)
(***************************************************************************)
\* MUTANT of EnqueueWait: the result of try_wait is not looked at.
EnqueueUnchecked(p, x) ==
    /\ pc[p] = "idle" /\ rounds[p] < Rounds
    /\ enqueueSemaphore_' = IF enqueueSemaphore_ > 0 THEN enqueueSemaphore_ - 1 ELSE 0
    /\ item' = [item EXCEPT ![p] = x]
    /\ rounds' = [rounds EXCEPT ![p] = @ + 1]
    /\ Goto(p, "permit")
    /\ UNCHANGED <<ticket, dequeueSemaphore_, queue_>>

EnqueueWait(p, x) ==
    /\ pc[p] = "idle" /\ rounds[p] < Rounds
    /\ enqueueSemaphore_ > 0
    /\ enqueueSemaphore_' = enqueueSemaphore_ - 1
    /\ item' = [item EXCEPT ![p] = x]
    /\ rounds' = [rounds EXCEPT ![p] = @ + 1]
    /\ Goto(p, "permit")
    /\ UNCHANGED <<ticket, dequeueSemaphore_, queue_>>

QueueFull == pushTicket - popTicket >= Capacity

\* writeIfNotFull takes a ticket, or returns false and the item is gone.
PushTicket(p) ==
    /\ p \in Producers /\ pc[p] = "permit"
    /\ IF QueueFull
       THEN /\ Goto(p, "signal")
            /\ UNCHANGED <<ticket, pushTicket>>
       ELSE /\ ticket' = [ticket EXCEPT ![p] = pushTicket]
            /\ pushTicket' = pushTicket + 1
            /\ Goto(p, "ticket")
    /\ UNCHANGED <<item, rounds, semaphores, popTicket, slot, turn>>

\* Waits for the reader of the ticket that had the slot a lap before.
WriteSlot(p) ==
    /\ p \in Producers /\ pc[p] = "ticket"
    /\ turn[Slot(ticket[p])] = 2 * (ticket[p] \div Capacity)
    /\ slot' = [slot EXCEPT ![Slot(ticket[p])] = item[p]]
    /\ turn' = [turn EXCEPT ![Slot(ticket[p])] = @ + 1]
    /\ Goto(p, "signal")
    /\ UNCHANGED <<item, ticket, rounds, semaphores, pushTicket, popTicket>>

\* MUTANT of SignalDequeue: the signal is forgotten.
SignalForgotten(p) ==
    /\ p \in Producers /\ pc[p] = "signal"
    /\ Goto(p, "idle")
    /\ UNCHANGED <<item, ticket, rounds, semaphores, queue_>>

SignalDequeue(p) ==
    /\ p \in Producers /\ pc[p] = "signal"
    /\ dequeueSemaphore_' = dequeueSemaphore_ + 1
    /\ Goto(p, "idle")
    /\ UNCHANGED <<item, ticket, rounds, enqueueSemaphore_, queue_>>

(***************************************************************************)
(* dequeue, co_dequeue and try_dequeue.                                    *)
(***************************************************************************)
\* MUTANT of DequeueWait: it does not wait.
DequeueUnguarded(c) ==
    /\ pc[c] = "idle"
    /\ dequeueSemaphore_' = dequeueSemaphore_ - 1
    /\ Goto(c, "permit")
    /\ UNCHANGED <<item, ticket, rounds, enqueueSemaphore_, queue_>>

DequeueWait(c) ==
    /\ pc[c] = "idle"
    /\ dequeueSemaphore_ > 0
    /\ dequeueSemaphore_' = dequeueSemaphore_ - 1
    /\ Goto(c, "permit")
    /\ UNCHANGED <<item, ticket, rounds, enqueueSemaphore_, queue_>>

QueueEmpty == popTicket >= pushTicket

\* readIfNotEmpty takes a ticket, or returns false and item stays as it was.
PopTicket(c) ==
    /\ c \in Consumers /\ pc[c] = "permit"
    /\ IF QueueEmpty
       THEN /\ item' = [item EXCEPT ![c] = NoItem]
            /\ Goto(c, "signal")
            /\ UNCHANGED <<ticket, popTicket>>
       ELSE /\ ticket' = [ticket EXCEPT ![c] = popTicket]
            /\ popTicket' = popTicket + 1
            /\ Goto(c, "ticket")
            /\ UNCHANGED item
    /\ UNCHANGED <<rounds, semaphores, pushTicket, slot, turn>>

\* MUTANT of ReadSlot: it does not wait for the writer.
ReadEarly(c) ==
    /\ c \in Consumers /\ pc[c] = "ticket"
    /\ item' = [item EXCEPT ![c] = slot[Slot(ticket[c])]]
    /\ turn' = [turn EXCEPT ![Slot(ticket[c])] = @ + 1]
    /\ Goto(c, "signal")
    /\ UNCHANGED <<ticket, rounds, semaphores, pushTicket, popTicket, slot>>

\* Waits for the writer of its ticket.
ReadSlot(c) ==
    /\ c \in Consumers /\ pc[c] = "ticket"
    /\ turn[Slot(ticket[c])] = 2 * (ticket[c] \div Capacity) + 1
    /\ item' = [item EXCEPT ![c] = slot[Slot(ticket[c])]]
    /\ turn' = [turn EXCEPT ![Slot(ticket[c])] = @ + 1]
    /\ Goto(c, "signal")
    /\ UNCHANGED <<ticket, rounds, semaphores, pushTicket, popTicket, slot>>

\* MUTANT of SignalEnqueue: the wrong semaphore is signalled.
SignalSwapped(c) ==
    /\ c \in Consumers /\ pc[c] = "signal"
    /\ dequeueSemaphore_' = dequeueSemaphore_ + 1
    /\ Goto(c, "idle")
    /\ UNCHANGED <<item, ticket, rounds, enqueueSemaphore_, queue_>>

SignalEnqueue(c) ==
    /\ c \in Consumers /\ pc[c] = "signal"
    /\ enqueueSemaphore_' = enqueueSemaphore_ + 1
    /\ Goto(c, "idle")
    /\ UNCHANGED <<item, ticket, rounds, dequeueSemaphore_, queue_>>

Enqueue(p) ==
    \/ \E x \in Items : EnqueueWait(p, x)
    \/ PushTicket(p) \/ WriteSlot(p) \/ SignalDequeue(p)

Dequeue(c) == DequeueWait(c) \/ PopTicket(c) \/ ReadSlot(c) \/ SignalEnqueue(c)

Next == (\E p \in Producers : Enqueue(p)) \/ (\E c \in Consumers : Dequeue(c))

Spec == Init /\ [][Next]_vars

\* A call that has its permit runs on, and consumers keep dequeuing.
FairSpec ==
    /\ Spec
    /\ \A p \in Producers : WF_vars(PushTicket(p) \/ WriteSlot(p) \/ SignalDequeue(p))
    /\ \A c \in Consumers : WF_vars(Dequeue(c))

(***************************************************************************)
(* The ignored results of lines 23, 30, 37, 45, 52, 58, 68 and 86 are      *)
(* never false: whoever has a permit also gets a ticket, whatever the      *)
(* other callers have done since.  So no item is dropped and no            *)
(* unassigned one is returned.                                             *)
(***************************************************************************)
PermitGivesTicket ==
    /\ \A p \in Producers : pc[p] = "permit" => pushTicket - popTicket < Capacity
    /\ \A c \in Consumers : pc[c] = "permit" => popTicket < pushTicket

(***************************************************************************)
(* Every permit is somewhere: in its semaphore, with a caller that has     *)
(* taken it, or in the queue as an item.                                   *)
(***************************************************************************)
At(callers, points) == {p \in callers : pc[p] \in points}

PermitsAccounted ==
    /\ enqueueSemaphore_ + Cardinality(At(Producers, {"permit"}))
         + (pushTicket - popTicket)
         + Cardinality(At(Consumers, {"ticket", "signal"})) = Capacity
    /\ dequeueSemaphore_ + Cardinality(At(Consumers, {"permit"}))
         + Cardinality(At(Producers, {"ticket", "signal"})) = pushTicket - popTicket

(***************************************************************************)
(* The class is a bounded FIFO queue: an enqueue takes effect when it gets *)
(* its ticket, a dequeue when it gets its own, and what a consumer reads   *)
(* from its slot later is the item that was at the head then, though       *)
(* others may have lapped the ring.                                        *)
(***************************************************************************)
ItemOf(k) ==
    IF \E p \in Producers : pc[p] = "ticket" /\ ticket[p] = k
    THEN item[CHOOSE p \in Producers : pc[p] = "ticket" /\ ticket[p] = k]
    ELSE slot[Slot(k)]

Fifo == INSTANCE BoundedFifo WITH
    queue <- [i \in 1..(pushTicket - popTicket) |-> ItemOf(popTicket + i - 1)],
    held  <- [c \in Consumers |-> IF pc[c] = "ticket" THEN ItemOf(ticket[c]) ELSE item[c]]

IsFifo == Fifo!Spec

(***************************************************************************)
(* Every item that is put in is taken out, and the calls return: no        *)
(* producer and consumer wait for each other's slot or permit for ever.    *)
(***************************************************************************)
Delivered ==
    /\ \A k \in 0..(Cardinality(Producers) * Rounds - 1) : pushTicket > k ~> popTicket > k
    /\ \A p \in Callers : pc[p] # "idle" ~> pc[p] = "idle"
=============================================================================
