----------------------------- MODULE CoIoUring -----------------------------
(***************************************************************************)
(* infra/io_uring.h and io_uring.cc: coroutines hand requests to a bounded *)
(* queue; one thread moves them to the submission ring, enters the kernel, *)
(* and posts the baton of every completion it finds.                       *)
(*                                                                         *)
(* The queue is BoundedQueue at the detail this class can see: its size    *)
(* counts a request from the moment its ticket is taken, a dequeue waits   *)
(* until the enqueuer has also signalled.  liburing and the kernel are     *)
(* modelled by how the code uses them.                                     *)
(***************************************************************************)
EXTENDS Integers, Sequences, FiniteSets, Functions

CONSTANTS Requests, NoRequest,
          QueueCapacity,   \* of queue_
          ring_entries,    \* of the submission ring
          max_submits_

ASSUME UringAssumption ==
    /\ QueueCapacity \in Nat \ {0}
    /\ ring_entries \in Nat \ {0}
    /\ max_submits_ \in Nat \ {0}
    /\ IsFiniteSet(Requests) /\ NoRequest \notin Requests

VARIABLES
    partial,      \* may io_uring_submit take fewer entries than it is given?
    asserts,      \* is the program built with assertions?
    state,        \* of the coroutine of each request
    posts,        \* how often its baton has been posted
    queue_,       \* the tickets taken, oldest first
    permits,      \* enqueueSemaphore_
    signals,      \* dequeueSemaphore_
    loop,         \* where runLoop is
    len, left,    \* its batch, and what is left of it to dequeue
    io,           \* the request it has dequeued last (NoRequest at first)
    sq,           \* the entries between the kernel's head and the tail
    inflight,     \* what the kernel has taken and not answered
    cq,           \* the answers not yet consumed
    count         \* the answers handled in this round

setting   == <<partial, asserts>>
queueVars == <<queue_, permits, signals>>
loopVars  == <<loop, len, left, io, count>>
vars == <<setting, state, posts, queueVars, loopVars, sq, inflight, cq>>

TypeOK ==
    /\ partial \in BOOLEAN /\ asserts \in BOOLEAN
    /\ state \in [Requests -> {"new", "permit", "signal", "wait", "done"}]
    /\ posts \in [Requests -> Nat]
    /\ queue_ \in Seq(Requests) /\ permits \in Nat /\ signals \in Nat
    /\ loop \in {"poll", "batch", "prep", "enter", "reap", "aborted"}
    /\ len \in Nat /\ left \in Nat /\ count \in Nat
    /\ io \in Requests \cup {NoRequest}
    /\ sq \in Seq(Requests)
    /\ inflight \subseteq Requests
    /\ cq \in Seq(Requests)

Init ==
    /\ partial \in BOOLEAN /\ asserts \in BOOLEAN
    /\ state = [r \in Requests |-> "new"]
    /\ posts = [r \in Requests |-> 0]
    /\ queue_ = <<>> /\ permits = QueueCapacity /\ signals = 0
    /\ loop = "poll" /\ len = 0 /\ left = 0 /\ io = NoRequest /\ count = 0
    /\ sq = <<>> /\ inflight = {} /\ cq = <<>>

SetState(r, s) == state' = [state EXCEPT ![r] = s]

Least(S) == CHOOSE n \in S : \A m \in S : n <= m

(***************************************************************************)
(* submit: co_enqueue takes a permit, a ticket, and signals.               *)
(***************************************************************************)
SubmitWait(r) ==
    /\ state[r] = "new"
    /\ permits > 0
    /\ permits' = permits - 1
    /\ SetState(r, "permit")
    /\ UNCHANGED <<setting, posts, queue_, signals, loopVars, sq, inflight, cq>>

SubmitPush(r) ==
    /\ state[r] = "permit"
    /\ queue_' = Append(queue_, r)
    /\ SetState(r, "signal")
    /\ UNCHANGED <<setting, posts, permits, signals, loopVars, sq, inflight, cq>>

\* MUTANT of SubmitSignal: a baton that is posted already is not seen.
SubmitSignalBlind(r) ==
    /\ state[r] = "signal"
    /\ signals' = signals + 1
    /\ SetState(r, "wait")
    /\ UNCHANGED <<setting, posts, queue_, permits, loopVars, sq, inflight, cq>>

\* After this the coroutine suspends on the baton of its request, unless
\* the request has been answered already.
SubmitSignal(r) ==
    /\ state[r] = "signal"
    /\ signals' = signals + 1
    /\ SetState(r, IF posts[r] > 0 THEN "done" ELSE "wait")
    /\ UNCHANGED <<setting, posts, queue_, permits, loopVars, sq, inflight, cq>>

(***************************************************************************)
(* runLoop.  With nothing queued and nothing answered it sleeps, and looks *)
(* again: no step.  The size of the queue may grow between the look and    *)
(* the dequeues, but only this thread shrinks it.                          *)
(***************************************************************************)
SqSpace == ring_entries - Len(sq)

\* MUTANT of BatchSize: the room in the ring is not looked at.
BatchUnbounded == Least({Len(queue_), max_submits_})

BatchSize == Least({Len(queue_), SqSpace, max_submits_})

PollRequests ==
    /\ loop = "poll"
    /\ queue_ # <<>>
    /\ len' = BatchSize
    /\ left' = len'
    /\ loop' = "batch"
    /\ UNCHANGED <<setting, state, posts, queueVars, io, count, sq, inflight, cq>>

\* MUTANT of PollAnswers: the loop sleeps whenever nothing is queued.
PollQueueOnly == FALSE

PollAnswers ==
    /\ loop = "poll"
    /\ queue_ = <<>> /\ cq # <<>>
    /\ loop' = "reap" /\ count' = 0
    /\ UNCHANGED <<setting, state, posts, queueVars, len, left, io, sq, inflight, cq>>

\* MUTANT of Dequeue: it does not wait for the signal.
DequeueUnsignalled ==
    /\ loop = "batch" /\ left > 0
    /\ signals' = signals - 1
    /\ permits' = permits + 1
    /\ io' = Head(queue_)
    /\ queue_' = Tail(queue_)
    /\ loop' = "prep"
    /\ UNCHANGED <<setting, state, posts, len, left, count, sq, inflight, cq>>

Dequeue ==
    /\ loop = "batch" /\ left > 0
    /\ signals > 0
    /\ signals' = signals - 1
    /\ permits' = permits + 1
    /\ io' = Head(queue_)
    /\ queue_' = Tail(queue_)
    /\ loop' = "prep"
    /\ UNCHANGED <<setting, state, posts, len, left, count, sq, inflight, cq>>

\* io_uring_get_sqe is a null pointer when the ring is full: the program dies.
Prepare ==
    /\ loop = "prep"
    /\ IF Len(sq) < ring_entries
       THEN /\ sq' = Append(sq, io)
            /\ left' = left - 1
            /\ loop' = "batch"
       ELSE /\ loop' = "aborted"
            /\ UNCHANGED <<setting, sq, left>>
    /\ UNCHANGED <<setting, state, posts, queueVars, len, io, count, inflight, cq>>

\* io_uring_submit and the assertion on what it returns, a number of entries
\* or an error.  What it does not take stays in the ring until it is called
\* again.
Enter ==
    /\ loop = "batch" /\ left = 0
    /\ \E n \in (IF partial THEN 0..Len(sq) ELSE {Len(sq)}), error \in BOOLEAN :
          /\ error => partial /\ n = 0
          /\ inflight' = inflight \cup {sq[i] : i \in 1..n}
          /\ sq' = SubSeq(sq, n + 1, Len(sq))
          /\ loop' = IF asserts /\ (error \/ n # len) THEN "aborted" ELSE "reap"
    /\ count' = 0
    /\ UNCHANGED <<setting, state, posts, queueVars, len, left, io, cq>>

\* io_uring_for_each_cqe and processComplete: the post lets the coroutine go
\* on, which ends the life of its request.
ProcessComplete ==
    /\ loop = "reap" /\ count < Len(cq)
    /\ LET r == cq[count + 1] IN
          /\ posts' = [posts EXCEPT ![r] = @ + 1]
          /\ state' = [state EXCEPT ![r] = IF @ = "wait" THEN "done" ELSE @]
    /\ count' = count + 1
    /\ UNCHANGED <<setting, queueVars, loop, len, left, io, sq, inflight, cq>>

\* MUTANT of CqAdvance: one answer too few is consumed.
CqAdvanceShort ==
    /\ loop = "reap" /\ count = Len(cq)
    /\ cq' = SubSeq(cq, IF count = 0 THEN 1 ELSE count, Len(cq))
    /\ loop' = "poll"
    /\ UNCHANGED <<setting, state, posts, queueVars, len, left, io, count, sq, inflight>>

CqAdvance ==
    /\ loop = "reap" /\ count = Len(cq)
    /\ cq' = SubSeq(cq, count + 1, Len(cq))
    /\ loop' = "poll"
    /\ UNCHANGED <<setting, state, posts, queueVars, len, left, io, count, sq, inflight>>

RunLoop == PollRequests \/ PollAnswers \/ Dequeue \/ Prepare \/ Enter \/ ProcessComplete
           \/ CqAdvance

\* The kernel answers what it has taken, in any order.
Answer(r) ==
    /\ r \in inflight
    /\ inflight' = inflight \ {r}
    /\ cq' = Append(cq, r)
    /\ UNCHANGED <<setting, state, posts, queueVars, loopVars, sq>>

Submit(r) == SubmitWait(r) \/ SubmitPush(r) \/ SubmitSignal(r)

Next == RunLoop \/ \E r \in Requests : Submit(r) \/ Answer(r)

Spec == Init /\ [][Next]_vars

\* runLoop has its own thread, the kernel answers, and a coroutine that has
\* its permit runs on.
FairSpec ==
    /\ Spec
    /\ WF_vars(RunLoop)
    /\ \A r \in Requests : WF_vars(Answer(r)) /\ WF_vars(SubmitPush(r) \/ SubmitSignal(r))

(***************************************************************************)
(* The batch is cut so that io_uring_get_sqe (line 65) never fails, also   *)
(* when the kernel has left entries of earlier batches in the ring.        *)
(***************************************************************************)
SqeAvailable == loop = "prep" => Len(sq) < ring_entries

(***************************************************************************)
(* An IoRequest lives in the frame of the coroutine that waits for it.     *)
(* Whatever the queue, the rings or the kernel still refer to has not been *)
(* answered, so the frame is still there; in particular no baton is posted *)
(* twice and none is posted after its coroutine has gone.                  *)
(***************************************************************************)
Referred ==
    Range(queue_) \cup (IF loop = "prep" THEN {io} ELSE {}) \cup Range(sq)
    \cup inflight \cup Range(SubSeq(cq, IF loop = "reap" THEN count + 1 ELSE 1, Len(cq)))

ReferredAlive ==
    /\ \A r \in Referred : posts[r] = 0 /\ state[r] # "done"
    /\ \A r \in Requests : posts[r] <= 1

(***************************************************************************)
(* To its callers the class is an AsyncDevice: every request is answered   *)
(* once, and is answered in the end, when the kernel takes every entry it  *)
(* is given.                                                               *)
(***************************************************************************)
Device == INSTANCE AsyncDevice WITH
    state <- [r \in Requests |-> IF posts[r] > 0 THEN "done"
                                 ELSE IF state[r] \in {"new", "permit"} THEN "idle"
                                 ELSE "pending"]

IsDevice == Device!OnceEach /\ (partial \/ Device!InTheEnd)

(***************************************************************************)
(* A coroutine that has started a submit gets its answer and goes on, when *)
(* the kernel takes every entry it is given.                               *)
(***************************************************************************)
Returns == \A r \in Requests : ~partial /\ state[r] = "permit" ~> state[r] = "done"
=============================================================================
