------------------------------- MODULE IoSink -------------------------------
(***************************************************************************)
(* io/io_sink.h, io/reactor.h and io/posix.h: requests wait in pending_io_ *)
(* until Drain offers them, oldest first, to a consumer that may refuse;   *)
(* the kernel's result then goes to the IoCompletion of its request.       *)
(*                                                                         *)
(* No class takes a lock, so everything but the kernel runs in one thread: *)
(* a Submit can come while Drain is inside the consumer (which may submit  *)
(* more, before it accepts and after) but not between other steps of       *)
(* Drain.  A result may be delivered as soon as the consumer has accepted, *)
(* before it has returned included.                                        *)
(***************************************************************************)
EXTENDS Integers, Sequences, FiniteSets, Functions

CONSTANT SinkRequests    \* each with its own IoCompletion

ASSUME SinkAssumption == IsFiniteSet(SinkRequests)

\* A result, by what the code tells apart: >= 0, the two errors that posix.h
\* throws, and all others.
Results == {"value", "EBADF", "ENOTSOCK", "other"}

VARIABLES
    pending_io_,
    drain,             \* where Drain is; "idle" outside
    processed_count,
    kernel,            \* what consumers have accepted and is not answered
    result,            \* the kernel's answer to each request
    told,              \* how often its Complete or SetException was called
    submitted, issued  \* history: requests in the order of Submit, of acceptance

drainVars == <<drain, processed_count>>
sinkVars == <<pending_io_, drainVars, kernel, result, told, submitted, issued>>

SinkTypeOK ==
    /\ pending_io_ \in Seq(SinkRequests)
    /\ drain \in {"idle", "test", "consume", "pop"}
    /\ processed_count \in 0..Cardinality(SinkRequests)
    /\ kernel \subseteq SinkRequests
    /\ result \in [SinkRequests -> Results \cup {"none"}]
    /\ told \in [SinkRequests -> Nat]
    /\ submitted \in Seq(SinkRequests) /\ issued \in Seq(SinkRequests)

SinkInit ==
    /\ pending_io_ = <<>>
    /\ drain = "idle" /\ processed_count = 0
    /\ kernel = {}
    /\ result = [r \in SinkRequests |-> "none"]
    /\ told = [r \in SinkRequests |-> 0]
    /\ submitted = <<>> /\ issued = <<>>

SinkSubmit(r) ==
    /\ drain # "test"
    /\ r \notin Range(submitted)
    /\ pending_io_' = Append(pending_io_, r)
    /\ submitted' = Append(submitted, r)
    /\ UNCHANGED <<drainVars, kernel, result, told, issued>>

(***************************************************************************)
(* Drain(consume).                                                         *)
(***************************************************************************)
Start ==
    /\ drain = "idle"
    /\ drain' = "test" /\ processed_count' = 0
    /\ UNCHANGED <<pending_io_, kernel, result, told, submitted, issued>>

Test ==
    /\ drain = "test"
    /\ drain' = IF pending_io_ = <<>> THEN "idle" ELSE "consume"
    /\ UNCHANGED <<pending_io_, processed_count, kernel, result, told, submitted, issued>>

Accept ==
    /\ drain = "consume"
    /\ kernel' = kernel \cup {Head(pending_io_)}
    /\ issued' = Append(issued, Head(pending_io_))
    /\ drain' = "pop"
    /\ UNCHANGED <<pending_io_, processed_count, result, told, submitted>>

\* MUTANT of Refuse: the request is taken off before the answer is looked at.
RefuseDropped ==
    /\ drain = "consume"
    /\ pending_io_' = Tail(pending_io_)
    /\ drain' = "idle"
    /\ UNCHANGED <<processed_count, kernel, result, told, submitted, issued>>

\* The consumer returns false: the request stays in front for a later Drain.
Refuse ==
    /\ drain = "consume"
    /\ drain' = "idle"
    /\ UNCHANGED <<pending_io_, processed_count, kernel, result, told, submitted, issued>>

\* MUTANT of Pop: the accepted request stays in front.
PopForgotten ==
    /\ drain = "pop"
    /\ processed_count' = processed_count + 1
    /\ drain' = "test"
    /\ UNCHANGED <<pending_io_, kernel, result, told, submitted, issued>>

Pop ==
    /\ drain = "pop"
    /\ pending_io_' = Tail(pending_io_)
    /\ processed_count' = processed_count + 1
    /\ drain' = "test"
    /\ UNCHANGED <<kernel, result, told, submitted, issued>>

Drain == Start \/ Test \/ Accept \/ Refuse \/ Pop

(***************************************************************************)
(* The kernel answers, and CompleteWith calls Complete for a result >= 0   *)
(* and SetException for an error that ThrowKernelError throws.             *)
(***************************************************************************)
\* MUTANT of Thrown: && for ||.
ThrownNever == {}

Thrown == {"EBADF", "ENOTSOCK"}

CompleteWith(r, res) ==
    /\ r \in kernel
    /\ kernel' = kernel \ {r}
    /\ result' = [result EXCEPT ![r] = res]
    /\ told' = [told EXCEPT ![r] = IF res = "value" \/ res \in Thrown THEN @ + 1 ELSE @]
    /\ UNCHANGED <<pending_io_, drainVars, submitted, issued>>

KernelAnswers(r) == \E res \in Results : CompleteWith(r, res)

SinkNext == Drain \/ \E r \in SinkRequests : SinkSubmit(r) \/ KernelAnswers(r)

SinkSpec == SinkInit /\ [][SinkNext]_sinkVars

\* The reactor calls Drain again and again, a consumer does not refuse for
\* ever, and the kernel answers.
SinkFairSpec ==
    /\ SinkSpec
    /\ WF_sinkVars(Drain) /\ SF_sinkVars(Accept)
    /\ \A r \in SinkRequests : WF_sinkVars(KernelAnswers(r))

(***************************************************************************)
(* Requests reach the kernel in the order they were submitted, each once,  *)
(* whatever the consumer refuses and whenever it submits more: what was    *)
(* issued, followed by what waits, is what was submitted.                  *)
(***************************************************************************)
Waiting == IF drain = "pop" THEN Tail(pending_io_) ELSE pending_io_

IssuedInOrder == submitted = issued \o Waiting

(***************************************************************************)
(* A completion may destroy itself when it is told, so nothing may lead to *)
(* it afterwards: the sink's front is answered at most between its         *)
(* acceptance and the pop, where Drain no longer looks at it.              *)
(***************************************************************************)
NoUseAfterAnswer ==
    /\ \A r \in SinkRequests : told[r] <= 1
    /\ \A r \in Range(Waiting) \cup kernel : result[r] = "none"

(***************************************************************************)
(* Every request is answered in the end, and its completion is told of a   *)
(* success and of the errors that ThrowKernelError throws.                 *)
(***************************************************************************)
Told ==
    \A r \in SinkRequests :
        r \in Range(submitted) ~>
            /\ result[r] # "none"
            /\ result[r] \in {"value", "EBADF", "ENOTSOCK"} => told[r] = 1

(***************************************************************************)
(* What the comment on completion_ (io_sink.h:12) asks: when the kernel is *)
(* done one must know whom to notify and wake; so every answer is told.    *)
(***************************************************************************)
EveryAnswerTold == \A r \in SinkRequests : result[r] # "none" => told[r] = 1
=============================================================================
