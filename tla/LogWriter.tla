----------------------------- MODULE LogWriter -----------------------------
(***************************************************************************)
(* The group commit of db/log_writer.h.  Every task reserves a region of   *)
(* the ring (asyncMalloc); the one that finds its group empty is the       *)
(* leader.  All copy their records into the ring; the followers count      *)
(* themselves in and wait; the leader writes the header of the group, ends *)
(* it with zeros, hands the blocks to the device, wakes the group and      *)
(* empties it for the next one.                                            *)
(*                                                                         *)
(* One step is one access to shared state, or several that no other task   *)
(* can tell apart.  count_ and len are plain size_t fields which Reset     *)
(* stores without the lock: what a racing reader gets is a choice.         *)
(*                                                                         *)
(* A cell stands for the 6 bytes of the header, and sizes are in cells.    *)
(* active_writer_ and file_pos_ are never assigned by the code: there is   *)
(* one group, and every write goes to the start of the file.               *)
(***************************************************************************)
EXTENDS Integers, FiniteSets

CONSTANTS Tasks,         \* the WriteTasks, each used once
          Sizes,         \* what a caller asks asyncMalloc for, header included
          kBufferSize,   \* cells of the ring
          kBlockSize,    \* cells of a block
          kLogFileSize,  \* cells of the preallocated file
          Word,          \* values of a size_t
          Len16,         \* values of the uint16_t parameter of commit
          kPageSize,     \* cells of a page, the unit of mmap
          Zero,          \* the contents of a cell nobody has written
          Free,          \* the holder of lock_ when it is not held
          SubmitStarts,  \* does the Task that submit returns ever run?
          Phased         \* is every group closed before the next asyncMalloc?

ASSUME LogAssumption ==
    /\ Sizes \subseteq 1..kBufferSize
    /\ kBufferSize \in Nat \ {0} /\ Word \in Nat /\ kBufferSize < Word
    /\ Word % kBufferSize = 0
    /\ kBlockSize \in Nat \ {0} /\ kLogFileSize \in Nat /\ Len16 \in Nat \ {0}
    /\ kBlockSize <= kBufferSize /\ kBlockSize <= kLogFileSize /\ kBlockSize < Len16
    /\ kPageSize \in 1..kBlockSize
    /\ Zero \notin Tasks /\ Free \notin Tasks
    /\ SubmitStarts \in BOOLEAN /\ Phased \in BOOLEAN

VARIABLES
    base,           \* the address of buffer_ modulo kBlockSize
    pc,             \* where each task is
    leader,         \* is_leader_
    size,           \* the argument of asyncMalloc
    addr,           \* addr_ - buffer_
    seen,           \* a value of count_ or len that the task has loaded
    lock,           \* lock_
    count,          \* writers_[0].count_
    len,            \* writers_[0].len
    completed,      \* writers_[0].completed_copy_
    completion,     \* writers_[0].completion_ is posted
    notify_leader,  \* notify_leader_ is posted
    memory_notify,  \* memory_notify_ is posted
    head_, tail_,   \* buffer_
    mem,            \* what the ring holds
    todo,           \* the blocks of the task's write that are not on disk yet
    file,           \* what the file holds
    late,           \* history: has asyncMalloc met a group that is closing?
    failed          \* history: has a write ended with a block missing?

ring == INSTANCE SPSCRingBuffer

taskVars  == <<leader, size, addr, seen>>
groupVars == <<count, len, completed>>
batons    == <<completion, notify_leader, memory_notify>>
ringVars  == <<head_, tail_, mem>>
disk      == <<todo, file>>
history   == <<late, failed>>
vars == <<base, pc, taskVars, lock, groupVars, batons, ringVars, disk, history>>

(***************************************************************************)
(* The program points.                                                     *)
(***************************************************************************)
Mallocing   == {"bump", "request", "full", "fullwait", "wake", "grow", "grown"}
Leading     == {"notifywait", "header", "spin", "measure", "zero", "io", "post",
                "handoff", "reset"}
Clearing    == {"clear", "clearCount", "clearLen", "recount", "free", "memnotify"}
Following   == {"follow", "awaiting"}
Points      == {"idle", "copy", "copied", "acked"}
               \cup Mallocing \cup Leading \cup Clearing \cup Following

Cells  == 0..(kBufferSize - 1)
Record == Tasks \cup {Zero}

TypeOK ==
    /\ base \in 0..(kBlockSize - 1)
    /\ pc \in [Tasks -> Points]
    /\ leader \in [Tasks -> BOOLEAN]
    /\ size \in [Tasks -> Nat]
    /\ addr \in [Tasks -> Cells]
    /\ seen \in [Tasks -> Nat]
    /\ lock \in Tasks \cup {Free}
    /\ count \in Nat /\ len \in Nat /\ completed \in Nat
    /\ completion \in BOOLEAN /\ notify_leader \in BOOLEAN /\ memory_notify \in BOOLEAN
    /\ ring!RingTypeOK
    /\ mem \in [Cells -> Record]
    /\ todo \in [Tasks -> SUBSET Nat]
    /\ file \in [0..(kLogFileSize - 1) -> Record]
    /\ late \in BOOLEAN /\ failed \in BOOLEAN

\* The constructor of the ring moves the start of the mapping, which may be at
\* any page, on by kBlockSize - kPageSize, and not to the next block.
PageStarts == {raw \in 0..(kBlockSize - 1) : raw % kPageSize = 0}

BufferBase(raw_space) == (raw_space + (kBlockSize - kPageSize)) % kBlockSize

\* After init(): the file is all zeros and notify_leader_ is posted.
Init ==
    /\ base \in {BufferBase(raw) : raw \in PageStarts}
    /\ pc = [t \in Tasks |-> "idle"]
    /\ leader = [t \in Tasks |-> FALSE]
    /\ size = [t \in Tasks |-> 0]
    /\ addr = [t \in Tasks |-> 0]
    /\ seen = [t \in Tasks |-> 0]
    /\ lock = Free
    /\ count = 0 /\ len = 0 /\ completed = 0
    /\ completion = FALSE /\ notify_leader = TRUE /\ memory_notify = FALSE
    /\ ring!RingInit
    /\ mem = [c \in Cells |-> Zero]
    /\ todo = [t \in Tasks |-> {}]
    /\ file = [c \in 0..(kLogFileSize - 1) |-> Zero]
    /\ late = FALSE /\ failed = FALSE

(***************************************************************************)
(* What the actions are made of.                                           *)
(***************************************************************************)
Goto(t, point) == pc' = [pc EXCEPT ![t] = point]

\* co_await of a Baton: go on if it is posted, else suspend.
Await(t, posted, go, suspended) == Goto(t, IF posted THEN go ELSE suspended)

\* post of a Baton: it stays posted, and every suspended task goes on.
PostAndGoto(t, point, suspended, go) ==
    pc' = [u \in Tasks |-> CASE u = t             -> point
                             [] pc[u] = suspended -> go
                             [] OTHER             -> pc[u]]

\* The cells of n bytes from offset a: the ring is mapped twice in a row.
Span(a, n) == {(a + i) % kBufferSize : i \in 0..(n - 1)}

Store(cells, value) ==
    mem' = [c \in Cells |-> IF c \in cells THEN value ELSE mem[c]]

\* MUTANT of Claim: off by one, the second task of a group also leads.
ClaimTwice(t) ==
    /\ leader' = [leader EXCEPT ![t] = (count <= 1)]
    /\ seen' = [seen EXCEPT ![t] = count]
    /\ Goto(t, "bump")

\* WriteTask task(*this, count_ == 0, aw_index), and the load of count_++.
Claim(t) ==
    /\ leader' = [leader EXCEPT ![t] = (count = 0)]
    /\ seen' = [seen EXCEPT ![t] = count]
    /\ Goto(t, "bump")

(***************************************************************************)
(* asyncMalloc                                                             *)
(***************************************************************************)
Malloc(t, s) ==
    /\ pc[t] = "idle"
    /\ lock = Free
    /\ lock' = t
    /\ size' = [size EXCEPT ![t] = s]
    /\ Claim(t)
    /\ UNCHANGED <<base, addr, groupVars, batons, ringVars, disk>>

\* The store of count_++: from the value of the test, or from a fresh load.
BumpCount(t) ==
    /\ pc[t] = "bump"
    /\ count' \in {seen[t] + 1, count + 1}
    /\ Goto(t, "request")
    /\ UNCHANGED <<base, taskVars, lock, len, completed, batons, ringVars, disk>>

RequestWriteSpace(t) ==
    /\ pc[t] = "request"
    /\ IF ring!Fits(size[t], tail_)
       THEN /\ addr' = [addr EXCEPT ![t] = ring!HeadIndex]
            /\ ring!AdvanceHead(size[t])
            /\ Goto(t, "grow")
       ELSE /\ Goto(t, "full")
            /\ UNCHANGED <<addr, head_>>
    /\ UNCHANGED <<base, leader, size, seen, lock, groupVars, batons, tail_, mem, disk>>

\* The lock stays held while the task waits for memory.
AwaitMemory(t) ==
    /\ pc[t] = "full"
    /\ Await(t, memory_notify, "wake", "fullwait")
    /\ UNCHANGED <<base, taskVars, lock, groupVars, batons, ringVars, disk>>

\* memory_notify_.reset(); goto l1.
RetryMalloc(t) ==
    /\ pc[t] = "wake"
    /\ memory_notify' = FALSE
    /\ Claim(t)
    /\ UNCHANGED <<base, size, addr, lock, groupVars, completion, notify_leader,
                   ringVars, disk>>

\* writers_[aw_index].len += size: the load, then the store and the unlock.
LoadLen(t) ==
    /\ pc[t] = "grow"
    /\ seen' = [seen EXCEPT ![t] = len]
    /\ Goto(t, "grown")
    /\ UNCHANGED <<base, leader, size, addr, lock, groupVars, batons, ringVars, disk>>

GrowLen(t) ==
    /\ pc[t] = "grown"
    /\ len' = seen[t] + size[t]
    /\ lock' = Free
    /\ Goto(t, "copy")
    /\ UNCHANGED <<base, taskVars, count, completed, batons, ringVars, disk>>

(***************************************************************************)
(* The caller copies its record into the region, a leader all but the      *)
(* header (lines 193-195).                                                 *)
(***************************************************************************)
CopyRecord(t) ==
    /\ pc[t] = "copy"
    /\ IF leader[t] THEN Store(Span(addr[t] + 1, size[t] - 1), t)
                    ELSE Store(Span(addr[t], size[t]), t)
    /\ Goto(t, "copied")
    /\ UNCHANGED <<base, taskVars, lock, groupVars, batons, head_, tail_, disk>>

(***************************************************************************)
(* FollowerComplete                                                        *)
(***************************************************************************)
\* MUTANT of CountCopy: counts down instead of up.
CountCopyDown(t) ==
    /\ pc[t] = "copied" /\ ~leader[t]
    /\ completed' = completed - 1
    /\ Goto(t, "follow")
    /\ UNCHANGED <<base, taskVars, lock, count, len, batons, ringVars, disk>>

CountCopy(t) ==
    /\ pc[t] = "copied" /\ ~leader[t]
    /\ completed' = completed + 1
    /\ Goto(t, "follow")
    /\ UNCHANGED <<base, taskVars, lock, count, len, batons, ringVars, disk>>

AwaitCompletion(t) ==
    /\ pc[t] = "follow"
    /\ Await(t, completion, "acked", "awaiting")
    /\ UNCHANGED <<base, taskVars, lock, groupVars, batons, ringVars, disk>>

(***************************************************************************)
(* LeaderComplete                                                          *)
(***************************************************************************)
AwaitNotify(t) ==
    /\ pc[t] = "copied" /\ leader[t]
    /\ Await(t, notify_leader, "header", "notifywait")
    /\ UNCHANGED <<base, taskVars, lock, groupVars, batons, ringVars, disk>>

\* notify_leader_.reset() and the two SerializeLE.
WriteHeader(t) ==
    /\ pc[t] = "header"
    /\ notify_leader' = FALSE
    /\ Store(Span(addr[t], 1), t)
    /\ Goto(t, "spin")
    /\ UNCHANGED <<base, taskVars, lock, groupVars, completion, memory_notify,
                   head_, tail_, disk>>

\* MUTANT of CopiesExpected: the leader waits for its own copy too.
CopiesOfAll == count

\* MUTANT of CopiesExpected: the leader waits for one follower too few.
CopiesOfAllButOne == IF count > 1 THEN count - 2 ELSE 0

\* Everybody's but the leader's, in a size_t.
CopiesExpected == (count - 1) % Word

\* The exit of the spin loop.
AllCopied(t) ==
    /\ pc[t] = "spin"
    /\ completed = CopiesExpected
    /\ Goto(t, "measure")
    /\ UNCHANGED <<base, taskVars, lock, groupVars, batons, ringVars, disk>>

MeasureGroup(t) ==
    /\ pc[t] = "measure"
    /\ seen' = [seen EXCEPT ![t] = len]
    /\ Goto(t, "zero")
    /\ UNCHANGED <<base, leader, size, addr, lock, groupVars, batons, ringVars, disk>>

\* The block that holds addr_, as an offset into buffer_ (it may lie before).
BlockStart(t) == addr[t] - ((base + addr[t]) % kBlockSize)

\* The rounded-up length, cut to the uint16_t of commit, in blocks.
GroupBlocks(n) ==
    ((((n + kBlockSize) \div kBlockSize) * kBlockSize) % Len16) \div kBlockSize

\* MUTANT of SubmitGroup: the co_await of commit is missing.
SubmitAndGoOn(t) ==
    /\ pc[t] = "zero"
    /\ \E n \in {seen[t], len} : Store(Span(addr[t] + n, 1), Zero)
    /\ todo' = [todo EXCEPT ![t] = 0..(GroupBlocks(seen[t]) - 1)]
    /\ Goto(t, "post")
    /\ UNCHANGED <<base, taskVars, lock, groupVars, batons, head_, tail_, file>>

\* The memset behind the group and the call of commit.  The compiler may
\* load len again for the memset.
SubmitGroup(t) ==
    /\ pc[t] = "zero"
    /\ \E n \in {seen[t], len} : Store(Span(addr[t] + n, 1), Zero)
    /\ todo' = [todo EXCEPT ![t] = 0..(GroupBlocks(seen[t]) - 1)]
    /\ Goto(t, "io")
    /\ UNCHANGED <<base, taskVars, lock, groupVars, batons, head_, tail_, file>>

\* The device takes the blocks in any order, each at once, and reads the
\* ring when it does.
PersistBlock(t, k) ==
    /\ SubmitStarts
    /\ pc[t] = "io" /\ k \in todo[t]
    /\ BlockStart(t) >= 0
    /\ todo' = [todo EXCEPT ![t] = @ \ {k}]
    /\ file' = [c \in DOMAIN file |->
                  IF c \div kBlockSize = k
                  THEN mem[(BlockStart(t) + c) % kBufferSize]
                  ELSE file[c]]
    /\ UNCHANGED <<base, pc, taskVars, lock, groupVars, batons, ringVars>>

\* The completion posts the baton of commit.  The result, which nobody reads,
\* may be an error: blocks are then missing.
WriteDone(t) ==
    /\ SubmitStarts
    /\ pc[t] = "io"
    /\ todo' = [todo EXCEPT ![t] = {}]
    /\ Goto(t, "post")
    /\ UNCHANGED <<base, taskVars, lock, groupVars, batons, ringVars, file>>

\* MUTANT of PostCompletion: the followers are not woken.
PostCompletionForgotten(t) ==
    /\ pc[t] = "post"
    /\ Goto(t, "handoff")
    /\ UNCHANGED <<base, taskVars, lock, groupVars, batons, ringVars, disk>>

PostCompletion(t) ==
    /\ pc[t] = "post"
    /\ completion' = TRUE
    /\ PostAndGoto(t, "handoff", "awaiting", "acked")
    /\ UNCHANGED <<base, taskVars, lock, groupVars, notify_leader, memory_notify,
                   ringVars, disk>>

\* MUTANT of PostNotifyLeader: the token is not handed on.
PostNotifyForgotten(t) ==
    /\ pc[t] = "handoff"
    /\ Goto(t, "reset")
    /\ UNCHANGED <<base, taskVars, lock, groupVars, batons, ringVars, disk>>

PostNotifyLeader(t) ==
    /\ pc[t] = "handoff"
    /\ notify_leader' = TRUE
    /\ PostAndGoto(t, "reset", "notifywait", "header")
    /\ UNCHANGED <<base, taskVars, lock, groupVars, completion, memory_notify,
                   ringVars, disk>>

(***************************************************************************)
(* Writers::Reset, which does not hold the lock.  count_ and len are two   *)
(* plain stores next to each other: the compiler may swap or merge them.   *)
(***************************************************************************)
ResetCompletion(t) ==
    /\ pc[t] = "reset"
    /\ completion' = FALSE
    /\ Goto(t, "clear")
    /\ UNCHANGED <<base, taskVars, lock, groupVars, notify_leader, memory_notify,
                   ringVars, disk>>

ClearCount(t) ==
    /\ \/ pc[t] = "clear" /\ Goto(t, "clearLen")
       \/ pc[t] = "clearCount" /\ Goto(t, "recount")
    /\ count' = 0
    /\ UNCHANGED <<base, taskVars, lock, len, completed, batons, ringVars, disk>>

ClearLen(t) ==
    /\ \/ pc[t] = "clear" /\ Goto(t, "clearCount")
       \/ pc[t] = "clearLen" /\ Goto(t, "recount")
    /\ len' = 0
    /\ UNCHANGED <<base, taskVars, lock, count, completed, batons, ringVars, disk>>

ClearBoth(t) ==
    /\ pc[t] = "clear"
    /\ count' = 0 /\ len' = 0
    /\ Goto(t, "recount")
    /\ UNCHANGED <<base, taskVars, lock, completed, batons, ringVars, disk>>

ClearCompleted(t) ==
    /\ pc[t] = "recount"
    /\ completed' = 0
    /\ Goto(t, "free")
    /\ UNCHANGED <<base, taskVars, lock, count, len, batons, ringVars, disk>>

\* buffer_.CommitWrite(writer.len), after Reset: the 0 just stored, or what
\* another task has made of it since.
FreeGroup(t) ==
    /\ pc[t] = "free"
    /\ \E n \in {0, len} : ring!CommitWrite(n)
    /\ Goto(t, "memnotify")
    /\ UNCHANGED <<base, taskVars, lock, groupVars, batons, head_, mem, disk>>

PostMemoryNotify(t) ==
    /\ pc[t] = "memnotify"
    /\ memory_notify' = TRUE
    /\ PostAndGoto(t, "acked", "fullwait", "wake")
    /\ UNCHANGED <<base, taskVars, lock, groupVars, completion, notify_leader,
                   ringVars, disk>>

(***************************************************************************)
(* The specification.                                                      *)
(***************************************************************************)
AsyncMalloc(t) ==
    \/ \E s \in Sizes : Malloc(t, s)
    \/ BumpCount(t)   \/ RequestWriteSpace(t)
    \/ AwaitMemory(t) \/ RetryMalloc(t)
    \/ LoadLen(t)     \/ GrowLen(t)

FollowerComplete(t) == CountCopy(t) \/ AwaitCompletion(t)

Reset(t) ==
    \/ ResetCompletion(t)
    \/ ClearCount(t) \/ ClearLen(t) \/ ClearBoth(t)
    \/ ClearCompleted(t)

LeaderComplete(t) ==
    \/ AwaitNotify(t)    \/ WriteHeader(t)
    \/ AllCopied(t)      \/ MeasureGroup(t) \/ SubmitGroup(t)
    \/ PostCompletion(t) \/ PostNotifyLeader(t)
    \/ Reset(t)
    \/ FreeGroup(t)      \/ PostMemoryNotify(t)

Device(t) == WriteDone(t) \/ \E k \in todo[t] : PersistBlock(t, k)

\* What a task does on its own once asyncMalloc has been called.
Continue(t) ==
    \/ BumpCount(t) \/ RequestWriteSpace(t) \/ AwaitMemory(t) \/ RetryMalloc(t)
    \/ LoadLen(t) \/ GrowLen(t)
    \/ CopyRecord(t) \/ FollowerComplete(t) \/ LeaderComplete(t)

(***************************************************************************)
(* Two events that the log writer does not notice and that a record may    *)
(* not survive: a task is in asyncMalloc while a leader, past its spin     *)
(* loop, still has to empty the group; a write fails.  The history         *)
(* variables remember them.  The callers that Phased speaks of avoid the   *)
(* first one.                                                              *)
(***************************************************************************)
Closing == {"measure", "zero", "io", "post", "handoff", "reset"} \cup Clearing

Overlap == \E t, u \in Tasks : pc[t] \in Mallocing /\ pc[u] \in Closing

WriteFails == \E t \in Tasks : pc[t] = "io" /\ pc'[t] # "io" /\ todo[t] # {}

Observe ==
    /\ late' = (late \/ Overlap')
    /\ failed' = (failed \/ WriteFails)
    /\ Phased => ~late'

TaskStep(t) ==
    AsyncMalloc(t) \/ CopyRecord(t) \/ FollowerComplete(t) \/ LeaderComplete(t) \/ Device(t)

Next == (\E t \in Tasks : TaskStep(t)) /\ Observe

Spec == Init /\ [][Next]_vars

\* A task that has been given a region copies and completes, its thread runs
\* on, and the device answers; nobody need call asyncMalloc.
Fairness == \A t \in Tasks : WF_vars(Continue(t) /\ Observe) /\ WF_vars(Device(t) /\ Observe)

FairSpec == Spec /\ Fairness

(***************************************************************************)
(* The group has one leader, whatever the callers interleave: from the     *)
(* claim of line 144 to the store of count_ in Reset (line 170), no other  *)
(* task holds a claim, although Reset does not take the lock.              *)
(***************************************************************************)
Owning == Mallocing \cup Leading \cup {"copy", "copied", "clear", "clearCount"}

Owner(t) == leader[t] /\ pc[t] \in Owning

OneLeader == \A t, u \in Tasks : Owner(t) /\ Owner(u) => t = u

(***************************************************************************)
(* notify_leader_ is a token: it is taken exactly while a leader is        *)
(* between its header and line 59.  No leader, the first or a later one,   *)
(* is ever suspended on it (the comment of line 135 asks it of the first). *)
(***************************************************************************)
Committing == {"spin", "measure", "zero", "io", "post", "handoff"}

NotifyToken ==
    /\ notify_leader <=> \A t \in Tasks : pc[t] \notin Committing
    /\ \A t \in Tasks : pc[t] # "notifywait"

(***************************************************************************)
(* Lines 193-195: the header of a group is written only after the write of *)
(* the group before it has ended, because both are in the same block.      *)
(***************************************************************************)
HeaderAfterWrite ==
    [][\A t, u \in Tasks : pc[t] = "header" /\ pc'[t] = "spin" => todo[u] = {}]_vars

(***************************************************************************)
(* Lines 193-195 let the writers copy while the group before theirs is     *)
(* written: until its record is written, the region that a task got from   *)
(* asyncMalloc is its own.  (line 61 gives back writer.len after Reset has *)
(* let newcomers into the group, whose bytes it then counts.)              *)
(***************************************************************************)
InUse(t) == pc[t] \in (Leading \cup Following \cup {"grow", "grown", "copy", "copied"})

RegionsDisjoint ==
    \A t, u \in Tasks : t # u /\ InUse(t) /\ InUse(u) =>
        Span(addr[t], size[t]) \cap Span(addr[u], size[u]) = {}

(***************************************************************************)
(* What is acknowledged is on disk, and stays there while later groups     *)
(* rewrite the same block: a crash loses no task that has returned from    *)
(* LeaderComplete or FollowerComplete.  It is claimed in the histories in  *)
(* which the code can keep it: no write has failed (nobody reads the       *)
(* result), no asyncMalloc has met a closing group (see RegionsDisjoint    *)
(* and TailOwnerLeads), buffer_ is aligned to a block, and the log is      *)
(* still in the first block (file_pos_ never moves).                       *)
(***************************************************************************)
InFirstBlock == base = 0 /\ head_ + 1 <= kBlockSize

OnDisk(t) == \E a \in 0..(kLogFileSize - size[t]) :
                \A i \in 0..(size[t] - 1) : file[a + i] = t

AckedDurable == InFirstBlock /\ ~late /\ ~failed =>
    \A t \in Tasks : pc[t] \in {"acked"} \cup Clearing => OnDisk(t)

(***************************************************************************)
(* Lines 193-194: the writer that gets the zeroed cells behind a group is  *)
(* the leader of the next one (so that nothing but a header, written after *)
(* the write, ever goes there).                                            *)
(***************************************************************************)
TailOwnerLeads ==
    \A t, u \in Tasks :
        /\ t # u /\ pc[t] = "io"
        /\ pc[u] \in {"copy", "copied"}
        /\ addr[u] = (addr[t] + seen[t]) % kBufferSize
        => leader[u]

(***************************************************************************)
(* Line 195: the leader writes the group to disk, and then finishes: the   *)
(* spin loop, the device and the hand-over never hold it for ever.  A task *)
(* that waits for memory holds lock_ and counts as a copy still to come,   *)
(* and only a leader that finishes would give it memory: then they wait    *)
(* for each other.                                                         *)
(***************************************************************************)
MemoryShort == \E u \in Tasks : pc[u] = "fullwait"

LeaderFinishes ==
    \A t \in Tasks : pc[t] = "header" ~> pc[t] = "acked" \/ MemoryShort

(***************************************************************************)
(* A follower that is suspended on completion_ before its leader posts it  *)
(* goes on, although Reset clears the baton at once.  (One that comes to   *)
(* the baton after Reset is not covered: it may wait for ever.)            *)
(***************************************************************************)
WaiterReleased == \A f, t \in Tasks :
    pc[f] = "awaiting" /\ pc[t] \in Committing ~> pc[f] = "acked" \/ MemoryShort

(***************************************************************************)
(* The request that commit makes (lines 72-79) is one that an AsyncDevice, *)
(* which CoIoUring implements, can be given: a leader submits once, its    *)
(* blocks are written only between that and the answer, nobody goes on     *)
(* before the answer, and it comes.                                        *)
(***************************************************************************)
Answered(t) == leader[t] /\ pc[t] \in {"post", "handoff", "reset", "acked"} \cup Clearing

Requested == INSTANCE AsyncDevice WITH
    Requests <- Tasks,
    state    <- [t \in Tasks |-> IF pc[t] = "io" \/ todo[t] # {} THEN "pending"
                                 ELSE IF Answered(t) THEN "done"
                                 ELSE "idle"]

DeviceAsPromised == Requested!Spec
=============================================================================
