# TLA+ models of qstorage

This directory models the concurrent core of the C++ storage engine under
`src/src`: the group-commit log writer, the ring buffer it writes into, the
bounded queue and the io_uring service that carry its writes to the disk; and
the parts beside it that have logic of their own: the second ring, the sharing
of the ring's memory between processes, splitting and queueing of I/O requests,
fail points, histograms, serialisation, the intrusive list and the skip list
node. TLC checks the models on small
instances; TLAPS proves every safety property that these runs claim, the
durability of acknowledged records (as far as the code supports it) and the
refinements of the abstract specifications among them, for every instance. Liveness is left to TLC.

The code is unfinished. Some headers do not compile as they stand
(`db/log_writer.h:54` declares `len` a second time, `infra/io_uring.h` gives
`queue_` no capacity and never sets `ring_`, `init()` has no final `return`).
Where a slip of that kind leaves one evident meaning, the model takes it; where
the code is well formed and does something questionable, the model does the
same questionable thing. `README.md`, `r.md`, `r2.md`, `r3.md` and the two
Chinese notes in the repository root are about other systems and were not used;
the comments at the end of `db/log_writer.h` are the only design text there is.

## Inventory

| Component | State | Operations | What is hard | What makes it correct |
|---|---|---|---|---|
| Log writer, `db/log_writer.h` | one `Writers` group (`count_`, `len`, `completed_copy_`, `completion_`), `notify_leader_`, `memory_notify_`, `lock_`, the ring, the file | `asyncMalloc`, `LeaderComplete`, `FollowerComplete`, `Reset`, `init` | plain fields cleared without the lock; batons reset right after the post; device in flight while others copy | one leader to a group; what is acknowledged is on disk; headers wait for the write before; regions belong to one task; whoever completes is woken (the second and the last hold only in part, the one about regions does not: see below) |
| SPSC ring, `db/sp_ring_buffer.h` | `head_`, `tail_`, a doubly mapped buffer; a name for its memory that all processes share | constructor, destructor, `RequestWriteSpace`, `CommitWrite` | overflowing counters, stale tail, regions across the end; constructors that race, fail or die | regions in use never overlap; refused only when full; the name is removed, the memory private once it is |
| MPSC ring, `db/ring_buffer.h` | `head_`, `tail_` | the same two, with a CAS | swapped cursors; swaps that fail; unused by the program | nothing is handed out twice; somebody gets on |
| Bounded queue, `infra/bounded_queue.h` | MPMC slots, two semaphores | blocking, `co_` and `try_` enqueue and dequeue | results ignored; four kinds of caller interleave; lapping | bounded FIFO; nothing dropped |
| io_uring service, `infra/io_uring.h`, `.cc` | queue, submission and completion ring | `submit`, `runLoop`, `processComplete` | batch size against ring room; life of a request; answers out of order | each request is answered once, in the end, and not touched afterwards |
| I/O requests, `io/io_request.*` | none | `Split` | boundaries, empty vectors | the parts make up the request |
| I/O sink and completions, `io/io_sink.h`, `io/reactor.h`, `io/posix.h` | a queue of pending requests | `Submit`, `Drain`, `CompleteWith` | a consumer that refuses; errors nobody is told of | order kept, each issued once; whoever waits for an answer is told of it (not so for most errors) |
| Skip list node, `infra/skip_list.h` | `count_`, `commit_`, slots | `SetKeyValue`, `TablePrefix` | two claimants of one slot; bit layout | who is given a position writes there |
| List, histogram, `tools/` | links; counters | `Prepend`, `Append`, `Insert`, `Remove`; `Insert`, `Merge` | the last element; the ends of a binary search, counters nobody clears | both directions agree; the counters agree with the data |
| Serialisation, `infra/serialize.h` | none | `SerializeLE`, `DeserializeLE` | machines of different byte order | what is read is what was written |
| Fail points, `src/tools/failpoint` | points | `Enable`, `Disable`, `ShouldFire` | enabling while threads pass | once `Enable` has returned, every hit is judged once and by its mode |
| Trie, block node, allocators, logging, `xlog` | | declarations, wrappers or pure I/O | | not modelled |

How they interact: a client calls `asyncMalloc`, which reserves a region of the
SPSC ring under `lock_`, copies its record there, and calls `LeaderComplete` or
`FollowerComplete`. The leader passes one write for the group to
`CoIoUring::submit`, which puts a pointer to an `IoRequest` (it lives in the
coroutine's frame) into the `BoundedQueue`. The thread in `runLoop` moves
pointers from the queue to the kernel and posts the baton of each answer.
`io/` is a second, unfinished I/O layer that nothing calls.

## Modules

| Module | Models | Its state and actions in the code |
|---|---|---|
| `SPSCRingBuffer` | the cursor arithmetic of `db/sp_ring_buffer.h` | `head_`, `tail_` as words that overflow at `Word`; operators for each statement of `RequestWriteSpace` and for `CommitWrite` |
| `RingClient` | that ring with one producer and one consumer | `LoadTail`, then `Reserve` or `Refuse`; `CommitWrite` of the oldest region; `live` is the history of regions, each with the value `at` that `head_` had when it was reserved |
| `RingProofs` | | the proofs about `RingClient`, `RingBuffer` and `RingMemory` |
| `RingMemory` | the constructor and destructor of `db/sp_ring_buffer.h` | one action per system call, each with its failure (`Create`, `Open`, `Unlink`, `Truncate`, `ReserveRange`, `Map`, `Close`); `Die` ends a process anywhere |
| `RingBuffer` | `db/ring_buffer.h` | `LoadHead`, `LoadTail`, `Swap` or `SwapFails` (also for no reason), `CommitWrite` |
| `MCRings` | | `RingClient`, `RingBuffer` and `RingMemory` side by side for TLC: the first state chooses which of them runs |
| `BoundedWindow` | what such a ring promises | abstract; `RingClient` implements it |
| `LogWriter` | `db/log_writer.h` over the ring | one program counter per `WriteTask`; one action per access to shared state; the device reads the ring block by block while the leader waits |
| `MCLogWriter` | | symmetry for TLC |
| `LogWriterProofs` | | the proofs about `LogWriter` |
| `BoundedQueue` | `infra/bounded_queue.h` | semaphore permit, ticket, slot, signal: four steps a call |
| `QueueProofs` | | the proofs about `BoundedQueue` |
| `BoundedFifo` | what a bounded queue promises | abstract; `BoundedQueue` implements it |
| `CoIoUring` | `infra/io_uring.h`, `io_uring.cc` | three steps of `submit`; `runLoop` split at every point where the kernel or a submitter can come between; `Answer` is the kernel |
| `AsyncDevice` | what `submit` promises its caller | abstract; `CoIoUring` implements it, and `LogWriter` uses its device as one |
| `UringProofs` | | the proofs about `CoIoUring` |
| `IoSink` | `io/io_sink.h`, `reactor.h`, `posix.h` | `SinkSubmit`; `Drain` split around the call of its consumer (`Start`, `Test`, `Accept` or `Refuse`, `Pop`); `CompleteWith`; the order of submission and of acceptance as history |
| `MCDevices` | | `CoIoUring` and `IoSink` side by side for TLC; operators of `IoSink` that would have a name of `CoIoUring` begin with `Sink` |
| `SinkProofs` | | the proofs about `IoSink` |
| `SequenceLemmas` | | lemmas on sequences that several proofs use |
| `IoRequestSplit` | `Split` of `io/io_request.cc` | a step is a turn of a loop: `BufferTurn`; `TakeRest`, `CutBuffer`, `LastPart`; the request is chosen in `Init` |
| `Histogram` | `tools/histogram.h` | `Insert`, the turns `Halve` of its search, `Count`; `Merge` ends a behaviour |
| `Serialize` | `infra/serialize.h` | a writer and a reader, each of either byte order |
| `MCAlgorithms` | | `IoRequestSplit`, `Histogram`, `Serialize` and `FailPoint` side by side for TLC, and the bounds on their inputs |
| `AlgorithmsProofs` | | the proofs about the first three |
| `SkipListNode` | `Node::SetKeyValue` of `infra/skip_list.h` | `LoadCount`, `Claim` or `ClaimFails`, `TakeIndex`, `StoreKey`, `Commit`; bit 63 of `count_` is `place` |
| `FailPoint` | `src/tools/failpoint` | the tester's `Enable` (one step a field) and `Disable`; three steps of `ShouldFire` a thread; the fields are the source's, the operators begin with `Point` where `IoRequestSplit` has the plain name |
| `FailPointProofs` | | the proofs about `FailPoint` |
| `IntrusiveList` | `tools/list.h` | `Prepend`, `Append`, `Insert`, `Remove`; `Visited` is the count that `Map` and `Validate` make |

Operators whose comment begins with `MUTANT of` are slips that a programmer
could make in the definition that follows them. No specification uses them; for
each property of a passing run one of them is swapped in to see that TLC then
finds the property violated.

### What the log writer model keeps and abstracts

* A cell stands for 6 bytes, the size of the header and of the zeros behind a
  group. What `crc` and `len` in the header say is left out; that the header is
  written, when, and where, is in. A cell holds the task whose bytes it holds.
* `count_` and `len` are plain fields that are read and written by several
  threads. `count_++` and `len += size` are two steps; `Reset` may store the two
  fields in either order or at once; the second load of `len` in
  `LeaderComplete` may or may not see a change; `CommitWrite(writer.len)` may use
  the zero just stored or the present value.
* A baton is a flag. `post` sets it and releases everybody suspended at that
  moment; a later `reset` does not take that back. A task that looks at the flag
  after the `reset` suspends.
* `active_writer_` and `file_pos_` are never assigned in the code, so there is
  one group, and every write starts at the beginning of the file.
* The copy of a record into its region is the caller's; no caller exists in the
  repository, so it is modelled from the design comment (lines 193-195): a
  leader leaves the first 6 bytes to `LeaderComplete`.
* `init()` has returned successfully in the initial state: the file exists and
  is all zeros.
* The constant `SubmitStarts` says whether the coroutine that `submit` returns
  ever runs. In the code it is dropped, so the truthful value is `FALSE`
  (`lw_lazy`); with that value nothing after the first write can happen, so the
  other runs ask what the rest of the code does once `submit` is awaited.
* Two history variables remember what the log writer itself does not notice:
  `late`, that a task was in `asyncMalloc` while a leader past its spin loop had
  still to empty the group, and `failed`, that a write ended without all its
  blocks. They guard nothing; `AckedDurable` refers to them.
* The constant `Phased`, where it is `TRUE`, leaves out the steps that would make
  `late` true: callers that keep `asyncMalloc` away from a closing group. Nothing in
  the code makes them, and lines 193-195 want the opposite, so no safety is claimed
  for it (the safety half of `DeviceAsPromised` is proved without it). Only the liveness runs use it (`lw_phased`, `lw_lazy`):
  without it a newcomer can be counted into a group whose leader has stopped
  counting, and somebody waits for ever.
* Writes are atomic by block, and a block is read from the ring when it is
  written. A log block that starts before `buffer_` makes the write fail
  (`EFAULT`).
  Where `buffer_` lies is what the constructor makes of it (`BufferBase`): it skips
  `kBlockSize - kPageSize` from any page on, which is a block boundary only for one
  page in each block.

### The two halves of a write

`LogWriter` does not contain `CoIoUring`: their product is out of reach, and the
log writer sees only the promise. `AsyncDevice` is that promise: a request is
answered once, after it was submitted and in the end, and its owner does not go
on before. `devices` shows that `CoIoUring` keeps it (`IsDevice`); `lw_phased` shows
that the write of a group, from `SubmitGroup` to `WriteDone`, is such a request
(`DeviceAsPromised`), so nothing that the log writer is shown to do needs more of
the device than `CoIoUring` gives.

### What the other models keep and abstract

* `RingMemory`: a process holds one ring. `CreateFails` and `OpenFails` are always
  possible, since `shm_open` fails for many reasons. After a failed `mmap` the
  constructor throws with the descriptor open and what it has mapped in place
  (`failed`), until the process ends.
* `RingBuffer`: the class does not say who calls `CommitWrite`; here every producer
  gives back its own region, in any order. Its free space is the mask *plus* the
  used space, so regions do overlap in the buffer once it has wrapped. The model
  has this and claims nothing about it, for want of anything in the repository
  that would; `GrantsDisjoint` is about the positions that the cursors hand out.
  `Unlapped` is a bound: the whole range of a `size_t` is not handed out while one
  region is held.
* `CoIoUring`: an error of `io_uring_submit` takes no entry and fails the assertion
  also when the batch is empty; without assertions nobody looks at it.
* `IoSink`: the consumer may submit more before it accepts and, until it returns,
  after.
* `FailPoint`: `Decide` reads `mode` and `nth` in one step. The two loads could see
  different calls of `Enable` only while one runs, and `FiresAsAsked` claims nothing
  of the passes that are judged then.
* `Histogram`: the counters are never cleared, and `Merge` keeps the smaller of two
  maxima; the first is a choice of the initial state that `CountsBracket`
  subtracts, and of the maximum nothing is claimed. `Insert` may miss the bucket
  whose range `Print` writes by one; `CountsBracket` is as much as a reader can
  rely on.

## Runs

| Run | Question | Bounds | Result |
|---|---|---|---|
| `lw_open` | What holds whatever the callers interleave? | 3 tasks of 1 or 2 cells, ring and block of 4 cells, pages of 2, so both alignments of `buffer_`, failing writes, lengths cut at 8 cells | passes: `TypeOK`, `OneLeader`, `NotifyToken`, `HeaderAfterWrite`, and `AckedDurable` within its limits (see below) |
| `lw_phased` | Does a leader finish, is a suspended follower woken and the device used as it may be, when callers keep `asyncMalloc` away from a closing group? | 3 tasks of 1 or 3 cells, ring of 8, block of 4, fair threads and device | passes: `LeaderFinishes` (unless a task waits for memory), `WaiterReleased` (of followers suspended before the post), `DeviceAsPromised` |
| `lw_reuse` | Is a region its task's own while the group before is written? | 3 tasks of 1 or 3 cells, ring of 4, open callers | violates `RegionsDisjoint` |
| `lw_lazy` | Does the code as committed write at all? | as `lw_open`, `SubmitStarts = FALSE`, fair | violates `LeaderFinishes` |
| `lw_late_join` | Does the writer of the zeroed cells lead the next group? | as `lw_open`, ring of 8 | violates `TailOwnerLeads` |
| `rings` | Is the SPSC ring a bounded window? Does the other one hand out its space once, and to somebody? Who can share the memory of a ring? | one ring of 8 bytes, 16-valued cursors, sizes 1, 2, 3, 5, 8; one of 4 bytes, 8-valued cursors, 2 producers of 1 or 3 bytes; 3 processes, 4 objects | passes, refinement of `BoundedWindow` included |
| `queue` | Is the queue a bounded FIFO? | 2 producers, 2 consumers, 2 slots, 2 items each | passes, refinement of `BoundedFifo` included |
| `devices` | Is the io_uring service a device, and safe when the kernel takes only some entries? Does every request of the sink reach the kernel in order, once, and its completion hear of it? | 3 requests, queue, ring and batch of 2, kernel and assertions chosen in the first state; 3 requests, consumer free to refuse and to submit | passes: `SqeAvailable`, `ReferredAlive`, the refinement of `AsyncDevice`, its liveness included when the kernel takes everything; `IssuedInOrder`, `NoUseAfterAnswer`; `Told` is about the results that `CompleteWith` passes on |
| `sink_untold` | Is every answer told? | 2 requests | violates `EveryAnswerTold` |
| `algorithms` | Are the parts the request? Do the counters agree with the data? Is what is read what was written? Does an enabled point fire as often as its mode says? | all vectors of up to 3 buffers of 0 to 4 bytes, all plain buffers, `max_length` 1, 2, 3, 5; all histograms of up to 5 buckets with 2 data in two of them; all values of 1, 2 and 4 bytes out of 3; 2 threads of 2 passes, 2 calls of `Enable`, every mode | passes |
| `skiplist` | Does a thread that was given a position write there? | 2 threads, 3 slots | violates `PositionIsWritten` |
| `list_insert` | Do both walks count what the list holds? | 4 elements | violates `Validate` |

Why the bounds are enough. Three tasks are a leader, a follower and a newcomer,
the largest set of roles that the code tells apart; with sizes up to the ring
one of them meets a full ring. The first group may end inside, at or beyond a
block. In `rings` the head and the tail overflow several times over, at
different moments. In `queue` four items lap two slots twice. In
`devices` the queue, the ring and the batch limit are each smaller than the number of
requests, so an entry that the kernel has left in the ring meets a batch of two
and a third request that waits for a permit. Two producers with a head that comes
back to an old value are what a compare-and-swap can confuse; of three processes
one can hold an object, one meet it and one come too late, with an object left
over for a name that a dead one has left. A histogram of five buckets has a
search of three turns that ends at either side, with data below, at and above
every bound; two data are one in each histogram, or two in one of them.
In `algorithms` a buffer can be shorter than a part, fill it, end where it ends or
reach over several, with empty ones between; an empty and a missing vector are
included; four passes of a fail point meet two enablings, the second of which
begins with passes at every point of `ShouldFire`. `lw_reuse` needs a ring that a
newcomer can fill up behind the first group.

Runs of finite workloads (`lw_*`, `queue`, `devices`, `algorithms`, `skiplist`)
end, or abort where the code does, so they do not check for deadlock; waiting for
ever is what their liveness properties are about. `rings` never stops and is
checked for deadlock.

### Fairness

`LogWriter!Fairness`: a task that has been given its region copies its record
and completes (its caller's duty), its thread is scheduled, and the device
answers a write it has started. Nobody has to call `asyncMalloc`. In `lw_phased`
it is the fairness of the steps that `Phased` leaves.
`RingClient`: both sides keep going. `BoundedQueue`: a call that has its permit
runs on, consumers keep dequeuing; a producer may stop calling.
`CoIoUring`: the loop has a thread of its own, the kernel answers what it took,
a coroutine that has its permit is scheduled. None of these is strong, and none
is on obtaining a permit or a lock. `IoSink`: `Drain` is called again and again,
the kernel answers, and a consumer that is asked again and again accepts in the
end; the last is strong fairness and a duty of the consumer, which the
repository does not contain. `RingBuffer`: a producer that has called runs on (nobody has to call), and a
compare-and-swap that could succeed again and again is not made to fail for no
reason every time (strong, as the weak form of the instruction requires).
`IoRequestSplit`, `Histogram`: the loop runs. `RingMemory` and `Serialize` have
no fairness.

### What the violations show

* `lw_lazy`: `commit` (`db/log_writer.h:78`) calls `io_uring.submit(&req)` and
  drops the returned `folly::coro::Task`, which runs only when awaited. The
  request is never queued; the first leader, and with it every follower, waits
  for ever.
* `lw_late_join`: the comment at lines 193-194 makes the writer of the 6 bytes
  behind a group the next leader. In the code such a writer joins the group that
  is being written, because `count_` is still not zero: it is a follower,
  its region is partly zeroed, and it is acknowledged by a write that does not
  contain it.

* `lw_reuse`: `LeaderComplete` gives back `writer.len` (`db/log_writer.h:61`) after
  `Reset` has emptied the group. By itself that gives back nothing, ever. But a task
  that calls `asyncMalloc` between the two finds an empty group, adds its size to
  `len`, and has its own region given back while it fills it, which lines 193-195
  want to be safe; the next task is handed the same cells.

* `sink_untold`: after an error other than EBADF and ENOTSOCK `ThrowKernelError`
  (`io/posix.h:11`) throws nothing, so `CompleteWith` calls neither `Complete` nor
  `SetException`. The comment on a request's completion (`io/io_sink.h:12`) says
  that when the kernel is done one must know whom to notify and wake.

* `list_insert`: `Insert` (`tools/list.h:84`) has its test of `end_` the wrong way
  round, so after an insertion behind the last element, or before it, `end_`
  points to the wrong one; `Validate`'s backward count is then not `count_`.
  Without `Insert` the property holds.

* `skiplist`: `SetKeyValue` (`infra/skip_list.h:117-124`) sets bit 63 of `count_`,
  leaves it there and compares the whole word with `N`: the first call is turned
  away with position 1 of an empty node, and every later one at its first test.
  Two threads may also pass the claim together, which clearing the bit alone
  would not cure.

Other questionable behaviour that the models contain, and that no comment of the
code decides, is in the hazard list: the space of a group is not given back
when nobody comes in between `Reset` and `CommitWrite`; a task waiting for memory
holds the lock and is counted in the group whose leader would free it; a follower
that reaches `completion_` after the reset sleeps on; a task that retries after
waiting for memory is counted twice and leads no more; a failed write is
acknowledged. `Histogram::Merge` keeps the smaller of two maxima, which no comment
or test speaks about.

## Proofs

Every safety property that a passing run claims is also a theorem for all
values of the constants, the safety parts of the three refinements included. A
theorem about a specification that runs beside others is stated for the
specification that TLC checks (`MCRings`, `MCAlgorithms`) or for the component's
own (`CoIoUring`, `IoSink`, `FailPoint`), whose steps are those of `MCDevices` and
`MCAlgorithms`. No theorem rests on more than the named assumptions of the modules, which TLC evaluates on
every run.

Each proof has the same shape. A property is seldom inductive as it stands; a
named invariant strengthens it, TLC has checked that invariant on the run's
instance, one lemma shows that it holds at first, one that every action keeps it,
and the theorem reads the property off. Actions that disturb no part of an
invariant are dealt with once (`QuietStep`, `StepAside`, `Even` in
`LogWriterProofs`, `MemoryMoves` in `RingProofs`).

### The log writer (`LogWriterProofs`)

For any set of tasks, any sizes, widths and alignment, any interleaving of the
callers, writes that fail or not, whether submits start or not:

| Theorem | Property | From |
|---|---|---|
| `TypeCorrect` | `TypeOK` | itself |
| `LeaderUnique` | `OneLeader` | `LeaderInv` |
| `LeaderNeverBlocks` | `NotifyToken` | `LeaderInv` |
| `HeaderWaits` | `HeaderAfterWrite` | `LeaderInv`, `PendingInFlight` |
| `CommitIsRequest` | `Requested!OnceEach`, the safety part of `DeviceAsPromised` | `RequestInv` |
| `AckedIsDurable` | `AckedDurable` | `Inv`: `LeaderInv`, `RegionInv`, `GroupInv`, `DiskInv` |

`OneLeader` is not inductive: a claim is granted when `count_` is 0, so one has
to know that `count_` is not 0 while somebody leads. `LeaderInv` adds
`LockHeld` (who is inside `asyncMalloc` holds the lock, so two claims
cannot overlap), `LeadersClaimed` (only a claimant gets past the copy) and
`OwnersCounted` (past its `count_++` a claimant keeps `count_` positive). The
unlocked clear in `Reset` is harmless to it because only the one leader clears,
and the store of `count_` is the moment it stops being an owner. `NotifyToken`
then says that `notify_leader_` is never contended: while `count_` stands, nobody
else gets as far as line 43. `PendingInFlight` (blocks are pending only for the
task whose write is in flight) turns that into `HeaderAfterWrite`, and with
`FollowersFollow` (a follower has no request) into the simulation of
`AsyncDevice`.

`AckedDurable` is the property that the whole component is for, and the longest
argument.

* `RegionInv`, as long as no `asyncMalloc` has met a closing group: nobody is in
  the group between `Reset` and `FreeGroup`, which therefore gives back 0 bytes; the
  tail does not move and the ring is handed out once, from its start to its end, so
  that any two regions lie one behind the other.
* `GroupInv`: the counters are what they seem. `count_` is the leader, the copies
  counted, the followers still copying, and the one in `asyncMalloc`; `len` is the
  distance from the leader's address to the head, less what is being added. A
  leader that leaves its spin loop therefore has everybody's record in the ring.
  Once a task finds the ring full all this may fail, but then that task holds the
  lock for good and nobody leads again (`Stuck`).
* `DiskInv`: as long as the log is in its first block, whoever is past its copy has
  its record in the ring (`RingFilled`; a leader's first cell comes last), whoever
  is not behind a leader that has yet to write has it on file (`KeptOnFile`), and
  whoever is acknowledged is such a one (`AckedKept`). A write is of one block
  (`OneBlock`) and begins at the start of the ring, so it writes again what was
  there and loses nothing.

Its limits are part of the property, and each is a place where the code gives up
what it has acknowledged. `late`: an `asyncMalloc` that meets a closing group may be
counted into a write that does not contain it, or have its region given to another
(`lw_late_join`, `lw_reuse`). The property speaks of a behaviour up to the first such
moment, whatever happened before, and makes no promise about the callers. `failed`:
the result of the write is never read (`db/log_writer.h:78-79`), so what a failing
device loses is acknowledged all the same. `InFirstBlock`: `file_pos_` never moves,
so the second block's worth of records overwrites the first in the file, and with a
`buffer_` that does not begin at a block the first write reads from before it. Beyond
these the theorem asks for nothing but `LogAssumption`, whose bounds on a block (no
larger than the ring and the file, smaller than the range of `uint16_t`) are met by
the code's 8 KiB, 8 MiB, 1 GiB and 64 Ki (`db/constant.h`, `db/log_writer.h`).

That two regions in use never share a cell is not a theorem: it is false
(`lw_reuse`).

### The rings (`RingProofs`)

| Theorem | Property | From |
|---|---|---|
| `RingTypes` | `TypeOK` | `RingInv` |
| `WindowStaysBounded` | `WindowBounded` | `RingInv` |
| `RegionsNeverOverlap` | `NoOverlap` | `RingInv` |
| `ImplementsWindow` | `IsWindow` | step simulation under `RingInv` |
| `RingsTypes` | `TypesOK` | `MultiInv`, `MemoryInv` |
| `NothingGrantedTwice` | `GrantsDisjoint` | `MultiInv` |
| `NameDoesNotOutlive` | `NameTransient` | `MemoryInv` |
| `GoneOnIsPrivate` | `PrivateOnceUnlinked` | `MemoryInv` |

`RingInv` says of the regions in use that the first begins at `tail_`, each next
one where the last ends, and the last ends at `head_` (`Chained`), all modulo the
overflow of the cursors; that their distances from `tail_` grow with their index
(`Ordered`) and stay within the buffer (`WindowBounded`); and that a region lies
at its cursor modulo the buffer (`Placed`). Two cells of different regions that
were the same cell of the buffer would be congruent positions less than a buffer
apart, hence equal. `at` is there to state this: without the cursor of a region
nothing relates its place to the window.

`MultiInv` looks from the head backwards: a producer's region lies between two
distances from the head, and of two regions one is wholly farther. A swap that
succeeds adds its size to all distances and starts at 0, whatever `head_` was in
between; the bound `Unlapped` keeps the distances below the word.

`MemoryInv` adds to `NameTransient` that whoever holds the object that the name
stands for has its `shm_unlink` still before it (`NameFresh`): so an object
somebody has gone on with has no name, and nobody can open it any more.

### The queue (`QueueProofs`)

| Theorem | Property | From |
|---|---|---|
| `QueueTypes` | `TypeOK` | itself |
| `EveryPermitAccounted` | `PermitsAccounted` | `Permits` |
| `TicketGuaranteed` | `PermitGivesTicket` | `Permits` |
| `QueueIsFifo` | `IsFifo` | step simulation under `FifoInv` |

`Permits` counts: the permits left, the producers between permit and ticket, the
tickets pushed and not popped, and the consumers that have a ticket and have not
given their permit back make up the capacity; the signals left, the consumers
between signal and ticket and the producers between ticket and signal make up
those tickets. Hence a producer with a permit finds fewer tickets than slots, and
a consumer with a signal finds at least one. `FifoInv` adds what the turn of a slot
says of every ticket it ever serves: its writer has been there, its reader has been
there (`TurnsCount`). Since no two callers have one ticket (`TicketsDiffer`), what a
consumer finds in its slot is what the producer of the same number was given, any
number of laps later.

### The io_uring service and the sink (`UringProofs`, `SinkProofs`)

| Theorem | Property | From |
|---|---|---|
| `UringTypes` | `TypeOK` | `UringInv` |
| `SqeNeverMissing` | `SqeAvailable` | `UringInv` |
| `ReferredNotGone` | `ReferredAlive` | `UringInv` |
| `ServiceIsDevice` | `Device!OnceEach`, the safety part of `IsDevice` | step simulation under `UringInv` |
| `SinkTypes` | `SinkTypeOK` | `SinkInv` |
| `OrderKept` | `IssuedInOrder` | `SinkInv` |
| `NothingLeadsToAnswered` | `NoUseAfterAnswer` | `SinkInv` |

`UringInv`: a request that was submitted and not answered is in one place only (the
queue, the hand of the loop, the submission ring, the kernel, what is left of the
completions) and there once (`OnePlace`, `OnceThere`), and nobody has posted its
baton (`Waits`); the batch that is under way fits into what is left of the ring,
since the ring only empties between the count and the fill (`BatchFits`). All of
it holds for a kernel that takes what it likes and answers in any order.

`SinkInv` adds to the order that no request is submitted or issued twice
(`SubmittedOnce`), that the kernel has only what was issued and not answered
(`KernelHasIssued`), and that the front which `Drain` refers to is still there
(`InFront`), although its consumer may submit more and be answered in the middle.

### Split, histogram, serialisation (`AlgorithmsProofs`)

| Theorem | Property | From |
|---|---|---|
| `SplitTypes` | `TypeOK` | `SplitInv` |
| `SplitKeepsTheRequest` | `PartsAreRequest` | `SplitInv` |
| `SplitFillsTheParts` | `PartsFull` | `SplitInv` |
| `HistogramCounts` | `CountsBracket` | `HistInv` |
| `BytesAreLittleEndian` | `LittleEndian` | the two swaps cancel |

They hold for vectors and buffers of any length, any `max_length`, any number of
buckets and data and any width, where the run has small ones. `SplitInv` is the loop
invariant: the finished parts and the pieces gathered for the next are the buffers
before `cur` and the first `off` bytes of `cur`; `remaining` is what the gathered
pieces lack of `max_length`; and a part is cut only where the next one has a byte
to take, which is why none is empty. `HistInv` is `CountsBracket` and the bracket
that the search keeps around the datum.

Both need facts about recursive definitions: the bytes of a sequence of pieces are
a concatenation of all of them, `SumFunction` is a fold over a set. The library's
induction theorems take an operator, which the provers here cannot instantiate.
Its `WFMin` does not: every non-empty set of numbers has a least element, so a set
of numbers with 0 and the successor of each member is all numbers (`Induction`), and
a property is proved by putting the numbers, or the finite subsets, that have it
into a set. From that follow the lemmas on `FlattenSeq` (`FlattenSeq` of one more
sequence) and on sums (`TotalAdd`, `TotalUpdate`).

### Fail points (`FailPointProofs`)

| Theorem | Property | From |
|---|---|---|
| `PointTypes` | `PointTypeOK` | `PointInv` |
| `PointFiresAsAsked` | `FiresAsAsked` | `PointInv` |

The threads that have counted a hit of this round and not decided yet have different
numbers, all of them hits of this round (`Numbered`), and once `Enable` has returned
every other hit has been judged as the mode says (`Judged`): so the hit that a ONCE or NTH
point waits for is either still pending or has fired. That `hit` is stored last
(`Storing`) is what keeps hits of an earlier round out.

`SequenceLemmas` holds what these proofs need of `Range`, injective sequences and
their heads and tails.

### Only model-checked

* Everything under fairness: `LeaderFinishes`, `WaiterReleased`, `AllServe`,
  `Delivered`, `Returns`, `Told`, `LoopsEnd`, and the liveness parts of `IsDevice`
  and `DeviceAsPromised`. Liveness and `ENABLED` are beyond the provers used here.
* The six violations, each by its counterexample.

## Not modelled

* `LogWriter::init()` and the destructor: the log writer's models start when
  `init()` has succeeded, which is when the first task can exist. A restart would
  begin with `init()` on an existing file, but nothing in the repository reads the
  log back, so there is no recovery to model; what a crash leaves on disk is what
  `AckedDurable` speaks of.
* `io/async_io.h`, `io/io_uring.h`: asynchronous front ends whose bodies are
  missing.
* The skip list above its node, `infra/cspptrie.h`, `infra/block_node.h`,
  `infra/skmv_skiplist.h`: declarations and comments. `infra/atomic.h` wraps
  loads and stores with a memory order; every load and store of the models is
  one step, and no algorithm in the repository rests on a weaker order than
  that, except the relaxed `tail_` of the rings, which `LoadTail` lets be stale.
  `TablePrefix` packs three numbers and keeps nothing.
* Allocators, buffers, logging, error codes, `xlog`: wrappers and pure I/O.
* `Print` of the histogram: output.

## Plan

The components with logic of their own have a module each, the two halves of a
write meet in `AsyncDevice`, and the safety properties that the runs claim are
proved. What is left to prove is what stands behind the liveness properties and
can be said without fairness:

1. `IoRequestSplit`, `Histogram`: a number that every turn of a loop makes smaller,
   so that `LoopsEnd` needs nothing but a loop that runs.
2. `LogWriter`: while a group that no newcomer has met is not finished and no task
   waits for memory, some task can move, for any number of tasks: the freedom from deadlock behind
   `LeaderFinishes` and `WaiterReleased`.
3. `BoundedQueue`: the same, from `Permits` and `TurnsCount`: the caller with the
   oldest ticket never waits for its slot.
4. `IoSink`: of the requests issued and answered, all whose answer `CompleteWith`
   passes on have been told.

To model, should the code grow into it: recovery from the log, once something
reads it; the list over `SkipListNode`; the front ends of `io/`.
