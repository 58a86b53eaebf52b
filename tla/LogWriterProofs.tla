-------------------------- MODULE LogWriterProofs --------------------------
(***************************************************************************)
(* What holds of LogWriter for every number of tasks and every size, how-  *)
(* ever the callers interleave: types, one leader to a group, the token    *)
(* that notify_leader_ is, one request of the device to a leader, and that *)
(* what is acknowledged is on disk.                                        *)
(***************************************************************************)
EXTENDS LogWriter, TLAPS, FiniteSetTheorems

(***************************************************************************)
(* The cursors of the ring keep their width.                               *)
(***************************************************************************)
LEMMA ModRange ==
    ASSUME NEW n \in Int, NEW w \in Nat \ {0}
    PROVE  n % w \in 0..(w - 1)
  OBVIOUS

LEMMA Moduli ==
    /\ kBufferSize \in Nat \ {0} /\ kBlockSize \in Nat \ {0} /\ Word \in Nat \ {0}
    /\ Sizes \subseteq Nat
    /\ kPageSize \in 1..kBlockSize
  BY LogAssumption

(***************************************************************************)
(* A step of the wake-up operator keeps pc a function into Points.         *)
(***************************************************************************)
LEMMA PostType ==
    ASSUME pc \in [Tasks -> Points], NEW t \in Tasks,
           NEW point \in Points, NEW suspended, NEW go \in Points,
           PostAndGoto(t, point, suspended, go)
    PROVE  pc' \in [Tasks -> Points]
  BY DEF PostAndGoto

LEMMA GotoType ==
    ASSUME pc \in [Tasks -> Points], NEW t \in Tasks,
           NEW point \in Points, Goto(t, point)
    PROVE  pc' \in [Tasks -> Points]
  BY DEF Goto

LEMMA StoreType ==
    ASSUME mem \in [Cells -> Record], NEW cells, NEW value \in Record,
           Store(cells, value)
    PROVE  mem' \in [Cells -> Record]
  BY DEF Store

LEMMA PointNames ==
    /\ Mallocing \subseteq Points /\ Leading \subseteq Points
    /\ Clearing \subseteq Points /\ Following \subseteq Points
    /\ {"idle", "copy", "copied", "acked"} \subseteq Points
  BY DEF Points

LEMMA TypeInit == Init => TypeOK
  <1> SUFFICES ASSUME Init PROVE TypeOK
    OBVIOUS
  <1>1. ring!RingTypeOK
    BY Moduli DEF Init, ring!RingInit, ring!RingTypeOK
  <1>2. pc \in [Tasks -> Points] /\ leader \in [Tasks -> BOOLEAN] /\ lock \in Tasks \cup {Free}
    BY DEF Init, Points
  <1>3. base \in 0..(kBlockSize - 1)
    <2>1. PICK raw \in PageStarts : base = BufferBase(raw)
      BY DEF Init
    <2>2. raw + (kBlockSize - kPageSize) \in Int
      BY <2>1, Moduli DEF PageStarts
    <2> QED BY <2>1, <2>2, ModRange, Moduli DEF BufferBase
  <1>4. /\ addr \in [Tasks -> Cells] /\ size \in [Tasks -> Nat]
        /\ seen \in [Tasks -> Nat] /\ todo \in [Tasks -> SUBSET Nat]
    BY Moduli DEF Init, Cells
  <1>5. mem \in [Cells -> Record] /\ file \in [0..(kLogFileSize - 1) -> Record]
    BY DEF Init, Record
  <1> QED BY <1>1, <1>2, <1>3, <1>4, <1>5 DEF Init, TypeOK

LEMMA TypeStep == TypeOK /\ [Next]_vars => TypeOK'
  <1> SUFFICES ASSUME TypeOK, [Next]_vars PROVE TypeOK'
    OBVIOUS
  <1>0. late' \in BOOLEAN /\ failed' \in BOOLEAN
    BY DEF Next, Observe, vars, history, TypeOK
  <1> USE <1>0 DEF TypeOK
  <1>1. ASSUME NEW t \in Tasks, NEW s \in Sizes, Malloc(t, s) PROVE TypeOK'
    <2>1. pc' \in [Tasks -> Points]
      BY <1>1, GotoType DEF Malloc, Claim, Points, Mallocing
    <2>2. s \in Nat
      BY Moduli
    <2> QED BY <1>1, <2>1, <2>2
         DEF Malloc, Claim, groupVars, batons, ringVars, disk, ring!RingTypeOK
  <1>2. ASSUME NEW t \in Tasks, BumpCount(t) PROVE TypeOK'
    <2>1. pc' \in [Tasks -> Points]
      BY <1>2, GotoType DEF BumpCount, Points, Mallocing
    <2> QED BY <1>2, <2>1
         DEF BumpCount, taskVars, batons, ringVars, disk, ring!RingTypeOK
  <1>3. ASSUME NEW t \in Tasks, RequestWriteSpace(t) PROVE TypeOK'
    <2>1. pc' \in [Tasks -> Points]
      BY <1>3, GotoType DEF RequestWriteSpace, Points, Mallocing
    <2>2. addr' \in [Tasks -> Cells]
      <3>1. ring!HeadIndex \in Cells
        BY ModRange, Moduli DEF ring!HeadIndex, Cells, ring!RingTypeOK
      <3> QED BY <3>1, <1>3 DEF RequestWriteSpace
    <2>3. head_' \in 0..(Word - 1)
      <3>1. head_ + size[t] \in Int
        BY DEF ring!RingTypeOK
      <3>2. (head_ + size[t]) % Word \in 0..(Word - 1)
        BY <3>1, ModRange, Moduli
      <3> QED BY <3>2, <1>3 DEF RequestWriteSpace, ring!AdvanceHead, ring!RingTypeOK
    <2> QED BY <1>3, <2>1, <2>2, <2>3
         DEF RequestWriteSpace, groupVars, batons, disk, ring!RingTypeOK
  <1>4. ASSUME NEW t \in Tasks, AwaitMemory(t) PROVE TypeOK'
    <2>1. pc' \in [Tasks -> Points]
      BY <1>4, GotoType DEF AwaitMemory, Await, Points, Mallocing
    <2> QED BY <1>4, <2>1
         DEF AwaitMemory, taskVars, groupVars, batons, ringVars, disk, ring!RingTypeOK
  <1>5. ASSUME NEW t \in Tasks, RetryMalloc(t) PROVE TypeOK'
    <2>1. pc' \in [Tasks -> Points]
      BY <1>5, GotoType DEF RetryMalloc, Claim, Points, Mallocing
    <2> QED BY <1>5, <2>1
         DEF RetryMalloc, Claim, groupVars, ringVars, disk, ring!RingTypeOK
  <1>6. ASSUME NEW t \in Tasks, LoadLen(t) PROVE TypeOK'
    <2>1. pc' \in [Tasks -> Points]
      BY <1>6, GotoType DEF LoadLen, Points, Mallocing
    <2> QED BY <1>6, <2>1
         DEF LoadLen, groupVars, batons, ringVars, disk, ring!RingTypeOK
  <1>7. ASSUME NEW t \in Tasks, GrowLen(t) PROVE TypeOK'
    <2>1. pc' \in [Tasks -> Points]
      BY <1>7, GotoType DEF GrowLen, Points
    <2> QED BY <1>7, <2>1
         DEF GrowLen, taskVars, batons, ringVars, disk, ring!RingTypeOK
  <1>8. ASSUME NEW t \in Tasks, CopyRecord(t) PROVE TypeOK'
    <2>1. pc' \in [Tasks -> Points]
      BY <1>8, GotoType DEF CopyRecord, Points
    <2>2. mem' \in [Cells -> Record]
      BY <1>8, StoreType DEF CopyRecord, Record
    <2> QED BY <1>8, <2>1, <2>2
         DEF CopyRecord, taskVars, groupVars, batons, disk, ring!RingTypeOK
  <1>9. ASSUME NEW t \in Tasks, FollowerComplete(t) PROVE TypeOK'
    <2>1. CASE CountCopy(t)
      <3>1. pc' \in [Tasks -> Points]
        BY <2>1, GotoType DEF CountCopy, Points, Following
      <3> QED BY <2>1, <3>1
           DEF CountCopy, taskVars, batons, ringVars, disk, ring!RingTypeOK
    <2>2. CASE AwaitCompletion(t)
      <3>1. pc' \in [Tasks -> Points]
        BY <2>2, GotoType DEF AwaitCompletion, Await, Points, Following
      <3> QED BY <2>2, <3>1
           DEF AwaitCompletion, taskVars, groupVars, batons, ringVars, disk, ring!RingTypeOK
    <2> QED BY <1>9, <2>1, <2>2 DEF FollowerComplete
  <1>10. ASSUME NEW t \in Tasks, AwaitNotify(t) PROVE TypeOK'
    <2>1. pc' \in [Tasks -> Points]
      BY <1>10, GotoType DEF AwaitNotify, Await, Points, Leading
    <2> QED BY <1>10, <2>1
         DEF AwaitNotify, taskVars, groupVars, batons, ringVars, disk, ring!RingTypeOK
  <1>11. ASSUME NEW t \in Tasks, WriteHeader(t) PROVE TypeOK'
    <2>1. pc' \in [Tasks -> Points]
      BY <1>11, GotoType DEF WriteHeader, Points, Leading
    <2>2. mem' \in [Cells -> Record]
      BY <1>11, StoreType DEF WriteHeader, Record
    <2> QED BY <1>11, <2>1, <2>2
         DEF WriteHeader, taskVars, groupVars, disk, ring!RingTypeOK
  <1>12. ASSUME NEW t \in Tasks, AllCopied(t) PROVE TypeOK'
    <2>1. pc' \in [Tasks -> Points]
      BY <1>12, GotoType DEF AllCopied, Points, Leading
    <2> QED BY <1>12, <2>1
         DEF AllCopied, taskVars, groupVars, batons, ringVars, disk, ring!RingTypeOK
  <1>13. ASSUME NEW t \in Tasks, MeasureGroup(t) PROVE TypeOK'
    <2>1. pc' \in [Tasks -> Points]
      BY <1>13, GotoType DEF MeasureGroup, Points, Leading
    <2> QED BY <1>13, <2>1
         DEF MeasureGroup, groupVars, batons, ringVars, disk, ring!RingTypeOK
  <1>14. ASSUME NEW t \in Tasks, SubmitGroup(t) PROVE TypeOK'
    <2>1. pc' \in [Tasks -> Points]
      BY <1>14, GotoType DEF SubmitGroup, Points, Leading
    <2>2. mem' \in [Cells -> Record]
      BY <1>14, StoreType DEF SubmitGroup, Record
    <2>3. 0..(GroupBlocks(seen[t]) - 1) \subseteq Nat
      OBVIOUS
    <2> QED BY <1>14, <2>1, <2>2, <2>3
         DEF SubmitGroup, taskVars, groupVars, batons, ring!RingTypeOK
  <1>15. ASSUME NEW t \in Tasks, NEW k \in todo[t], PersistBlock(t, k) PROVE TypeOK'
    <2>1. file' \in [0..(kLogFileSize - 1) -> Record]
      <3>1. BlockStart(t) \in Int
        <4>1. base + addr[t] \in Int /\ addr[t] \in Int
          BY DEF Cells
        <4>2. (base + addr[t]) % kBlockSize \in 0..(kBlockSize - 1)
          BY <4>1, ModRange, Moduli
        <4> QED BY <4>1, <4>2 DEF BlockStart
      <3>2. ASSUME NEW c \in 0..(kLogFileSize - 1)
            PROVE  mem[(BlockStart(t) + c) % kBufferSize] \in Record
        <4>1. BlockStart(t) + c \in Int
          BY <3>1
        <4>2. (BlockStart(t) + c) % kBufferSize \in 0..(kBufferSize - 1)
          BY <4>1, ModRange, Moduli
        <4> QED BY <4>2 DEF Cells
      <3> QED BY <1>15, <3>2 DEF PersistBlock
    <2> QED BY <1>15, <2>1
         DEF PersistBlock, taskVars, groupVars, batons, ringVars, ring!RingTypeOK
  <1>16. ASSUME NEW t \in Tasks, WriteDone(t) PROVE TypeOK'
    <2>1. pc' \in [Tasks -> Points]
      BY <1>16, GotoType DEF WriteDone, Points, Leading
    <2> QED BY <1>16, <2>1
         DEF WriteDone, taskVars, groupVars, batons, ringVars, ring!RingTypeOK
  <1>17. ASSUME NEW t \in Tasks, PostCompletion(t) PROVE TypeOK'
    <2>1. pc' \in [Tasks -> Points]
      BY <1>17, PostType DEF PostCompletion, Points, Leading
    <2> QED BY <1>17, <2>1
         DEF PostCompletion, taskVars, groupVars, ringVars, disk, ring!RingTypeOK
  <1>18. ASSUME NEW t \in Tasks, PostNotifyLeader(t) PROVE TypeOK'
    <2>1. pc' \in [Tasks -> Points]
      BY <1>18, PostType DEF PostNotifyLeader, Points, Leading
    <2> QED BY <1>18, <2>1
         DEF PostNotifyLeader, taskVars, groupVars, ringVars, disk, ring!RingTypeOK
  <1>19. ASSUME NEW t \in Tasks, Reset(t) PROVE TypeOK'
    <2>1. pc' \in [Tasks -> Points]
      BY <1>19, GotoType
      DEF Reset, ResetCompletion, ClearCount, ClearLen, ClearBoth, ClearCompleted,
          Points, Clearing
    <2>2. count' \in Nat /\ len' \in Nat /\ completed' \in Nat /\ completion' \in BOOLEAN
      <3>1. CASE ResetCompletion(t)
        BY <3>1 DEF ResetCompletion, groupVars
      <3>2. CASE ClearCount(t) \/ ClearLen(t) \/ ClearBoth(t) \/ ClearCompleted(t)
        BY <3>2 DEF ClearCount, ClearLen, ClearBoth, ClearCompleted, batons
      <3> QED BY <1>19, <3>1, <3>2 DEF Reset
    <2>3. UNCHANGED <<base, taskVars, lock, notify_leader, memory_notify, ringVars, disk>>
      BY <1>19 DEF Reset, ResetCompletion, ClearCount, ClearLen, ClearBoth,
                   ClearCompleted, batons
    <2> QED BY <2>1, <2>2, <2>3 DEF taskVars, ringVars, disk, ring!RingTypeOK
  <1>20. ASSUME NEW t \in Tasks, FreeGroup(t) PROVE TypeOK'
    <2>1. pc' \in [Tasks -> Points]
      BY <1>20, GotoType DEF FreeGroup, Points, Clearing
    <2>2. tail_' \in 0..(Word - 1)
      <3>1. PICK n \in {0, len} : tail_' = (tail_ + n) % Word
        BY <1>20 DEF FreeGroup, ring!CommitWrite
      <3>2. tail_ + n \in Int
        BY DEF ring!RingTypeOK
      <3> QED BY <3>1, <3>2, ModRange, Moduli
    <2> QED BY <1>20, <2>1, <2>2
         DEF FreeGroup, taskVars, groupVars, batons, disk, ring!RingTypeOK
  <1>21. ASSUME NEW t \in Tasks, PostMemoryNotify(t) PROVE TypeOK'
    <2>1. pc' \in [Tasks -> Points]
      BY <1>21, PostType DEF PostMemoryNotify, Points, Clearing, Mallocing
    <2> QED BY <1>21, <2>1
         DEF PostMemoryNotify, taskVars, groupVars, ringVars, disk, ring!RingTypeOK
  <1>22. CASE UNCHANGED vars
    BY <1>22 DEF vars, taskVars, groupVars, batons, ringVars, disk, ring!RingTypeOK
  <1> HIDE DEF TypeOK
  <1> QED BY <1>1, <1>2, <1>3, <1>4, <1>5, <1>6, <1>7, <1>8, <1>9, <1>10, <1>11, <1>12,
             <1>13, <1>14, <1>15, <1>16, <1>17, <1>18, <1>19, <1>20, <1>21, <1>22
          DEF Next, TaskStep, AsyncMalloc, LeaderComplete, Device

(***************************************************************************)
(* Every variable of LogWriter keeps its type.                             *)
(***************************************************************************)
THEOREM TypeCorrect == Spec => []TypeOK
  BY TypeInit, TypeStep, PTL DEF Spec

(***************************************************************************)
(* The strengthening of OneLeader and NotifyToken.  The lock is held by    *)
(* the task that is in asyncMalloc; whoever leads claimed to; and a claim  *)
(* that is past its count_++ keeps count_ positive, so that nobody behind  *)
(* the lock can claim the group again.                                     *)
(***************************************************************************)
LockHeld == \A t \in Tasks : pc[t] \in Mallocing <=> lock = t

LeadersClaimed == \A t \in Tasks : pc[t] \in Leading \cup Clearing => leader[t]

OwnersCounted == \A t \in Tasks : Owner(t) /\ pc[t] # "bump" => count >= 1

LeaderInv ==
    TypeOK /\ LockHeld /\ LeadersClaimed /\ OwnersCounted /\ OneLeader /\ NotifyToken

\* Steps that touch neither lock nor count nor claim nor token, and stay
\* on the same side of all the sets the invariant names.
Quiet(t, point) ==
    /\ Goto(t, point)
    /\ pc[t] \in Mallocing <=> point \in Mallocing
    /\ point \in Leading \cup Clearing => leader[t]
    /\ point \in Owning => pc[t] \in Owning /\ pc[t] # "bump"
    /\ pc[t] \in Committing <=> point \in Committing
    /\ point # "notifywait"
    /\ UNCHANGED <<leader, lock, count, notify_leader>>

LEMMA QuietStep ==
    ASSUME LeaderInv, TypeOK', NEW t \in Tasks, NEW point, Quiet(t, point)
    PROVE  LeaderInv'
  <1> USE DEF LeaderInv, TypeOK, Quiet, Goto
  <1>1. LockHeld' BY DEF LockHeld
  <1>2. LeadersClaimed' BY DEF LeadersClaimed
  <1>3. OwnersCounted' /\ OneLeader' BY DEF OwnersCounted, OneLeader, Owner
  <1>4. NotifyToken' BY DEF NotifyToken, Committing
  <1> QED BY <1>1, <1>2, <1>3, <1>4

LEMMA LeaderInit == Init => LeaderInv
  <1> SUFFICES ASSUME Init PROVE LeaderInv
    OBVIOUS
  <1>1. LockHeld /\ LeadersClaimed
    BY LogAssumption DEF Init, LockHeld, LeadersClaimed, Mallocing, Leading, Clearing
  <1>2. OwnersCounted /\ OneLeader
    BY DEF Init, OwnersCounted, OneLeader, Owner
  <1>3. NotifyToken
    BY DEF Init, NotifyToken, Committing
  <1> QED BY TypeInit, <1>1, <1>2, <1>3 DEF LeaderInv

\* A claim is granted only when nobody else has one.
LEMMA ClaimStep ==
    ASSUME LeaderInv, TypeOK', NEW t \in Tasks, Claim(t),
           lock' = t, lock \in {Free, t}, lock = t <=> pc[t] \in Mallocing,
           pc[t] \in {"idle", "wake"},
           UNCHANGED <<count, notify_leader>>
    PROVE  LeaderInv'
  <1> USE DEF LeaderInv, TypeOK, Claim, Goto
  <1>1. LockHeld'
    BY LogAssumption DEF LockHeld, Mallocing
  <1>2. LeadersClaimed'
    BY DEF LeadersClaimed, Leading, Clearing
  <1>3. OwnersCounted'
    BY DEF OwnersCounted, Owner, Owning
  <1>4. OneLeader'
    <2> SUFFICES ASSUME NEW u \in Tasks, u # t, Owner(u), leader'[t]
                 PROVE  FALSE
      BY DEF OneLeader, Owner
    <2>1. count = 0
      OBVIOUS
    <2>2. pc[u] # "bump"
      BY LogAssumption DEF LockHeld, Mallocing
    <2> QED BY <2>1, <2>2 DEF OwnersCounted
  <1>5. NotifyToken'
    BY DEF NotifyToken, Committing
  <1> QED BY <1>1, <1>2, <1>3, <1>4, <1>5

\* A post wakes tasks that are suspended, and those only move on.
LEMMA PostStep ==
    ASSUME LeaderInv, TypeOK', NEW t \in Tasks,
           \/ PostCompletion(t)
           \/ PostNotifyLeader(t)
           \/ PostMemoryNotify(t)
    PROVE  LeaderInv'
  <1> USE DEF LeaderInv, TypeOK, PostAndGoto
  <1>1. CASE PostCompletion(t)
    <2> USE <1>1 DEF PostCompletion, taskVars, groupVars
    <2>1. LockHeld' BY DEF LockHeld, Mallocing
    <2>2. LeadersClaimed' BY DEF LeadersClaimed, Leading, Clearing
    <2>3. OwnersCounted' /\ OneLeader'
      BY DEF OwnersCounted, OneLeader, Owner, Owning, Mallocing, Leading
    <2>4. NotifyToken' BY DEF NotifyToken, Committing
    <2> QED BY <2>1, <2>2, <2>3, <2>4
  <1>2. CASE PostNotifyLeader(t)
    <2> USE <1>2 DEF PostNotifyLeader, taskVars, groupVars
    <2>1. \A u \in Tasks : pc[u] # "notifywait"
      BY DEF NotifyToken
    <2>2. LockHeld' BY <2>1 DEF LockHeld, Mallocing
    <2>3. LeadersClaimed' BY <2>1 DEF LeadersClaimed, Leading, Clearing
    <2>4. OwnersCounted' /\ OneLeader'
      BY <2>1 DEF OwnersCounted, OneLeader, Owner, Owning, Leading
    <2>5. \A u \in Tasks : u # t => pc[u] \notin Committing
      <3> SUFFICES ASSUME NEW u \in Tasks, u # t, pc[u] \in Committing PROVE FALSE
        OBVIOUS
      <3>1. Owner(t) /\ Owner(u)
        BY DEF LeadersClaimed, Owner, Owning, Leading, Committing
      <3> QED BY <3>1 DEF OneLeader
    <2>6. NotifyToken' BY <2>1, <2>5 DEF NotifyToken, Committing
    <2> QED BY <2>2, <2>3, <2>4, <2>6
  <1>3. CASE PostMemoryNotify(t)
    <2> USE <1>3 DEF PostMemoryNotify, taskVars, groupVars
    <2>1. LockHeld' BY DEF LockHeld, Mallocing
    <2>2. LeadersClaimed' BY DEF LeadersClaimed, Leading, Clearing
    <2>3. \A u \in Tasks : Owner(u)' => Owner(u) /\ (pc[u] = "bump" <=> pc'[u] = "bump")
      <3> SUFFICES ASSUME NEW u \in Tasks, Owner(u)'
                   PROVE  Owner(u) /\ (pc[u] = "bump" <=> pc'[u] = "bump")
        OBVIOUS
      <3>1. \/ pc'[u] = pc[u]
            \/ pc[u] = "fullwait" /\ pc'[u] = "wake"
            \/ pc'[u] = "acked"
        OBVIOUS
      <3>2. pc'[u] # "acked"
        BY DEF Owner, Owning, Mallocing, Leading
      <3> QED BY <3>1, <3>2 DEF Owner, Owning, Mallocing
    <2>4. OwnersCounted' /\ OneLeader'
      BY <2>3 DEF OwnersCounted, OneLeader
    <2>5. NotifyToken' BY DEF NotifyToken, Committing
    <2> QED BY <2>1, <2>2, <2>4, <2>5
  <1> QED BY <1>1, <1>2, <1>3

(***************************************************************************)
(* The group has one leader, and notify_leader_ is a token that never      *)
(* blocks: no step of any task, in any interleaving, breaks either.        *)
(***************************************************************************)
LEMMA LeaderStep == LeaderInv /\ [Next]_vars => LeaderInv'
  <1> SUFFICES ASSUME LeaderInv, [Next]_vars PROVE LeaderInv'
    OBVIOUS
  <1>1. TypeOK'
    BY TypeStep DEF LeaderInv
  <1>2. ASSUME NEW t \in Tasks, NEW s \in Sizes, Malloc(t, s) PROVE LeaderInv'
    <2>1. pc[t] = "idle" /\ lock = Free /\ lock' = t /\ Claim(t)
          /\ UNCHANGED <<count, notify_leader>>
      BY <1>2 DEF Malloc, groupVars, batons
    <2>2. lock = t <=> pc[t] \in Mallocing
      BY <2>1, LogAssumption DEF Mallocing
    <2> QED BY <1>1, <2>1, <2>2, ClaimStep
  <1>3. ASSUME NEW t \in Tasks, RetryMalloc(t) PROVE LeaderInv'
    <2>1. pc[t] = "wake" /\ lock' = lock /\ Claim(t) /\ UNCHANGED <<count, notify_leader>>
      BY <1>3 DEF RetryMalloc, groupVars
    <2>2. pc[t] \in Mallocing /\ lock = t
      BY <2>1 DEF Mallocing, LeaderInv, LockHeld
    <2> QED BY <1>1, <2>1, <2>2, ClaimStep
  <1>4. ASSUME NEW t \in Tasks, BumpCount(t) PROVE LeaderInv'
    <2> USE <1>4 DEF BumpCount, taskVars, batons, LeaderInv, TypeOK, Goto
    <2>1. LockHeld' BY DEF LockHeld, Mallocing
    <2>2. LeadersClaimed' BY DEF LeadersClaimed, Leading, Clearing
    <2>3. count' >= 1 OBVIOUS
    <2>4. OwnersCounted' BY <2>3 DEF OwnersCounted
    <2>5. OneLeader' BY DEF OneLeader, Owner, Owning, Mallocing
    <2>6. NotifyToken' BY DEF NotifyToken, Committing
    <2> QED BY <1>1, <2>1, <2>2, <2>4, <2>5, <2>6
  <1>5. ASSUME NEW t \in Tasks, GrowLen(t) PROVE LeaderInv'
    <2> USE <1>5 DEF GrowLen, taskVars, batons, LeaderInv, TypeOK, Goto
    <2>1. LockHeld' BY LogAssumption DEF LockHeld, Mallocing
    <2>2. LeadersClaimed' BY DEF LeadersClaimed, Leading, Clearing
    <2>3. OwnersCounted' /\ OneLeader'
      BY DEF OwnersCounted, OneLeader, Owner, Owning, Mallocing
    <2>4. NotifyToken' BY DEF NotifyToken, Committing
    <2> QED BY <1>1, <2>1, <2>2, <2>3, <2>4
  <1>6. ASSUME NEW t \in Tasks, AwaitNotify(t) PROVE LeaderInv'
    <2>1. \A u \in Tasks : pc[u] \notin Committing
      <3> SUFFICES ASSUME NEW u \in Tasks, pc[u] \in Committing PROVE FALSE
        OBVIOUS
      <3>1. Owner(u) /\ Owner(t) /\ u # t
        BY <1>6 DEF AwaitNotify, LeaderInv, LeadersClaimed, Owner, Owning, Leading, Committing
      <3> QED BY <3>1 DEF LeaderInv, OneLeader
    <2>2. notify_leader
      BY <2>1 DEF LeaderInv, NotifyToken
    <2>3. Goto(t, "header")
      BY <1>6, <2>2 DEF AwaitNotify, Await
    <2>4. Quiet(t, "header")
      BY <1>6, <2>3 DEF AwaitNotify, Quiet, taskVars, groupVars, batons,
                        Mallocing, Leading, Clearing, Owning, Committing
    <2> QED BY <1>1, <2>4, QuietStep
  <1>7. ASSUME NEW t \in Tasks, WriteHeader(t) PROVE LeaderInv'
    <2> USE <1>7 DEF WriteHeader, taskVars, groupVars, LeaderInv, TypeOK, Goto
    <2>1. LockHeld' BY DEF LockHeld, Mallocing
    <2>2. LeadersClaimed' BY DEF LeadersClaimed, Leading, Clearing
    <2>3. OwnersCounted' /\ OneLeader'
      BY DEF OwnersCounted, OneLeader, Owner, Owning, Leading
    <2>4. NotifyToken' BY DEF NotifyToken, Committing
    <2> QED BY <1>1, <2>1, <2>2, <2>3, <2>4
  <1>8. ASSUME NEW t \in Tasks,
               PostCompletion(t) \/ PostNotifyLeader(t) \/ PostMemoryNotify(t)
        PROVE LeaderInv'
    BY <1>1, <1>8, PostStep
  <1>9. ASSUME NEW t \in Tasks, ClearCount(t) \/ ClearBoth(t) PROVE LeaderInv'
    <2> USE DEF LeaderInv, TypeOK, Goto
    <2>1. /\ pc[t] \in {"clear", "clearCount"} /\ count' = 0
          /\ \E point \in {"clearLen", "recount"} : Goto(t, point)
          /\ UNCHANGED <<leader, lock, notify_leader>>
      BY <1>9 DEF ClearCount, ClearBoth, taskVars, batons
    <2>2. Owner(t)
      BY <2>1 DEF LeadersClaimed, Clearing, Owner, Owning
    <2>3. \A u \in Tasks : ~Owner(u)'
      BY <2>1, <2>2 DEF OneLeader, Owner, Owning, Mallocing, Leading
    <2>4. LockHeld' BY <2>1 DEF LockHeld, Mallocing
    <2>5. LeadersClaimed' BY <2>1 DEF LeadersClaimed, Leading, Clearing
    <2>6. NotifyToken' BY <2>1 DEF NotifyToken, Committing
    <2> QED BY <1>1, <2>3, <2>4, <2>5, <2>6 DEF OwnersCounted, OneLeader
  <1>10. ASSUME NEW t \in Tasks,
                \/ RequestWriteSpace(t) \/ AwaitMemory(t) \/ LoadLen(t)
                \/ CopyRecord(t) \/ FollowerComplete(t)
         PROVE LeaderInv'
    <2>1. \E point \in Points : Quiet(t, point)
      BY <1>10 DEF LeaderInv, TypeOK, RequestWriteSpace, AwaitMemory, LoadLen, CopyRecord,
         FollowerComplete, CountCopy, AwaitCompletion, Await, Quiet, Points, taskVars,
         groupVars, batons, Mallocing, Leading, Clearing, Following, Owning, Committing
    <2> QED BY <1>1, <2>1, QuietStep
  <1>11. ASSUME NEW t \in Tasks,
                \/ AllCopied(t) \/ MeasureGroup(t) \/ SubmitGroup(t) \/ WriteDone(t)
                \/ ResetCompletion(t) \/ ClearLen(t) \/ ClearCompleted(t) \/ FreeGroup(t)
         PROVE LeaderInv'
    <2>1. pc[t] \in Leading \cup Clearing /\ leader[t]
      BY <1>11 DEF LeaderInv, LeadersClaimed, AllCopied, MeasureGroup, SubmitGroup, WriteDone,
         ResetCompletion, ClearLen, ClearCompleted, FreeGroup, Leading, Clearing
    <2>2. \E point \in Points : Quiet(t, point)
      BY <1>11, <2>1 DEF LeaderInv, TypeOK, AllCopied, MeasureGroup, SubmitGroup, WriteDone,
         ResetCompletion, ClearLen, ClearCompleted, FreeGroup, Quiet, Points, taskVars,
         groupVars, batons, Mallocing, Leading, Clearing, Owning, Committing
    <2> QED BY <1>1, <2>2, QuietStep
  <1>12. ASSUME UNCHANGED <<pc, leader, lock, count, notify_leader>> PROVE LeaderInv'
    BY <1>1, <1>12 DEF LeaderInv, LockHeld, LeadersClaimed, OwnersCounted, OneLeader,
                       NotifyToken, Owner
  <1>13. ASSUME NEW t \in Tasks, NEW k \in todo[t], PersistBlock(t, k) PROVE LeaderInv'
    BY <1>12, <1>13 DEF PersistBlock, taskVars, groupVars, batons
  <1>14. CASE UNCHANGED vars
    BY <1>12, <1>14 DEF vars, taskVars, groupVars, batons
  <1> QED
    BY <1>2, <1>3, <1>4, <1>5, <1>6, <1>7, <1>8, <1>9, <1>10, <1>11, <1>13, <1>14
    DEF Next, TaskStep, AsyncMalloc, LeaderComplete, Reset, Device

(***************************************************************************)
(* At any time at most one task leads the group.                           *)
(***************************************************************************)
THEOREM LeaderUnique == Spec => []OneLeader
  <1>1. LeaderInv => OneLeader
    BY DEF LeaderInv
  <1> QED BY <1>1, LeaderInit, LeaderStep, PTL DEF Spec

(***************************************************************************)
(* notify_leader_ is held exactly while a leader is committing, and no     *)
(* leader is ever suspended on it.                                         *)
(***************************************************************************)
THEOREM LeaderNeverBlocks == Spec => []NotifyToken
  <1>1. LeaderInv => NotifyToken
    BY DEF LeaderInv
  <1> QED BY <1>1, LeaderInit, LeaderStep, PTL DEF Spec

(***************************************************************************)
(* Blocks are pending only for the task whose write is in flight.          *)
(***************************************************************************)
PendingInFlight == \A t \in Tasks : todo[t] # {} => pc[t] = "io"

\* A task other than the one that moves keeps its place, or is woken.
Others(t) ==
    \A u \in Tasks \ {t} : pc'[u] = pc[u] \/ pc[u] \in {"awaiting", "notifywait", "fullwait"}

LEMMA PendingStep == LeaderInv /\ PendingInFlight /\ [Next]_vars => PendingInFlight'
  <1> SUFFICES ASSUME LeaderInv, PendingInFlight, [Next]_vars PROVE PendingInFlight'
    OBVIOUS
  <1> USE DEF LeaderInv, TypeOK
  <1>1. ASSUME NEW t \in Tasks, pc[t] # "io", Others(t), todo' = todo
        PROVE  PendingInFlight'
    BY <1>1 DEF PendingInFlight, Others
  <1>2. ASSUME NEW t \in Tasks, AsyncMalloc(t) \/ CopyRecord(t) \/ FollowerComplete(t)
        PROVE  PendingInFlight'
    <2>1. pc[t] # "io" /\ Others(t) /\ todo' = todo
      BY <1>2 DEF AsyncMalloc, Malloc, Claim, BumpCount, RequestWriteSpace, AwaitMemory,
         RetryMalloc, LoadLen, GrowLen, CopyRecord, FollowerComplete, CountCopy,
         AwaitCompletion, Await, Goto, Others, disk
    <2> QED BY <1>1, <2>1
  <1>3. ASSUME NEW t \in Tasks,
               PostCompletion(t) \/ PostNotifyLeader(t) \/ PostMemoryNotify(t)
        PROVE  PendingInFlight'
    <2>1. pc[t] # "io" /\ Others(t) /\ todo' = todo
      BY <1>3 DEF PostCompletion, PostNotifyLeader, PostMemoryNotify, PostAndGoto, Others, disk
    <2> QED BY <1>1, <2>1
  <1>4. ASSUME NEW t \in Tasks,
               AwaitNotify(t) \/ WriteHeader(t) \/ AllCopied(t) \/ MeasureGroup(t)
               \/ Reset(t) \/ FreeGroup(t)
        PROVE  PendingInFlight'
    <2>1. pc[t] # "io" /\ Others(t) /\ todo' = todo
      BY <1>4 DEF AwaitNotify, WriteHeader, AllCopied, MeasureGroup, Reset, ResetCompletion,
         ClearCount, ClearLen, ClearBoth, ClearCompleted, FreeGroup, Await, Goto, Others, disk
    <2> QED BY <1>1, <2>1
  <1>5. ASSUME NEW t \in Tasks, SubmitGroup(t) PROVE PendingInFlight'
    BY <1>5 DEF SubmitGroup, Goto, PendingInFlight
  <1>6. ASSUME NEW t \in Tasks, Device(t) PROVE PendingInFlight'
    <2>1. CASE WriteDone(t)
      BY <2>1 DEF WriteDone, Goto, PendingInFlight
    <2>2. CASE \E k \in todo[t] : PersistBlock(t, k)
      BY <2>2 DEF PersistBlock, PendingInFlight
    <2> QED BY <1>6, <2>1, <2>2 DEF Device
  <1>7. CASE UNCHANGED vars
    BY <1>7 DEF vars, disk, PendingInFlight
  <1> QED BY <1>2, <1>3, <1>4, <1>5, <1>6, <1>7 DEF Next, TaskStep, LeaderComplete

(***************************************************************************)
(* A leader writes its header only when no block of another group is still *)
(* on its way to the disk (log_writer.h lines 193-195).                    *)
(***************************************************************************)
THEOREM HeaderWaits == Spec => HeaderAfterWrite
  <1> DEFINE Inv == LeaderInv /\ PendingInFlight
  <1>1. Init => Inv
    BY LeaderInit DEF Init, PendingInFlight
  <1>2. Inv /\ [Next]_vars => Inv'
    BY LeaderStep, PendingStep
  <1>3. Inv /\ [Next]_vars =>
          [\A t, u \in Tasks : pc[t] = "header" /\ pc'[t] = "spin" => todo[u] = {}]_vars
    <2> SUFFICES ASSUME LeaderInv, PendingInFlight,
                        NEW t \in Tasks, NEW u \in Tasks, pc[t] = "header", todo[u] # {}
                 PROVE  FALSE
      OBVIOUS
    <2>1. pc[u] = "io"
      BY DEF PendingInFlight
    <2>2. Owner(t) /\ Owner(u)
      BY <2>1 DEF LeaderInv, LeadersClaimed, Owner, Owning, Leading
    <2> QED BY <2>1, <2>2 DEF LeaderInv, OneLeader
  <1> HIDE DEF Inv
  <1> QED BY <1>1, <1>2, <1>3, PTL DEF Spec, HeaderAfterWrite

(***************************************************************************)
(* The request of commit, as AsyncDevice sees it: where a task is, and     *)
(* whether it leads, says how far its request is.                          *)
(***************************************************************************)
Stage(t) == IF pc[t] = "io" \/ todo[t] # {} THEN "pending"
            ELSE IF Answered(t) THEN "done" ELSE "idle"

FollowersFollow == \A t \in Tasks : pc[t] \in Following => ~leader[t]

RequestInv == LeaderInv /\ PendingInFlight /\ FollowersFollow

\* The points before a request, and those after the answer.
Unasked == {"idle", "copy", "copied", "notifywait", "header", "spin", "measure", "zero"}
           \cup Mallocing
After == {"post", "handoff", "reset"} \cup Clearing

LEMMA StageIs ==
    ASSUME RequestInv, NEW t \in Tasks
    PROVE  /\ pc[t] = "io" => Stage(t) = "pending"
           /\ pc[t] \in Unasked \cup Following => Stage(t) = "idle"
           /\ pc[t] \in After => Stage(t) = "done"
           /\ pc[t] = "acked" => Stage(t) = IF leader[t] THEN "done" ELSE "idle"
  <1>1. pc[t] # "io" => todo[t] = {}
    BY DEF RequestInv, PendingInFlight
  <1>2. pc[t] \in After => leader[t]
    BY DEF RequestInv, LeaderInv, LeadersClaimed, After, Leading
  <1> QED BY <1>1, <1>2
       DEF Stage, Answered, Unasked, After, Mallocing, Following, Clearing

\* What a step does to the tasks that it is not of.
Aside(t) ==
    /\ \A u \in Tasks \ {t} :
          /\ leader'[u] = leader[u]
          /\ \/ pc'[u] = pc[u]
             \/ pc[u] = "awaiting" /\ pc'[u] = "acked"
             \/ pc[u] = "notifywait" /\ pc'[u] = "header"
             \/ pc[u] = "fullwait" /\ pc'[u] = "wake"

LEMMA StepAside ==
    ASSUME TypeOK, NEW t \in Tasks,
           AsyncMalloc(t) \/ CopyRecord(t) \/ FollowerComplete(t) \/ LeaderComplete(t) \/ Device(t)
    PROVE  Aside(t)
  <1> USE DEF TypeOK
  <1>1. CASE AsyncMalloc(t) \/ CopyRecord(t) \/ FollowerComplete(t)
    BY <1>1 DEF AsyncMalloc, Malloc, Claim, BumpCount, RequestWriteSpace, AwaitMemory,
       RetryMalloc, LoadLen, GrowLen, CopyRecord, FollowerComplete, CountCopy,
       AwaitCompletion, Await, Goto, Aside, taskVars
  <1>2. CASE PostCompletion(t) \/ PostNotifyLeader(t) \/ PostMemoryNotify(t)
    BY <1>2 DEF PostCompletion, PostNotifyLeader, PostMemoryNotify, PostAndGoto, Aside, taskVars
  <1>3. CASE AwaitNotify(t) \/ WriteHeader(t) \/ AllCopied(t) \/ MeasureGroup(t) \/ SubmitGroup(t)
             \/ Reset(t) \/ FreeGroup(t)
    BY <1>3 DEF AwaitNotify, WriteHeader, AllCopied, MeasureGroup, SubmitGroup, Reset,
       ResetCompletion, ClearCount, ClearLen, ClearBoth, ClearCompleted, FreeGroup, Await,
       Goto, Aside, taskVars
  <1>4. CASE Device(t)
    BY <1>4 DEF Device, WriteDone, PersistBlock, Goto, Aside, taskVars
  <1> QED BY <1>1, <1>2, <1>3, <1>4 DEF LeaderComplete

\* What a step does to the task that it is of.
Advances(t) ==
    \/ pc[t] \in Unasked /\ pc'[t] \in Unasked
    \/ pc[t] \in {"copied", "follow"} /\ ~leader[t] /\ pc'[t] \in Following \cup {"acked"}
       /\ leader'[t] = leader[t]
    \/ pc[t] \in After /\ pc'[t] \in After \cup {"acked"} /\ leader'[t] = leader[t]

LEMMA StepAdvances ==
    ASSUME RequestInv, NEW t \in Tasks,
           AsyncMalloc(t) \/ CopyRecord(t) \/ FollowerComplete(t) \/ LeaderComplete(t),
           ~SubmitGroup(t)
    PROVE  Advances(t)
  <1> USE DEF RequestInv, LeaderInv, TypeOK
  <1>1. CASE AsyncMalloc(t) \/ CopyRecord(t)
    <2>1. pc[t] \in Unasked /\ pc'[t] \in Unasked
      BY <1>1 DEF AsyncMalloc, Malloc, Claim, BumpCount, RequestWriteSpace, AwaitMemory,
         RetryMalloc, LoadLen, GrowLen, CopyRecord, Await, Goto, Unasked, Mallocing
    <2> QED BY <2>1 DEF Advances
  <1>2. CASE FollowerComplete(t)
    <2>1. pc[t] \in {"copied", "follow"} /\ pc'[t] \in Following \cup {"acked"}
          /\ leader' = leader /\ ~leader[t]
      BY <1>2 DEF FollowerComplete, CountCopy, AwaitCompletion, Await, Goto, Following,
         FollowersFollow, taskVars
    <2> QED BY <2>1 DEF Advances
  <1>3. CASE AwaitNotify(t) \/ WriteHeader(t) \/ AllCopied(t) \/ MeasureGroup(t)
    <2>1. pc[t] \in Unasked /\ pc'[t] \in Unasked
      BY <1>3 DEF AwaitNotify, WriteHeader, AllCopied, MeasureGroup, Await, Goto, Unasked
    <2> QED BY <2>1 DEF Advances
  <1>4. CASE PostCompletion(t) \/ PostNotifyLeader(t) \/ PostMemoryNotify(t)
    <2>1. pc[t] \in After /\ pc'[t] \in After \cup {"acked"} /\ leader' = leader
      BY <1>4 DEF PostCompletion, PostNotifyLeader, PostMemoryNotify, PostAndGoto, After,
         Clearing, taskVars
    <2> QED BY <2>1 DEF Advances
  <1>5. CASE Reset(t) \/ FreeGroup(t)
    <2>1. pc[t] \in After /\ pc'[t] \in After \cup {"acked"} /\ leader' = leader
      BY <1>5 DEF Reset, ResetCompletion, ClearCount, ClearLen, ClearBoth, ClearCompleted,
         FreeGroup, Goto, After, Clearing, taskVars
    <2> QED BY <2>1 DEF Advances
  <1> QED BY <1>1, <1>2, <1>3, <1>4, <1>5 DEF LeaderComplete

LEMMA FollowStep == RequestInv /\ [Next]_vars => FollowersFollow'
  <1> SUFFICES ASSUME RequestInv, [Next]_vars, NEW u \in Tasks, pc'[u] \in Following
               PROVE  ~leader'[u]
    BY DEF FollowersFollow
  <1>1. CASE UNCHANGED vars
    BY <1>1 DEF vars, taskVars, RequestInv, FollowersFollow
  <1>2. ASSUME NEW t \in Tasks,
               AsyncMalloc(t) \/ CopyRecord(t) \/ FollowerComplete(t) \/ LeaderComplete(t)
               \/ Device(t)
        PROVE  ~leader'[u]
    <2>1. CASE u # t
      <3>1. leader'[u] = leader[u] /\ pc[u] \in Following
        BY <1>2, <2>1, StepAside DEF Aside, Following, RequestInv, LeaderInv
      <3> QED BY <3>1 DEF RequestInv, FollowersFollow
    <2>2. CASE u = t /\ SubmitGroup(t)
      BY <2>2 DEF SubmitGroup, Goto, Following, RequestInv, LeaderInv, TypeOK
    <2>3. CASE u = t /\ Device(t)
      BY <2>3 DEF Device, WriteDone, PersistBlock, Goto, taskVars, Following, RequestInv,
         LeaderInv, TypeOK, FollowersFollow
    <2>4. CASE u = t /\ ~SubmitGroup(t) /\ ~Device(t)
      <3>1. Advances(t)
        BY <1>2, <2>4, StepAdvances
      <3> QED BY <2>4, <3>1 DEF Advances, Following, Unasked, Mallocing, After, Clearing
    <2> QED BY <2>1, <2>2, <2>3, <2>4
  <1> QED BY <1>1, <1>2 DEF Next, TaskStep

LEMMA RequestInvariant == Spec => []RequestInv
  <1>1. Init => RequestInv
    BY LeaderInit DEF Init, RequestInv, PendingInFlight, FollowersFollow, Following
  <1>2. RequestInv /\ [Next]_vars => RequestInv'
    BY LeaderStep, PendingStep, FollowStep DEF RequestInv
  <1> QED BY <1>1, <1>2, PTL DEF Spec

\* The tasks a step is not of have their requests where they were.
LEMMA StageAside ==
    ASSUME RequestInv, RequestInv', NEW t \in Tasks, Aside(t), NEW u \in Tasks \ {t}
    PROVE  Stage(u)' = Stage(u)
  <1>1. CASE pc'[u] = pc[u]
    <2>1. leader'[u] = leader[u]
      BY DEF Aside
    <2>2. (todo[u] # {} => pc[u] = "io") /\ (todo'[u] # {} => pc'[u] = "io")
      BY DEF RequestInv, PendingInFlight
    <2> QED BY <1>1, <2>1, <2>2 DEF Stage, Answered
  <1>2. CASE pc[u] = "awaiting" /\ pc'[u] = "acked"
    <2>1. ~leader[u] /\ leader'[u] = leader[u]
      BY <1>2 DEF Aside, RequestInv, FollowersFollow, Following
    <2>2. Stage(u) = "idle"
      BY <1>2, StageIs DEF Following
    <2>3. todo'[u] = {}
      BY <1>2 DEF RequestInv, PendingInFlight
    <2>4. Stage(u)' = "idle"
      BY <1>2, <2>1, <2>3 DEF Stage, Answered
    <2> QED BY <2>2, <2>4
  <1>3. CASE \/ pc[u] = "notifywait" /\ pc'[u] = "header"
             \/ pc[u] = "fullwait" /\ pc'[u] = "wake"
    <2>1. Stage(u) = "idle"
      BY <1>3, StageIs DEF Unasked, Mallocing
    <2>2. todo'[u] = {}
      BY <1>3 DEF RequestInv, PendingInFlight
    <2>3. Stage(u)' = "idle"
      BY <1>3, <2>2 DEF Stage, Answered, Clearing
    <2> QED BY <2>1, <2>3
  <1> QED BY <1>1, <1>2, <1>3 DEF Aside

\* The stages change as AsyncDevice's do: by one submit, one answer or not.
LEMMA StageStep ==
    ASSUME RequestInv, RequestInv', [Next]_vars
    PROVE  \/ \A u \in Tasks : Stage(u)' = Stage(u)
           \/ \E t \in Tasks :
                 /\ \A u \in Tasks \ {t} : Stage(u)' = Stage(u)
                 /\ \/ Stage(t) = "idle" /\ Stage(t)' = "pending"
                    \/ Stage(t) = "pending" /\ Stage(t)' = "done"
  <1>1. CASE UNCHANGED vars
    BY <1>1 DEF vars, taskVars, disk, Stage, Answered
  <1>2. ASSUME NEW t \in Tasks,
               AsyncMalloc(t) \/ CopyRecord(t) \/ FollowerComplete(t) \/ LeaderComplete(t),
               ~SubmitGroup(t)
        PROVE  \A u \in Tasks : Stage(u)' = Stage(u)
    <2>1. \A u \in Tasks \ {t} : Stage(u)' = Stage(u)
      BY <1>2, StepAside, StageAside DEF RequestInv, LeaderInv
    <2>2. Advances(t)
      BY <1>2, StepAdvances
    <2>3. (todo[t] # {} => pc[t] = "io") /\ (todo'[t] # {} => pc'[t] = "io")
          /\ (pc[t] \in After => leader[t])
      BY DEF RequestInv, PendingInFlight, LeaderInv, LeadersClaimed, After, Leading
    <2>4. Stage(t)' = Stage(t)
      BY <2>2, <2>3 DEF Advances, Stage, Answered, Unasked, After, Mallocing, Following, Clearing
    <2> QED BY <2>1, <2>4
  <1>3. ASSUME NEW t \in Tasks, SubmitGroup(t)
        PROVE  /\ \A u \in Tasks \ {t} : Stage(u)' = Stage(u)
               /\ Stage(t) = "idle" /\ Stage(t)' = "pending"
    <2>1. \A u \in Tasks \ {t} : Stage(u)' = Stage(u)
      BY <1>3, StepAside, StageAside DEF RequestInv, LeaderInv, LeaderComplete
    <2>2. pc[t] = "zero" /\ pc'[t] = "io"
      BY <1>3 DEF SubmitGroup, Goto, RequestInv, LeaderInv, TypeOK
    <2>3. Stage(t) = "idle"
      BY <2>2, StageIs DEF Unasked
    <2> QED BY <2>1, <2>2, <2>3 DEF Stage
  <1>4. ASSUME NEW t \in Tasks, WriteDone(t)
        PROVE  /\ \A u \in Tasks \ {t} : Stage(u)' = Stage(u)
               /\ Stage(t) = "pending" /\ Stage(t)' = "done"
    <2>1. \A u \in Tasks \ {t} : Stage(u)' = Stage(u)
      BY <1>4, StepAside, StageAside DEF RequestInv, LeaderInv, Device
    <2>2. pc[t] = "io" /\ pc'[t] = "post" /\ leader' = leader /\ todo'[t] = {} /\ leader[t]
      BY <1>4 DEF WriteDone, Goto, taskVars, RequestInv, LeaderInv, TypeOK, LeadersClaimed, Leading
    <2> QED BY <2>1, <2>2 DEF Stage, Answered
  <1>5. ASSUME NEW t \in Tasks, NEW k \in todo[t], PersistBlock(t, k)
        PROVE  \A u \in Tasks : Stage(u)' = Stage(u)
    <2>1. \A u \in Tasks \ {t} : Stage(u)' = Stage(u)
      BY <1>5, StepAside, StageAside DEF RequestInv, LeaderInv, Device
    <2>2. pc[t] = "io" /\ pc'[t] = "io"
      BY <1>5 DEF PersistBlock
    <2> QED BY <2>1, <2>2 DEF Stage
  <1> QED BY <1>1, <1>2, <1>3, <1>4, <1>5 DEF Next, TaskStep, Device

(***************************************************************************)
(* commit uses the device as AsyncDevice promises: one request for each    *)
(* leader, and nobody goes on before its answer (log_writer.h lines        *)
(* 72-79).  That the answer comes is left to the runs.                     *)
(***************************************************************************)
THEOREM CommitIsRequest == Spec => Requested!OnceEach
  <1> DEFINE state == [t \in Tasks |-> IF pc[t] = "io" \/ todo[t] # {} THEN "pending"
                                       ELSE IF Answered(t) THEN "done" ELSE "idle"]
  <1>1. Init => Requested!Init
    BY DEF Init, Requested!Init, Answered, Clearing
  <1>2. RequestInv /\ RequestInv' /\ [Next]_vars => [Requested!Next]_state
    <2> SUFFICES ASSUME RequestInv, RequestInv', [Next]_vars PROVE [Requested!Next]_state
      OBVIOUS
    <2>1. state = [t \in Tasks |-> Stage(t)] /\ state' = [t \in Tasks |-> Stage(t)']
      BY DEF Stage
    <2> HIDE DEF state
    <2>2. CASE \A u \in Tasks : Stage(u)' = Stage(u)
      BY <2>1, <2>2
    <2>3. ASSUME NEW t \in Tasks, \A u \in Tasks \ {t} : Stage(u)' = Stage(u),
                 \/ Stage(t) = "idle" /\ Stage(t)' = "pending"
                 \/ Stage(t) = "pending" /\ Stage(t)' = "done"
          PROVE  Requested!Next
      <3>1. state' = [state EXCEPT ![t] = Stage(t)'] /\ state[t] = Stage(t)
        BY <2>1, <2>3
      <3>2. Requested!Submit(t) \/ Requested!Complete(t)
        BY <2>3, <3>1 DEF Requested!Submit, Requested!Complete, state
      <3> QED BY <3>2 DEF Requested!Next
    <2> QED BY <2>2, <2>3, StageStep
  <1> QED BY <1>1, <1>2, RequestInvariant, PTL DEF Spec, Requested!OnceEach

(***************************************************************************)
(* The ring and the group as long as no asyncMalloc has met a group that   *)
(* is closing (MallocAlone), for every number of tasks and every size of   *)
(* ring, block and record.                                                 *)
(*                                                                         *)
(* The argument.  Reset has emptied the group before FreeGroup gives its   *)
(* length back, so the tail does not move and the ring is handed out from  *)
(* its start to its end.  A task for which nothing is left holds the lock  *)
(* for good, and counts as a copy that never comes, so no leader leaves    *)
(* its spin loop any more.  Until then the counters of the group are what  *)
(* they seem to be: a leader that leaves its spin loop has everybody's     *)
(* record in the ring, from its own address to the head.                   *)
(***************************************************************************)
Unplaced == {"bump", "request", "full", "fullwait", "wake"}

\* A task that has been given its region; it keeps it for good.
Placed(t) == pc[t] \notin {"idle"} \cup Unplaced

End(t) == addr[t] + size[t]

MallocAlone ==
    \A t, u \in Tasks : pc[t] \in Mallocing => pc[u] \notin Closing

Emptied == \A t \in Tasks : pc[t] \in {"clearCount", "recount", "free"} => len = 0

Sized == \A t \in Tasks : pc[t] # "idle" => size[t] \in 1..kBufferSize

HandedOut ==
    /\ tail_ = 0 /\ head_ <= kBufferSize
    /\ \A t \in Tasks : Placed(t) => End(t) <= head_

Behind == \A t, u \in Tasks :
    t # u /\ Placed(t) /\ Placed(u) => End(t) <= addr[u] \/ End(u) <= addr[t]

RegionInv == MallocAlone /\ Emptied /\ Sized /\ HandedOut /\ Behind

LEMMA EmptiedStep ==
    ASSUME TypeOK, MallocAlone, MallocAlone', Emptied, NEW t \in Tasks, TaskStep(t)
    PROVE  Emptied'
  <1> USE DEF TypeOK
  <1>1. CASE \E s \in Sizes : Malloc(t, s)
    BY <1>1 DEF Malloc, Claim, Goto, groupVars, Emptied
  <1>2. CASE GrowLen(t)
    <2>1. pc[t] \in Mallocing /\ pc' = [pc EXCEPT ![t] = "copy"]
      BY <1>2 DEF GrowLen, Goto, Mallocing
    <2>2. \A u \in Tasks : pc'[u] \notin Clearing
      BY <2>1 DEF MallocAlone, Closing, Clearing
    <2> QED BY <2>2 DEF Emptied, Clearing
  <1>3. CASE Reset(t)
    BY <1>3 DEF Reset, ResetCompletion, ClearCount, ClearLen, ClearBoth, ClearCompleted, Goto,
       groupVars, Emptied
  <1>4. ASSUME len' = len, \A u \in Tasks :
                  pc'[u] \in {"clearCount", "recount", "free"} => pc'[u] = pc[u]
        PROVE  Emptied'
    BY <1>4 DEF Emptied
  <1>5. \A u \in Tasks \ {t} :
            pc'[u] \in {"clearCount", "recount", "free"} => pc'[u] = pc[u]
    BY StepAside DEF TaskStep, Aside
  <1>6. CASE AsyncMalloc(t) /\ ~GrowLen(t) /\ ~(\E s \in Sizes : Malloc(t, s))
    <2>1. len' = len /\ pc'[t] \notin {"clearCount", "recount", "free"}
      BY <1>6 DEF AsyncMalloc, BumpCount, RequestWriteSpace, AwaitMemory, RetryMalloc, Claim,
         LoadLen, Await, Goto, groupVars
    <2> QED BY <1>4, <1>5, <2>1
  <1>7. CASE CopyRecord(t) \/ FollowerComplete(t) \/ Device(t)
    <2>1. len' = len /\ pc'[t] \notin {"clearCount", "recount", "free"}
      BY <1>7 DEF CopyRecord, FollowerComplete, CountCopy, AwaitCompletion, Device, WriteDone,
         PersistBlock, Await, Goto, groupVars
    <2> QED BY <1>4, <1>5, <2>1
  <1>8. CASE LeaderComplete(t) /\ ~Reset(t)
    <2>1. len' = len /\ pc'[t] \notin {"clearCount", "recount", "free"}
      BY <1>8 DEF LeaderComplete, AwaitNotify, WriteHeader, AllCopied, MeasureGroup, SubmitGroup,
         PostCompletion, PostNotifyLeader, FreeGroup, PostMemoryNotify, Await, Goto,
         PostAndGoto, groupVars
    <2> QED BY <1>4, <1>5, <2>1
  <1> QED BY <1>1, <1>2, <1>3, <1>6, <1>7, <1>8 DEF TaskStep


(***************************************************************************)
(* The ring while the tail stays at its start.                             *)
(***************************************************************************)
LEMMA RingNumbers ==
    /\ kBufferSize \in Nat \ {0} /\ Word \in Nat /\ kBufferSize < Word
    /\ Sizes \subseteq 1..kBufferSize
    /\ kBlockSize \in Nat \ {0} /\ kLogFileSize \in Nat /\ Len16 \in Nat \ {0}
    /\ kBlockSize <= kBufferSize /\ kBlockSize <= kLogFileSize /\ kBlockSize < Len16
  BY LogAssumption

LEMMA Small == ASSUME NEW w \in Nat \ {0}, NEW n \in 0..(w - 1) PROVE n % w = n
  OBVIOUS

LEMMA FitsIs ==
    ASSUME tail_ = 0, head_ \in 0..kBufferSize, NEW n \in 1..kBufferSize
    PROVE  /\ ring!Fits(n, tail_) <=> head_ + n <= kBufferSize
           /\ head_ + n <= kBufferSize =>
                 ring!HeadIndex = head_ /\ (head_ + n) % Word = head_ + n
  <1> USE RingNumbers
  <1>1. ring!UsedSpace(tail_) = head_
    <2>1. head_ - tail_ = head_ /\ head_ \in 0..(Word - 1) /\ Word \in Nat \ {0}
      OBVIOUS
    <2> QED BY <2>1, Small DEF ring!UsedSpace
  <1>2. ring!FreeSpace(tail_) = kBufferSize - head_
    <2>1. kBufferSize - head_ \in 0..(Word - 1) /\ Word \in Nat \ {0}
      OBVIOUS
    <2> QED BY <1>1, <2>1, Small DEF ring!FreeSpace
  <1>3. ring!Fits(n, tail_) <=> head_ + n <= kBufferSize
    BY <1>2 DEF ring!Fits
  <1>4. ASSUME head_ + n <= kBufferSize
        PROVE  ring!HeadIndex = head_ /\ (head_ + n) % Word = head_ + n
    <2>1. head_ \in 0..(kBufferSize - 1) /\ head_ + n \in 0..(Word - 1)
          /\ Word \in Nat \ {0} /\ kBufferSize \in Nat \ {0}
      BY <1>4
    <2> QED BY <2>1, Small DEF ring!HeadIndex
  <1> QED BY <1>3, <1>4

\* A step that hands nothing out and takes nothing back.
RegionsStay ==
    /\ UNCHANGED <<head_, tail_, addr>>
    /\ \A u \in Tasks : Placed(u)' => Placed(u)
    /\ \A u \in Tasks : pc'[u] # "idle" => size'[u] \in 1..kBufferSize
    /\ \A u \in Tasks : Placed(u) => size'[u] = size[u]

LEMMA RegionsAside ==
    ASSUME HandedOut, Behind, RegionsStay
    PROVE  Sized' /\ HandedOut' /\ Behind'
  <1>1. Sized'
    BY DEF RegionsStay, Sized
  <1>2. \A u \in Tasks : Placed(u)' => Placed(u) /\ End(u)' = End(u)
    BY DEF RegionsStay, End
  <1>3. HandedOut'
    BY <1>2 DEF RegionsStay, HandedOut
  <1>4. Behind'
    BY <1>2 DEF RegionsStay, Behind
  <1> QED BY <1>1, <1>3, <1>4

LEMMA OthersPlaced ==
    ASSUME TypeOK, NEW t \in Tasks, TaskStep(t), NEW u \in Tasks \ {t}
    PROVE  /\ (Placed(u)' <=> Placed(u))
           /\ pc'[u] = "idle" <=> pc[u] = "idle"
           /\ leader'[u] = leader[u]
  BY StepAside DEF TaskStep, Aside, Placed, Unplaced

LEMMA MallocRegions ==
    ASSUME TypeOK, Sized, NEW t \in Tasks, NEW s \in Sizes, Malloc(t, s)
    PROVE  RegionsStay
  <1> USE DEF TypeOK
  <1>1. /\ pc' = [pc EXCEPT ![t] = "bump"] /\ pc[t] = "idle"
        /\ size' = [size EXCEPT ![t] = s]
        /\ UNCHANGED <<head_, tail_, addr>>
    BY DEF Malloc, Claim, Goto, ringVars
  <1>2. s \in 1..kBufferSize
    BY RingNumbers
  <1> QED BY <1>1, <1>2 DEF RegionsStay, Placed, Unplaced, Sized

\* What happens to the regions in every other step.
LEMMA OtherRegions ==
    ASSUME TypeOK, Sized, NEW t \in Tasks, TaskStep(t),
           ~(\E s \in Sizes : Malloc(t, s)), ~RequestWriteSpace(t), ~FreeGroup(t)
    PROVE  RegionsStay /\ UNCHANGED size
  <1> USE DEF TypeOK
  <1>1. CASE AsyncMalloc(t) \/ CopyRecord(t) \/ FollowerComplete(t)
    <2>1. UNCHANGED <<head_, tail_, addr, size>> /\ pc[t] # "idle"
          /\ (Placed(t)' => Placed(t))
      BY <1>1 DEF AsyncMalloc, BumpCount, AwaitMemory, RetryMalloc, Claim, LoadLen, GrowLen,
         CopyRecord, FollowerComplete, CountCopy, AwaitCompletion, Await, Goto, Placed, Unplaced,
         taskVars, ringVars
    <2> QED BY <2>1, OthersPlaced DEF RegionsStay, Sized
  <1>2. CASE LeaderComplete(t)
    <2>1. UNCHANGED <<head_, tail_, addr, size>> /\ pc[t] # "idle" /\ Placed(t)
      BY <1>2 DEF LeaderComplete, AwaitNotify, WriteHeader, AllCopied, MeasureGroup, SubmitGroup,
         PostCompletion, PostNotifyLeader, Reset, ResetCompletion, ClearCount, ClearLen,
         ClearBoth, ClearCompleted, PostMemoryNotify, Placed, Unplaced, taskVars, ringVars
    <2> QED BY <2>1, OthersPlaced DEF RegionsStay, Sized
  <1>3. CASE Device(t)
    <2>1. UNCHANGED <<head_, tail_, addr, size>> /\ pc[t] # "idle" /\ Placed(t)
      BY <1>3 DEF Device, WriteDone, PersistBlock, Placed, Unplaced, taskVars, ringVars
    <2> QED BY <2>1, OthersPlaced DEF RegionsStay, Sized
  <1> QED BY <1>1, <1>2, <1>3 DEF TaskStep

\* The tail does not move: the length of the group is gone when it is used.
LEMMA FreeRegions ==
    ASSUME TypeOK, RegionInv, NEW t \in Tasks, FreeGroup(t)
    PROVE  RegionsStay /\ UNCHANGED size
  <1>1. PICK n \in {0, len} : tail_' = (tail_ + n) % Word
    BY DEF FreeGroup, ring!CommitWrite
  <1>2. pc[t] = "free" /\ pc' = [pc EXCEPT ![t] = "memnotify"] /\ UNCHANGED <<head_, addr, size>>
    BY DEF FreeGroup, Goto, taskVars, ringVars
  <1>3. n = 0 /\ tail_ = 0
    BY <1>2 DEF RegionInv, Emptied, HandedOut
  <1>4. 0 % Word = 0
    BY RingNumbers, Small
  <1>5. tail_' = tail_
    BY <1>1, <1>3, <1>4
  <1>6. \A u \in Tasks : Placed(u)' => Placed(u)
    BY <1>2 DEF TypeOK, Placed, Unplaced
  <1>7. \A u \in Tasks : pc'[u] # "idle" => pc[u] # "idle"
    BY <1>2 DEF TypeOK
  <1> QED BY <1>2, <1>5, <1>6, <1>7 DEF RegionsStay, RegionInv, Sized

\* A task that waits for memory, for which there will never be enough.
Starved(t) == pc[t] \in Unplaced /\ head_ + size[t] > kBufferSize

\* A request that fits gets what lies between the head and its new place.
LEMMA Served ==
    ASSUME TypeOK, RegionInv, NEW t \in Tasks, RequestWriteSpace(t), ~Starved(t)
    PROVE  /\ pc[t] = "request" /\ pc' = [pc EXCEPT ![t] = "grow"]
           /\ addr' = [addr EXCEPT ![t] = head_] /\ head_' = head_ + size[t]
           /\ head_' <= kBufferSize
           /\ UNCHANGED <<tail_, size, leader, seen>>
  <1>1. pc[t] = "request"
    BY DEF RequestWriteSpace
  <1>2. size[t] \in 1..kBufferSize /\ head_ \in 0..kBufferSize /\ tail_ = 0
    BY <1>1, RingNumbers DEF RegionInv, Sized, HandedOut, TypeOK, ring!RingTypeOK
  <1>3. head_ + size[t] <= kBufferSize
    BY <1>1, <1>2, RingNumbers DEF Starved, Unplaced
  <1>4. ring!Fits(size[t], tail_) /\ ring!HeadIndex = head_ /\ (head_ + size[t]) % Word = head_ + size[t]
    BY <1>2, <1>3, FitsIs
  <1> QED BY <1>1, <1>3, <1>4 DEF RequestWriteSpace, ring!AdvanceHead, Goto

LEMMA NotServed ==
    ASSUME TypeOK, RegionInv, NEW t \in Tasks, RequestWriteSpace(t), Starved(t)
    PROVE  /\ pc[t] = "request" /\ pc' = [pc EXCEPT ![t] = "full"]
           /\ UNCHANGED <<head_, tail_, addr, size, leader>>
  <1>1. pc[t] = "request"
    BY DEF RequestWriteSpace
  <1>2. size[t] \in 1..kBufferSize /\ head_ \in 0..kBufferSize /\ tail_ = 0
    BY <1>1, RingNumbers DEF RegionInv, Sized, HandedOut, TypeOK, ring!RingTypeOK
  <1>3. ~(head_ + size[t] <= kBufferSize)
    BY <1>2, RingNumbers DEF Starved
  <1>4. ~ring!Fits(size[t], tail_)
    BY <1>2, <1>3, FitsIs
  <1> QED BY <1>1, <1>4 DEF RequestWriteSpace, Goto

LEMMA ServedRegions ==
    ASSUME TypeOK, RegionInv, NEW t \in Tasks, RequestWriteSpace(t), ~Starved(t)
    PROVE  Sized' /\ HandedOut' /\ Behind'
  <1>1. /\ pc[t] = "request" /\ pc' = [pc EXCEPT ![t] = "grow"]
        /\ addr' = [addr EXCEPT ![t] = head_] /\ head_' = head_ + size[t]
        /\ head_' <= kBufferSize
        /\ UNCHANGED <<tail_, size>>
    BY Served
  <1>2. size[t] \in Nat /\ head_ \in Nat
    BY DEF TypeOK, ring!RingTypeOK
  <1>3. \A u \in Tasks \ {t} : Placed(u)' => Placed(u) /\ End(u)' = End(u) /\ addr'[u] = addr[u]
    BY <1>1 DEF TypeOK, Placed, Unplaced, End
  <1>4. addr'[t] = head_ /\ End(t)' = head_'
    BY <1>1 DEF TypeOK, End
  <1>5. \A u \in Tasks \ {t} : Placed(u)' => End(u)' <= head_ /\ End(u)' \in Nat
    BY <1>3, RingNumbers DEF RegionInv, HandedOut, TypeOK, End, Cells
  <1>6. Sized'
    BY <1>1 DEF RegionInv, Sized, TypeOK
  <1>7. HandedOut'
    <2>1. ASSUME NEW u \in Tasks, Placed(u)' PROVE End(u)' <= head_'
      <3>1. CASE u = t
        BY <1>1, <1>2, <1>4, <3>1
      <3>2. CASE u # t
        BY <1>1, <1>2, <1>5, <2>1, <3>2
      <3> QED BY <3>1, <3>2
    <2> QED BY <1>1, <2>1 DEF RegionInv, HandedOut
  <1>8. Behind'
    <2>1. ASSUME NEW u \in Tasks \ {t}, Placed(u)' PROVE End(u)' <= addr'[t]
      BY <1>4, <1>5, <2>1
    <2>2. ASSUME NEW u \in Tasks \ {t}, NEW v \in Tasks \ {t}, u # v, Placed(u)', Placed(v)'
          PROVE  End(u)' <= addr'[v] \/ End(v)' <= addr'[u]
      BY <1>3, <2>2 DEF RegionInv, Behind
    <2> QED BY <2>1, <2>2 DEF Behind
  <1> QED BY <1>6, <1>7, <1>8

LEMMA StarvedRegions ==
    ASSUME TypeOK, RegionInv, NEW t \in Tasks, RequestWriteSpace(t), Starved(t)
    PROVE  RegionsStay
  <1>1. /\ pc[t] = "request" /\ pc' = [pc EXCEPT ![t] = "full"]
        /\ UNCHANGED <<head_, tail_, addr, size>>
    BY NotServed
  <1> QED BY <1>1 DEF RegionsStay, RegionInv, Sized, TypeOK, Placed, Unplaced

LEMMA RegionStep ==
    ASSUME TypeOK, RegionInv, MallocAlone', [Next]_vars
    PROVE  RegionInv'
  <1>1. CASE UNCHANGED vars
    <2>1. UNCHANGED <<pc, size, addr, len, head_, tail_>>
      BY <1>1 DEF vars, taskVars, groupVars, ringVars
    <2>2. \A u \in Tasks : (Placed(u)' <=> Placed(u)) /\ End(u)' = End(u)
      BY <2>1 DEF Placed, End
    <2> QED BY <2>1, <2>2 DEF RegionInv, MallocAlone, Emptied, Sized, HandedOut, Behind
  <1>2. ASSUME NEW t \in Tasks, TaskStep(t) PROVE RegionInv'
    <2>1. MallocAlone' /\ Emptied'
      BY <1>2, EmptiedStep DEF RegionInv
    <2>2. CASE RegionsStay
      BY <2>1, <2>2, RegionsAside DEF RegionInv
    <2>3. CASE RequestWriteSpace(t) /\ ~Starved(t)
      BY <2>1, <2>3, ServedRegions DEF RegionInv
    <2> QED BY <1>2, <2>2, <2>3, MallocRegions, StarvedRegions, FreeRegions, OtherRegions
            DEF RegionInv
  <1> QED BY <1>1, <1>2 DEF Next, TaskStep

LEMMA RegionInit == Init => RegionInv
  <1> SUFFICES ASSUME Init PROVE RegionInv
    OBVIOUS
  <1>1. \A t \in Tasks : pc[t] = "idle"
    BY DEF Init
  <1>2. tail_ = 0 /\ head_ = 0
    BY DEF Init, ring!RingInit
  <1> QED BY <1>1, <1>2, RingNumbers
       DEF RegionInv, MallocAlone, Emptied, Sized, HandedOut, Behind, Placed, Mallocing

\* A region does not run past the end of the buffer.
LEMMA CellsAre ==
    ASSUME TypeOK, RegionInv, NEW t \in Tasks, Placed(t), NEW i \in 0..(size[t] - 1)
    PROVE  /\ addr[t] + i \in Nat /\ addr[t] + i < head_ /\ addr[t] + i < kBufferSize
           /\ (addr[t] + i) % kBufferSize = addr[t] + i
  <1>1. addr[t] \in Nat /\ size[t] \in Nat /\ head_ \in Nat /\ kBufferSize \in Nat \ {0}
    BY RingNumbers DEF TypeOK, Cells, ring!RingTypeOK
  <1>2. i \in Nat /\ i < size[t]
    BY <1>1
  <1>3. addr[t] + size[t] <= head_ /\ head_ <= kBufferSize
    BY DEF RegionInv, HandedOut, End
  <1>4. addr[t] + i \in Nat /\ addr[t] + i < head_ /\ addr[t] + i < kBufferSize
    BY <1>1, <1>2, <1>3
  <1>5. addr[t] + i \in 0..(kBufferSize - 1)
    BY <1>1, <1>4
  <1> QED BY <1>1, <1>4, <1>5, Small

LEMMA CellsApart ==
    ASSUME TypeOK, RegionInv, NEW t \in Tasks, NEW u \in Tasks, t # u, Placed(t), Placed(u),
           NEW i \in 0..(size[t] - 1), NEW j \in 0..(size[u] - 1)
    PROVE  addr[t] + i # addr[u] + j
  <1>1. addr[t] + size[t] <= addr[u] \/ addr[u] + size[u] <= addr[t]
    BY DEF RegionInv, Behind, End
  <1>2. addr[t] \in Nat /\ size[t] \in Nat /\ addr[u] \in Nat /\ size[u] \in Nat
    BY DEF TypeOK, Cells
  <1>3. i \in Nat /\ i < size[t] /\ j \in Nat /\ j < size[u]
    BY <1>2
  <1> QED BY <1>1, <1>2, <1>3

(***************************************************************************)
(* The group.                                                              *)
(***************************************************************************)
Stuck == \E t \in Tasks : Starved(t)

FullStarves == \A t \in Tasks : pc[t] \in {"full", "fullwait", "wake"} => Starved(t)

\* The followers that have not yet counted their copy.
Uncounted == {t \in Tasks : ~leader[t] /\ pc[t] \in {"grow", "grown", "copy", "copied"}}

Copied == {"measure", "zero", "io", "post", "handoff", "reset", "clear", "clearCount"}

NoOwner == \A t \in Tasks : ~Owner(t)

\* count_ counts the leader, the followers and the one that is in asyncMalloc.
Counts ==
    /\ IsFiniteSet(Uncounted)
    /\ NoOwner => count = 0 /\ Uncounted = {}
    /\ NoOwner /\ (\A t \in Tasks : pc[t] \notin {"clearLen", "recount"}) => completed = 0
    /\ \A t \in Tasks :
          /\ pc[t] = "bump" => seen[t] = count
          /\ pc[t] \in {"bump", "request"} /\ ~leader[t] => count >= 1
          /\ Owner(t) /\ pc[t] = "bump" => count = 0 /\ completed = 0 /\ Uncounted = {}
          /\ Owner(t) /\ pc[t] \in Copied => Uncounted = {}
          /\ Owner(t) /\ pc[t] # "bump" =>
                /\ (\A u \in Tasks \ {t} : pc[u] # "request") =>
                      count = 1 + completed + Cardinality(Uncounted)
                /\ \A u \in Tasks \ {t} : pc[u] = "request" =>
                      count = 2 + completed + Cardinality(Uncounted)
    /\ count <= head_ + 1
    /\ (\A t \in Tasks : pc[t] # "request") => count <= head_

\* len is the length of the regions of the group.
Lengths ==
    /\ NoOwner /\ (\A t \in Tasks : pc[t] # "clearLen") => len = 0
    /\ \A t \in Tasks :
          /\ pc[t] \in {"grown", "zero"} => seen[t] = len
          /\ Owner(t) /\ ~Placed(t) => len = 0
          /\ Owner(t) /\ Placed(t) /\ pc[t] # "clearCount" =>
                /\ (\A u \in Tasks : pc[u] \notin {"grow", "grown"}) => len = head_ - addr[t]
                /\ \A u \in Tasks : pc[u] \in {"grow", "grown"} =>
                      len = head_ - size[u] - addr[t]

GroupEnds == \A t \in Tasks : pc[t] \in {"clearLen", "recount", "free", "memnotify"} => NoOwner

PostedLate == completion => \E t \in Tasks : pc[t] \in {"handoff", "reset"}

GroupInv ==
    /\ FullStarves /\ GroupEnds /\ PostedLate
    /\ Stuck \/ (Counts /\ Lengths)

\* What the counters of the group see of a task, and what its length does.
SameMember(u) ==
    /\ leader'[u] = leader[u]
    /\ Owner(u)' <=> Owner(u)
    /\ (Placed(u)' <=> Placed(u))

SameCounting(u) ==
    /\ SameMember(u)
    /\ pc'[u] = "bump" <=> pc[u] = "bump"
    /\ pc'[u] = "request" <=> pc[u] = "request"
    /\ pc'[u] \in {"clearLen", "recount"} <=> pc[u] \in {"clearLen", "recount"}
    /\ u \in Uncounted' <=> u \in Uncounted
    /\ Owner(u) /\ pc'[u] \in Copied => pc[u] \in Copied

SameLength(u) ==
    /\ SameMember(u)
    /\ pc'[u] \in {"grow", "grown"} <=> pc[u] \in {"grow", "grown"}
    /\ pc'[u] = "clearLen" <=> pc[u] = "clearLen"
    /\ pc'[u] = "clearCount" <=> pc[u] = "clearCount"

LEMMA OthersSame ==
    ASSUME TypeOK, NEW t \in Tasks, TaskStep(t), NEW u \in Tasks \ {t}
    PROVE  SameCounting(u) /\ SameLength(u)
  <1>1. /\ leader'[u] = leader[u]
        /\ \/ pc'[u] = pc[u]
           \/ pc[u] = "awaiting" /\ pc'[u] = "acked"
           \/ pc[u] = "notifywait" /\ pc'[u] = "header"
           \/ pc[u] = "fullwait" /\ pc'[u] = "wake"
    BY StepAside DEF TaskStep, Aside
  <1>2. SameMember(u)
    BY <1>1 DEF SameMember, Owner, Owning, Mallocing, Leading, Placed, Unplaced
  <1>3. /\ pc'[u] = "bump" <=> pc[u] = "bump"
        /\ pc'[u] = "request" <=> pc[u] = "request"
        /\ pc'[u] \in {"clearLen", "recount"} <=> pc[u] \in {"clearLen", "recount"}
        /\ Owner(u) /\ pc'[u] \in Copied => pc[u] \in Copied
        /\ pc'[u] \in {"grow", "grown"} <=> pc[u] \in {"grow", "grown"}
        /\ pc'[u] = "clearLen" <=> pc[u] = "clearLen"
        /\ pc'[u] = "clearCount" <=> pc[u] = "clearCount"
    BY <1>1 DEF Copied
  <1>4. u \in Uncounted' <=> u \in Uncounted
    BY <1>1 DEF Uncounted
  <1> QED BY <1>2, <1>3, <1>4 DEF SameCounting, SameLength

LEMMA SameUncounted ==
    ASSUME \A u \in Tasks : u \in Uncounted' <=> u \in Uncounted PROVE Uncounted' = Uncounted
  BY DEF Uncounted

LEMMA CountsAside ==
    ASSUME Counts, \A u \in Tasks : SameCounting(u), UNCHANGED <<count, completed, head_>>,
           \A u \in Tasks : pc'[u] = "bump" => seen'[u] = seen[u]
    PROVE  Counts'
  <1>1. Uncounted' = Uncounted
    BY SameUncounted DEF SameCounting
  <1>2. NoOwner' <=> NoOwner
    BY DEF NoOwner, SameCounting, SameMember
  <1>3. \A u \in Tasks : /\ leader'[u] = leader[u] /\ (Owner(u)' <=> Owner(u))
                         /\ pc'[u] = "bump" <=> pc[u] = "bump"
                         /\ pc'[u] = "request" <=> pc[u] = "request"
                         /\ pc'[u] \in {"clearLen", "recount"} <=> pc[u] \in {"clearLen", "recount"}
                         /\ Owner(u) /\ pc'[u] \in Copied => pc[u] \in Copied
    BY DEF SameCounting, SameMember
  <1> QED BY <1>1, <1>2, <1>3 DEF Counts

LEMMA LengthsAside ==
    ASSUME Lengths, \A u \in Tasks : SameLength(u), UNCHANGED <<len, head_, addr>>,
           \A u \in Tasks : Placed(u) => size'[u] = size[u],
           \A u \in Tasks : pc'[u] \in {"grown", "zero"} => seen'[u] = len
    PROVE  Lengths'
  <1>1. NoOwner' <=> NoOwner
    BY DEF NoOwner, SameLength, SameMember
  <1>2. \A u \in Tasks : /\ Owner(u)' <=> Owner(u)
                         /\ (Placed(u)' <=> Placed(u))
                         /\ pc'[u] \in {"grow", "grown"} <=> pc[u] \in {"grow", "grown"}
                         /\ pc'[u] = "clearLen" <=> pc[u] = "clearLen"
                         /\ pc'[u] = "clearCount" <=> pc[u] = "clearCount"
    BY DEF SameLength, SameMember
  <1>3. \A u \in Tasks : pc[u] \in {"grow", "grown"} => size'[u] = size[u]
    BY DEF Placed, Unplaced
  <1> QED BY <1>1, <1>2, <1>3 DEF Lengths

\* The steps that leave the group as it is.
Even(t) ==
    \/ LoadLen(t) \/ CopyRecord(t) \/ AwaitCompletion(t) \/ AwaitNotify(t) \/ WriteHeader(t)
    \/ MeasureGroup(t) \/ SubmitGroup(t) \/ WriteDone(t) \/ (\E k \in todo[t] : PersistBlock(t, k))
    \/ PostCompletion(t) \/ PostNotifyLeader(t) \/ PostMemoryNotify(t)
    \/ ResetCompletion(t) \/ FreeGroup(t)

LEMMA EvenIsStep == ASSUME NEW t \in Tasks, Even(t) PROVE TaskStep(t)
  BY DEF Even, TaskStep, AsyncMalloc, FollowerComplete, LeaderComplete, Reset, Device

LEMMA EvenSame ==
    ASSUME LeaderInv, NEW t \in Tasks, Even(t)
    PROVE  SameCounting(t) /\ SameLength(t)
  <1> USE DEF LeaderInv, TypeOK
  <1>1. pc[t] \in Leading \cup Clearing => leader[t]
    BY DEF LeadersClaimed
  <1>2. leader'[t] = leader[t]
    BY DEF Even, LoadLen, CopyRecord, AwaitCompletion, AwaitNotify, WriteHeader, MeasureGroup,
       SubmitGroup, WriteDone, PersistBlock, PostCompletion, PostNotifyLeader,
       PostMemoryNotify, ResetCompletion, FreeGroup, taskVars
  <1>3. \/ pc[t] = "grow" /\ pc'[t] = "grown"
        \/ pc[t] = "copy" /\ pc'[t] = "copied"
        \/ pc[t] = "follow" /\ pc'[t] \in {"acked", "awaiting"}
        \/ pc[t] = "copied" /\ leader[t] /\ pc'[t] \in {"header", "notifywait"}
        \/ pc[t] = "header" /\ pc'[t] = "spin"
        \/ pc[t] = "measure" /\ pc'[t] = "zero"
        \/ pc[t] = "zero" /\ pc'[t] = "io"
        \/ pc[t] = "io" /\ pc'[t] \in {"io", "post"}
        \/ pc[t] = "post" /\ pc'[t] = "handoff"
        \/ pc[t] = "handoff" /\ pc'[t] = "reset"
        \/ pc[t] = "memnotify" /\ pc'[t] = "acked"
        \/ pc[t] = "reset" /\ pc'[t] = "clear"
        \/ pc[t] = "free" /\ pc'[t] = "memnotify"
    BY DEF Even, LoadLen, CopyRecord, AwaitCompletion, AwaitNotify, WriteHeader, MeasureGroup,
       SubmitGroup, WriteDone, PersistBlock, PostCompletion, PostNotifyLeader,
       PostMemoryNotify, ResetCompletion, FreeGroup, Goto, Await, PostAndGoto
  <1>4. SameMember(t)
    BY <1>2, <1>3 DEF SameMember, Owner, Owning, Mallocing, Leading, Placed, Unplaced
  <1>5. t \in Uncounted' <=> t \in Uncounted
    BY <1>2, <1>3 DEF Uncounted
  <1>6. /\ pc'[t] = "bump" <=> pc[t] = "bump"
        /\ pc'[t] = "request" <=> pc[t] = "request"
        /\ pc'[t] \in {"clearLen", "recount"} <=> pc[t] \in {"clearLen", "recount"}
        /\ Owner(t) /\ pc'[t] \in Copied => pc[t] \in Copied
        /\ pc'[t] \in {"grow", "grown"} <=> pc[t] \in {"grow", "grown"}
        /\ pc'[t] = "clearLen" <=> pc[t] = "clearLen"
        /\ pc'[t] = "clearCount" <=> pc[t] = "clearCount"
    BY <1>3 DEF Copied
  <1> QED BY <1>4, <1>5, <1>6 DEF SameCounting, SameLength

LEMMA EvenStep ==
    ASSUME LeaderInv, Counts, Lengths, NEW t \in Tasks, Even(t)
    PROVE  Counts' /\ Lengths'
  <1> USE DEF LeaderInv, TypeOK
  <1>1. \A u \in Tasks : SameCounting(u) /\ SameLength(u)
    BY EvenIsStep, OthersSame, EvenSame
  <1>2. UNCHANGED <<count, completed, len, head_, addr, size>>
    BY DEF Even, LoadLen, CopyRecord, AwaitCompletion, AwaitNotify, WriteHeader, MeasureGroup,
       SubmitGroup, WriteDone, PersistBlock, PostCompletion, PostNotifyLeader,
       PostMemoryNotify, ResetCompletion, FreeGroup, taskVars, groupVars, ringVars
  <1>3. \A u \in Tasks : seen'[u] = seen[u] \/ u = t
    BY DEF Even, LoadLen, CopyRecord, AwaitCompletion, AwaitNotify, WriteHeader, MeasureGroup,
       SubmitGroup, WriteDone, PersistBlock, PostCompletion, PostNotifyLeader,
       PostMemoryNotify, ResetCompletion, FreeGroup, taskVars
  <1>4. pc'[t] # "bump" /\ (pc'[t] \in {"grown", "zero"} => seen'[t] = len)
    BY DEF Even, LoadLen, CopyRecord, AwaitCompletion, AwaitNotify, WriteHeader, MeasureGroup,
       SubmitGroup, WriteDone, PersistBlock, PostCompletion, PostNotifyLeader,
       PostMemoryNotify, ResetCompletion, FreeGroup, Goto, Await, PostAndGoto
  <1>5. \A u \in Tasks : pc'[u] = "bump" => seen'[u] = seen[u]
    BY <1>3, <1>4
  <1>6. \A u \in Tasks \ {t} : pc'[u] \in {"grown", "zero"} => pc'[u] = pc[u]
    BY EvenIsStep, StepAside DEF TaskStep, Aside
  <1>7. \A u \in Tasks : pc'[u] \in {"grown", "zero"} => seen'[u] = len
    BY <1>3, <1>4, <1>6 DEF Lengths
  <1> HIDE DEF LeaderInv, TypeOK
  <1>8. Counts'
    BY <1>1, <1>2, <1>5, CountsAside
  <1>9. Lengths'
    BY <1>1, <1>2, <1>7, LengthsAside
  <1> QED BY <1>8, <1>9

\* The lock keeps everybody else out of asyncMalloc.
LEMMA LockAlone ==
    ASSUME LeaderInv, NEW t \in Tasks, pc[t] \in Mallocing, NEW u \in Tasks \ {t}
    PROVE  pc[u] \notin Mallocing
  BY DEF LeaderInv, LockHeld

LEMMA MallocGroup ==
    ASSUME LeaderInv, RegionInv, MallocAlone', Counts, Lengths,
           NEW t \in Tasks, NEW s \in Sizes, Malloc(t, s)
    PROVE  Counts' /\ Lengths'
  <1> USE DEF LeaderInv, TypeOK
  <1>1. /\ pc[t] = "idle" /\ pc' = [pc EXCEPT ![t] = "bump"] /\ lock = Free
        /\ leader' = [leader EXCEPT ![t] = (count = 0)]
        /\ seen' = [seen EXCEPT ![t] = count]
        /\ size' = [size EXCEPT ![t] = s]
        /\ UNCHANGED <<count, completed, len, head_, addr>>
    BY DEF Malloc, Claim, Goto, groupVars, ringVars
  <1>2. \A u \in Tasks : pc[u] \notin Mallocing \cup Closing
    <2>1. \A u \in Tasks : pc[u] \notin Mallocing
      BY <1>1, LogAssumption DEF LockHeld
    <2>2. \A u \in Tasks : pc'[u] \notin Closing
      BY <1>1 DEF MallocAlone, Mallocing
    <2>3. \A u \in Tasks : pc[u] \notin Closing
      BY <1>1, <2>2 DEF Closing, Clearing
    <2> QED BY <2>1, <2>3
  <1>3. TaskStep(t)
    BY DEF TaskStep, AsyncMalloc
  <1>4. \A u \in Tasks \ {t} : SameCounting(u) /\ SameLength(u)
    BY <1>3, OthersSame
  <1>5. ~Owner(t) /\ (Owner(t)' <=> count = 0) /\ ~Placed(t) /\ ~Placed(t)'
        /\ t \notin Uncounted /\ t \notin Uncounted'
    BY <1>1 DEF Owner, Owning, Mallocing, Leading, Placed, Unplaced, Uncounted
  <1>6. Uncounted' = Uncounted
    <2>1. \A u \in Tasks : u \in Uncounted' <=> u \in Uncounted
      BY <1>4, <1>5 DEF SameCounting
    <2> QED BY <2>1, SameUncounted
  <1>7. \A u \in Tasks : /\ u # t => pc'[u] = pc[u] /\ leader'[u] = leader[u] /\ (Owner(u)' <=> Owner(u))
                         /\ pc'[u] # "request" /\ pc[u] # "request"
                         /\ pc'[u] \notin {"clearLen", "recount", "clearCount", "grow", "grown", "zero"}
                         /\ pc[u] \notin {"clearLen", "recount", "clearCount", "grow", "grown", "zero"}
                         /\ pc'[u] \notin Copied
                         /\ u # t => pc'[u] # "bump"
                         /\ Owner(u) => count >= 1 /\ Placed(u)
    BY <1>1, <1>2, <1>4 DEF SameCounting, SameMember, Mallocing, Closing, Leading, Clearing, Copied,
       OwnersCounted, Placed, Unplaced, Owner, Owning
  <1>8. /\ pc'[t] = "bump" /\ seen'[t] = count
        /\ leader'[t] <=> count = 0
    BY <1>1
  <1>9. CASE count = 0
    <2>1. NoOwner /\ Uncounted = {} /\ completed = 0 /\ len = 0
      BY <1>7, <1>9 DEF Counts, Lengths, NoOwner
    <2>2. \A u \in Tasks : Owner(u)' => u = t
      BY <1>7, <2>1 DEF NoOwner
    <2>3. ~NoOwner'
      BY <1>5, <1>9 DEF NoOwner
    <2>4. Counts'
      BY <1>1, <1>6, <1>7, <1>8, <1>9, <2>1, <2>2, <2>3 DEF Counts
    <2>5. Lengths'
      BY <1>1, <1>5, <1>7, <1>8, <1>9, <2>1, <2>2, <2>3 DEF Lengths
    <2> QED BY <2>4, <2>5
  <1>10. CASE count # 0
    <2>1. count >= 1 /\ ~NoOwner /\ ~NoOwner' /\ ~Owner(t)'
      <3>1. ~NoOwner
        BY <1>10 DEF Counts
      <3> QED BY <1>5, <1>7, <1>10, <3>1 DEF NoOwner
    <2>2. Counts'
      BY <1>1, <1>6, <1>7, <1>8, <2>1 DEF Counts
    <2>3. Lengths'
      <3>1. \A u \in Tasks : Owner(u)' => u # t /\ Owner(u) /\ Placed(u) /\ Placed(u)'
        BY <1>7, <1>4, <2>1 DEF SameLength, SameMember
      <3> QED BY <1>1, <1>7, <2>1, <3>1 DEF Lengths
    <2> QED BY <2>2, <2>3
  <1> QED BY <1>9, <1>10

LEMMA BumpGroup ==
    ASSUME LeaderInv, Counts, Lengths, NEW t \in Tasks, BumpCount(t)
    PROVE  Counts' /\ Lengths'
  <1> USE DEF LeaderInv, TypeOK
  <1>1. /\ pc[t] = "bump" /\ pc' = [pc EXCEPT ![t] = "request"]
        /\ count' \in {seen[t] + 1, count + 1}
        /\ UNCHANGED <<leader, size, addr, seen, completed, len, head_>>
    BY DEF BumpCount, Goto, taskVars, groupVars, ringVars
  <1>2. count' = count + 1
    BY <1>1 DEF Counts
  <1>3. TaskStep(t)
    BY DEF TaskStep, AsyncMalloc
  <1>4. \A u \in Tasks \ {t} : SameCounting(u) /\ SameLength(u) /\ pc[u] \notin Mallocing
    BY <1>1, <1>3, OthersSame, LockAlone DEF Mallocing
  <1>5. SameMember(t) /\ SameLength(t)
    BY <1>1 DEF SameMember, SameLength, Owner, Owning, Mallocing, Leading, Placed, Unplaced
  <1>6. Uncounted' = Uncounted
    <2>1. t \notin Uncounted /\ t \notin Uncounted'
      BY <1>1 DEF Uncounted
    <2>2. \A u \in Tasks : u \in Uncounted' <=> u \in Uncounted
      BY <1>4, <2>1 DEF SameCounting
    <2> QED BY <2>2, SameUncounted
  <1>7. \A u \in Tasks : Owner(u)' <=> Owner(u)
    BY <1>4, <1>5 DEF SameCounting, SameMember
  <1>8. \A u \in Tasks : /\ u # t => pc'[u] = pc[u] /\ pc[u] # "request" /\ pc[u] # "bump"
                         /\ leader'[u] = leader[u]
    BY <1>1, <1>4 DEF Mallocing
  <1>9. pc'[t] = "request" /\ pc'[t] \notin Copied /\ pc[t] # "request"
    BY <1>1 DEF Copied
  <1>10. Lengths'
    <2>1. \A u \in Tasks : pc'[u] \in {"grown", "zero"} => seen'[u] = len
      BY <1>1, <1>8, <1>9 DEF Lengths
    <2> QED BY <1>1, <1>4, <1>5, <2>1, LengthsAside
  <1>11. count \in Nat /\ completed \in Nat /\ head_ \in Nat
    BY DEF ring!RingTypeOK
  <1>12. OneLeader
    OBVIOUS
  <1> HIDE DEF LeaderInv, TypeOK
  <1>13. CASE leader[t]
    <2>1. Owner(t) /\ count = 0 /\ completed = 0 /\ Uncounted = {}
      BY <1>1, <1>13 DEF Counts, Owner, Owning, Mallocing
    <2>2. \A u \in Tasks : Owner(u) => u = t
      BY <1>12, <2>1 DEF OneLeader
    <2>3. Cardinality(Uncounted) = 0
      BY <2>1, FS_EmptySet
    <2>4. ~NoOwner'
      BY <1>7, <2>1 DEF NoOwner
    <2>5. count' = 1 + completed' + Cardinality(Uncounted') /\ count' <= head_' + 1
          /\ IsFiniteSet(Uncounted')
      BY <1>1, <1>2, <1>6, <1>11, <2>1, <2>3, FS_EmptySet
    <2>6. Counts'
      BY <1>1, <1>7, <1>8, <1>9, <1>13, <2>2, <2>4, <2>5 DEF Counts
    <2> QED BY <1>10, <2>6
  <1>14. CASE ~leader[t]
    <2>1. count >= 1 /\ ~Owner(t) /\ ~NoOwner
      BY <1>1, <1>14 DEF Counts, Owner
    <2>2. ~NoOwner'
      BY <1>7, <2>1 DEF NoOwner
    <2>3. Cardinality(Uncounted) \in Nat
      BY FS_CardinalityType DEF Counts
    <2>4. \A u \in Tasks : pc[u] # "request"
      BY <1>8, <1>9
    <2>5. count' <= head_' + 1 /\ count' >= 1 /\ IsFiniteSet(Uncounted')
      BY <1>1, <1>2, <1>6, <1>11, <2>1, <2>4 DEF Counts
    <2>6. \A u \in Tasks : Owner(u) => /\ u # t /\ pc[u] # "bump"
                                       /\ count = 1 + completed + Cardinality(Uncounted)
                                       /\ pc'[u] \in Copied => Uncounted = {}
      BY <1>8, <2>1, <2>4 DEF Counts
    <2>7. \A u \in Tasks : Owner(u) => count' = 2 + completed' + Cardinality(Uncounted')
      BY <1>1, <1>2, <1>6, <1>11, <2>3, <2>6
    <2>8. Counts'
      BY <1>1, <1>6, <1>7, <1>8, <1>9, <2>2, <2>5, <2>6, <2>7 DEF Counts
    <2> QED BY <1>10, <2>8
  <1> QED BY <1>13, <1>14

LEMMA ServedGroup ==
    ASSUME LeaderInv, RegionInv, Counts, Lengths,
           NEW t \in Tasks, RequestWriteSpace(t), ~Starved(t)
    PROVE  Counts' /\ Lengths'
  <1>1. /\ pc[t] = "request" /\ pc' = [pc EXCEPT ![t] = "grow"]
        /\ addr' = [addr EXCEPT ![t] = head_] /\ head_' = head_ + size[t]
        /\ UNCHANGED <<size, leader, seen, count, completed, len>>
    BY Served DEF LeaderInv, RequestWriteSpace, groupVars
  <1>2. TaskStep(t)
    BY DEF TaskStep, AsyncMalloc
  <1>3. \A u \in Tasks \ {t} :
           SameCounting(u) /\ SameLength(u) /\ pc[u] \notin Mallocing /\ addr'[u] = addr[u]
    BY <1>1, <1>2, OthersSame, LockAlone DEF LeaderInv, TypeOK, Mallocing
  <1>4. pc'[t] = "grow" /\ addr'[t] = head_ /\ ~Placed(t) /\ Placed(t)' /\ (Owner(t)' <=> Owner(t))
    BY <1>1 DEF LeaderInv, TypeOK, Owner, Owning, Mallocing, Placed, Unplaced
  <1>5. \A u \in Tasks : /\ Owner(u)' <=> Owner(u)
                         /\ pc'[u] # "bump" /\ pc[u] # "bump" /\ pc'[u] # "request" /\ pc'[u] # "grown"
                         /\ u # t => pc'[u] = pc[u] /\ pc[u] # "request"
                                     /\ pc[u] \notin {"grow", "grown"} /\ pc'[u] \notin {"grow", "grown"}
                                     /\ (Placed(u)' <=> Placed(u))
    BY <1>1, <1>3, <1>4 DEF SameCounting, SameMember, Mallocing, LeaderInv, TypeOK
  <1>6. NoOwner' <=> NoOwner
    BY <1>5 DEF NoOwner
  <1>7. /\ count \in Nat /\ completed \in Nat /\ len \in Nat /\ head_ \in Nat
        /\ size[t] \in 1..kBufferSize
        /\ \A u \in Tasks : addr[u] \in Nat
    BY <1>1 DEF LeaderInv, TypeOK, ring!RingTypeOK, RegionInv, Sized, Cells
  <1>8. Owner(t) <=> leader[t]
    BY <1>1 DEF Owner, Owning, Mallocing
  <1>9. ~NoOwner
    BY <1>1, <1>8 DEF Counts, NoOwner
  <1>10. Lengths'
    <2>1. ASSUME NEW u \in Tasks, Owner(u)'
          PROVE  /\ Placed(u)' /\ len = head_' - size'[t] - addr'[u]
      <3>1. CASE u = t
        <4>1. len = 0
          BY <1>4, <1>5, <2>1, <3>1 DEF Lengths
        <4> QED BY <1>1, <1>4, <1>7, <3>1, <4>1
      <3>2. CASE u # t
        <4>1. Placed(u)
          BY <1>3, <1>5, <2>1, <3>2 DEF Owner, Placed, Unplaced, Mallocing, Owning, Leading
        <4>2. CASE pc[u] = "clearCount"
          <5>1. pc[t] \in Mallocing /\ pc[u] \in Closing
            BY <1>1, <4>2 DEF Mallocing, Closing, Clearing
          <5> QED BY <5>1 DEF RegionInv, MallocAlone
        <4>3. CASE pc[u] # "clearCount"
          <5>1. len = head_ - addr[u]
            BY <1>1, <1>5, <2>1, <3>2, <4>1, <4>3 DEF Lengths
          <5> QED BY <1>1, <1>3, <1>5, <1>7, <3>2, <4>1, <5>1
        <4> QED BY <4>2, <4>3
      <3> QED BY <3>1, <3>2
    <2>2. \A u \in Tasks : pc'[u] \in {"grow", "grown"} <=> u = t
      BY <1>4, <1>5
    <2>3. \A u \in Tasks : pc'[u] \in {"grown", "zero"} => seen'[u] = len'
      BY <1>1, <1>4, <1>5 DEF Lengths
    <2> QED BY <1>1, <1>6, <1>9, <2>1, <2>2, <2>3 DEF Lengths
  <1>11. count' <= head_' /\ count' <= head_' + 1
    <2>1. count <= head_ + 1
      BY DEF Counts
    <2> QED BY <1>1, <1>7, <2>1
  <1>12. CASE leader[t]
    <2>1. Uncounted' = Uncounted
      <3>1. t \notin Uncounted /\ t \notin Uncounted'
        BY <1>1, <1>12 DEF Uncounted
      <3>2. \A u \in Tasks : u \in Uncounted' <=> u \in Uncounted
        BY <1>3, <3>1 DEF SameCounting
      <3> QED BY <3>2, SameUncounted
    <2>2. \A u \in Tasks : Owner(u) => u = t
      BY <1>8, <1>12 DEF LeaderInv, OneLeader
    <2>3. count = 1 + completed + Cardinality(Uncounted)
      BY <1>1, <1>5, <1>8, <1>12 DEF Counts
    <2>4. IsFiniteSet(Uncounted) /\ pc'[t] \notin Copied
      BY <1>4 DEF Counts, Copied
    <2> HIDE DEF Uncounted
    <2>5. Counts'
      BY <1>1, <1>5, <1>6, <1>9, <1>11, <2>1, <2>2, <2>3, <2>4 DEF Counts
    <2> QED BY <1>10, <2>5
  <1>13. CASE ~leader[t]
    <2>1. Uncounted' = Uncounted \cup {t} /\ t \notin Uncounted
      <3>1. t \notin Uncounted /\ t \in Uncounted'
        BY <1>1, <1>4, <1>13 DEF Uncounted
      <3>2. \A u \in Tasks \ {t} : u \in Uncounted' <=> u \in Uncounted
        BY <1>3 DEF SameCounting
      <3>3. Uncounted \subseteq Tasks /\ Uncounted' \subseteq Tasks
        BY DEF Uncounted
      <3> QED BY <3>1, <3>2, <3>3
    <2>2. IsFiniteSet(Uncounted) /\ Cardinality(Uncounted) \in Nat
      BY FS_CardinalityType DEF Counts
    <2>3. IsFiniteSet(Uncounted') /\ Cardinality(Uncounted') = Cardinality(Uncounted) + 1
      BY <2>1, <2>2, FS_AddElement
    <2>4. \A u \in Tasks : Owner(u) => u # t /\ count = 2 + completed + Cardinality(Uncounted)
      BY <1>1, <1>5, <1>8, <1>13 DEF Counts
    <2>5. \A u \in Tasks : Owner(u) => count' = 1 + completed' + Cardinality(Uncounted')
      BY <1>1, <1>7, <2>2, <2>3, <2>4
    <2>6. \A u \in Tasks : Owner(u) => pc'[u] \notin Copied
      <3> SUFFICES ASSUME NEW u \in Tasks, Owner(u), pc'[u] \in Copied PROVE FALSE
        OBVIOUS
      <3>1. pc[u] \in Closing /\ pc[t] \in Mallocing
        BY <1>1, <1>4, <1>5 DEF Copied, Closing, Clearing, Mallocing
      <3> QED BY <3>1 DEF RegionInv, MallocAlone
    <2>7. Counts'
      BY <1>1, <1>5, <1>6, <1>9, <1>11, <2>3, <2>5, <2>6 DEF Counts
    <2> QED BY <1>10, <2>7
  <1> QED BY <1>12, <1>13

LEMMA GrowGroup ==
    ASSUME LeaderInv, RegionInv, Counts, Lengths, NEW t \in Tasks, GrowLen(t)
    PROVE  Counts' /\ Lengths'
  <1>1. /\ pc[t] = "grown" /\ pc' = [pc EXCEPT ![t] = "copy"]
        /\ len' = seen[t] + size[t]
        /\ UNCHANGED <<leader, size, addr, seen, count, completed, head_>>
    BY DEF GrowLen, Goto, taskVars, ringVars
  <1>2. TaskStep(t)
    BY DEF TaskStep, AsyncMalloc
  <1>3. \A u \in Tasks \ {t} : SameCounting(u) /\ SameLength(u) /\ pc[u] \notin Mallocing
    BY <1>1, <1>2, OthersSame, LockAlone DEF LeaderInv, Mallocing
  <1>4. SameCounting(t)
    BY <1>1 DEF LeaderInv, TypeOK, SameCounting, SameMember, Owner, Owning, Mallocing, Leading,
       Placed, Unplaced, Uncounted, Copied
  <1>5. Counts'
    <2>1. \A u \in Tasks : pc'[u] = "bump" => seen'[u] = seen[u]
      BY <1>1
    <2> QED BY <1>1, <1>3, <1>4, <2>1, CountsAside
  <1>6. \A u \in Tasks : /\ Owner(u)' <=> Owner(u)
                         /\ (Placed(u)' <=> Placed(u))
                         /\ pc[u] # "clearCount" /\ pc[u] # "zero"
                         /\ pc'[u] \notin {"grow", "grown", "zero"}
    <2>1. pc[t] \in Mallocing
      BY <1>1 DEF Mallocing
    <2>2. \A u \in Tasks : pc[u] # "clearCount" /\ pc[u] # "zero"
      BY <2>1 DEF RegionInv, MallocAlone, Closing, Clearing
    <2>3. \A u \in Tasks : pc'[u] \notin {"grow", "grown", "zero"}
      BY <1>1, <1>3, <2>2 DEF LeaderInv, TypeOK, Mallocing
    <2> QED BY <1>3, <1>4, <2>2, <2>3 DEF SameCounting, SameMember
  <1>7. ~NoOwner'
    <2>1. t \in Uncounted \/ Owner(t)
      BY <1>1 DEF Uncounted, Owner, Owning, Mallocing
    <2>2. ~NoOwner
      BY <2>1 DEF Counts, NoOwner
    <2> QED BY <1>6, <2>2 DEF NoOwner
  <1>8. ASSUME NEW u \in Tasks, Owner(u)' PROVE Placed(u)' /\ len' = head_' - addr'[u]
    <2>1. Placed(u)
      BY <1>1, <1>3, <1>6, <1>8 DEF Owner, Placed, Unplaced, Mallocing, Owning, Leading
    <2>2. len = head_ - size[t] - addr[u]
      BY <1>1, <1>6, <1>8, <2>1 DEF Lengths
    <2>3. seen[t] = len
      BY <1>1 DEF Lengths
    <2>4. len \in Nat /\ head_ \in Nat /\ size[t] \in Nat /\ addr[u] \in Nat
      BY DEF LeaderInv, TypeOK, ring!RingTypeOK, Cells
    <2> QED BY <1>1, <1>6, <2>1, <2>2, <2>3, <2>4
  <1>9. Lengths'
    BY <1>6, <1>7, <1>8 DEF Lengths
  <1> QED BY <1>5, <1>9

LEMMA CopyGroup ==
    ASSUME LeaderInv, Counts, Lengths, NEW t \in Tasks, CountCopy(t)
    PROVE  Counts' /\ Lengths'
  <1>1. /\ pc[t] = "copied" /\ ~leader[t] /\ pc' = [pc EXCEPT ![t] = "follow"]
        /\ completed' = completed + 1
        /\ UNCHANGED <<leader, size, addr, seen, count, len, head_>>
    BY DEF CountCopy, Goto, taskVars, ringVars
  <1>2. TaskStep(t)
    BY DEF TaskStep, FollowerComplete
  <1>3. \A u \in Tasks \ {t} : SameCounting(u) /\ SameLength(u) /\ pc'[u] = pc[u]
    BY <1>1, <1>2, OthersSame DEF LeaderInv, TypeOK
  <1>4. SameLength(t) /\ pc'[t] = "follow"
    BY <1>1 DEF LeaderInv, TypeOK, SameLength, SameMember, Owner, Placed, Unplaced
  <1>5. Lengths'
    <2>1. \A u \in Tasks : pc'[u] \in {"grown", "zero"} => seen'[u] = len
      BY <1>1, <1>3, <1>4 DEF Lengths
    <2> QED BY <1>1, <1>3, <1>4, <2>1, LengthsAside
  <1>6. Uncounted' = Uncounted \ {t} /\ t \in Uncounted
    <2>1. t \in Uncounted /\ t \notin Uncounted'
      BY <1>1, <1>4 DEF Uncounted
    <2>2. \A u \in Tasks \ {t} : u \in Uncounted' <=> u \in Uncounted
      BY <1>3 DEF SameCounting
    <2>3. Uncounted \subseteq Tasks /\ Uncounted' \subseteq Tasks
      BY DEF Uncounted
    <2> QED BY <2>1, <2>2, <2>3
  <1>7. IsFiniteSet(Uncounted) /\ Cardinality(Uncounted) \in Nat
        /\ count \in Nat /\ completed \in Nat
    BY FS_CardinalityType DEF Counts, LeaderInv, TypeOK
  <1>8. IsFiniteSet(Uncounted') /\ Cardinality(Uncounted') = Cardinality(Uncounted) - 1
    BY <1>6, <1>7, FS_RemoveElement
  <1>9. \A u \in Tasks : /\ Owner(u)' <=> Owner(u)
                         /\ pc'[u] = "bump" <=> pc[u] = "bump"
                         /\ pc'[u] = "request" <=> pc[u] = "request"
    BY <1>1, <1>3, <1>4 DEF SameCounting, SameLength, SameMember
  <1>10. ~NoOwner /\ ~NoOwner'
    <2>1. ~NoOwner
      BY <1>6 DEF Counts
    <2> QED BY <1>9, <2>1 DEF NoOwner
  <1>11. \A u \in Tasks : Owner(u) => pc[u] # "bump" /\ pc[u] \notin Copied /\ pc'[u] \notin Copied
    <2>1. \A u \in Tasks : Owner(u) => pc[u] # "bump" /\ pc[u] \notin Copied /\ u # t
      BY <1>1, <1>6 DEF Counts, Owner
    <2> QED BY <1>3, <2>1
  <1>12. \A u \in Tasks : Owner(u) =>
            /\ (\A v \in Tasks \ {u} : pc[v] # "request") =>
                  count = 1 + completed' + Cardinality(Uncounted')
            /\ \A v \in Tasks \ {u} : pc[v] = "request" =>
                  count = 2 + completed' + Cardinality(Uncounted')
    <2>1. completed' + Cardinality(Uncounted') = completed + Cardinality(Uncounted)
      BY <1>1, <1>7, <1>8
    <2>2. /\ 1 + completed' + Cardinality(Uncounted') = 1 + completed + Cardinality(Uncounted)
          /\ 2 + completed' + Cardinality(Uncounted') = 2 + completed + Cardinality(Uncounted)
      BY <1>1, <1>7, <1>8
    <2> QED BY <1>11, <2>2 DEF Counts
  <1>13. Counts'
    BY <1>1, <1>8, <1>9, <1>10, <1>11, <1>12 DEF Counts
  <1> QED BY <1>5, <1>13

\* A leader leaves the spin loop when everybody's record is in the ring.
LEMMA SpinGroup ==
    ASSUME LeaderInv, RegionInv, MallocAlone', Counts, Lengths, NEW t \in Tasks, AllCopied(t)
    PROVE  Counts' /\ Lengths'
  <1>1. /\ pc[t] = "spin" /\ pc' = [pc EXCEPT ![t] = "measure"]
        /\ completed = (count - 1) % Word
        /\ UNCHANGED <<leader, size, addr, seen, count, completed, len, head_>>
    BY DEF AllCopied, CopiesExpected, Goto, taskVars, groupVars, ringVars
  <1>2. TaskStep(t)
    BY DEF TaskStep, LeaderComplete
  <1>3. \A u \in Tasks \ {t} : SameCounting(u) /\ SameLength(u) /\ pc'[u] = pc[u]
    BY <1>1, <1>2, OthersSame DEF LeaderInv, TypeOK
  <1>4. SameLength(t) /\ pc'[t] = "measure" /\ Owner(t) /\ Owner(t)'
        /\ t \notin Uncounted /\ t \notin Uncounted'
    <2>1. leader[t]
      BY <1>1 DEF LeaderInv, LeadersClaimed, Leading
    <2> QED BY <1>1, <2>1 DEF LeaderInv, TypeOK, SameLength, SameMember, Owner, Owning, Leading,
               Placed, Unplaced, Uncounted
  <1>5. Lengths'
    <2>1. \A u \in Tasks : pc'[u] \in {"grown", "zero"} => seen'[u] = len
      BY <1>1, <1>3, <1>4 DEF Lengths
    <2> QED BY <1>1, <1>3, <1>4, <2>1, LengthsAside
  <1>6. \A u \in Tasks : pc[u] \notin Mallocing
    <2>1. pc'[t] \in Closing
      BY <1>4 DEF Closing
    <2>2. \A u \in Tasks : pc'[u] \notin Mallocing
      BY <2>1 DEF MallocAlone
    <2> QED BY <1>1, <1>3, <2>2 DEF Mallocing
  <1>7. \A u \in Tasks : pc[u] # "request" /\ pc[u] # "bump"
    BY <1>6 DEF Mallocing
  <1>8. /\ IsFiniteSet(Uncounted) /\ Cardinality(Uncounted) \in Nat
        /\ count = 1 + completed + Cardinality(Uncounted) /\ count <= head_
    BY <1>1, <1>4, <1>7, FS_CardinalityType DEF Counts
  <1>9. /\ count \in Nat /\ completed \in Nat /\ head_ \in Nat /\ head_ <= kBufferSize
        /\ kBufferSize < Word /\ Word \in Nat \ {0} /\ kBufferSize \in Nat
    BY RingNumbers DEF LeaderInv, TypeOK, ring!RingTypeOK, RegionInv, HandedOut
  <1>10. count - 1 \in 0..(Word - 1)
    BY <1>8, <1>9
  <1>11. completed = count - 1
    BY <1>1, <1>9, <1>10, Small
  <1>12. Cardinality(Uncounted) = 0
    BY <1>8, <1>9, <1>11
  <1>13. Uncounted = {}
    BY <1>8, <1>12, FS_EmptySet
  <1>14. Uncounted' = Uncounted
    <2>1. \A u \in Tasks : u \in Uncounted' <=> u \in Uncounted
      BY <1>3, <1>4 DEF SameCounting
    <2> QED BY <2>1, SameUncounted
  <1>15. \A u \in Tasks : /\ Owner(u)' <=> Owner(u)
                          /\ pc'[u] # "request" /\ pc'[u] # "bump"
                          /\ pc'[u] \in {"clearLen", "recount"} <=> pc[u] \in {"clearLen", "recount"}
    BY <1>1, <1>3, <1>4, <1>7 DEF SameCounting, SameMember
  <1>16. ~NoOwner /\ ~NoOwner'
    BY <1>4 DEF NoOwner
  <1>17. Counts'
    BY <1>1, <1>7, <1>8, <1>13, <1>14, <1>15, <1>16 DEF Counts
  <1> QED BY <1>5, <1>17

\* The stores of Reset end the group.
LEMMA ClearGroup ==
    ASSUME LeaderInv, RegionInv, RegionInv', GroupEnds, Counts, Lengths, NEW t \in Tasks,
           ClearCount(t) \/ ClearLen(t) \/ ClearBoth(t) \/ ClearCompleted(t)
    PROVE  Counts' /\ Lengths'
  <1>1. /\ UNCHANGED <<leader, size, addr, seen, head_>>
        /\ \/ pc[t] = "clear" /\ count' = 0 /\ completed' = completed
              /\ \/ pc' = [pc EXCEPT ![t] = "clearLen"] /\ len' = len
                 \/ pc' = [pc EXCEPT ![t] = "recount"] /\ len' = 0
           \/ pc[t] = "clearCount" /\ pc' = [pc EXCEPT ![t] = "recount"]
              /\ count' = 0 /\ completed' = completed /\ len' = len
           \/ pc[t] = "clear" /\ pc' = [pc EXCEPT ![t] = "clearCount"]
              /\ len' = 0 /\ count' = count /\ completed' = completed
           \/ pc[t] = "clearLen" /\ pc' = [pc EXCEPT ![t] = "recount"]
              /\ len' = 0 /\ count' = count /\ completed' = completed
           \/ pc[t] = "recount" /\ pc' = [pc EXCEPT ![t] = "free"]
              /\ completed' = 0 /\ count' = count /\ len' = len
    BY DEF ClearCount, ClearLen, ClearBoth, ClearCompleted, Goto, taskVars, ringVars
  <1>2. TaskStep(t)
    BY DEF TaskStep, LeaderComplete, Reset
  <1>3. /\ leader[t] /\ pc[t] \in {"clear", "clearCount", "clearLen", "recount"}
        /\ pc'[t] \in {"clearCount", "clearLen", "recount", "free"}
        /\ \A u \in Tasks : pc[u] \notin Mallocing
    <2>1. pc[t] \in Clearing
      BY <1>1 DEF Clearing
    <2> QED BY <1>1, <2>1 DEF LeaderInv, TypeOK, LeadersClaimed, RegionInv, MallocAlone, Closing
  <1>4. \A u \in Tasks \ {t} : /\ SameCounting(u) /\ SameLength(u) /\ pc'[u] = pc[u]
    BY <1>1, <1>2, OthersSame DEF LeaderInv, TypeOK
  <1>5. Owner(t) <=> pc[t] \in {"clear", "clearCount"}
    BY <1>3 DEF Owner, Owning, Mallocing, Leading
  <1>6. Owner(t)' <=> pc'[t] = "clearCount"
    BY <1>1, <1>3 DEF Owner, Owning, Mallocing, Leading
  <1>7. \A u \in Tasks \ {t} : ~Owner(u) /\ ~Owner(u)'
    <2> SUFFICES ASSUME NEW u \in Tasks \ {t}, Owner(u) PROVE FALSE
      BY <1>4 DEF SameCounting, SameMember
    <2>1. Owner(t)
      BY <1>3, <1>5 DEF GroupEnds, NoOwner
    <2> QED BY <2>1 DEF LeaderInv, OneLeader
  <1>8. Uncounted' = Uncounted /\ Uncounted = {}
    <2>1. t \notin Uncounted /\ t \notin Uncounted'
      BY <1>3 DEF Uncounted
    <2>2. \A u \in Tasks : u \in Uncounted' <=> u \in Uncounted
      BY <1>4, <2>1 DEF SameCounting
    <2>3. ASSUME Owner(t) PROVE Uncounted = {}
      <3>1. pc[t] \in Copied
        BY <1>5, <2>3 DEF Copied
      <3> QED BY <2>3, <3>1 DEF Counts
    <2>4. ASSUME ~Owner(t) PROVE Uncounted = {}
      <3>1. NoOwner
        BY <1>7, <2>4 DEF NoOwner
      <3> QED BY <3>1 DEF Counts
    <2>5. Uncounted' = Uncounted
      BY <2>2, SameUncounted
    <2> QED BY <2>3, <2>4, <2>5
  <1>9. Cardinality(Uncounted) = 0 /\ IsFiniteSet(Uncounted)
    BY <1>8, FS_EmptySet
  <1>10. \A u \in Tasks : /\ pc[u] # "bump" /\ pc[u] # "request" /\ pc[u] \notin {"grow", "grown"}
                          /\ pc'[u] # "bump" /\ pc'[u] # "request" /\ pc'[u] \notin {"grow", "grown"}
    BY <1>3, <1>4 DEF Mallocing
  <1>11. \A u \in Tasks : pc'[u] \notin {"grown", "zero"}
    <2>1. \A u \in Tasks \ {t} : pc[u] # "zero"
      BY <1>7 DEF LeaderInv, LeadersClaimed, Owner, Owning, Leading
    <2> QED BY <1>3, <1>4, <1>10, <2>1
  <1>12. NoOwner <=> ~Owner(t)
    BY <1>7 DEF NoOwner
  <1>13. NoOwner' <=> ~Owner(t)'
    BY <1>7 DEF NoOwner
  <1>14. count <= head_ /\ head_ \in Nat
    BY <1>10 DEF Counts, LeaderInv, TypeOK, ring!RingTypeOK
  <1>15. Counts'
    <2>1. NoOwner' => count' = 0
      <3> SUFFICES ASSUME NoOwner' PROVE count' = 0
        OBVIOUS
      <3>1. pc'[t] # "clearCount"
        BY <1>6, <1>13
      <3>2. count' = 0 \/ (count' = count /\ pc[t] \notin {"clear", "clearCount"})
        BY <1>1, <3>1 DEF LeaderInv, TypeOK
      <3>3. pc[t] \notin {"clear", "clearCount"} => count = 0
        BY <1>5, <1>12 DEF Counts
      <3> QED BY <3>2, <3>3
    <2>2. NoOwner' /\ (\A u \in Tasks : pc'[u] \notin {"clearLen", "recount"}) => completed' = 0
      <3> SUFFICES ASSUME NoOwner', \A u \in Tasks : pc'[u] \notin {"clearLen", "recount"}
                   PROVE  completed' = 0
        OBVIOUS
      <3>1. pc'[t] = "free"
        BY <1>3, <1>6, <1>13
      <3> QED BY <1>1, <1>3, <3>1 DEF LeaderInv, TypeOK
    <2>3. Owner(t)' => count' = 1 + completed' + Cardinality(Uncounted)
      <3> SUFFICES ASSUME Owner(t)' PROVE count' = 1 + completed' + Cardinality(Uncounted)
        OBVIOUS
      <3>1. pc[t] = "clear" /\ count' = count /\ completed' = completed
        BY <1>1, <1>6 DEF LeaderInv, TypeOK
      <3> QED BY <1>5, <1>10, <3>1 DEF Counts
    <2>4. count' <= head_' /\ count' <= head_' + 1
      <3>1. count' \in {0, count} /\ head_' = head_
        BY <1>1
      <3>2. count \in Nat
        BY DEF LeaderInv, TypeOK
      <3> QED BY <1>14, <3>1, <3>2
    <2>5. \A u \in Tasks : Owner(u)' => u = t
      BY <1>7
    <2> QED BY <1>8, <1>9, <1>10, <2>1, <2>2, <2>3, <2>4, <2>5 DEF Counts
  <1>16. Lengths'
    <2>1. NoOwner' /\ (\A u \in Tasks : pc'[u] # "clearLen") => len' = 0
      <3> SUFFICES ASSUME NoOwner', \A u \in Tasks : pc'[u] # "clearLen" PROVE len' = 0
        OBVIOUS
      <3>1. pc'[t] \in {"recount", "free"}
        BY <1>3, <1>6, <1>13
      <3>2. CASE pc'[t] = "recount"
        BY <3>2 DEF RegionInv, Emptied
      <3>3. CASE pc'[t] = "free"
        <4>1. pc[t] = "recount" /\ len' = len
          BY <1>1, <1>3, <3>3 DEF LeaderInv, TypeOK
        <4>2. NoOwner /\ \A u \in Tasks : pc[u] # "clearLen"
          BY <1>4, <1>5, <1>12, <4>1
        <4> QED BY <4>1, <4>2 DEF Lengths
      <3> QED BY <3>1, <3>2, <3>3
    <2>2. \A u \in Tasks : Owner(u)' => u = t /\ pc'[u] = "clearCount" /\ Placed(u)'
      BY <1>6, <1>7 DEF Placed, Unplaced
    <2> QED BY <1>11, <2>1, <2>2 DEF Lengths
  <1> QED BY <1>15, <1>16

(***************************************************************************)
(* A task that starves does so for good: it holds the lock, nobody leads,  *)
(* and the head stays.                                                     *)
(***************************************************************************)
LEMMA NothingShrinks ==
    ASSUME TypeOK, RegionInv, NEW t \in Tasks, TaskStep(t)
    PROVE  /\ head_' >= head_
           /\ \A u \in Tasks : pc[u] # "idle" => size'[u] = size[u]
           /\ \A u \in Tasks : Placed(u) => addr'[u] = addr[u]
  <1>1. head_ \in Nat
    BY DEF TypeOK, ring!RingTypeOK
  <1>2. ASSUME NEW s \in Sizes, Malloc(t, s)
        PROVE  /\ head_' >= head_
               /\ \A u \in Tasks : pc[u] # "idle" => size'[u] = size[u]
               /\ \A u \in Tasks : Placed(u) => addr'[u] = addr[u]
    BY <1>1, <1>2 DEF Malloc, ringVars, TypeOK
  <1>3. CASE RequestWriteSpace(t) /\ ~Starved(t)
    <2>1. /\ pc[t] = "request" /\ addr' = [addr EXCEPT ![t] = head_] /\ size' = size
          /\ head_' = head_ + size[t] /\ size[t] \in Nat
      BY <1>3, Served DEF TypeOK
    <2> QED BY <1>1, <2>1 DEF Placed, Unplaced, TypeOK
  <1>4. CASE RequestWriteSpace(t) /\ Starved(t)
    BY <1>1, <1>4, NotServed
  <1>5. CASE FreeGroup(t)
    BY <1>1, <1>5, FreeRegions DEF RegionsStay
  <1>6. CASE ~(\E s \in Sizes : Malloc(t, s)) /\ ~RequestWriteSpace(t) /\ ~FreeGroup(t)
    <2>1. RegionsStay /\ UNCHANGED size
      BY <1>6, OtherRegions DEF RegionInv
    <2> QED BY <1>1, <2>1 DEF RegionsStay
  <1> QED BY <1>2, <1>3, <1>4, <1>5, <1>6

LEMMA StarvedStays ==
    ASSUME LeaderInv, TypeOK', RegionInv, NEW t \in Tasks, TaskStep(t),
           NEW u \in Tasks, Starved(u)
    PROVE  Starved(u)'
  <1>1. pc'[u] \in Unplaced
    <2>1. CASE u # t
      BY <2>1, StepAside DEF TaskStep, Aside, Starved, Unplaced, LeaderInv
    <2>2. CASE u = t /\ RequestWriteSpace(t)
      BY <2>2, NotServed DEF LeaderInv, TypeOK, Unplaced
    <2>3. CASE u = t /\ AsyncMalloc(t) /\ ~RequestWriteSpace(t)
      BY <2>3 DEF AsyncMalloc, Malloc, BumpCount, AwaitMemory, RetryMalloc, Claim, LoadLen,
         GrowLen, Await, Goto, Starved, Unplaced, LeaderInv, TypeOK
    <2>4. CASE u = t /\ (CopyRecord(t) \/ FollowerComplete(t) \/ Device(t))
      BY <2>4 DEF CopyRecord, FollowerComplete, CountCopy, AwaitCompletion, Device, WriteDone,
         PersistBlock, Starved, Unplaced
    <2>5. CASE u = t /\ LeaderComplete(t)
      BY <2>5 DEF LeaderComplete, AwaitNotify, WriteHeader, AllCopied, MeasureGroup, SubmitGroup,
         PostCompletion, PostNotifyLeader, Reset, ResetCompletion, ClearCount, ClearLen,
         ClearBoth, ClearCompleted, FreeGroup, PostMemoryNotify, Starved, Unplaced
    <2> QED BY <2>1, <2>2, <2>3, <2>4, <2>5 DEF TaskStep
  <1>2. head_' >= head_ /\ size'[u] = size[u]
    BY NothingShrinks DEF Starved, Unplaced, LeaderInv
  <1>3. head_ \in Nat /\ head_' \in Nat /\ size[u] \in Nat /\ kBufferSize \in Nat
    BY RingNumbers DEF LeaderInv, TypeOK, ring!RingTypeOK
  <1>4. head_' + size'[u] > kBufferSize
    BY <1>2, <1>3 DEF Starved
  <1> QED BY <1>1, <1>4 DEF Starved

LEMMA FullStep ==
    ASSUME LeaderInv, TypeOK', RegionInv, FullStarves, NEW t \in Tasks, TaskStep(t)
    PROVE  FullStarves'
  <1> SUFFICES ASSUME NEW u \in Tasks, pc'[u] \in {"full", "fullwait", "wake"} PROVE Starved(u)'
    BY DEF FullStarves
  <1>1. Starved(u)
    <2>1. CASE u # t
      <3>1. pc[u] \in {"full", "fullwait", "wake"}
        BY <2>1, StepAside DEF TaskStep, Aside, LeaderInv
      <3> QED BY <3>1 DEF FullStarves
    <2>2. CASE u = t /\ RequestWriteSpace(t)
      <3>1. ~Starved(t) => pc'[t] = "grow"
        BY <2>2, Served DEF LeaderInv, TypeOK
      <3> QED BY <2>2, <3>1
    <2>3. CASE u = t /\ AsyncMalloc(t) /\ ~RequestWriteSpace(t)
      <3>1. pc[u] = "full"
        BY <2>3 DEF AsyncMalloc, Malloc, BumpCount, AwaitMemory, RetryMalloc, Claim, LoadLen,
           GrowLen, Await, Goto, LeaderInv, TypeOK
      <3> QED BY <3>1 DEF FullStarves
    <2>4. CASE u = t /\ ~AsyncMalloc(t)
      <3>1. CASE LeaderComplete(t)
        BY <2>4, <3>1 DEF LeaderComplete, AwaitNotify, WriteHeader, AllCopied, MeasureGroup,
           SubmitGroup, PostCompletion, PostNotifyLeader, Reset, ResetCompletion, ClearCount,
           ClearLen, ClearBoth, ClearCompleted, FreeGroup, PostMemoryNotify, Goto, PostAndGoto,
           Await, LeaderInv, TypeOK
      <3>2. CASE ~LeaderComplete(t)
        BY <2>4, <3>2 DEF TaskStep, CopyRecord, FollowerComplete, CountCopy, AwaitCompletion,
           Device, WriteDone, PersistBlock, Goto, Await, LeaderInv, TypeOK
      <3> QED BY <3>1, <3>2
    <2> QED BY <2>1, <2>2, <2>3, <2>4
  <1> QED BY <1>1, StarvedStays

\* Nobody comes to own the group but by a claim.
LEMMA OwnerFrom ==
    ASSUME TypeOK, NEW t \in Tasks, TaskStep(t), NEW u \in Tasks, Owner(u)', pc'[u] \notin Mallocing
    PROVE  Owner(u)
  <1>1. CASE u # t
    BY <1>1, OthersSame DEF SameCounting, SameMember
  <1>2. CASE u = t /\ AsyncMalloc(t)
    <2>1. pc[t] \in Mallocing /\ leader'[t] = leader[t]
      BY <1>2 DEF AsyncMalloc, Malloc, BumpCount, RequestWriteSpace, AwaitMemory, RetryMalloc,
         Claim, LoadLen, GrowLen, Goto, Await, taskVars, Mallocing, TypeOK
    <2> QED BY <1>2, <2>1 DEF Owner, Owning
  <1>3. CASE u = t /\ (CopyRecord(t) \/ FollowerComplete(t) \/ Device(t))
    <2>1. pc[t] \in {"copy", "copied", "follow", "io"} /\ leader'[t] = leader[t]
          /\ (pc[t] = "follow" => pc'[t] \in {"awaiting", "acked"})
      BY <1>3 DEF CopyRecord, FollowerComplete, CountCopy, AwaitCompletion, Device, WriteDone,
         PersistBlock, Goto, Await, taskVars, TypeOK
    <2> QED BY <1>3, <2>1 DEF Owner, Owning, Leading, Mallocing
  <1>4. CASE u = t /\ LeaderComplete(t)
    <2>1. leader'[t] = leader[t]
      BY <1>4 DEF LeaderComplete, AwaitNotify, WriteHeader, AllCopied, MeasureGroup, SubmitGroup,
         PostCompletion, PostNotifyLeader, Reset, ResetCompletion, ClearCount, ClearLen,
         ClearBoth, ClearCompleted, FreeGroup, PostMemoryNotify, taskVars
    <2>2. pc[t] \in Owning \/ pc'[t] \in {"recount", "free", "memnotify", "acked"}
      BY <1>4 DEF LeaderComplete, AwaitNotify, WriteHeader, AllCopied, MeasureGroup, SubmitGroup,
         PostCompletion, PostNotifyLeader, Reset, ResetCompletion, ClearCount, ClearLen,
         ClearBoth, ClearCompleted, FreeGroup, PostMemoryNotify, Goto, PostAndGoto, Owning,
         Leading, TypeOK
    <2> QED BY <1>4, <2>1, <2>2 DEF Owner, Owning, Leading, Mallocing
  <1> QED BY <1>1, <1>2, <1>3, <1>4 DEF TaskStep

LEMMA EndsStep ==
    ASSUME LeaderInv, MallocAlone', GroupEnds, NEW t \in Tasks, TaskStep(t)
    PROVE  GroupEnds'
  <1> SUFFICES ASSUME NEW u \in Tasks, NEW v \in Tasks, Owner(v)',
                      pc'[u] \in {"clearLen", "recount", "free", "memnotify"}
               PROVE  FALSE
    BY DEF GroupEnds, NoOwner
  <1>1. Owner(v)
    <2>1. pc'[v] \notin Mallocing
      BY DEF MallocAlone, Closing, Clearing
    <2> QED BY <2>1, OwnerFrom DEF LeaderInv
  <1>2. pc[u] \notin {"clearLen", "recount", "free", "memnotify"}
    BY <1>1 DEF GroupEnds, NoOwner
  <1>3. u = t
    BY <1>2, StepAside DEF TaskStep, Aside, LeaderInv
  <1>4. pc[t] \in {"clear", "clearCount"}
    BY <1>2, <1>3 DEF TaskStep, AsyncMalloc, Malloc, Claim, BumpCount, RequestWriteSpace,
       AwaitMemory, RetryMalloc, LoadLen, GrowLen, CopyRecord, FollowerComplete, CountCopy,
       AwaitCompletion, Device, WriteDone, PersistBlock, LeaderComplete, AwaitNotify, WriteHeader,
       AllCopied, MeasureGroup, SubmitGroup, PostCompletion, PostNotifyLeader, Reset,
       ResetCompletion, ClearCount, ClearLen, ClearBoth, ClearCompleted, FreeGroup,
       PostMemoryNotify, Goto, PostAndGoto, Await, LeaderInv, TypeOK
  <1>5. Owner(t)
    BY <1>4 DEF LeaderInv, LeadersClaimed, Clearing, Owner, Owning
  <1>6. v = t
    BY <1>1, <1>5 DEF LeaderInv, OneLeader
  <1> QED BY <1>3, <1>6 DEF Owner, Owning, Mallocing, Leading

LEMMA PostedStep ==
    ASSUME TypeOK, PostedLate, NEW t \in Tasks, TaskStep(t)
    PROVE  PostedLate'
  <1> USE DEF TypeOK
  <1>1. CASE PostCompletion(t)
    BY <1>1 DEF PostCompletion, PostAndGoto, PostedLate
  <1>2. CASE ResetCompletion(t)
    BY <1>2 DEF ResetCompletion, PostedLate
  <1>3. CASE PostNotifyLeader(t)
    BY <1>3 DEF PostNotifyLeader, PostAndGoto, PostedLate
  <1>4. CASE ~PostCompletion(t) /\ ~ResetCompletion(t) /\ ~PostNotifyLeader(t)
    <2>1. completion' = completion /\ pc[t] \notin {"handoff", "reset"}
      BY <1>4 DEF TaskStep, AsyncMalloc, Malloc, Claim, BumpCount, RequestWriteSpace,
         AwaitMemory, RetryMalloc, LoadLen, GrowLen, CopyRecord, FollowerComplete, CountCopy,
         AwaitCompletion, Device, WriteDone, PersistBlock, LeaderComplete, AwaitNotify,
         WriteHeader, AllCopied, MeasureGroup, SubmitGroup, Reset, ClearCount, ClearLen,
         ClearBoth, ClearCompleted, FreeGroup, PostMemoryNotify, batons
    <2>2. \A u \in Tasks \ {t} : pc[u] \in {"handoff", "reset"} => pc'[u] = pc[u]
      BY StepAside DEF TaskStep, Aside
    <2> QED BY <2>1, <2>2 DEF PostedLate
  <1> QED BY <1>1, <1>2, <1>3, <1>4

LEMMA GroupStep ==
    ASSUME LeaderInv, RegionInv, MallocAlone', GroupInv, [Next]_vars
    PROVE  GroupInv'
  <1>1. CASE UNCHANGED vars
    <2>1. UNCHANGED <<pc, leader, size, addr, seen, count, len, completed, completion, head_>>
      BY <1>1 DEF vars, taskVars, groupVars, batons, ringVars
    <2>2. \A u \in Tasks : /\ Owner(u)' <=> Owner(u)
                           /\ (Placed(u)' <=> Placed(u))
                           /\ Starved(u)' <=> Starved(u)
      BY <2>1 DEF Owner, Placed, Starved
    <2>3. Uncounted' = Uncounted
      BY <2>1 DEF Uncounted
    <2>4. FullStarves' /\ GroupEnds' /\ PostedLate'
      BY <2>1, <2>2 DEF GroupInv, FullStarves, GroupEnds, PostedLate, NoOwner
    <2>5. Stuck => Stuck'
      BY <2>2 DEF Stuck
    <2>6. Counts => Counts'
      BY <2>1, <2>2, <2>3 DEF Counts, NoOwner
    <2>7. Lengths => Lengths'
      BY <2>1, <2>2 DEF Lengths, NoOwner
    <2> QED BY <2>4, <2>5, <2>6, <2>7 DEF GroupInv
  <1>2. ASSUME NEW t \in Tasks, TaskStep(t) PROVE GroupInv'
    <2>1. RegionInv' /\ TypeOK'
      BY RegionStep, TypeStep DEF LeaderInv
    <2>2. FullStarves' /\ GroupEnds' /\ PostedLate'
      BY <1>2, <2>1, FullStep, EndsStep, PostedStep DEF GroupInv, LeaderInv, RegionInv
    <2>3. CASE Stuck
      BY <1>2, <2>1, <2>2, <2>3, StarvedStays DEF GroupInv, Stuck
    <2>4. CASE ~Stuck
      <3>1. Counts /\ Lengths /\ GroupEnds
        BY <2>4 DEF GroupInv
      <3>2. pc[t] \notin {"full", "fullwait", "wake"} /\ ~Starved(t)
        BY <2>4 DEF GroupInv, FullStarves, Stuck
      <3>3. CASE Even(t)
        BY <2>2, <3>1, <3>3, EvenStep DEF GroupInv
      <3>4. ASSUME NEW s \in Sizes, Malloc(t, s) PROVE Counts' /\ Lengths'
        BY <3>1, <3>4, MallocGroup
      <3>5. CASE BumpCount(t)
        BY <2>2, <3>1, <3>5, BumpGroup DEF GroupInv
      <3>6. CASE RequestWriteSpace(t)
        BY <2>2, <3>1, <3>2, <3>6, ServedGroup DEF GroupInv
      <3>7. CASE GrowLen(t)
        BY <2>2, <3>1, <3>7, GrowGroup DEF GroupInv
      <3>8. CASE CountCopy(t)
        BY <2>2, <3>1, <3>8, CopyGroup DEF GroupInv
      <3>9. CASE AllCopied(t)
        BY <2>2, <3>1, <3>9, SpinGroup DEF GroupInv
      <3>10. CASE ClearCount(t) \/ ClearLen(t) \/ ClearBoth(t) \/ ClearCompleted(t)
        BY <2>1, <2>2, <3>1, <3>10, ClearGroup DEF GroupInv
      <3>11. ~AwaitMemory(t) /\ ~RetryMalloc(t)
        BY <3>2 DEF AwaitMemory, RetryMalloc
      <3> QED
        BY <1>2, <2>2, <3>3, <3>4, <3>5, <3>6, <3>7, <3>8, <3>9, <3>10, <3>11
        DEF GroupInv, TaskStep, Even, AsyncMalloc, FollowerComplete, LeaderComplete, Reset, Device
    <2> QED BY <2>3, <2>4
  <1> QED BY <1>1, <1>2 DEF Next, TaskStep

LEMMA GroupInit == Init => GroupInv
  <1> SUFFICES ASSUME Init PROVE GroupInv
    OBVIOUS
  <1>1. \A t \in Tasks : pc[t] = "idle" /\ ~Owner(t)
    BY DEF Init, Owner, Owning, Mallocing, Leading
  <1>2. FullStarves /\ GroupEnds /\ PostedLate
    BY <1>1 DEF Init, FullStarves, GroupEnds, PostedLate
  <1>3. Uncounted = {} /\ IsFiniteSet(Uncounted)
    <2>1. Uncounted = {}
      BY <1>1 DEF Uncounted
    <2> QED BY <2>1, FS_EmptySet
  <1>4. count = 0 /\ completed = 0 /\ len = 0 /\ head_ = 0
    BY DEF Init, ring!RingInit
  <1>5. Counts
    BY <1>1, <1>3, <1>4 DEF Counts
  <1>6. Lengths
    BY <1>1, <1>4 DEF Lengths
  <1> QED BY <1>2, <1>5, <1>6 DEF GroupInv

(***************************************************************************)
(* The disk.                                                               *)
(*                                                                         *)
(* Every write starts at the beginning of the file and takes all that is   *)
(* in the ring so far, so a record that is in the file stays there if the  *)
(* ring still holds it when the next group writes.  It does: the tail does *)
(* not move, the zeros behind a group fall on the cell at the head and the *)
(* header on its leader's own first cell.  A task is acknowledged only     *)
(* behind its leader's write, and no leader that has yet to write comes    *)
(* before it in the ring (Kept).                                           *)
(***************************************************************************)
Early == (Mallocing \cup Leading \cup {"copy", "copied"}) \ {"post", "handoff", "reset"}

\* The group of t has been written: t is not behind a leader that has yet to.
Kept(t) == \A u \in Tasks :
    Owner(u) /\ pc[u] \in Early /\ Placed(u) => addr[t] < addr[u]

\* The record is in the ring; a leader's header comes last.
Filled(t) == \A i \in 0..(size[t] - 1) :
    \/ i = 0 /\ leader[t] /\ pc[t] \in {"copied", "header"}
    \/ mem[addr[t] + i] = t

OnFile(t) == \A i \in 0..(size[t] - 1) : file[addr[t] + i] = t

Beyond(t) == Placed(t) /\ pc[t] \notin {"grow", "grown", "copy"}

AckedKept == \A t \in Tasks : pc[t] \in {"acked"} \cup Clearing => Kept(t)

RingFilled == \A t \in Tasks : Beyond(t) => Filled(t)

KeptOnFile == \A t \in Tasks : Placed(t) /\ Kept(t) => OnFile(t)

\* The write is of one block, and when it is done the file has all there is.
OneBlock == \A t \in Tasks : pc[t] = "io" => todo[t] \subseteq {0}

BlockWritten == \A t \in Tasks :
    pc[t] = "io" /\ todo[t] = {} => \A u \in Tasks : Placed(u) => OnFile(u)

DiskInv ==
    /\ AckedKept
    /\ InFirstBlock => RingFilled /\ KeptOnFile /\ OneBlock /\ BlockWritten

\* One leader is past the write, so there is none that has yet to write.
LEMMA LateOwner ==
    ASSUME LeaderInv, MallocAlone', NEW t \in Tasks, TaskStep(t),
           NEW w \in Tasks, pc[w] \in {"post", "handoff", "reset"}
    PROVE  \A u \in Tasks : Kept(u)'
  <1>1. Owner(w)
    BY DEF LeaderInv, LeadersClaimed, Leading, Owner, Owning
  <1>2. pc'[w] \in {"post", "handoff", "reset", "clear"}
    <2>1. CASE w # t
      BY <2>1, StepAside DEF TaskStep, Aside, LeaderInv
    <2>2. CASE w = t /\ LeaderComplete(t)
      BY <2>2 DEF LeaderComplete, AwaitNotify, WriteHeader, AllCopied, MeasureGroup, SubmitGroup,
         PostCompletion, PostNotifyLeader, Reset, ResetCompletion, ClearCount, ClearLen,
         ClearBoth, ClearCompleted, FreeGroup, PostMemoryNotify, Goto, PostAndGoto, LeaderInv, TypeOK
    <2>3. CASE w = t /\ ~LeaderComplete(t)
      BY <2>3 DEF TaskStep, AsyncMalloc, Malloc, BumpCount, RequestWriteSpace, AwaitMemory,
         RetryMalloc, LoadLen, GrowLen, CopyRecord, FollowerComplete, CountCopy, AwaitCompletion,
         Device, WriteDone, PersistBlock
    <2> QED BY <2>1, <2>2, <2>3
  <1>3. pc'[w] \notin Early
    BY <1>2 DEF Early, Mallocing, Leading
  <1>4. \A v \in Tasks : pc'[v] \notin Mallocing
    BY <1>2 DEF MallocAlone, Closing, Clearing
  <1>5. \A v \in Tasks : Owner(v)' => v = w
    BY <1>1, <1>4, OwnerFrom DEF LeaderInv, OneLeader
  <1> QED BY <1>3, <1>5 DEF Kept

LEMMA AckedFrom ==
    ASSUME LeaderInv, NEW t \in Tasks, TaskStep(t),
           NEW u \in Tasks, pc'[u] \in {"acked"} \cup Clearing
    PROVE  \/ pc[u] \in {"acked"} \cup Clearing
           \/ pc[t] \in {"post", "reset"}
           \/ completion
  <1> USE DEF Clearing
  <1>1. CASE PostCompletion(t)
    BY <1>1 DEF PostCompletion
  <1>2. CASE LeaderComplete(t) /\ ~PostCompletion(t)
    BY <1>2 DEF LeaderComplete, AwaitNotify, WriteHeader, AllCopied, MeasureGroup, SubmitGroup,
       PostNotifyLeader, Reset, ResetCompletion, ClearCount, ClearLen, ClearBoth, ClearCompleted,
       FreeGroup, PostMemoryNotify, Goto, PostAndGoto, Await, LeaderInv, TypeOK
  <1>3. CASE ~LeaderComplete(t)
    BY <1>3 DEF TaskStep, AsyncMalloc, Malloc, Claim, BumpCount, RequestWriteSpace, AwaitMemory,
       RetryMalloc, LoadLen, GrowLen, CopyRecord, FollowerComplete, CountCopy, AwaitCompletion,
       Device, WriteDone, PersistBlock, Goto, Await, LeaderInv, TypeOK
  <1> QED BY <1>1, <1>2, <1>3

\* A task that gets its region late gets it behind everybody else's.
LEMMA EarlyFrom ==
    ASSUME LeaderInv, NEW t \in Tasks, TaskStep(t),
           NEW v \in Tasks, Owner(v)', pc'[v] \in Early, Placed(v)'
    PROVE  \/ Owner(v) /\ pc[v] \in Early /\ Placed(v)
           \/ v = t /\ RequestWriteSpace(t) /\ pc'[t] = "grow"
  <1>1. CASE v # t
    BY <1>1, StepAside DEF TaskStep, Aside, LeaderInv, Owner, Owning, Early, Placed, Unplaced,
       Mallocing, Leading
  <1>2. CASE v = t /\ LeaderComplete(t)
    <2>1. pc[t] \in {"copied", "header", "spin", "measure", "zero"} /\ leader'[t] = leader[t]
      BY <1>2 DEF LeaderComplete, AwaitNotify, WriteHeader, AllCopied, MeasureGroup, SubmitGroup,
         PostCompletion, PostNotifyLeader, Reset, ResetCompletion, ClearCount, ClearLen, ClearBoth,
         ClearCompleted, FreeGroup, PostMemoryNotify, Goto, PostAndGoto, Await, LeaderInv, TypeOK,
         Early, Mallocing, Leading, taskVars
    <2> QED BY <1>2, <2>1 DEF Owner, Owning, Early, Placed, Unplaced, Leading
  <1>3. CASE v = t /\ ~LeaderComplete(t) /\ ~RequestWriteSpace(t)
    <2>1. pc[t] \in {"grow", "grown", "copy", "io"} /\ leader'[t] = leader[t]
      BY <1>3 DEF TaskStep, AsyncMalloc, Malloc, Claim, BumpCount, AwaitMemory, RetryMalloc,
         LoadLen, GrowLen, CopyRecord, FollowerComplete, CountCopy, AwaitCompletion, Device,
         WriteDone, PersistBlock, Goto, Await, LeaderInv, TypeOK, Early, Mallocing, Leading,
         Placed, Unplaced, taskVars
    <2> QED BY <1>3, <2>1 DEF Owner, Owning, Early, Placed, Unplaced, Leading, Mallocing
  <1>4. CASE v = t /\ RequestWriteSpace(t)
    <2>1. pc'[t] \in {"grow", "full"}
      BY <1>4 DEF RequestWriteSpace, Goto, LeaderInv, TypeOK
    <2> QED BY <1>4, <2>1 DEF Placed, Unplaced
  <1> QED BY <1>1, <1>2, <1>3, <1>4

LEMMA KeptStays ==
    ASSUME LeaderInv, RegionInv, NEW t \in Tasks, TaskStep(t),
           NEW u \in Tasks, Placed(u), Kept(u)
    PROVE  Kept(u)'
  <1> SUFFICES ASSUME NEW v \in Tasks, Owner(v)', pc'[v] \in Early, Placed(v)'
               PROVE  addr'[u] < addr'[v]
    BY DEF Kept
  <1>1. addr'[u] = addr[u]
    BY NothingShrinks DEF LeaderInv
  <1>2. CASE Owner(v) /\ pc[v] \in Early /\ Placed(v)
    <2>1. addr'[v] = addr[v]
      BY <1>2, NothingShrinks DEF LeaderInv
    <2> QED BY <1>1, <1>2, <2>1 DEF Kept
  <1>3. CASE v = t /\ RequestWriteSpace(t) /\ pc'[t] = "grow"
    <2>1. ~Starved(t)
      BY <1>3, NotServed DEF LeaderInv, TypeOK
    <2>2. addr'[t] = head_
      BY <1>3, <2>1, Served DEF LeaderInv, TypeOK
    <2>3. End(u) <= head_ /\ size[u] \in 1..kBufferSize
      BY DEF RegionInv, HandedOut, Sized, Placed
    <2>4. addr[u] \in Nat /\ head_ \in Nat
      BY DEF LeaderInv, TypeOK, Cells, ring!RingTypeOK
    <2>5. addr[u] < head_
      BY <2>3, <2>4, RingNumbers DEF End
    <2> QED BY <1>1, <1>3, <2>2, <2>5
  <1> QED BY <1>2, <1>3, EarlyFrom

LEMMA AckedStep ==
    ASSUME LeaderInv, RegionInv, MallocAlone', PostedLate, AckedKept, NEW t \in Tasks, TaskStep(t)
    PROVE  AckedKept'
  <1> SUFFICES ASSUME NEW u \in Tasks, pc'[u] \in {"acked"} \cup Clearing PROVE Kept(u)'
    BY DEF AckedKept
  <1>1. CASE pc[u] \in {"acked"} \cup Clearing
    <2>1. Placed(u) /\ Kept(u)
      BY <1>1 DEF AckedKept, Placed, Unplaced, Clearing
    <2> QED BY <2>1, KeptStays
  <1>2. CASE pc[t] \in {"post", "reset"}
    BY <1>2, LateOwner
  <1>3. CASE completion
    BY <1>3, LateOwner DEF PostedLate
  <1> QED BY <1>1, <1>2, <1>3, AckedFrom

(***************************************************************************)
(* What the ring holds, as long as the log is in its first block.          *)
(***************************************************************************)
LEMMA StillBelow ==
    ASSUME NEW a \in Nat, NEW b \in Nat, NEW c \in Nat, b >= a, b + 1 <= c
    PROVE  a + 1 <= c
  OBVIOUS

LEMMA FirstBlockWas ==
    ASSUME TypeOK, TypeOK', RegionInv, NEW t \in Tasks, TaskStep(t), InFirstBlock'
    PROVE  InFirstBlock
  <1>1. base' = base
    BY DEF TaskStep, AsyncMalloc, Malloc, BumpCount, RequestWriteSpace, AwaitMemory, RetryMalloc,
       LoadLen, GrowLen, CopyRecord, FollowerComplete, CountCopy, AwaitCompletion, Device,
       WriteDone, PersistBlock, LeaderComplete, AwaitNotify, WriteHeader, AllCopied, MeasureGroup,
       SubmitGroup, PostCompletion, PostNotifyLeader, Reset, ResetCompletion, ClearCount,
       ClearLen, ClearBoth, ClearCompleted, FreeGroup, PostMemoryNotify
  <1>2. head_' >= head_
    BY NothingShrinks
  <1>3. head_ \in Nat /\ head_' \in Nat /\ kBlockSize \in Nat
    BY RingNumbers DEF TypeOK, ring!RingTypeOK
  <1>4. base' = 0 /\ head_' + 1 <= kBlockSize
    BY DEF InFirstBlock
  <1>5. head_ + 1 <= kBlockSize
    BY <1>2, <1>3, <1>4, StillBelow
  <1> QED BY <1>1, <1>4, <1>5 DEF InFirstBlock

LEMMA BeyondFrom ==
    ASSUME LeaderInv, LeaderInv', NEW t \in Tasks, TaskStep(t), NEW u \in Tasks, Beyond(u)',
           u # t \/ (~CopyRecord(t) /\ ~WriteHeader(t))
    PROVE  /\ Beyond(u)
           /\ leader[u] /\ pc[u] \in {"copied", "header"} =>
                 leader'[u] /\ pc'[u] \in {"copied", "header"}
  <1>1. CASE u # t
    BY <1>1, StepAside DEF TaskStep, Aside, LeaderInv, Beyond, Placed, Unplaced
  <1>2. CASE u = t /\ LeaderComplete(t)
    <2>1. pc'[t] # "notifywait"
      BY DEF LeaderInv, NotifyToken
    <2>2. /\ pc[t] \in {"copied"} \cup Leading \cup Clearing
          /\ pc[t] = "copied" => pc'[t] = "header"
          /\ pc[t] # "header" /\ leader'[t] = leader[t]
      BY <1>2, <2>1 DEF LeaderComplete, AwaitNotify, AllCopied, MeasureGroup, SubmitGroup,
         PostCompletion, PostNotifyLeader, Reset, ResetCompletion, ClearCount, ClearLen,
         ClearBoth, ClearCompleted, FreeGroup, PostMemoryNotify, Await, Goto, LeaderInv, TypeOK,
         taskVars, Leading, Clearing
    <2> QED BY <1>2, <2>2 DEF Beyond, Placed, Unplaced, Leading, Clearing
  <1>3. CASE u = t /\ ~LeaderComplete(t)
    <2>1. \/ pc[t] = "copied" /\ ~leader[t]
          \/ pc[t] \in {"follow", "io"}
      BY <1>3 DEF TaskStep, AsyncMalloc, Malloc, Claim, BumpCount, RequestWriteSpace, AwaitMemory,
         RetryMalloc, LoadLen, GrowLen, FollowerComplete, CountCopy, AwaitCompletion, Device,
         WriteDone, PersistBlock, Goto, Await, LeaderInv, TypeOK, Beyond, Placed, Unplaced
    <2> QED BY <1>3, <2>1 DEF Beyond, Placed, Unplaced
  <1> QED BY <1>1, <1>2, <1>3

\* The cells of another region are not touched by a store into one's own.
LEMMA OwnStore ==
    ASSUME LeaderInv, RegionInv, NEW t \in Tasks, Placed(t), NEW cells, NEW value, Store(cells, value),
           \A c \in cells : \E j \in 0..(size[t] - 1) : c = addr[t] + j,
           NEW u \in Tasks, u # t, Placed(u), NEW i \in 0..(size[u] - 1)
    PROVE  mem'[addr[u] + i] = mem[addr[u] + i]
  <1>1. addr[u] + i \in Cells
    BY CellsAre, RingNumbers DEF LeaderInv, Cells
  <1>2. addr[u] + i \notin cells
    <2> SUFFICES ASSUME addr[u] + i \in cells PROVE FALSE
      OBVIOUS
    <2>1. PICK j \in 0..(size[t] - 1) : addr[u] + i = addr[t] + j
      OBVIOUS
    <2> QED BY <2>1, CellsApart DEF LeaderInv
  <1> QED BY <1>1, <1>2 DEF Store

LEMMA SpanOne == ASSUME NEW a \in Nat PROVE Span(a, 1) = {a % kBufferSize}
  <1>1. 0..(1 - 1) = {0} /\ a + 0 = a
    OBVIOUS
  <1> QED BY <1>1 DEF Span

\* The cells of a part of one's own region.
LEMMA SpanIs ==
    ASSUME LeaderInv, RegionInv, NEW t \in Tasks, Placed(t), NEW b \in Nat, NEW n \in Nat,
           b + n <= size[t]
    PROVE  Span(addr[t] + b, n) = {addr[t] + j : j \in b..(b + n - 1)}
  <1>1. addr[t] \in Nat /\ size[t] \in Nat
    BY DEF LeaderInv, TypeOK, Cells
  <1>2. ASSUME NEW i \in 0..(n - 1)
        PROVE  /\ b + i \in b..(b + n - 1)
               /\ ((addr[t] + b) + i) % kBufferSize = addr[t] + (b + i)
    <2>1. b + i \in 0..(size[t] - 1)
      BY <1>1, <1>2
    <2>2. (addr[t] + b) + i = addr[t] + (b + i)
      BY <1>1, <1>2
    <2>3. (addr[t] + (b + i)) % kBufferSize = addr[t] + (b + i)
      BY <2>1, CellsAre DEF LeaderInv
    <2>4. b + i \in b..(b + n - 1)
      BY <1>2
    <2> QED BY <2>2, <2>3, <2>4
  <1>3. ASSUME NEW j \in b..(b + n - 1)
        PROVE  \E i \in 0..(n - 1) : j = b + i
    <2>1. j - b \in 0..(n - 1) /\ j = b + (j - b)
      BY <1>3
    <2> QED BY <2>1
  <1> HIDE DEF LeaderInv
  <1>4. Span(addr[t] + b, n) \subseteq {addr[t] + j : j \in b..(b + n - 1)}
    BY <1>2 DEF Span
  <1>5. {addr[t] + j : j \in b..(b + n - 1)} \subseteq Span(addr[t] + b, n)
    <2> SUFFICES ASSUME NEW j \in b..(b + n - 1) PROVE addr[t] + j \in Span(addr[t] + b, n)
      OBVIOUS
    <2>1. PICK i \in 0..(n - 1) : j = b + i
      BY <1>3
    <2>2. ((addr[t] + b) + i) % kBufferSize = addr[t] + j
      BY <1>2, <2>1
    <2> QED BY <2>2 DEF Span
  <1> QED BY <1>4, <1>5

\* A record that is in the ring stays there while others store theirs.
LEMMA FilledStays ==
    ASSUME LeaderInv, LeaderInv', RegionInv, RingFilled, NEW t \in Tasks, TaskStep(t),
           NEW u \in Tasks, Beyond(u)', u # t \/ (~CopyRecord(t) /\ ~WriteHeader(t)),
           Placed(u) => \A i \in 0..(size[u] - 1) : mem'[addr[u] + i] = mem[addr[u] + i]
    PROVE  Filled(u)'
  <1>1. /\ Beyond(u)
        /\ leader[u] /\ pc[u] \in {"copied", "header"} =>
              leader'[u] /\ pc'[u] \in {"copied", "header"}
    BY BeyondFrom
  <1>2. Placed(u) /\ Filled(u)
    BY <1>1 DEF RingFilled, Beyond
  <1>3. size'[u] = size[u] /\ addr'[u] = addr[u]
    BY <1>2, NothingShrinks DEF LeaderInv, Placed
  <1> QED BY <1>1, <1>2, <1>3 DEF Filled

LEMMA CopyFills ==
    ASSUME LeaderInv, LeaderInv', RegionInv, RingFilled, NEW t \in Tasks, CopyRecord(t)
    PROVE  RingFilled'
  <1>1. TaskStep(t)
    BY DEF TaskStep
  <1>2. /\ pc[t] = "copy" /\ pc'[t] = "copied" /\ Placed(t)
        /\ UNCHANGED <<addr, size, leader>>
    BY DEF CopyRecord, Goto, taskVars, Placed, Unplaced, LeaderInv, TypeOK
  <1>3. addr[t] \in Nat /\ size[t] \in 1..kBufferSize /\ size[t] \in Nat
    BY <1>2 DEF LeaderInv, TypeOK, Cells, RegionInv, Sized
  <1>4. PICK b \in {0, 1} : /\ b = 1 => leader[t]
                            /\ Store(Span(addr[t] + b, size[t] - b), t)
    <2>1. CASE leader[t]
      BY <2>1 DEF CopyRecord
    <2>2. CASE ~leader[t]
      <3>1. addr[t] + 0 = addr[t] /\ size[t] - 0 = size[t]
        BY <1>3
      <3> QED BY <2>2, <3>1 DEF CopyRecord
    <2> QED BY <2>1, <2>2
  <1>5. Span(addr[t] + b, size[t] - b) = {addr[t] + j : j \in b..(size[t] - 1)}
    <2>1. /\ b \in Nat /\ size[t] - b \in Nat /\ b + (size[t] - b) <= size[t]
          /\ b + (size[t] - b) - 1 = size[t] - 1
      BY <1>3
    <2>2. Span(addr[t] + b, size[t] - b) = {addr[t] + j : j \in b..(b + (size[t] - b) - 1)}
      BY <1>2, <2>1, SpanIs
    <2> QED BY <2>1, <2>2
  <1>6. \A c \in Span(addr[t] + b, size[t] - b) : \E j \in 0..(size[t] - 1) : c = addr[t] + j
    <2>1. \A j \in b..(size[t] - 1) : j \in 0..(size[t] - 1)
      BY <1>3
    <2> QED BY <1>5, <2>1
  <1>7. ASSUME NEW i \in 0..(size[t] - 1)
        PROVE  (i = 0 /\ leader[t]) \/ mem'[addr[t] + i] = t
    <2>1. CASE i \in b..(size[t] - 1)
      <3>1. addr[t] + i \in Cells
        BY <1>2, CellsAre, RingNumbers DEF LeaderInv, Cells
      <3> QED BY <1>4, <1>5, <2>1, <3>1 DEF Store
    <2>2. CASE i \notin b..(size[t] - 1)
      <3>1. b = 1 /\ i = 0
        BY <1>3, <2>2
      <3> QED BY <1>4, <3>1
    <2> QED BY <2>1, <2>2
  <1>8. Filled(t)'
    BY <1>2, <1>7 DEF Filled
  <1>9. ASSUME NEW u \in Tasks, u # t, Beyond(u)' PROVE Filled(u)'
    <2>1. Placed(u) => \A i \in 0..(size[u] - 1) : mem'[addr[u] + i] = mem[addr[u] + i]
      BY <1>2, <1>4, <1>6, <1>9, OwnStore
    <2> QED BY <1>1, <1>9, <2>1, FilledStays
  <1> QED BY <1>8, <1>9 DEF RingFilled

LEMMA HeaderFills ==
    ASSUME LeaderInv, LeaderInv', RegionInv, RingFilled, NEW t \in Tasks, WriteHeader(t)
    PROVE  RingFilled'
  <1>1. TaskStep(t)
    BY DEF TaskStep, LeaderComplete
  <1>2. /\ pc[t] = "header" /\ Placed(t) /\ Beyond(t)
        /\ UNCHANGED <<addr, size, leader>> /\ Store(Span(addr[t], 1), t)
    BY DEF WriteHeader, taskVars, Placed, Unplaced, Beyond
  <1>3. addr[t] \in Nat /\ size[t] \in 1..kBufferSize /\ size[t] \in Nat
    BY <1>2 DEF LeaderInv, TypeOK, Cells, RegionInv, Sized
  <1>4. Span(addr[t], 1) = {addr[t] + 0}
    <2>1. addr[t] + 0 = addr[t] /\ 0 \in 0..(size[t] - 1)
      BY <1>3
    <2>2. (addr[t] + 0) % kBufferSize = addr[t] + 0
      BY <1>2, <2>1, CellsAre DEF LeaderInv
    <2>3. Span(addr[t] + 0, 1) = {(addr[t] + 0) % kBufferSize}
      BY <1>3, <2>1, SpanOne
    <2> QED BY <2>1, <2>2, <2>3
  <1>5. \A c \in Span(addr[t], 1) : \E j \in 0..(size[t] - 1) : c = addr[t] + j
    <2>1. 0 \in 0..(size[t] - 1)
      BY <1>3
    <2> QED BY <1>4, <2>1
  <1>6. ASSUME NEW i \in 0..(size[t] - 1) PROVE mem'[addr[t] + i] = t
    <2>1. addr[t] + i \in Cells
      BY <1>2, CellsAre, RingNumbers DEF LeaderInv, Cells
    <2>2. i = 0 \/ mem[addr[t] + i] = t
      BY <1>2 DEF RingFilled, Filled
    <2>3. i = 0 => addr[t] + i \in Span(addr[t], 1)
      BY <1>4
    <2> QED BY <1>2, <2>1, <2>2, <2>3 DEF Store
  <1>7. Filled(t)'
    BY <1>2, <1>6 DEF Filled
  <1>8. ASSUME NEW u \in Tasks, u # t, Beyond(u)' PROVE Filled(u)'
    <2>1. Placed(u) => \A i \in 0..(size[u] - 1) : mem'[addr[u] + i] = mem[addr[u] + i]
      BY <1>2, <1>5, <1>8, OwnStore
    <2> QED BY <1>1, <1>8, <2>1, FilledStays
  <1> QED BY <1>7, <1>8 DEF RingFilled

\* Nobody starves while somebody closes the group.
LEMMA LeaderNotStuck ==
    ASSUME RegionInv, GroupInv, NEW t \in Tasks, pc[t] \in Closing
    PROVE  Counts /\ Lengths /\ \A u \in Tasks : pc[u] \notin Mallocing
  <1>1. \A u \in Tasks : pc[u] \notin Mallocing
    BY DEF RegionInv, MallocAlone
  <1>2. ~Stuck
    BY <1>1 DEF Stuck, Starved, Unplaced, Mallocing
  <1> QED BY <1>1, <1>2 DEF GroupInv

\* The zeros behind the group go to the cell at the head, which is nobody's.
LEMMA GroupLength ==
    ASSUME LeaderInv, RegionInv, GroupInv, NEW t \in Tasks, pc[t] = "zero"
    PROVE  seen[t] = len /\ addr[t] + len = head_ /\ len = head_ - addr[t] /\ len >= 1
  <1>1. pc[t] \in Leading /\ pc[t] \in Closing
    BY DEF Leading, Closing
  <1>2. Lengths /\ \A u \in Tasks : pc[u] \notin {"grow", "grown"}
    BY <1>1, LeaderNotStuck DEF Mallocing
  <1>3. Owner(t) /\ Placed(t)
    BY <1>1 DEF LeaderInv, LeadersClaimed, Owner, Owning, Placed, Unplaced
  <1>4. seen[t] = len /\ len = head_ - addr[t]
    BY <1>2, <1>3 DEF Lengths
  <1>5. /\ addr[t] \in Nat /\ head_ \in Nat /\ size[t] \in Nat /\ size[t] >= 1
        /\ addr[t] + size[t] <= head_
    BY <1>3, RingNumbers
    DEF LeaderInv, TypeOK, Cells, ring!RingTypeOK, RegionInv, Sized, HandedOut, End, Placed
  <1> QED BY <1>4, <1>5

LEMMA ZeroFills ==
    ASSUME LeaderInv, LeaderInv', RegionInv, GroupInv, InFirstBlock, RingFilled,
           NEW t \in Tasks, SubmitGroup(t)
    PROVE  RingFilled'
  <1>1. TaskStep(t) /\ ~CopyRecord(t) /\ ~WriteHeader(t)
    BY DEF TaskStep, LeaderComplete, SubmitGroup, CopyRecord, WriteHeader
  <1>2. PICK n \in {seen[t], len} : Store(Span(addr[t] + n, 1), Zero)
    BY DEF SubmitGroup
  <1>3. addr[t] + n = head_
    BY GroupLength DEF SubmitGroup
  <1>4. Span(addr[t] + n, 1) \subseteq {head_}
    <2>1. head_ \in 0..(kBufferSize - 1)
      BY RingNumbers DEF InFirstBlock, LeaderInv, TypeOK, ring!RingTypeOK
    <2>2. head_ % kBufferSize = head_
      BY <2>1, RingNumbers, Small
    <2>3. Span(head_, 1) = {head_ % kBufferSize}
      BY <2>1, SpanOne
    <2> QED BY <1>3, <2>2, <2>3
  <1>5. ASSUME NEW u \in Tasks, Placed(u), NEW i \in 0..(size[u] - 1)
        PROVE  mem'[addr[u] + i] = mem[addr[u] + i]
    <2>1. addr[u] + i \in Nat /\ addr[u] + i < head_ /\ addr[u] + i < kBufferSize
      BY <1>5, CellsAre DEF LeaderInv
    <2>2. head_ \in Nat
      BY DEF LeaderInv, TypeOK, ring!RingTypeOK
    <2>3. addr[u] + i \in Cells
      BY <2>1, RingNumbers DEF Cells
    <2>4. addr[u] + i # head_
      BY <2>1, <2>2
    <2> QED BY <1>2, <1>4, <2>3, <2>4 DEF Store
  <1> QED BY <1>1, <1>5, FilledStays DEF RingFilled

LEMMA FilledStep ==
    ASSUME LeaderInv, LeaderInv', RegionInv, GroupInv, InFirstBlock, RingFilled,
           NEW t \in Tasks, TaskStep(t)
    PROVE  RingFilled'
  <1>1. CASE ~CopyRecord(t) /\ ~WriteHeader(t) /\ ~SubmitGroup(t)
    <2>1. mem' = mem
      BY <1>1 DEF TaskStep, AsyncMalloc, Malloc, BumpCount, RequestWriteSpace, AwaitMemory,
         RetryMalloc, LoadLen, GrowLen, FollowerComplete, CountCopy, AwaitCompletion, Device,
         WriteDone, PersistBlock, LeaderComplete, AwaitNotify, AllCopied, MeasureGroup,
         PostCompletion, PostNotifyLeader, Reset, ResetCompletion, ClearCount, ClearLen,
         ClearBoth, ClearCompleted, FreeGroup, PostMemoryNotify, ringVars
    <2> QED BY <1>1, <2>1, FilledStays DEF RingFilled
  <1> QED BY <1>1, CopyFills, HeaderFills, ZeroFills

(***************************************************************************)
(* What the file holds.                                                    *)
(***************************************************************************)
\* A leader that has submitted has everybody's record in the ring.
LEMMA AllFilled ==
    ASSUME LeaderInv, RegionInv, GroupInv, RingFilled, NEW t \in Tasks, pc[t] = "io",
           NEW u \in Tasks, Placed(u), NEW i \in 0..(size[u] - 1)
    PROVE  mem[addr[u] + i] = u
  <1>1. Owner(t)
    BY DEF LeaderInv, LeadersClaimed, Leading, Owner, Owning
  <1>2. Uncounted = {}
    <2>1. pc[t] \in Closing /\ pc[t] \in Copied
      BY DEF Closing, Copied
    <2> QED BY <1>1, <2>1, LeaderNotStuck DEF Counts
  <1>3. leader[u] => pc[u] \notin {"grow", "grown", "copy", "copied", "header"}
    <2> SUFFICES ASSUME leader[u], pc[u] \in {"grow", "grown", "copy", "copied", "header"} PROVE FALSE
      OBVIOUS
    <2>1. Owner(u)
      BY DEF Owner, Owning, Mallocing, Leading
    <2> QED BY <1>1, <2>1 DEF LeaderInv, OneLeader
  <1>4. pc[u] \notin {"grow", "grown", "copy"}
    BY <1>2, <1>3 DEF Uncounted
  <1>5. Filled(u)
    BY <1>4 DEF RingFilled, Beyond
  <1> QED BY <1>3, <1>5 DEF Filled

LEMMA FirstBlock == ASSUME NEW c \in 0..(kBlockSize - 1) PROVE c \div kBlockSize = 0
  BY RingNumbers

LEMMA BlockStartIs ==
    ASSUME LeaderInv, RegionInv, InFirstBlock, NEW t \in Tasks, Placed(t)
    PROVE  BlockStart(t) = 0
  <1>1. base = 0 /\ addr[t] \in Nat /\ addr[t] < kBlockSize /\ base + addr[t] = addr[t]
    <2>1. addr[t] \in Nat /\ head_ \in Nat /\ size[t] \in Nat /\ kBlockSize \in Nat
      BY RingNumbers DEF LeaderInv, TypeOK, Cells, ring!RingTypeOK
    <2>2. addr[t] + size[t] <= head_ /\ head_ + 1 <= kBlockSize /\ base = 0
      BY DEF RegionInv, HandedOut, End, InFirstBlock
    <2> QED BY <2>1, <2>2
  <1>2. addr[t] \in 0..(kBlockSize - 1) /\ kBlockSize \in Nat \ {0}
    BY <1>1, RingNumbers
  <1>3. addr[t] % kBlockSize = addr[t]
    BY <1>2, Small
  <1>4. BlockStart(t) = addr[t] - addr[t]
    BY <1>1, <1>3 DEF BlockStart
  <1> QED BY <1>1, <1>4

\* The device puts the first block of the ring into the file.
LEMMA PersistWrites ==
    ASSUME LeaderInv, RegionInv, GroupInv, InFirstBlock, RingFilled, OneBlock,
           NEW t \in Tasks, NEW k \in todo[t], PersistBlock(t, k)
    PROVE  \A u \in Tasks : Placed(u)' => OnFile(u)'
  <1>1. /\ pc[t] = "io" /\ UNCHANGED <<pc, addr, size>>
        /\ file' = [c \in DOMAIN file |->
                      IF c \div kBlockSize = k THEN mem[(BlockStart(t) + c) % kBufferSize] ELSE file[c]]
    BY DEF PersistBlock, taskVars
  <1>2. k = 0 /\ BlockStart(t) = 0
    <2>1. Placed(t)
      BY <1>1 DEF Placed, Unplaced
    <2> QED BY <1>1, <2>1, BlockStartIs DEF OneBlock
  <1> SUFFICES ASSUME NEW u \in Tasks, Placed(u), NEW i \in 0..(size[u] - 1)
               PROVE  file'[addr[u] + i] = u
    BY <1>1 DEF Placed, OnFile
  <1>3. DEFINE c == addr[u] + i
  <1>4. c \in Nat /\ c < head_ /\ c % kBufferSize = c
    BY CellsAre DEF LeaderInv
  <1> HIDE DEF c
  <1>5. c \in 0..(kBlockSize - 1) /\ c \in 0..(kLogFileSize - 1) /\ 0 + c = c
    <2>1. head_ \in Nat
      BY DEF LeaderInv, TypeOK, ring!RingTypeOK
    <2>2. head_ + 1 <= kBlockSize /\ kBlockSize <= kLogFileSize
      BY RingNumbers DEF InFirstBlock
    <2>3. c \in Nat /\ c < head_
      BY <1>4
    <2> QED BY <2>1, <2>2, <2>3, RingNumbers
  <1>6. c \div kBlockSize = 0
    BY <1>5, FirstBlock
  <1>7. c \in DOMAIN file
    BY <1>5 DEF LeaderInv, TypeOK
  <1>8. (BlockStart(t) + c) % kBufferSize = c
    BY <1>2, <1>4, <1>5
  <1>9. file'[c] = mem[c]
    BY <1>1, <1>2, <1>6, <1>7, <1>8
  <1>10. mem[c] = u
    BY <1>1, AllFilled DEF c
  <1> QED BY <1>9, <1>10 DEF c

\* A task that comes after a step to be behind no write was so before, except
\* that the write itself has ended.
LEMMA KeptWas ==
    ASSUME LeaderInv, RegionInv, NEW t \in Tasks, TaskStep(t), ~WriteDone(t),
           NEW u \in Tasks, Placed(u), Kept(u)'
    PROVE  Kept(u)
  <1> SUFFICES ASSUME NEW v \in Tasks, Owner(v), pc[v] \in Early, Placed(v)
               PROVE  addr[u] < addr[v]
    BY DEF Kept
  <1>1. addr'[u] = addr[u] /\ addr'[v] = addr[v]
    BY NothingShrinks DEF LeaderInv
  <1>2. CASE v # t
    <2>1. Owner(v)' /\ pc'[v] \in Early /\ Placed(v)'
      BY <1>2, StepAside DEF TaskStep, Aside, LeaderInv, Owner, Owning, Early, Placed, Unplaced,
         Mallocing, Leading
    <2> QED BY <1>1, <2>1 DEF Kept
  <1>3. CASE v = t
    <2>1. /\ leader[t]
          /\ pc[t] \in {"grow", "grown", "copy", "copied", "notifywait", "header", "spin", "measure",
                        "zero", "io"}
      BY <1>3 DEF Owner, Early, Placed, Unplaced, Mallocing, Leading
    <2>2. leader'[t] = leader[t]
          /\ pc'[t] \in {"grown", "copy", "copied", "notifywait", "header", "spin", "measure", "zero", "io"}
      <3>1. CASE LeaderComplete(t)
        BY <2>1, <3>1 DEF LeaderComplete, AwaitNotify, WriteHeader, AllCopied, MeasureGroup,
           SubmitGroup, PostCompletion, PostNotifyLeader, Reset, ResetCompletion, ClearCount,
           ClearLen, ClearBoth, ClearCompleted, FreeGroup, PostMemoryNotify, Goto, Await,
           LeaderInv, TypeOK, taskVars
      <3>2. CASE ~LeaderComplete(t)
        BY <2>1, <3>2 DEF TaskStep, AsyncMalloc, Malloc, BumpCount, RequestWriteSpace,
           AwaitMemory, RetryMalloc, LoadLen, GrowLen, CopyRecord, FollowerComplete, CountCopy,
           AwaitCompletion, Device, PersistBlock, Goto, LeaderInv, TypeOK, taskVars
      <3> QED BY <3>1, <3>2
    <2>3. Owner(t)' /\ pc'[t] \in Early /\ Placed(t)'
      BY <2>1, <2>2 DEF Owner, Owning, Early, Placed, Unplaced, Mallocing, Leading
    <2> QED BY <1>1, <1>3, <2>3 DEF Kept
  <1> QED BY <1>2, <1>3

\* A task that is given its region is behind its group's write.
LEMMA ServedNotKept ==
    ASSUME LeaderInv, RegionInv, GroupInv, NEW t \in Tasks, RequestWriteSpace(t), ~Starved(t)
    PROVE  ~Kept(t)'
  <1>1. /\ pc[t] = "request" /\ pc' = [pc EXCEPT ![t] = "grow"] /\ leader' = leader
        /\ addr' = [addr EXCEPT ![t] = head_]
    BY Served DEF LeaderInv
  <1>2. head_ \in Nat /\ addr'[t] = head_ /\ pc'[t] = "grow"
    BY <1>1 DEF LeaderInv, TypeOK, ring!RingTypeOK
  <1>3. CASE leader[t]
    <2>1. Owner(t)' /\ pc'[t] \in Early /\ Placed(t)'
      BY <1>1, <1>2, <1>3 DEF Owner, Owning, Early, Placed, Unplaced, Mallocing
    <2> QED BY <1>2, <2>1 DEF Kept
  <1>4. CASE ~leader[t]
    <2>1. \A v \in Tasks \ {t} : pc[v] \notin Mallocing /\ pc[v] \notin Closing
      BY <1>1, LockAlone DEF RegionInv, MallocAlone, Mallocing
    <2>2. ~Stuck
      BY <2>1 DEF Stuck, Starved, Unplaced, Mallocing
    <2>3. count >= 1
      BY <1>1, <1>4, <2>2 DEF GroupInv, Counts
    <2>4. PICK w \in Tasks : Owner(w)
      BY <2>2, <2>3 DEF GroupInv, Counts, NoOwner
    <2>5. /\ w # t /\ leader[w]
          /\ pc[w] \in {"copy", "copied", "notifywait", "header", "spin"}
      BY <1>4, <2>1, <2>4 DEF Owner, Owning, Closing, Clearing, Leading
    <2>6. Placed(w) /\ pc'[w] = pc[w] /\ addr'[w] = addr[w] /\ leader'[w]
      BY <1>1, <2>5 DEF Placed, Unplaced, LeaderInv, TypeOK
    <2>7. Owner(w)' /\ pc'[w] \in Early /\ Placed(w)'
      BY <2>5, <2>6 DEF Owner, Owning, Early, Leading, Placed
    <2>8. addr[w] + size[w] <= head_ /\ addr[w] \in Nat /\ size[w] \in Nat
      BY <2>6 DEF RegionInv, HandedOut, End, LeaderInv, TypeOK, Cells
    <2>9. ~(head_ < addr[w])
      BY <1>2, <2>8
    <2> QED BY <1>2, <2>6, <2>7, <2>9 DEF Kept
  <1> QED BY <1>3, <1>4

\* The length of a group in the first block makes one block.
LEMMA OneMore == ASSUME NEW n \in 0..(kBlockSize - 1) PROVE (n + kBlockSize) \div kBlockSize = 1
  BY RingNumbers

LEMMA GroupIsBlock ==
    ASSUME LeaderInv, RegionInv, GroupInv, InFirstBlock, NEW t \in Tasks, pc[t] = "zero"
    PROVE  GroupBlocks(seen[t]) = 1
  <1>1. seen[t] \in 0..(kBlockSize - 1)
    <2>1. seen[t] = head_ - addr[t] /\ seen[t] >= 1
      BY GroupLength
    <2>2. addr[t] \in Nat /\ head_ \in Nat
      BY DEF LeaderInv, TypeOK, Cells, ring!RingTypeOK
    <2> QED BY <2>1, <2>2, RingNumbers DEF InFirstBlock
  <1>2. (seen[t] + kBlockSize) \div kBlockSize = 1
    BY <1>1, OneMore
  <1>3. kBlockSize \in 0..(Len16 - 1) /\ Len16 \in Nat \ {0} /\ 1 * kBlockSize = kBlockSize
    BY RingNumbers
  <1>4. (1 * kBlockSize) % Len16 = kBlockSize
    BY <1>3, Small
  <1>5. kBlockSize \div kBlockSize = 1
    <2>1. 0 + kBlockSize = kBlockSize /\ 0 \in 0..(kBlockSize - 1)
      BY RingNumbers
    <2> QED BY <2>1, OneMore
  <1> QED BY <1>2, <1>4, <1>5 DEF GroupBlocks

LEMMA BlocksOf ==
    ASSUME LeaderInv, RegionInv, GroupInv, InFirstBlock, NEW t \in Tasks, SubmitGroup(t)
    PROVE  todo' = [todo EXCEPT ![t] = {0}]
  <1>1. GroupBlocks(seen[t]) = 1
    BY GroupIsBlock DEF SubmitGroup
  <1>2. todo' = [todo EXCEPT ![t] = 0..(1 - 1)]
    BY <1>1 DEF SubmitGroup
  <1> QED BY <1>2

\* Where todo and the file change.
LEMMA DiskAside ==
    ASSUME LeaderInv, NEW t \in Tasks, TaskStep(t)
    PROVE  /\ SubmitGroup(t) \/ Device(t) \/ todo' = todo
           /\ (\E k \in todo[t] : PersistBlock(t, k)) \/ file' = file
           /\ SubmitGroup(t) \/ (\E k \in todo[t] : PersistBlock(t, k)) \/ pc'[t] # "io"
           /\ \A u \in Tasks \ {t} : todo'[u] = todo[u] /\ (pc'[u] = "io" => pc[u] = "io")
  <1> USE DEF LeaderInv, TypeOK
  <1>1. CASE AsyncMalloc(t) \/ CopyRecord(t) \/ FollowerComplete(t)
    <2>1. todo' = todo /\ file' = file /\ pc'[t] # "io"
      BY <1>1 DEF AsyncMalloc, Malloc, Claim, BumpCount, RequestWriteSpace, AwaitMemory,
         RetryMalloc, LoadLen, GrowLen, CopyRecord, FollowerComplete, CountCopy, AwaitCompletion,
         Goto, Await, disk
    <2> QED BY <2>1, StepAside DEF TaskStep, Aside
  <1>2. CASE LeaderComplete(t) /\ ~SubmitGroup(t)
    <2>1. todo' = todo /\ file' = file /\ pc'[t] # "io"
      BY <1>2 DEF LeaderComplete, AwaitNotify, WriteHeader, AllCopied, MeasureGroup,
         PostCompletion, PostNotifyLeader, Reset, ResetCompletion, ClearCount, ClearLen,
         ClearBoth, ClearCompleted, FreeGroup, PostMemoryNotify, Goto, PostAndGoto, Await, disk
    <2> QED BY <2>1, StepAside DEF TaskStep, Aside
  <1>3. CASE SubmitGroup(t)
    <2>1. file' = file /\ \A u \in Tasks \ {t} : todo'[u] = todo[u]
      BY <1>3 DEF SubmitGroup
    <2> QED BY <1>3, <2>1, StepAside DEF TaskStep, Aside
  <1>4. CASE WriteDone(t)
    <2>1. file' = file /\ pc'[t] # "io" /\ \A u \in Tasks \ {t} : todo'[u] = todo[u]
      BY <1>4 DEF WriteDone, Goto
    <2> QED BY <1>4, <2>1, StepAside DEF TaskStep, Aside, Device
  <1>5. ASSUME NEW k \in todo[t], PersistBlock(t, k)
        PROVE  \A u \in Tasks \ {t} : todo'[u] = todo[u] /\ (pc'[u] = "io" => pc[u] = "io")
    BY <1>5 DEF PersistBlock
  <1> QED BY <1>1, <1>2, <1>3, <1>4, <1>5 DEF TaskStep, Device

LEMMA OneBlockStep ==
    ASSUME LeaderInv, RegionInv, GroupInv, InFirstBlock, OneBlock,
           NEW t \in Tasks, TaskStep(t)
    PROVE  OneBlock'
  <1> SUFFICES ASSUME NEW u \in Tasks, pc'[u] = "io" PROVE todo'[u] \subseteq {0}
    BY DEF OneBlock
  <1>1. CASE u # t
    BY <1>1, DiskAside DEF OneBlock
  <1>2. CASE u = t /\ SubmitGroup(t)
    BY <1>2, BlocksOf DEF LeaderInv, TypeOK
  <1>3. ASSUME u = t, NEW k \in todo[t], PersistBlock(t, k) PROVE todo'[u] \subseteq {0}
    BY <1>3 DEF PersistBlock, OneBlock, LeaderInv, TypeOK
  <1> QED BY <1>1, <1>2, <1>3, DiskAside

\* A task is placed by the step only if it is given its region by it.
LEMMA PlacedFrom ==
    ASSUME LeaderInv, RegionInv, NEW t \in Tasks, TaskStep(t), NEW u \in Tasks, Placed(u)'
    PROVE  Placed(u) \/ (u = t /\ RequestWriteSpace(t) /\ ~Starved(t))
  <1>1. CASE \E s \in Sizes : Malloc(t, s)
    BY <1>1, MallocRegions DEF RegionsStay, LeaderInv, RegionInv
  <1>2. CASE RequestWriteSpace(t) /\ Starved(t)
    BY <1>2, StarvedRegions DEF RegionsStay, LeaderInv
  <1>3. CASE FreeGroup(t)
    BY <1>3, FreeRegions DEF RegionsStay, LeaderInv
  <1>4. CASE ~(\E s \in Sizes : Malloc(t, s)) /\ ~RequestWriteSpace(t) /\ ~FreeGroup(t)
    BY <1>4, OtherRegions DEF RegionsStay, LeaderInv, RegionInv
  <1>5. CASE u # t
    BY <1>5, OthersPlaced DEF LeaderInv
  <1> QED BY <1>1, <1>2, <1>3, <1>4, <1>5

\* What is in the file stays while the file does.
LEMMA OnFileStays ==
    ASSUME LeaderInv, RegionInv, NEW t \in Tasks, TaskStep(t), file' = file,
           NEW u \in Tasks, Placed(u), OnFile(u)
    PROVE  OnFile(u)'
  <1>1. addr'[u] = addr[u] /\ size'[u] = size[u]
    BY NothingShrinks DEF LeaderInv, Placed
  <1> QED BY <1>1 DEF OnFile

LEMMA WrittenStep ==
    ASSUME LeaderInv, RegionInv, GroupInv, InFirstBlock, RingFilled, OneBlock,
           BlockWritten, NEW t \in Tasks, TaskStep(t)
    PROVE  BlockWritten'
  <1> SUFFICES ASSUME NEW u \in Tasks, pc'[u] = "io", todo'[u] = {}, NEW v \in Tasks, Placed(v)'
               PROVE  OnFile(v)'
    BY DEF BlockWritten
  <1>1. CASE \E k \in todo[t] : PersistBlock(t, k)
    BY <1>1, PersistWrites
  <1>2. CASE ~(\E k \in todo[t] : PersistBlock(t, k))
    <2>1. file' = file
      BY <1>2, DiskAside
    <2>2. u # t
      <3>1. SubmitGroup(t) => todo'[t] = {0}
        BY BlocksOf DEF LeaderInv, TypeOK
      <3> QED BY <1>2, <3>1, DiskAside
    <2>3. pc[u] = "io" /\ todo[u] = {}
      BY <2>2, DiskAside
    <2>4. ~RequestWriteSpace(t)
      <3>1. pc[u] \in Closing
        BY <2>3 DEF Closing
      <3> QED BY <3>1 DEF RegionInv, MallocAlone, RequestWriteSpace, Mallocing
    <2>5. Placed(v)
      BY <2>4, PlacedFrom
    <2>6. OnFile(v)
      BY <2>3, <2>5 DEF BlockWritten
    <2> QED BY <2>1, <2>5, <2>6, OnFileStays
  <1> QED BY <1>1, <1>2

LEMMA KeptStep ==
    ASSUME LeaderInv, RegionInv, GroupInv, InFirstBlock, RingFilled, OneBlock, BlockWritten,
           KeptOnFile, NEW t \in Tasks, TaskStep(t), WriteDone(t) => todo[t] = {}
    PROVE  KeptOnFile'
  <1> SUFFICES ASSUME NEW u \in Tasks, Placed(u)', Kept(u)' PROVE OnFile(u)'
    BY DEF KeptOnFile
  <1>1. CASE \E k \in todo[t] : PersistBlock(t, k)
    BY <1>1, PersistWrites
  <1>2. CASE ~(\E k \in todo[t] : PersistBlock(t, k))
    <2>1. file' = file
      BY <1>2, DiskAside
    <2>2. Placed(u)
      BY PlacedFrom, ServedNotKept
    <2>3. OnFile(u)
      <3>1. CASE WriteDone(t)
        <4>1. pc[t] = "io" /\ todo[t] = {}
          BY <3>1 DEF WriteDone
        <4> QED BY <2>2, <4>1 DEF BlockWritten
      <3>2. CASE ~WriteDone(t)
        BY <2>2, <3>2, KeptWas DEF KeptOnFile
      <3> QED BY <3>1, <3>2
    <2> QED BY <2>1, <2>2, <2>3, OnFileStays
  <1> QED BY <1>1, <1>2

LEMMA DiskStep ==
    ASSUME LeaderInv, RegionInv, MallocAlone', GroupInv, DiskInv, [Next]_vars, ~WriteFails
    PROVE  DiskInv'
  <1>1. CASE UNCHANGED vars
    <2>1. UNCHANGED <<base, pc, leader, size, addr, head_, mem, todo, file>>
      BY <1>1 DEF vars, taskVars, ringVars, disk
    <2>2. \A u \in Tasks : /\ Owner(u)' <=> Owner(u)
                           /\ (Placed(u)' <=> Placed(u))
                           /\ Beyond(u)' <=> Beyond(u)
                           /\ Filled(u)' <=> Filled(u)
                           /\ OnFile(u)' <=> OnFile(u)
      BY <2>1 DEF Owner, Placed, Beyond, Filled, OnFile
    <2>3. \A u \in Tasks : Kept(u)' <=> Kept(u)
      BY <2>1, <2>2 DEF Kept
    <2>4. InFirstBlock' <=> InFirstBlock
      BY <2>1 DEF InFirstBlock
    <2> QED BY <2>1, <2>2, <2>3, <2>4
         DEF DiskInv, AckedKept, RingFilled, KeptOnFile, OneBlock, BlockWritten
  <1>2. ASSUME NEW t \in Tasks, TaskStep(t) PROVE DiskInv'
    <2>1. LeaderInv' /\ TypeOK'
      BY LeaderStep DEF LeaderInv
    <2>2. AckedKept'
      BY <1>2, <2>1, AckedStep DEF DiskInv, GroupInv
    <2>3. ASSUME InFirstBlock' PROVE RingFilled' /\ KeptOnFile' /\ OneBlock' /\ BlockWritten'
      <3>1. InFirstBlock
        BY <1>2, <2>1, <2>3, FirstBlockWas DEF LeaderInv
      <3>2. RingFilled /\ KeptOnFile /\ OneBlock /\ BlockWritten
        BY <3>1 DEF DiskInv
      <3>3. WriteDone(t) => todo[t] = {}
        <4>1. WriteDone(t) => pc[t] = "io" /\ pc'[t] # "io"
          BY DEF WriteDone, Goto, LeaderInv, TypeOK
        <4> QED BY <4>1 DEF WriteFails
      <3> QED BY <1>2, <2>1, <3>1, <3>2, <3>3, FilledStep, KeptStep, OneBlockStep, WrittenStep
    <2> QED BY <2>2, <2>3 DEF DiskInv
  <1> QED BY <1>1, <1>2 DEF Next, TaskStep

LEMMA DiskInit == Init => DiskInv
  <1> SUFFICES ASSUME Init PROVE DiskInv
    OBVIOUS
  <1>1. \A t \in Tasks : pc[t] = "idle" /\ ~Placed(t) /\ ~Beyond(t)
    BY DEF Init, Placed, Beyond
  <1> QED BY <1>1 DEF DiskInv, AckedKept, RingFilled, KeptOnFile, OneBlock, BlockWritten, Clearing

(***************************************************************************)
(* What LeaderComplete and FollowerComplete have returned for is on disk,  *)
(* and the writes of later groups, which go to the same block, leave it    *)
(* there (log_writer.h lines 41-65 and 193-195): for any number of tasks,  *)
(* however they interleave and at every alignment of the buffer, until one *)
(* of the four things that AckedDurable names happens: a write fails, an   *)
(* asyncMalloc meets a group that is closing, the log leaves its first     *)
(* block, or the buffer is not at the start of one.                        *)
(***************************************************************************)
Inv == LeaderInv /\ (~late => RegionInv /\ GroupInv) /\ (~late /\ ~failed => DiskInv)

LEMMA InvStep == Inv /\ [Next]_vars => Inv'
  <1> SUFFICES ASSUME Inv, [Next]_vars PROVE Inv'
    OBVIOUS
  <1>1. LeaderInv'
    BY LeaderStep DEF Inv
  <1>2. CASE UNCHANGED vars
    <2>1. late' = late /\ failed' = failed /\ pc' = pc /\ todo' = todo
      BY <1>2 DEF vars, history, disk
    <2>2. ~WriteFails
      BY <2>1 DEF WriteFails
    <2>3. RegionInv => MallocAlone'
      BY <2>1 DEF RegionInv, MallocAlone
    <2> QED BY <1>1, <2>1, <2>2, <2>3, RegionStep, GroupStep, DiskStep DEF Inv, LeaderInv
  <1>3. CASE Observe
    <2>1. ~late' => ~late /\ MallocAlone'
      BY <1>3 DEF Observe, Overlap, MallocAlone
    <2>2. ~failed' => ~failed /\ ~WriteFails
      BY <1>3 DEF Observe
    <2>3. ~late' => RegionInv' /\ GroupInv'
      BY <2>1, RegionStep, GroupStep DEF Inv, LeaderInv
    <2>4. ~late' /\ ~failed' => DiskInv'
      BY <2>1, <2>2, DiskStep DEF Inv
    <2> QED BY <1>1, <2>3, <2>4 DEF Inv
  <1> QED BY <1>2, <1>3 DEF Next

THEOREM AckedIsDurable == Spec => []AckedDurable
  <1>1. Init => Inv
    BY LeaderInit, RegionInit, GroupInit, DiskInit DEF Inv
  <1>2. Inv => AckedDurable
    <2> SUFFICES ASSUME LeaderInv, RegionInv, GroupInv, DiskInv, InFirstBlock,
                        NEW t \in Tasks, pc[t] \in {"acked"} \cup Clearing
                 PROVE  OnDisk(t)
      BY DEF AckedDurable, Inv
    <2>1. Placed(t) /\ Kept(t)
      BY DEF DiskInv, AckedKept, Placed, Unplaced, Clearing
    <2>2. OnFile(t)
      BY <2>1 DEF DiskInv, KeptOnFile
    <2>3. addr[t] \in 0..(kLogFileSize - size[t])
      <3>1. addr[t] \in Nat /\ size[t] \in Nat /\ head_ \in Nat
        BY DEF LeaderInv, TypeOK, Cells, ring!RingTypeOK
      <3>2. addr[t] + size[t] <= head_ /\ head_ + 1 <= kBlockSize /\ kBlockSize <= kLogFileSize
        BY <2>1, RingNumbers DEF RegionInv, HandedOut, End, InFirstBlock
      <3> QED BY <3>1, <3>2, RingNumbers
    <2> QED BY <2>2, <2>3 DEF OnDisk, OnFile
  <1> QED BY <1>1, <1>2, InvStep, PTL DEF Spec
=============================================================================
