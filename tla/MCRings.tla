------------------------------ MODULE MCRings ------------------------------
(***************************************************************************)
(* The rings of db/ on small instances.  The three specifications share no *)
(* state; a behaviour is one of RingClient, RingBuffer or RingMemory, and  *)
(* the variables of the other two stay as they are.                        *)
(***************************************************************************)
EXTENDS RingClient, FiniteSets

CONSTANTS Producers, SliceBuffer, SliceWord, SliceSizes,   \* of RingBuffer
          Processes, Objects, None                         \* of RingMemory

ASSUME RingsAssumption ==
    /\ SliceBuffer \in Nat \ {0} /\ SliceWord \in Nat /\ SliceBuffer < SliceWord
    /\ SliceSizes \subseteq 1..SliceBuffer
    /\ None \notin Objects
    /\ Cardinality(Objects) > Cardinality(Processes)

VARIABLES
    ring,                                           \* which one
    mhead, mtail, mat, msize, mcur_head, mslice,    \* of RingBuffer
    name, at, fd, maps, left                        \* of RingMemory

Multi == INSTANCE RingBuffer WITH
    head_ <- mhead, tail_ <- mtail, at <- mat, size <- msize, cur_head <- mcur_head,
    slice <- mslice, kBufferSize <- SliceBuffer, Word <- SliceWord, Sizes <- SliceSizes

Memory == INSTANCE RingMemory

multiVars  == <<mhead, mtail, mat, msize, mcur_head, mslice>>
memoryVars == <<name, at, fd, maps, left>>
allVars    == <<ring, vars, multiVars, memoryVars>>

AllInit ==
    /\ ring \in {"single", "multi", "memory"}
    /\ Init /\ Multi!Init /\ Memory!Init

Single(A) == ring = "single" /\ A /\ UNCHANGED <<ring, multiVars, memoryVars>>
OfMulti(A) == ring = "multi" /\ A /\ UNCHANGED <<ring, vars, memoryVars>>
OfMemory(A) == ring = "memory" /\ A /\ UNCHANGED <<ring, vars, multiVars>>

AllNext == Single(Next) \/ OfMulti(Multi!Next) \/ OfMemory(Memory!Next)

(***************************************************************************)
(* The fairness of RingClient; and every producer of RingBuffer that has   *)
(* called runs on, where a swap that could succeed again and again is not  *)
(* made to fail for no reason every time.  Nobody has to call.             *)
(***************************************************************************)
AllSpec ==
    /\ AllInit /\ [][AllNext]_allVars
    /\ WF_allVars(Single(\E s \in Sizes : LoadTail(s)))
    /\ WF_allVars(Single(Reserve \/ Refuse))
    /\ WF_allVars(Single(CommitWrite))
    /\ \A p \in Producers :
          /\ WF_allVars(OfMulti(Multi!Reserve(p)))
          /\ WF_allVars(OfMulti(Multi!CommitWrite(p)))
    /\ SF_allVars(OfMulti(\E p \in Producers : Multi!Swap(p)))

(***************************************************************************)
(* The types of RingBuffer and of RingMemory; TypeOK has RingClient's.     *)
(***************************************************************************)
TypesOK == Multi!TypeOK /\ Memory!TypeOK

(***************************************************************************)
(* Of RingBuffer: no position of the cursor space is handed out twice.     *)
(***************************************************************************)
GrantsDisjoint == Multi!GrantsDisjoint

(***************************************************************************)
(* Of RingMemory: the name of the shared memory does not outlive its use.  *)
(***************************************************************************)
NameTransient == Memory!NameTransient

(***************************************************************************)
(* Of RingMemory: memory that a process has gone on with gets no other     *)
(* holder.                                                                 *)
(***************************************************************************)
PrivateOnceUnlinked == Memory!PrivateOnceUnlinked

(***************************************************************************)
(* The producer of RingClient is served again and again, and while calls   *)
(* of RingBuffer are under way somebody is.                                *)
(***************************************************************************)
AllServe == (ring = "single" => KeepsServing) /\ (ring = "multi" => Multi!Serves)
=============================================================================
