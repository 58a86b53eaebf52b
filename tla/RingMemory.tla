----------------------------- MODULE RingMemory -----------------------------
(***************************************************************************)
(* How db/sp_ring_buffer.h gets its memory: the constructor opens a shared *)
(* memory object under a name that every process of the program uses,      *)
(* removes the name, maps the object twice in a row and closes the         *)
(* descriptor.  Any call may fail, and a process may die at any point.     *)
(*                                                                         *)
(* One step is one system call.  A process holds one ring at a time; where *)
(* in its address space the ring lies is in LogWriter!BufferBase.          *)
(***************************************************************************)
EXTENDS Integers, Sequences, Functions

CONSTANTS Processes,
          Objects,   \* shared memory objects, more than there are processes
          None

VARIABLES
    name,   \* the object that the name stands for
    at,     \* where each process is: in the constructor, "ready", "failed", "out"
    fd,     \* its descriptor
    maps,   \* the objects mapped in its buffer_, in the order of the mmap calls
    left    \* history: the one who bound the name died before it removed it

vars == <<name, at, fd, maps, left>>

Constructing == {"open", "unlink", "truncate", "reserve", "map", "close"}

TypeOK ==
    /\ name \in Objects \cup {None}
    /\ at \in [Processes -> Constructing \cup {"ready", "failed", "out"}]
    /\ fd \in [Processes -> Objects \cup {None}]
    /\ maps \in [Processes -> Seq(Objects)]
    /\ left \in BOOLEAN

Init ==
    /\ name = None
    /\ at = [p \in Processes |-> "out"]
    /\ fd = [p \in Processes |-> None]
    /\ maps = [p \in Processes |-> <<>>]
    /\ left = FALSE

Goto(p, point) == at' = [at EXCEPT ![p] = point]

Holders(o) == {p \in Processes : fd[p] = o \/ o \in Range(maps[p])}

(***************************************************************************)
(* The constructor.                                                        *)
(***************************************************************************)
\* shm_open with O_CREAT | O_EXCL
Create(p) ==
    /\ at[p] = "out"
    /\ name = None
    /\ \E o \in Objects :
          /\ Holders(o) = {}
          /\ name' = o
          /\ fd' = [fd EXCEPT ![p] = o]
    /\ Goto(p, "unlink")
    /\ UNCHANGED <<maps, left>>

\* The name exists, or another error.
CreateFails(p) ==
    /\ at[p] = "out"
    /\ Goto(p, "open")
    /\ UNCHANGED <<name, fd, maps, left>>

\* shm_open of the name that was found to exist.
Open(p) ==
    /\ at[p] = "open"
    /\ name # None
    /\ fd' = [fd EXCEPT ![p] = name]
    /\ Goto(p, "unlink")
    /\ UNCHANGED <<name, maps, left>>

\* It has been removed meanwhile, or another error: throw.
OpenFails(p) ==
    /\ at[p] = "open"
    /\ Goto(p, "out")
    /\ UNCHANGED <<name, fd, maps, left>>

\* MUTANT of Unlink: the call is missing.
UnlinkForgotten(p) ==
    /\ at[p] = "unlink"
    /\ Goto(p, "truncate")
    /\ UNCHANGED <<name, fd, maps, left>>

\* MUTANT of Unlink: a process that finds others at the object leaves the
\* name to them.
UnlinkIfAlone(p) ==
    /\ at[p] = "unlink"
    /\ name' = IF Holders(fd[p]) = {p} THEN None ELSE name
    /\ left' = FALSE
    /\ Goto(p, "truncate")
    /\ UNCHANGED <<fd, maps>>

\* shm_unlink, of whatever the name stands for by now.
Unlink(p) ==
    /\ at[p] = "unlink"
    /\ name' = None /\ left' = FALSE
    /\ Goto(p, "truncate")
    /\ UNCHANGED <<fd, maps>>

\* ftruncate, the only call after which the descriptor is closed on failure.
Truncate(p) ==
    /\ at[p] = "truncate"
    /\ \/ Goto(p, "reserve") /\ UNCHANGED fd
       \/ Goto(p, "out") /\ fd' = [fd EXCEPT ![p] = None]
    /\ UNCHANGED <<name, maps, left>>

\* The anonymous mapping of the address range.
ReserveRange(p) ==
    /\ at[p] = "reserve"
    /\ Goto(p, "map")
    /\ UNCHANGED <<name, fd, maps, left>>

\* The two mappings of the object over it.
Map(p) ==
    /\ at[p] = "map"
    /\ maps' = [maps EXCEPT ![p] = Append(@, fd[p])]
    /\ Goto(p, IF maps[p] = <<>> THEN "map" ELSE "close")
    /\ UNCHANGED <<name, fd, left>>

\* A failed mmap throws; the destructor does not run.
MapFails(p) ==
    /\ at[p] \in {"reserve", "map"}
    /\ Goto(p, "failed")
    /\ UNCHANGED <<name, fd, maps, left>>

Close(p) ==
    /\ at[p] = "close"
    /\ fd' = [fd EXCEPT ![p] = None]
    /\ Goto(p, "ready")
    /\ UNCHANGED <<name, maps, left>>

Construct(p) ==
    \/ Create(p) \/ CreateFails(p) \/ Open(p) \/ OpenFails(p) \/ Unlink(p)
    \/ Truncate(p) \/ ReserveRange(p) \/ Map(p) \/ MapFails(p) \/ Close(p)

Destroy(p) ==
    /\ at[p] = "ready"
    /\ maps' = [maps EXCEPT ![p] = <<>>]
    /\ Goto(p, "out")
    /\ UNCHANGED <<name, fd, left>>

\* The process ends, wherever it is, and the kernel takes back what it holds.
Die(p) ==
    /\ at[p] # "out"
    /\ left' = (left \/ (at[p] = "unlink" /\ name = fd[p]))
    /\ fd' = [fd EXCEPT ![p] = None]
    /\ maps' = [maps EXCEPT ![p] = <<>>]
    /\ Goto(p, "out")
    /\ UNCHANGED name

Next == \E p \in Processes : Construct(p) \/ Destroy(p) \/ Die(p)

Spec == Init /\ [][Next]_vars

(***************************************************************************)
(* Line 28: the name does not outlive its use.  It is bound only while the *)
(* process that is to remove it lives, or after one died there, and then   *)
(* the next constructor removes it.                                        *)
(***************************************************************************)
NameTransient ==
    name # None => left \/ \E p \in Processes : at[p] = "unlink" /\ fd[p] = name

(***************************************************************************)
(* Two rings share their memory only if their constructors met before      *)
(* either had removed the name: an object that a process has gone on with  *)
(* never gets another holder, whatever crashed or failed before.           *)
(***************************************************************************)
PrivateOnceUnlinked ==
    [][\A p \in Processes, o \in Objects :
          at[p] # "unlink" /\ p \in Holders(o) => Holders(o)' \subseteq Holders(o)]_vars
=============================================================================
