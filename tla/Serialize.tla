------------------------------ MODULE Serialize ------------------------------
(***************************************************************************)
(* infra/serialize.h: SerializeLE and DeserializeLE.  A value is written   *)
(* by a machine of either byte order and read by one of either.            *)
(*                                                                         *)
(* A value is the sequence of its bytes, the least significant first; a    *)
(* float is swapped as the unsigned number with the same bytes, so the two *)
(* overloads of each function do the same.                                 *)
(***************************************************************************)
EXTENDS Integers, Sequences, SequencesExt

CONSTANTS Bytes,      \* what a byte may be
          ByteCounts  \* sizeof(T)

Endian == {"little", "big"}

VARIABLES writer, reader,  \* std::endian::native of each machine
          value,           \* what is written
          memory,          \* the bytes at dst, and later at src
          result           \* what is read

vars == <<writer, reader, value, memory, result>>

Nothing == <<>>

Init ==
    /\ writer \in Endian /\ reader \in Endian
    /\ value \in UNION {[1..n -> Bytes] : n \in ByteCounts}
    /\ memory = Nothing /\ result = Nothing

\* memcpy from and to a value: a machine keeps it in its own order.
Memcpy(native, bytes) == IF native = "big" THEN Reverse(bytes) ELSE bytes

\* MUTANT of ToLE: nothing is swapped.
ToLENever(native, bytes) == bytes

\* std::byteswap, where it is needed.
ToLE(native, bytes) == IF native = "big" THEN Reverse(bytes) ELSE bytes

SerializeLE ==
    /\ memory = Nothing
    /\ memory' = Memcpy(writer, ToLE(writer, value))
    /\ UNCHANGED <<writer, reader, value, result>>

DeserializeLE ==
    /\ memory # Nothing /\ result = Nothing
    /\ result' = ToLE(reader, Memcpy(reader, memory))
    /\ UNCHANGED <<writer, reader, value, memory>>

Next == SerializeLE \/ DeserializeLE

Spec == Init /\ [][Next]_vars

(***************************************************************************)
(* The bytes in memory have the order that the names of the functions say, *)
(* whatever the machine, and what is read is what was written, also when   *)
(* another machine reads it.                                               *)
(***************************************************************************)
LittleEndian ==
    /\ memory # Nothing => memory = value
    /\ result # Nothing => result = value
=============================================================================
