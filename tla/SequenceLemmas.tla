--------------------------- MODULE SequenceLemmas ---------------------------
(***************************************************************************)
(* What the queues of the models do to the set of their elements, and that *)
(* a queue in which nothing occurs twice stays one.                        *)
(***************************************************************************)
EXTENDS Integers, Sequences, FiniteSets, Functions, SequenceTheorems, FiniteSetTheorems, TLAPS

(***************************************************************************)
(* Append, as BoundedQueue, CoIoUring and IoSink put a request into a      *)
(* queue.                                                                  *)
(***************************************************************************)
LEMMA AppendElements ==
    ASSUME NEW S, NEW s \in Seq(S), NEW x \in S
    PROVE  /\ Append(s, x) \in Seq(S)
           /\ Range(Append(s, x)) = Range(s) \cup {x}
           /\ IsInjective(s) /\ x \notin Range(s) => IsInjective(Append(s, x))
  <1> DEFINE t == Append(s, x)
  <1>1. /\ t \in Seq(S) /\ Len(t) = Len(s) + 1 /\ Len(s) \in Nat
        /\ DOMAIN t = 1..Len(t) /\ DOMAIN s = 1..Len(s)
        /\ \A i \in 1..Len(s) : t[i] = s[i]
        /\ t[Len(s) + 1] = x
    BY AppendProperties, LenProperties
  <1> HIDE DEF t
  <1>2. Range(t) = Range(s) \cup {x}
    BY <1>1 DEF Range
  <1>3. ASSUME IsInjective(s), x \notin Range(s) PROVE IsInjective(t)
    BY <1>1, <1>3 DEF IsInjective, Range
  <1> QED BY <1>1, <1>2, <1>3 DEF t

(***************************************************************************)
(* Head and Tail, as a request is taken out.                               *)
(***************************************************************************)
LEMMA HeadTailElements ==
    ASSUME NEW S, NEW s \in Seq(S), s # <<>>
    PROVE  /\ Head(s) \in S /\ Tail(s) \in Seq(S)
           /\ Len(s) \in Nat \ {0} /\ Len(Tail(s)) = Len(s) - 1
           /\ Range(s) = {Head(s)} \cup Range(Tail(s))
           /\ IsInjective(s) => IsInjective(Tail(s)) /\ Head(s) \notin Range(Tail(s))
  <1> DEFINE t == Tail(s)
  <1>1. /\ t \in Seq(S) /\ Len(t) = Len(s) - 1 /\ Len(s) \in Nat \ {0}
        /\ DOMAIN t = 1..Len(t) /\ DOMAIN s = 1..Len(s)
        /\ \A i \in 1..Len(t) : t[i] = s[i + 1]
        /\ Head(s) = s[1] /\ Head(s) \in S
    BY HeadTailProperties, LenProperties, EmptySeq
  <1> HIDE DEF t
  <1>2. Range(s) = {s[1]} \cup Range(t)
    <2>1. \A i \in DOMAIN s : i = 1 \/ (i - 1 \in DOMAIN t /\ s[i] = t[i - 1])
      BY <1>1
    <2>2. \A i \in DOMAIN t : i + 1 \in DOMAIN s /\ s[i + 1] = t[i]
      BY <1>1
    <2>3. 1 \in DOMAIN s
      BY <1>1
    <2> QED BY <2>1, <2>2, <2>3 DEF Range
  <1>3. ASSUME IsInjective(s) PROVE IsInjective(t) /\ s[1] \notin Range(t)
    <2>1. \A i, j \in 1..Len(s) : s[i] = s[j] => i = j
      BY <1>1, <1>3 DEF IsInjective
    <2>2. ASSUME NEW i \in 1..Len(t)
          PROVE  i + 1 \in 1..Len(s) /\ t[i] = s[i + 1] /\ i + 1 # 1
      BY <1>1
    <2>3. \A i, j \in 1..Len(t) : t[i] = t[j] => i = j
      <3> SUFFICES ASSUME NEW i \in 1..Len(t), NEW j \in 1..Len(t), t[i] = t[j]
                   PROVE  i = j
        OBVIOUS
      <3>1. i + 1 = j + 1
        BY <2>1, <2>2
      <3> QED BY <3>1
    <2>4. \A i \in 1..Len(t) : t[i] # s[1]
      <3>1. 1 \in 1..Len(s)
        BY <1>1
      <3> QED BY <2>1, <2>2, <3>1
    <2> QED BY <1>1, <2>3, <2>4 DEF IsInjective, Range
  <1> QED BY <1>1, <1>2, <1>3 DEF t

(***************************************************************************)
(* SubSeq, as a prefix of n elements is taken out.                         *)
(***************************************************************************)
LEMMA RestElements ==
    ASSUME NEW S, NEW s \in Seq(S), NEW n \in 0..Len(s)
    PROVE  LET rest == SubSeq(s, n + 1, Len(s))
           IN  /\ rest \in Seq(S)
               /\ Len(rest) = Len(s) - n
               /\ \A i \in 1..Len(rest) : rest[i] = s[n + i]
               /\ Range(rest) = {s[i] : i \in (n + 1)..Len(s)}
               /\ Range(s) = {s[i] : i \in 1..n} \cup Range(rest)
               /\ IsInjective(s) => /\ IsInjective(rest)
                                    /\ {s[i] : i \in 1..n} \cap Range(rest) = {}
  <1> DEFINE rest == SubSeq(s, n + 1, Len(s))
  <1>1. Len(s) \in Nat /\ n \in Nat /\ n <= Len(s) /\ DOMAIN s = 1..Len(s)
    BY LenProperties
  <1>2. \A i \in (n + 1)..Len(s) : s[i] \in S
    BY <1>1, ElementOfSeq
  <1>3. /\ rest \in Seq(S)
        /\ Len(rest) = IF n + 1 <= Len(s) THEN Len(s) - (n + 1) + 1 ELSE 0
        /\ \A i \in 1..(Len(s) - (n + 1) + 1) : rest[i] = s[n + 1 + i - 1]
    BY <1>1, <1>2, SubSeqProperties
  <1>4. DOMAIN rest = 1..Len(rest)
    BY <1>3, LenProperties
  <1> HIDE DEF rest
  <1>5. Len(rest) = Len(s) - n /\ \A i \in 1..Len(rest) : rest[i] = s[n + i]
    <2>1. ASSUME NEW l \in Nat, NEW m, n <= l,
                 m = IF n + 1 <= l THEN l - (n + 1) + 1 ELSE 0
          PROVE  m = l - n
      BY <1>1, <2>1
    <2>2. Len(rest) = Len(s) - n
      BY <1>1, <1>3, <2>1
    <2>3. ASSUME NEW i \in 1..Len(rest) PROVE rest[i] = s[n + i]
      <3>1. i \in 1..(Len(s) - (n + 1) + 1) /\ n + 1 + i - 1 = n + i
        BY <1>1, <2>2
      <3> QED BY <1>3, <3>1
    <2> QED BY <2>2, <2>3
  <1>6. Range(rest) = {s[i] : i \in (n + 1)..Len(s)}
    <2>1. \A i \in (n + 1)..Len(s) : i - n \in DOMAIN rest /\ s[i] = rest[i - n]
      BY <1>1, <1>4, <1>5
    <2>2. \A i \in DOMAIN rest : n + i \in (n + 1)..Len(s) /\ rest[i] = s[n + i]
      BY <1>1, <1>4, <1>5
    <2> QED BY <2>1, <2>2 DEF Range
  <1>7. Range(s) = {s[i] : i \in 1..n} \cup Range(rest)
    <2>1. 1..Len(s) = 1..n \cup (n + 1)..Len(s)
      BY <1>1
    <2> QED BY <1>1, <1>6, <2>1 DEF Range
  <1>8. ASSUME IsInjective(s) PROVE IsInjective(rest)
    <2> SUFFICES ASSUME NEW i \in 1..Len(rest), NEW j \in 1..Len(rest), rest[i] = rest[j]
                 PROVE  i = j
      BY <1>4 DEF IsInjective
    <2>1. n + i \in 1..Len(s) /\ n + j \in 1..Len(s)
      BY <1>1, <1>5
    <2>2. n + i = n + j
      BY <1>1, <1>5, <1>8, <2>1 DEF IsInjective
    <2> QED BY <1>1, <2>2
  <1>9. ASSUME IsInjective(s) PROVE {s[i] : i \in 1..n} \cap Range(rest) = {}
    BY <1>1, <1>6, <1>9 DEF IsInjective
  <1> QED BY <1>3, <1>5, <1>6, <1>7, <1>8, <1>9 DEF rest

(***************************************************************************)
(* Concatenation, as IoSink splits what was submitted into what has been   *)
(* issued and what waits.                                                  *)
(***************************************************************************)
LEMMA ConcatElements ==
    ASSUME NEW S, NEW s \in Seq(S), NEW t \in Seq(S)
    PROVE  /\ Range(s \o t) = Range(s) \cup Range(t)
           /\ IsInjective(s \o t) => Range(s) \cap Range(t) = {}
  <1> DEFINE c == s \o t
  <1>1. /\ c \in Seq(S) /\ Len(c) = Len(s) + Len(t)
        /\ Len(s) \in Nat /\ Len(t) \in Nat
        /\ DOMAIN c = 1..Len(c) /\ DOMAIN s = 1..Len(s) /\ DOMAIN t = 1..Len(t)
        /\ \A i \in 1..Len(c) : c[i] = IF i <= Len(s) THEN s[i] ELSE t[i - Len(s)]
    BY ConcatProperties, LenProperties
  <1> HIDE DEF c
  <1>2. \A i \in DOMAIN s : i \in DOMAIN c /\ c[i] = s[i]
    BY <1>1
  <1>3. ASSUME NEW i \in DOMAIN t
        PROVE  Len(s) + i \in DOMAIN c /\ c[Len(s) + i] = t[i]
    <2>1. Len(s) + i \in 1..Len(c) /\ ~(Len(s) + i <= Len(s)) /\ (Len(s) + i) - Len(s) = i
      BY <1>1
    <2> QED BY <1>1, <2>1
  <1>4. ASSUME NEW i \in DOMAIN c
        PROVE  \/ i \in DOMAIN s /\ c[i] = s[i]
               \/ i - Len(s) \in DOMAIN t /\ c[i] = t[i - Len(s)]
    BY <1>1
  <1>5. Range(c) = Range(s) \cup Range(t)
    BY <1>2, <1>3, <1>4 DEF Range
  <1>6. ASSUME IsInjective(c), NEW i \in DOMAIN s, NEW j \in DOMAIN t PROVE s[i] # t[j]
    <2>1. i # Len(s) + j
      BY <1>1
    <2> QED BY <1>2, <1>3, <1>6, <2>1 DEF IsInjective
  <1> QED BY <1>5, <1>6 DEF c, Range

(***************************************************************************)
(* A new element behind both parts, and one that moves from the front of   *)
(* the second part to the end of the first.                                *)
(***************************************************************************)
LEMMA ConcatAppend ==
    ASSUME NEW S, NEW s \in Seq(S), NEW t \in Seq(S), NEW x \in S
    PROVE  s \o Append(t, x) = Append(s \o t, x)
  <1>1. <<x>> \in Seq(S) /\ s \o t \in Seq(S)
    BY ConcatProperties
  <1> QED BY <1>1, AppendIsConcat, ConcatAssociative

LEMMA ConcatHead ==
    ASSUME NEW S, NEW s \in Seq(S), NEW t \in Seq(S), t # <<>>
    PROVE  Append(s, Head(t)) \o Tail(t) = s \o t
  <1>1. Head(t) \in S /\ Tail(t) \in Seq(S) /\ <<Head(t)>> \in Seq(S)
    BY HeadTailProperties
  <1>2. t = <<Head(t)>> \o Tail(t)
    BY HeadTailProperties
  <1> QED BY <1>1, <1>2, AppendIsConcat, ConcatAssociative

(***************************************************************************)
(* A queue in which nothing occurs twice is no longer than the set it is   *)
(* drawn from.                                                             *)
(***************************************************************************)
LEMMA InjectiveBounded ==
    ASSUME NEW S, IsFiniteSet(S), NEW s \in Seq(S), IsInjective(s)
    PROVE  Len(s) <= Cardinality(S)
  <1>1. Len(s) \in Nat /\ s \in [1..Len(s) -> S]
    BY LenProperties
  <1>2. s \in Injection(1..Len(s), S)
    BY <1>1 DEF Injection
  <1>3. Cardinality(1..Len(s)) <= Cardinality(S)
    BY <1>2, FS_Injection
  <1>4. Cardinality(1..Len(s)) = Len(s)
    BY <1>1, FS_Interval
  <1> QED BY <1>3, <1>4
=============================================================================
