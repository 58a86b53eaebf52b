-------------------------- MODULE AlgorithmsProofs --------------------------
(***************************************************************************)
(* What holds of Split, of the conversion to little-endian bytes and of    *)
(* the histogram, for every request, every value and every histogram: the  *)
(* parts of a request are the request, what is read is what was written,   *)
(* and the counters agree with the data.                                   *)
(*                                                                         *)
(* The bytes of a request are the concatenation of those of its pieces,    *)
(* the numbers of a histogram sums over its counters: both are recursive.  *)
(* The induction theorems of the library cannot be used here, but that     *)
(* every non-empty set of numbers has a least element can, and induction   *)
(* over a set of numbers follows from it.                                  *)
(***************************************************************************)
EXTENDS MCAlgorithms, SequenceTheorems, FiniteSetTheorems, WellFoundedInduction, TLAPS

(***************************************************************************)
(* Induction over a set of numbers.                                        *)
(***************************************************************************)
LEMMA LeastNumber ==
    ASSUME NEW T, T \subseteq Nat, T # {}
    PROVE  \E x \in T : \A y \in T : x <= y
  <1> DEFINE R == {p \in Nat \X Nat : p[1] < p[2]}
  <1>1. IsWellFoundedOn(R, Nat)
    BY NatLessThanWellFounded DEF OpToRel
  <1>2. \E x \in T : \A y \in T : ~ (<<y, x>> \in R)
    BY <1>1, WFMin
  <1>3. ASSUME NEW x \in T, NEW y \in T, <<y, x>> \notin R
        PROVE  x <= y
    <2>1. x \in Nat /\ y \in Nat /\ ~ (y < x)
      BY <1>3
    <2> QED BY <2>1
  <1> HIDE DEF R
  <1> QED BY <1>2, <1>3

LEMMA Induction ==
    ASSUME NEW T, T \subseteq Nat, 0 \in T, \A n \in T : n + 1 \in T
    PROVE  T = Nat
  <1> SUFFICES ASSUME Nat \ T # {} PROVE FALSE
    OBVIOUS
  <1>1. PICK x \in Nat \ T : \A y \in Nat \ T : x <= y
    BY LeastNumber
  <1>2. x \in Nat /\ x # 0
    BY <1>1
  <1>3. x - 1 \in Nat /\ x - 1 + 1 = x /\ ~ (x <= x - 1)
    BY <1>2
  <1> QED BY <1>1, <1>3

(***************************************************************************)
(* FlattenSeq of a sequence of n + 1 sequences is FlattenSeq of the first  *)
(* n of them and then the last.                                            *)
(***************************************************************************)
LEMMA ConcatIn ==
    ASSUME NEW S, NEW a \in Seq(S), NEW b \in Seq(S)
    PROVE  a \o b \in Seq(S)
  BY ConcatProperties

LEMMA LenOf ==
    ASSUME NEW X, NEW n \in Nat, NEW s \in [1..n -> X]
    PROVE  s \in Seq(X) /\ Len(s) = n
  BY SeqDef, LenProperties

\* f holds the concatenations of the first 1, 2, ..., n sequences of s.
Concats(n, s, f) == f = [i \in 1..n |-> IF i = 1 THEN s[i] ELSE f[i - 1] \o s[i]]

LEMMA ConcatsAt ==
    ASSUME NEW n, NEW s, NEW f, Concats(n, s, f), NEW i \in 1..n
    PROVE  f[i] = IF i = 1 THEN s[i] ELSE f[i - 1] \o s[i]
  <1> DEFINE g == [j \in 1..n |-> IF j = 1 THEN s[j] ELSE f[j - 1] \o s[j]]
  <1>1. f = g
    BY DEF Concats
  <1>2. g[i] = IF i = 1 THEN s[i] ELSE f[i - 1] \o s[i]
    OBVIOUS
  <1> HIDE DEF g
  <1> QED BY <1>1, <1>2

LEMMA ConcatsExist ==
    ASSUME NEW s, NEW n \in Nat
    PROVE  \E f : Concats(n, s, f)
  <1> DEFINE T == {m \in Nat : \E f : Concats(m, s, f)}
  <1>1. 0 \in T
    <2>1. 1..0 = {}
      OBVIOUS
    <2> DEFINE e == [i \in {} |-> 0]
    <2>2. e = [i \in 1..0 |-> IF i = 1 THEN s[i] ELSE e[i - 1] \o s[i]]
      BY <2>1
    <2> HIDE DEF e
    <2>3. Concats(0, s, e)
      BY <2>2 DEF Concats
    <2> QED BY <2>3
  <1>2. ASSUME NEW m \in T PROVE m + 1 \in T
    <2>1. m \in Nat /\ \E f : Concats(m, s, f)
      OBVIOUS
    <2>2. PICK f : Concats(m, s, f)
      BY <2>1
    <2> DEFINE g == [i \in 1..(m + 1) |->
                        IF i \in 1..m THEN f[i] ELSE IF i = 1 THEN s[i] ELSE f[i - 1] \o s[i]]
    <2>3. ASSUME NEW i \in 1..(m + 1)
          PROVE  g[i] = IF i = 1 THEN s[i] ELSE g[i - 1] \o s[i]
      <3>1. i = 1 \/ (i - 1 \in 1..m /\ i - 1 \in 1..(m + 1))
        BY <2>1
      <3>2. i # 1 => g[i - 1] = f[i - 1]
        BY <3>1
      <3>3. i \in 1..m => f[i] = IF i = 1 THEN s[i] ELSE f[i - 1] \o s[i]
        BY <2>2 DEF Concats
      <3> QED BY <3>2, <3>3
    <2>4. g = [i \in 1..(m + 1) |-> g[i]]
      OBVIOUS
    <2> HIDE DEF g
    <2>5. Concats(m + 1, s, g)
      BY <2>3, <2>4 DEF Concats
    <2>6. m + 1 \in Nat
      BY <2>1
    <2> QED BY <2>5, <2>6
  <1>3. T \subseteq Nat
    OBVIOUS
  <1> HIDE DEF T
  <1>4. T = Nat
    BY <1>1, <1>2, <1>3, Induction
  <1> QED BY <1>4 DEF T

LEMMA ConcatsAgree ==
    ASSUME NEW n \in Nat, NEW s, NEW t, NEW f, NEW g, NEW m \in Nat, n <= m,
           Concats(n, s, f), Concats(m, t, g), \A i \in 1..n : s[i] = t[i]
    PROVE  \A i \in 1..n : f[i] = g[i]
  <1> DEFINE T == {k \in Nat : k \in 1..n => f[k] = g[k]}
  <1>1. 0 \in T
    OBVIOUS
  <1>2. ASSUME NEW k \in T PROVE k + 1 \in T
    <2> SUFFICES ASSUME k + 1 \in 1..n PROVE f[k + 1] = g[k + 1]
      OBVIOUS
    <2>1. k \in Nat /\ (k = 0 \/ k \in 1..n) /\ k + 1 \in 1..m /\ k + 1 - 1 = k
      OBVIOUS
    <2>2. f[k + 1] = IF k + 1 = 1 THEN s[k + 1] ELSE f[k + 1 - 1] \o s[k + 1]
      BY ConcatsAt
    <2>3. g[k + 1] = IF k + 1 = 1 THEN t[k + 1] ELSE g[k + 1 - 1] \o t[k + 1]
      BY <2>1, ConcatsAt
    <2>4. k + 1 # 1 => k \in 1..n /\ f[k] = g[k]
      BY <2>1
    <2> QED BY <2>1, <2>2, <2>3, <2>4
  <1>3. T \subseteq Nat
    OBVIOUS
  <1> HIDE DEF T
  <1>4. T = Nat
    BY <1>1, <1>2, <1>3, Induction
  <1> QED BY <1>4 DEF T

LEMMA ConcatsType ==
    ASSUME NEW S, NEW n \in Nat, NEW s \in [1..n -> Seq(S)], NEW f, Concats(n, s, f)
    PROVE  \A i \in 1..n : f[i] \in Seq(S)
  <1> DEFINE T == {k \in Nat : k \in 1..n => f[k] \in Seq(S)}
  <1>1. 0 \in T
    OBVIOUS
  <1>2. ASSUME NEW k \in T PROVE k + 1 \in T
    <2> SUFFICES ASSUME k + 1 \in 1..n PROVE f[k + 1] \in Seq(S)
      OBVIOUS
    <2>1. k \in Nat /\ (k = 0 \/ k \in 1..n) /\ k + 1 - 1 = k
      OBVIOUS
    <2>2. f[k + 1] = IF k + 1 = 1 THEN s[k + 1] ELSE f[k + 1 - 1] \o s[k + 1]
      BY ConcatsAt
    <2>3. k + 1 # 1 => f[k] \in Seq(S)
      BY <2>1
    <2>4. s[k + 1] \in Seq(S)
      OBVIOUS
    <2> QED BY <2>1, <2>2, <2>3, <2>4, ConcatIn
  <1>3. T \subseteq Nat
    OBVIOUS
  <1> HIDE DEF T
  <1>4. T = Nat
    BY <1>1, <1>2, <1>3, Induction
  <1> QED BY <1>4 DEF T

LEMMA FlattenIs ==
    ASSUME NEW S, NEW n \in Nat \ {0}, NEW s \in [1..n -> Seq(S)]
    PROVE  \E f : Concats(n, s, f) /\ FlattenSeq(s) = f[n]
  <1>1. Len(s) = n /\ Len(s) # 0
    BY LenOf
  <1> DEFINE h == CHOOSE f : f = [i \in 1..Len(s) |-> IF i = 1 THEN s[i] ELSE f[i - 1] \o s[i]]
  <1>2. \E f : f = [i \in 1..Len(s) |-> IF i = 1 THEN s[i] ELSE f[i - 1] \o s[i]]
    BY <1>1, ConcatsExist DEF Concats
  <1>3. h = [i \in 1..Len(s) |-> IF i = 1 THEN s[i] ELSE h[i - 1] \o s[i]]
    BY <1>2
  <1>4. FlattenSeq(s) = h[Len(s)]
    BY <1>1 DEF FlattenSeq
  <1> HIDE DEF h
  <1> QED BY <1>1, <1>3, <1>4 DEF Concats

LEMMA FlattenType ==
    ASSUME NEW S, NEW n \in Nat, NEW s \in [1..n -> Seq(S)]
    PROVE  FlattenSeq(s) \in Seq(S)
  <1>1. CASE n = 0
    <2>1. Len(s) = 0 /\ s \in Seq(Seq(S))
      BY <1>1, LenOf
    <2>2. s = <<>>
      BY <2>1, EmptySeq
    <2> QED BY <2>1, <2>2, EmptySeq DEF FlattenSeq
  <1>2. CASE n # 0
    <2>1. PICK f : Concats(n, s, f) /\ FlattenSeq(s) = f[n]
      BY <1>2, FlattenIs
    <2>2. n \in 1..n
      BY <1>2
    <2> QED BY <2>1, <2>2, ConcatsType
  <1> QED BY <1>1, <1>2

LEMMA FlattenNone ==
    ASSUME NEW X, NEW s \in [1..0 -> X]
    PROVE  FlattenSeq(s) = <<>>
  <1>1. Len(s) = 0 /\ s \in Seq(X)
    BY LenOf
  <1>2. s = <<>>
    BY <1>1, EmptySeq
  <1> QED BY <1>1, <1>2 DEF FlattenSeq

LEMMA FlattenStep ==
    ASSUME NEW S, NEW n \in Nat, NEW s \in [1..n -> Seq(S)], NEW t \in [1..(n + 1) -> Seq(S)],
           \A i \in 1..n : s[i] = t[i]
    PROVE  FlattenSeq(t) = FlattenSeq(s) \o t[n + 1]
  <1>1. PICK g : Concats(n + 1, t, g) /\ FlattenSeq(t) = g[n + 1]
    <2>1. n + 1 \in Nat \ {0}
      OBVIOUS
    <2> QED BY <2>1, FlattenIs
  <1>2. n + 1 \in 1..(n + 1) /\ n + 1 - 1 = n
    OBVIOUS
  <1>3. g[n + 1] = IF n + 1 = 1 THEN t[n + 1] ELSE g[n + 1 - 1] \o t[n + 1]
    BY <1>1, <1>2, ConcatsAt
  <1>4. t[n + 1] \in Seq(S)
    BY <1>2
  <1>5. CASE n = 0
    <2>1. FlattenSeq(s) = <<>>
      BY <1>5, FlattenNone
    <2>2. g[n + 1] = t[n + 1]
      BY <1>3, <1>5
    <2> QED BY <1>1, <1>4, <2>1, <2>2, ConcatEmptySeq
  <1>6. CASE n # 0
    <2>1. PICK f : Concats(n, s, f) /\ FlattenSeq(s) = f[n]
      BY <1>6, FlattenIs
    <2>2. n + 1 \in Nat /\ n <= n + 1 /\ n \in 1..n /\ n + 1 # 1
      BY <1>6
    <2>3. f[n] = g[n]
      BY <1>1, <2>1, <2>2, ConcatsAgree
    <2> QED BY <1>1, <1>2, <1>3, <2>1, <2>2, <2>3
  <1> QED BY <1>5, <1>6

(***************************************************************************)
(* The bytes of a piece, of a sequence of pieces, of the first n parts and *)
(* of the first n buffers of the request.                                  *)
(***************************************************************************)
Byte == Nat \X Nat

PiecesBytes(v) == FlattenSeq([i \in 1..Len(v) |-> BytesOf(v[i])])

BytesUpto(ps, n) == FlattenSeq([k \in 1..n |-> BytesOfPart(ps[k])])

PieceAt(b, o, l) == [buf |-> b, off |-> o, len |-> l]

Taken(b, n) == BytesOf([buf |-> b, off |-> 0, len |-> n])

BuffersUpto(bs, n) == FlattenSeq([b \in 1..n |-> Taken(b, bs[b])])

LEMMA BytesOfPiece ==
    ASSUME NEW p \in Piece
    PROVE  BytesOf(p) \in Seq(Byte) /\ Len(BytesOf(p)) = p.len
  <1>1. p.len \in Nat /\ p.buf \in Nat /\ p.off \in Nat
    BY DEF Piece
  <1>2. BytesOf(p) \in [1..p.len -> Byte]
    BY <1>1 DEF BytesOf, Byte
  <1> QED BY <1>1, <1>2, LenOf

\* A piece that begins where another one of its buffer ends continues it.
LEMMA TakenMore ==
    ASSUME NEW b \in Nat \ {0}, NEW o \in Nat, NEW l \in Nat
    PROVE  /\ Taken(b, o) \in Seq(Byte) /\ Len(Taken(b, o)) = o
           /\ Taken(b, o) \o BytesOf(PieceAt(b, o, l)) = Taken(b, o + l)
  <1> DEFINE p == [buf |-> b, off |-> o, len |-> l]
             q == [buf |-> b, off |-> 0, len |-> o]
             r == [buf |-> b, off |-> 0, len |-> o + l]
             s == BytesOf(q) \o BytesOf(p)
             t == BytesOf(r)
  <1>1. p \in Piece /\ q \in Piece /\ r \in Piece
    BY DEF Piece
  <1>2. /\ BytesOf(p) \in Seq(Byte) /\ Len(BytesOf(p)) = l
        /\ BytesOf(q) \in Seq(Byte) /\ Len(BytesOf(q)) = o
        /\ t \in Seq(Byte) /\ Len(t) = o + l
    BY <1>1, BytesOfPiece
  <1>3. \A i \in 1..l : BytesOf(p)[i] = <<b, o + i>>
    BY DEF BytesOf
  <1>4. \A i \in 1..o : BytesOf(q)[i] = <<b, 0 + i>>
    BY DEF BytesOf
  <1>5. \A i \in 1..(o + l) : t[i] = <<b, 0 + i>>
    BY DEF BytesOf
  <1>6. /\ s \in Seq(Byte) /\ Len(s) = o + l
        /\ \A i \in 1..(o + l) : s[i] = IF i <= o THEN BytesOf(q)[i] ELSE BytesOf(p)[i - o]
    BY <1>2, ConcatProperties
  <1> HIDE DEF p, q, r, s, t
  <1>7. ASSUME NEW i \in 1..(o + l) PROVE s[i] = t[i]
    <2>1. CASE i <= o
      <3>1. i \in 1..o
        BY <2>1
      <3> QED BY <1>4, <1>5, <1>6, <2>1, <3>1
    <2>2. CASE ~ (i <= o)
      <3>1. i - o \in 1..l /\ o + (i - o) = 0 + i
        BY <2>2
      <3> QED BY <1>3, <1>5, <1>6, <2>2, <3>1
    <2> QED BY <2>1, <2>2
  <1>8. s = t
    BY <1>2, <1>6, <1>7, SeqEqual
  <1> QED BY <1>2, <1>8 DEF p, q, r, s, t, Taken, PieceAt

LEMMA TakenNone ==
    ASSUME NEW b \in Nat \ {0}
    PROVE  Taken(b, 0) = <<>>
  <1>1. Taken(b, 0) \in Seq(Byte) /\ Len(Taken(b, 0)) = 0
    BY TakenMore
  <1> QED BY <1>1, EmptySeq

LEMMA PiecesType ==
    ASSUME NEW v \in Seq(Piece)
    PROVE  /\ [i \in 1..Len(v) |-> BytesOf(v[i])] \in [1..Len(v) -> Seq(Byte)]
           /\ PiecesBytes(v) \in Seq(Byte)
  <1>1. Len(v) \in Nat /\ \A i \in 1..Len(v) : v[i] \in Piece
    BY LenProperties, ElementOfSeq
  <1>2. [i \in 1..Len(v) |-> BytesOf(v[i])] \in [1..Len(v) -> Seq(Byte)]
    BY <1>1, BytesOfPiece
  <1> QED BY <1>1, <1>2, FlattenType DEF PiecesBytes

LEMMA PiecesNone == PiecesBytes(<<>>) = <<>>
  <1>1. Len(<<>>) = 0
    BY EmptySeq
  <1>2. [i \in 1..0 |-> BytesOf(<<>>[i])] \in [1..0 -> Byte]
    OBVIOUS
  <1> QED BY <1>1, <1>2, FlattenNone DEF PiecesBytes

LEMMA PiecesStep ==
    ASSUME NEW v \in Seq(Piece), NEW p \in Piece
    PROVE  PiecesBytes(Append(v, p)) = PiecesBytes(v) \o BytesOf(p)
  <1> DEFINE w == Append(v, p)
             n == Len(v)
             s == [i \in 1..n |-> BytesOf(v[i])]
             t == [i \in 1..(n + 1) |-> BytesOf(w[i])]
  <1>1. n \in Nat /\ w \in Seq(Piece) /\ Len(w) = n + 1
        /\ (\A i \in 1..n : w[i] = v[i]) /\ w[n + 1] = p
    BY AppendProperties, LenProperties
  <1> HIDE DEF w, n
  <1>2. s \in [1..n -> Seq(Byte)] /\ t \in [1..(n + 1) -> Seq(Byte)]
    BY <1>1, PiecesType DEF n
  <1>3. (\A i \in 1..n : s[i] = t[i]) /\ t[n + 1] = BytesOf(p)
    BY <1>1
  <1>4. PiecesBytes(v) = FlattenSeq(s) /\ PiecesBytes(w) = FlattenSeq(t)
    BY <1>1 DEF PiecesBytes, n
  <1> HIDE DEF s, t
  <1> QED BY <1>1, <1>2, <1>3, <1>4, FlattenStep DEF w

LEMMA PartBytesAre ==
    ASSUME NEW p \in Part
    PROVE  /\ p.iovecs \in Seq(Piece)
           /\ BytesOfPart(p) = PiecesBytes(p.iovecs) /\ BytesOfPart(p) \in Seq(Byte)
  <1>1. p.iovecs \in Seq(Piece)
    BY DEF Part
  <1>2. BytesOfPart(p) = PiecesBytes(p.iovecs)
    BY DEF BytesOfPart, PiecesBytes
  <1> QED BY <1>1, <1>2, PiecesType

LEMMA PartsType ==
    ASSUME NEW ps \in Seq(Part), NEW n \in 0..Len(ps)
    PROVE  /\ [k \in 1..n |-> BytesOfPart(ps[k])] \in [1..n -> Seq(Byte)]
           /\ BytesUpto(ps, n) \in Seq(Byte)
           /\ n = 0 => BytesUpto(ps, n) = <<>>
  <1>1. n \in Nat /\ \A k \in 1..n : ps[k] \in Part
    BY LenProperties, ElementOfSeq
  <1> DEFINE s == [k \in 1..n |-> BytesOfPart(ps[k])]
  <1>2. s \in [1..n -> Seq(Byte)]
    BY <1>1, PartBytesAre
  <1> HIDE DEF s
  <1>3. FlattenSeq(s) \in Seq(Byte)
    BY <1>1, <1>2, FlattenType
  <1>4. n = 0 => FlattenSeq(s) = <<>>
    BY <1>2, FlattenNone
  <1> QED BY <1>2, <1>3, <1>4 DEF BytesUpto, s

LEMMA PartsStep ==
    ASSUME NEW ps \in Seq(Part), NEW p \in Part
    PROVE  /\ \A n \in 0..Len(ps) : BytesUpto(Append(ps, p), n) = BytesUpto(ps, n)
           /\ BytesUpto(Append(ps, p), Len(ps) + 1) = BytesUpto(ps, Len(ps)) \o BytesOfPart(p)
  <1> DEFINE qs == Append(ps, p)
             l == Len(ps)
  <1>1. l \in Nat /\ qs \in Seq(Part) /\ Len(qs) = l + 1
        /\ (\A i \in 1..l : qs[i] = ps[i]) /\ qs[l + 1] = p
    BY AppendProperties, LenProperties
  <1> HIDE DEF qs
  <1>2. ASSUME NEW n \in 0..l PROVE BytesUpto(qs, n) = BytesUpto(ps, n)
    <2>1. \A k \in 1..n : k \in 1..l
      BY <1>1
    <2>2. [k \in 1..n |-> BytesOfPart(qs[k])] = [k \in 1..n |-> BytesOfPart(ps[k])]
      BY <1>1, <2>1
    <2> QED BY <2>2 DEF BytesUpto
  <1>3. BytesUpto(qs, l + 1) = BytesUpto(ps, l) \o BytesOfPart(p)
    <2> DEFINE s == [k \in 1..l |-> BytesOfPart(ps[k])]
               t == [k \in 1..(l + 1) |-> BytesOfPart(qs[k])]
    <2>1. l \in 0..Len(ps) /\ l + 1 \in 0..Len(qs) /\ l + 1 \in 1..(l + 1)
      BY <1>1
    <2>2. s \in [1..l -> Seq(Byte)] /\ t \in [1..(l + 1) -> Seq(Byte)]
      BY <1>1, <2>1, PartsType
    <2>3. (\A i \in 1..l : s[i] = t[i]) /\ t[l + 1] = BytesOfPart(p)
      BY <1>1
    <2>4. BytesUpto(ps, l) = FlattenSeq(s) /\ BytesUpto(qs, l + 1) = FlattenSeq(t)
      BY DEF BytesUpto
    <2> HIDE DEF s, t, l
    <2> QED BY <1>1, <2>2, <2>3, <2>4, FlattenStep
  <1> QED BY <1>2, <1>3 DEF qs

LEMMA BuffersStep ==
    ASSUME NEW bs \in Seq(Nat), NEW n \in 0..Len(bs)
    PROVE  /\ BuffersUpto(bs, n) \in Seq(Byte)
           /\ n = 0 => BuffersUpto(bs, n) = <<>>
           /\ n < Len(bs) =>
                BuffersUpto(bs, n + 1) = BuffersUpto(bs, n) \o Taken(n + 1, bs[n + 1])
  <1> DEFINE s(m) == [b \in 1..m |-> Taken(b, bs[b])]
  <1>1. n \in Nat /\ n <= Len(bs) /\ Len(bs) \in Nat
    BY LenProperties
  <1>2. ASSUME NEW m \in 0..Len(bs) PROVE s(m) \in [1..m -> Seq(Byte)]
    <2>1. ASSUME NEW b \in 1..m PROVE Taken(b, bs[b]) \in Seq(Byte)
      <3>1. b \in Nat \ {0} /\ bs[b] \in Nat
        BY <1>1, ElementOfSeq
      <3> QED BY <3>1, TakenMore
    <2> QED BY <2>1
  <1>3. s(n) \in [1..n -> Seq(Byte)]
    BY <1>2
  <1>4. n < Len(bs) => s(n + 1) \in [1..(n + 1) -> Seq(Byte)]
    BY <1>1, <1>2
  <1>5. n + 1 \in 1..(n + 1) /\ \A b \in 1..n : b \in 1..(n + 1)
    BY <1>1
  <1>6. (\A b \in 1..n : s(n)[b] = s(n + 1)[b]) /\ s(n + 1)[n + 1] = Taken(n + 1, bs[n + 1])
    BY <1>5
  <1>7. BuffersUpto(bs, n) = FlattenSeq(s(n)) /\ BuffersUpto(bs, n + 1) = FlattenSeq(s(n + 1))
    BY DEF BuffersUpto
  <1> HIDE DEF s
  <1>8. FlattenSeq(s(n)) \in Seq(Byte)
    BY <1>1, <1>3, FlattenType
  <1>9. n = 0 => FlattenSeq(s(n)) = <<>>
    BY <1>3, FlattenNone
  <1>10. n < Len(bs) => FlattenSeq(s(n + 1)) = FlattenSeq(s(n)) \o s(n + 1)[n + 1]
    BY <1>1, <1>3, <1>4, <1>6, FlattenStep
  <1> QED BY <1>6, <1>7, <1>8, <1>9, <1>10

(***************************************************************************)
(* The invariant of Split.  While the loop over the buffers runs, the      *)
(* parts that are made and the pieces that wait for the next one are the   *)
(* buffers before cur and the first off bytes of cur, and the pieces are   *)
(* what the part is short of max_length; a part is cut only inside a       *)
(* buffer, so that the next one has bytes to take.                         *)
(***************************************************************************)
RequestType ==
    /\ op \in Buffer \cup Iovec \cup {"fdatasync"}
    /\ iovec \in Seq(0..MaxSize) /\ max_length \in Nat \ {0}
    /\ op \notin Iovec => Len(iovec) = 1

\* Every part has the size of its pieces and is where its first byte belongs.
Placed(ps, max) ==
    \A k \in 1..Len(ps) :
        /\ ps[k].size = Len(BytesOfPart(ps[k])) /\ ps[k].size <= max
        /\ ps[k].pos = Len(BytesUpto(ps, k - 1))

\* The parts are of the largest size; the last one perhaps is not.
AllFull(ps, max) == \A k \in 1..Len(ps) : ps[k].size = max

AllButLastFull ==
    \A k \in 1..Len(parts) :
        /\ k < Len(parts) => parts[k].size = max_length
        /\ RequestBytes # <<>> => parts[k].size > 0

IovecTurns ==
    /\ cur <= Len(iovec) => off <= iovec[cur]
    /\ cur > Len(iovec) => off = 0
    /\ BytesUpto(parts, Len(parts)) \o PiecesBytes(vecs) =
           BuffersUpto(iovec, cur - 1) \o Taken(cur, off)
    /\ Len(PiecesBytes(vecs)) + remaining = max_length
    /\ pos = Len(BytesUpto(parts, Len(parts)))
    /\ vecs # <<>> /\ parts # <<>> => remaining < max_length
    /\ vecs = <<>> /\ parts # <<>> => cur <= Len(iovec) /\ off < iovec[cur]

BufferTurns ==
    /\ Len(iovec) = 1
    /\ BytesUpto(parts, Len(parts)) = Taken(1, off)
    /\ off < iovec[1] \/ (off = 0 /\ parts = <<>>)

SplitInv ==
    /\ TypeOK /\ RequestType
    /\ Placed(parts, max_length)
    /\ at = "iovec" => AllFull(parts, max_length) /\ IovecTurns
    /\ at = "buffer" => AllFull(parts, max_length) /\ BufferTurns
    /\ at = "done" => AllButLastFull /\ BytesUpto(parts, Len(parts)) = RequestBytes
    /\ at = "aborted" => parts = <<>>

LEMMA RequestIs == RequestBytes = BuffersUpto(iovec, Len(iovec))
  BY DEF RequestBytes, BuffersUpto, Taken

LEMMA PlacedStep ==
    ASSUME NEW ps \in Seq(Part), NEW p \in Part, NEW max \in Nat, Placed(ps, max),
           p.size = Len(BytesOfPart(p)), p.size <= max, p.pos = Len(BytesUpto(ps, Len(ps)))
    PROVE  /\ Append(ps, p) \in Seq(Part) /\ Len(Append(ps, p)) = Len(ps) + 1
           /\ Append(ps, p) # <<>>
           /\ Placed(Append(ps, p), max)
           /\ AllFull(ps, max) /\ p.size = max => AllFull(Append(ps, p), max)
           /\ \A k \in 1..Len(ps) : Append(ps, p)[k] = ps[k]
           /\ Append(ps, p)[Len(ps) + 1] = p
  <1> DEFINE qs == Append(ps, p)
             l == Len(ps)
  <1>1. /\ l \in Nat /\ qs \in Seq(Part) /\ Len(qs) = l + 1 /\ qs # <<>>
        /\ (\A i \in 1..l : qs[i] = ps[i]) /\ qs[l + 1] = p
    BY AppendProperties, LenProperties
  <1>2. \A n \in 0..l : BytesUpto(qs, n) = BytesUpto(ps, n)
    BY PartsStep
  <1> HIDE DEF qs
  <1>3. ASSUME NEW k \in 1..(l + 1)
        PROVE  /\ qs[k].size = Len(BytesOfPart(qs[k])) /\ qs[k].size <= max
               /\ qs[k].pos = Len(BytesUpto(qs, k - 1))
    <2>1. k - 1 \in 0..l /\ (k \in 1..l \/ (k = l + 1 /\ k - 1 = l))
      BY <1>1
    <2>2. BytesUpto(qs, k - 1) = BytesUpto(ps, k - 1)
      BY <1>2, <2>1
    <2>3. CASE k \in 1..l
      BY <1>1, <2>2, <2>3 DEF Placed
    <2>4. CASE k = l + 1 /\ k - 1 = l
      BY <1>1, <2>2, <2>4
    <2> QED BY <2>1, <2>3, <2>4
  <1>4. Placed(qs, max)
    BY <1>1, <1>3 DEF Placed
  <1>5. AllFull(ps, max) /\ p.size = max => AllFull(qs, max)
    <2>1. \A k \in 1..(l + 1) : k \in 1..l \/ k = l + 1
      BY <1>1
    <2> QED BY <1>1, <2>1 DEF AllFull
  <1> QED BY <1>1, <1>4, <1>5 DEF qs

LEMMA SplitStart == Init => SplitInv
  <1> SUFFICES ASSUME Init PROVE SplitInv
    OBVIOUS
  <1> USE SplitAssumption
  <1>1. iovec \in Seq(0..MaxSize) /\ Len(iovec) \in Nat /\ (op \notin Iovec => Len(iovec) = 1)
    <2>1. CASE op \in Iovec
      <3>1. PICK m \in 0..MaxBuffers : iovec \in [1..m -> 0..MaxSize]
        BY <2>1 DEF Init, SeqOf
      <3>2. m \in Nat
        OBVIOUS
      <3> QED BY <2>1, <3>1, <3>2, LenOf
    <2>2. CASE op \notin Iovec
      <3>1. iovec \in [1..1 -> 0..MaxSize]
        BY <2>2 DEF Init
      <3>2. 1 \in Nat
        OBVIOUS
      <3>3. iovec \in Seq(0..MaxSize) /\ Len(iovec) = 1
        BY <3>1, <3>2, LenOf
      <3> QED BY <3>3
    <2> QED BY <2>1, <2>2
  <1>2. /\ RequestType /\ at \in {"buffer", "iovec", "aborted"}
        /\ at = "buffer" => op \in Buffer
        /\ max_length \in Nat \ {0}
    BY <1>1 DEF Init, RequestType, Split
  <1>3. cur = 1 /\ off = 0 /\ pos = 0 /\ remaining = max_length /\ vecs = <<>> /\ parts = <<>>
    BY DEF Init
  <1>4. TypeOK
    <2>1. vecs \in Seq(Piece) /\ parts \in Seq(Part)
      BY <1>3
    <2>2. cur \in 1..(Len(iovec) + 1) /\ off \in 0..MaxSize /\ pos \in Nat /\ remaining \in 0..max_length
      BY <1>1, <1>2, <1>3
    <2> QED BY <1>2, <2>1, <2>2 DEF TypeOK
  <1>5. Len(parts) = 0 /\ parts \in Seq(Part)
    BY <1>3, EmptySeq
  <1>6. BytesUpto(parts, Len(parts)) = <<>>
    <2>1. 0 \in 0..Len(parts)
      BY <1>5
    <2> QED BY <1>5, <2>1, PartsType
  <1>7. Placed(parts, max_length) /\ AllFull(parts, max_length)
    BY <1>5 DEF Placed, AllFull
  <1>8. Taken(1, 0) = <<>>
    BY TakenNone
  <1>9. IovecTurns
    <2>1. iovec \in Seq(Nat) /\ 0 \in 0..Len(iovec) /\ cur - 1 = 0
      BY <1>1, <1>3, SeqMonotonic
    <2>2. BuffersUpto(iovec, cur - 1) = <<>>
      BY <2>1, BuffersStep
    <2>3. PiecesBytes(vecs) = <<>> /\ Len(<<>>) = 0
      BY <1>3, PiecesNone, EmptySeq
    <2>4. cur <= Len(iovec) => off <= iovec[cur]
      <3> SUFFICES ASSUME cur <= Len(iovec) PROVE 0 <= iovec[1]
        BY <1>3
      <3>1. 1 \in 1..Len(iovec)
        BY <1>1, <1>3
      <3>2. iovec[1] \in 0..MaxSize
        BY <1>1, <3>1, ElementOfSeq
      <3> QED BY <3>2
    <2>5. BytesUpto(parts, Len(parts)) \o PiecesBytes(vecs) =
              BuffersUpto(iovec, cur - 1) \o Taken(cur, off)
      BY <1>3, <1>6, <1>8, <2>2, <2>3
    <2>6. Len(PiecesBytes(vecs)) + remaining = max_length /\ pos = Len(BytesUpto(parts, Len(parts)))
      BY <1>2, <1>3, <1>6, <2>3
    <2> QED BY <1>3, <2>4, <2>5, <2>6 DEF IovecTurns
  <1>10. at = "buffer" => BufferTurns
    <2>1. Buffer \cap Iovec = {}
      BY DEF Buffer, Iovec
    <2> QED BY <1>1, <1>2, <1>3, <1>6, <1>8, <2>1 DEF BufferTurns
  <1> QED BY <1>2, <1>3, <1>4, <1>7, <1>9, <1>10 DEF SplitInv

(***************************************************************************)
(* What is known wherever a turn of a loop begins.                         *)
(***************************************************************************)
LEMMA SplitFacts ==
    ASSUME SplitInv
    PROVE  /\ iovec \in Seq(Nat) /\ Len(iovec) \in Nat
           /\ \A b \in 1..Len(iovec) : iovec[b] \in 0..MaxSize /\ iovec[b] \in Nat
           /\ max_length \in Nat \ {0} /\ MaxSize \in Nat
           /\ cur \in Nat \ {0} /\ cur <= Len(iovec) + 1
           /\ off \in Nat /\ off <= MaxSize
           /\ pos \in Nat /\ remaining \in Nat /\ remaining <= max_length
           /\ vecs \in Seq(Piece) /\ parts \in Seq(Part) /\ Len(parts) \in Nat
           /\ PiecesBytes(vecs) \in Seq(Byte)
           /\ BytesUpto(parts, Len(parts)) \in Seq(Byte)
  <1> USE SplitAssumption DEF SplitInv, RequestType, TypeOK
  <1>1. iovec \in Seq(0..MaxSize) /\ 0..MaxSize \subseteq Nat /\ MaxSize \in Nat
    OBVIOUS
  <1>2. iovec \in Seq(Nat) /\ Len(iovec) \in Nat
    BY <1>1, SeqMonotonic, LenProperties
  <1>3. \A b \in 1..Len(iovec) : iovec[b] \in 0..MaxSize
    BY <1>1, ElementOfSeq
  <1>4. parts \in Seq(Part) /\ Len(parts) \in Nat /\ vecs \in Seq(Piece)
    BY LenProperties
  <1>5. Len(parts) \in 0..Len(parts)
    BY <1>4
  <1>6. max_length \in Nat \ {0} /\ cur \in 1..(Len(iovec) + 1) /\ off \in 0..MaxSize
        /\ pos \in Nat /\ remaining \in 0..max_length
    OBVIOUS
  <1>7. BytesUpto(parts, Len(parts)) \in Seq(Byte) /\ PiecesBytes(vecs) \in Seq(Byte)
    BY <1>4, <1>5, PartsType, PiecesType
  <1> HIDE DEF SplitInv, RequestType, TypeOK
  <1> QED BY <1>1, <1>2, <1>3, <1>4, <1>6, <1>7

\* A turn leaves the request alone.
LEMMA SameRequest ==
    ASSUME UNCHANGED request
    PROVE  /\ op' = op /\ iovec' = iovec /\ max_length' = max_length
           /\ RequestBytes' = RequestBytes /\ RequestType' = RequestType
  BY DEF request, RequestBytes, RequestType, BytesOf

LEMMA BufferTurnKeeps ==
    ASSUME SplitInv, BufferTurn
    PROVE  SplitInv'
  <1> DEFINE len == MinLength(iovec[1] - off, max_length)
             p == SubReqBuffer(off, len)
             piece == PieceAt(1, off, len)
  <1>1. /\ at = "buffer" /\ parts' = Append(parts, p) /\ off' = off + len
        /\ at' = (IF off' < iovec[1] THEN "buffer" ELSE "done")
        /\ cur' = cur /\ pos' = pos /\ remaining' = remaining /\ vecs' = vecs
        /\ UNCHANGED request
    BY DEF BufferTurn
  <1>2. /\ op' = op /\ iovec' = iovec /\ max_length' = max_length
        /\ RequestBytes' = RequestBytes /\ RequestType' = RequestType
    BY <1>1, SameRequest
  <1>3. AllFull(parts, max_length) /\ BufferTurns /\ Placed(parts, max_length)
        /\ TypeOK /\ RequestType
    BY <1>1 DEF SplitInv
  <1>4. /\ Len(iovec) = 1 /\ 1 \in 1..Len(iovec)
        /\ BytesUpto(parts, Len(parts)) = Taken(1, off)
        /\ off < iovec[1] \/ (off = 0 /\ parts = <<>>)
    BY <1>3 DEF BufferTurns
  <1>5. /\ iovec[1] \in Nat /\ iovec[1] <= MaxSize /\ max_length \in Nat \ {0} /\ MaxSize \in Nat
        /\ off \in Nat /\ parts \in Seq(Part) /\ Len(parts) \in Nat
    BY <1>4, SplitFacts
  <1>6. /\ len \in Nat /\ len <= max_length /\ off + len <= iovec[1]
        /\ off + len < iovec[1] => len = max_length
        /\ off < iovec[1] => len > 0
    BY <1>4, <1>5 DEF MinLength
  <1> HIDE DEF len
  <1>7. /\ piece \in Piece /\ <<piece>> \in Seq(Piece) /\ p \in Part
        /\ p.pos = off /\ p.size = len /\ p.iovecs = <<piece>>
    BY <1>5, <1>6 DEF SubReqBuffer, Piece, Part, PieceAt
  <1> HIDE DEF p
  <1>8. BytesOfPart(p) = BytesOf(piece) /\ Len(BytesOfPart(p)) = len
    <2>1. <<>> \in Seq(Piece) /\ <<piece>> = Append(<<>>, piece)
      BY <1>7
    <2>2. PiecesBytes(<<piece>>) = <<>> \o BytesOf(piece)
      BY <1>7, <2>1, PiecesStep, PiecesNone
    <2>3. BytesOf(piece) \in Seq(Byte) /\ Len(BytesOf(piece)) = len
      <3>1. piece.len = len
        BY DEF PieceAt
      <3> QED BY <1>7, <3>1, BytesOfPiece
    <2>4. BytesOfPart(p) = PiecesBytes(<<piece>>)
      BY <1>7, PartBytesAre
    <2> QED BY <2>2, <2>3, <2>4, ConcatEmptySeq
  <1>9. 1 \in Nat \ {0} /\ Len(Taken(1, off)) = off
        /\ Taken(1, off) \o BytesOf(piece) = Taken(1, off + len)
    <2>1. 1 \in Nat \ {0} /\ off \in Nat /\ len \in Nat
      BY <1>5, <1>6
    <2> QED BY <2>1, TakenMore
  <1>10. /\ parts' \in Seq(Part) /\ Len(parts') = Len(parts) + 1
         /\ Placed(parts', max_length)
         /\ p.size = max_length => AllFull(parts', max_length)
         /\ \A k \in 1..Len(parts) : parts'[k] = parts[k]
         /\ parts'[Len(parts) + 1] = p
    <2>1. p.pos = Len(BytesUpto(parts, Len(parts)))
      BY <1>4, <1>7, <1>9
    <2>2. max_length \in Nat /\ p.size = Len(BytesOfPart(p)) /\ p.size <= max_length
      BY <1>5, <1>6, <1>7, <1>8
    <2> QED BY <1>1, <1>3, <1>5, <1>7, <2>1, <2>2, PlacedStep
  <1>11. BytesUpto(parts', Len(parts')) = Taken(1, off + len)
    BY <1>1, <1>4, <1>5, <1>7, <1>8, <1>9, <1>10, PartsStep
  <1>12. TypeOK'
    <2>1. at' \in {"buffer", "iovec", "done", "aborted"}
      BY <1>1
    <2>2. off' \in 0..MaxSize
      BY <1>1, <1>5, <1>6
    <2>3. cur' \in 1..(Len(iovec') + 1) /\ pos' \in Nat /\ remaining' \in 0..max_length'
          /\ vecs' \in Seq(Piece)
      BY <1>1, <1>2, <1>3 DEF TypeOK
    <2> QED BY <1>10, <2>1, <2>2, <2>3 DEF TypeOK
  <1>13. at' = "buffer" => AllFull(parts', max_length') /\ BufferTurns'
    <2> SUFFICES ASSUME at' = "buffer" PROVE AllFull(parts', max_length') /\ BufferTurns'
      OBVIOUS
    <2>1. off + len < iovec[1]
      BY <1>1
    <2>2. len = max_length
      BY <1>6, <2>1
    <2> QED BY <1>1, <1>2, <1>4, <1>7, <1>10, <1>11, <2>1, <2>2 DEF BufferTurns
  <1>14. at' = "done" => AllButLastFull' /\ BytesUpto(parts', Len(parts')) = RequestBytes'
    <2> SUFFICES ASSUME at' = "done"
                 PROVE  AllButLastFull' /\ BytesUpto(parts', Len(parts')) = RequestBytes'
      OBVIOUS
    <2>1. ~ (off + len < iovec[1])
      BY <1>1
    <2>2. off + len = iovec[1]
      BY <1>5, <1>6, <2>1
    <2>3. RequestBytes = Taken(1, iovec[1])
      <3>1. iovec \in Seq(Nat) /\ 0 \in 0..Len(iovec) /\ 0 < Len(iovec) /\ 0 + 1 = 1
        BY <1>4, SplitFacts
      <3>2. /\ BuffersUpto(iovec, 0) = <<>>
            /\ BuffersUpto(iovec, 0 + 1) = BuffersUpto(iovec, 0) \o Taken(0 + 1, iovec[0 + 1])
        BY <3>1, BuffersStep
      <3>3. Taken(1, iovec[1]) \in Seq(Byte)
        BY <1>5, <1>9, TakenMore
      <3>4. BuffersUpto(iovec, 1) = <<>> \o Taken(1, iovec[1])
        BY <3>1, <3>2
      <3>5. BuffersUpto(iovec, 1) = Taken(1, iovec[1])
        BY <3>3, <3>4, ConcatEmptySeq
      <3> QED BY <1>4, <3>5, RequestIs
    <2>4. BytesUpto(parts', Len(parts')) = RequestBytes'
      BY <1>2, <1>11, <2>2, <2>3
    <2>5. RequestBytes # <<>> => off < iovec[1]
      <3>1. iovec[1] = 0 => RequestBytes = <<>>
        BY <1>9, <2>3, TakenNone
      <3> QED BY <1>4, <1>5, <3>1
    <2>6. ASSUME NEW k \in 1..Len(parts')
          PROVE  /\ k < Len(parts') => parts'[k].size = max_length
                 /\ RequestBytes # <<>> => parts'[k].size > 0
      <3>1. k \in 1..Len(parts) \/ (k = Len(parts) + 1 /\ ~ (k < Len(parts')))
        BY <1>5, <1>10
      <3>2. CASE k \in 1..Len(parts)
        <4>1. parts'[k].size = max_length
          BY <1>3, <1>10, <3>2 DEF AllFull
        <4> QED BY <1>5, <4>1
      <3>3. CASE k = Len(parts) + 1 /\ ~ (k < Len(parts'))
        <4>1. parts'[k].size = len
          BY <1>7, <1>10, <3>3
        <4> QED BY <1>6, <2>5, <3>3, <4>1
      <3> QED BY <3>1, <3>2, <3>3
    <2>7. AllButLastFull'
      BY <1>2, <2>6 DEF AllButLastFull
    <2> QED BY <2>4, <2>7
  <1>15. at' \notin {"iovec", "aborted"}
    BY <1>1
  <1> QED BY <1>2, <1>3, <1>10, <1>12, <1>13, <1>14, <1>15 DEF SplitInv

\* What is left of a buffer, and its bytes.
LEMMA RestIs ==
    ASSUME SplitInv, at = "iovec", cur <= Len(iovec)
    PROVE  /\ cur \in 1..Len(iovec) /\ iovec[cur] \in Nat /\ iovec[cur] <= MaxSize
           /\ off <= iovec[cur]
           /\ Rest = PieceAt(cur, off, iovec[cur] - off)
           /\ Rest \in Piece /\ Rest.len = iovec[cur] - off /\ Rest.len \in Nat
           /\ \A n \in Nat : [Rest EXCEPT !.len = n] = PieceAt(cur, off, n)
           /\ BytesUpto(parts, Len(parts)) \o PiecesBytes(vecs) =
                  BuffersUpto(iovec, cur - 1) \o Taken(cur, off)
           /\ BuffersUpto(iovec, cur - 1) \in Seq(Byte)
           /\ BuffersUpto(iovec, cur) = BuffersUpto(iovec, cur - 1) \o Taken(cur, iovec[cur])
  <1>1. IovecTurns
    BY DEF SplitInv
  <1>2. off <= iovec[cur]
    BY <1>1 DEF IovecTurns
  <1>3. cur \in 1..Len(iovec) /\ iovec[cur] \in Nat /\ iovec[cur] <= MaxSize /\ off \in Nat
    BY SplitFacts
  <1>4. iovec[cur] - off \in Nat
    BY <1>2, <1>3
  <1>5. Rest \in Piece /\ Rest.len = iovec[cur] - off
    BY <1>3, <1>4 DEF Rest, Piece
  <1>6. \A n \in Nat : [Rest EXCEPT !.len = n] = PieceAt(cur, off, n)
    BY DEF Rest, PieceAt
  <1>7. iovec \in Seq(Nat) /\ Len(iovec) \in Nat
    BY SplitFacts
  <1>8. cur - 1 \in 0..Len(iovec) /\ cur - 1 < Len(iovec) /\ cur - 1 + 1 = cur
    BY <1>3, <1>7
  <1>9. /\ BuffersUpto(iovec, cur - 1) \in Seq(Byte)
        /\ BuffersUpto(iovec, cur - 1 + 1) =
               BuffersUpto(iovec, cur - 1) \o Taken(cur - 1 + 1, iovec[cur - 1 + 1])
    BY <1>7, <1>8, BuffersStep
  <1>10. BuffersUpto(iovec, cur) = BuffersUpto(iovec, cur - 1) \o Taken(cur, iovec[cur])
    BY <1>8, <1>9
  <1>11. BytesUpto(parts, Len(parts)) \o PiecesBytes(vecs) =
             BuffersUpto(iovec, cur - 1) \o Taken(cur, off)
    BY <1>1 DEF IovecTurns
  <1> QED BY <1>2, <1>3, <1>4, <1>5, <1>6, <1>9, <1>10, <1>11 DEF Rest, PieceAt

LEMMA BytesAssociative ==
    \A s, t, u \in Seq(Byte) : (s \o t) \o u = s \o (t \o u)
  BY ConcatAssociative

\* What is taken next goes behind what has been taken, on both sides.
Behind(s, t) == s \o t

LEMMA TakeOn ==
    ASSUME NEW a \in Seq(Byte), NEW v \in Seq(Byte), NEW x \in Seq(Byte),
           NEW r \in Seq(Byte), NEW t \in Seq(Byte), NEW u,
           Behind(a, v) = Behind(r, t), Behind(t, x) = u
    PROVE  Behind(a, Behind(v, x)) = Behind(r, u)
  <1>1. a \o (v \o x) = (a \o v) \o x
    BY BytesAssociative
  <1>2. (r \o t) \o x = r \o (t \o x)
    BY BytesAssociative
  <1> QED BY <1>1, <1>2 DEF Behind

LEMMA TakeRestKeeps ==
    ASSUME SplitInv, TakeRest
    PROVE  SplitInv'
  <1>1. /\ at = "iovec" /\ cur <= Len(iovec) /\ Rest.len <= remaining
        /\ vecs' = Append(vecs, Rest) /\ remaining' = remaining - Rest.len
        /\ cur' = cur + 1 /\ off' = 0
        /\ UNCHANGED request /\ at' = at /\ pos' = pos /\ parts' = parts
    BY DEF TakeRest
  <1>2. /\ op' = op /\ iovec' = iovec /\ max_length' = max_length
        /\ RequestBytes' = RequestBytes /\ RequestType' = RequestType
    BY <1>1, SameRequest
  <1>3. AllFull(parts, max_length) /\ IovecTurns /\ Placed(parts, max_length)
        /\ TypeOK /\ RequestType
    BY <1>1 DEF SplitInv
  <1> DEFINE a == BytesUpto(parts, Len(parts))
             r == BuffersUpto(iovec, cur - 1)
             l == iovec[cur] - off
  <1>4. /\ cur \in 1..Len(iovec) /\ iovec[cur] \in Nat /\ off <= iovec[cur]
        /\ Rest = PieceAt(cur, off, l)
        /\ Rest \in Piece /\ Rest.len = l /\ l \in Nat
        /\ a \o PiecesBytes(vecs) = r \o Taken(cur, off) /\ r \in Seq(Byte)
        /\ BuffersUpto(iovec, cur) = r \o Taken(cur, iovec[cur])
    BY <1>1, RestIs
  <1>5. /\ Len(iovec) \in Nat /\ max_length \in Nat /\ cur \in Nat \ {0} /\ off \in Nat
        /\ remaining \in Nat /\ remaining <= max_length /\ MaxSize \in Nat
        /\ vecs \in Seq(Piece) /\ PiecesBytes(vecs) \in Seq(Byte) /\ a \in Seq(Byte)
        /\ \A b \in 1..Len(iovec) : iovec[b] \in Nat
    BY SplitFacts
  <1> HIDE DEF a, r
  <1>6. /\ l \in Nat /\ off + l = iovec[cur] /\ l <= remaining
        /\ remaining' = remaining - l /\ (off < iovec[cur] => l > 0)
    <2>1. l <= remaining /\ remaining' = remaining - l
      BY <1>1, <1>4
    <2>2. iovec[cur] \in Nat /\ off \in Nat /\ off <= iovec[cur]
      BY <1>4, <1>5
    <2> QED BY <2>1, <2>2
  <1> HIDE DEF l
  <1>7. /\ vecs' \in Seq(Piece) /\ vecs' # <<>>
        /\ PiecesBytes(vecs') = PiecesBytes(vecs) \o BytesOf(Rest)
        /\ BytesOf(Rest) \in Seq(Byte) /\ Len(BytesOf(Rest)) = l
    <2>1. vecs \in Seq(Piece) /\ Rest \in Piece /\ Rest.len = l /\ vecs' = Append(vecs, Rest)
      BY <1>1, <1>4, <1>5
    <2>2. vecs' \in Seq(Piece) /\ vecs' # <<>>
      BY <2>1, AppendProperties
    <2> QED BY <2>1, <2>2, PiecesStep, BytesOfPiece
  <1>8. a \o PiecesBytes(vecs') = BuffersUpto(iovec, cur)
    <2> DEFINE v == PiecesBytes(vecs)
    <2>1. v \in Seq(Byte) /\ a \in Seq(Byte) /\ r \in Seq(Byte)
          /\ cur \in Nat \ {0} /\ off \in Nat /\ l \in Nat
          /\ a \o v = r \o Taken(cur, off)
      BY <1>4, <1>5, <1>6
    <2>2. Taken(cur, off) \in Seq(Byte)
          /\ Taken(cur, off) \o BytesOf(Rest) = Taken(cur, iovec[cur])
      BY <1>4, <1>6, <2>1, TakenMore
    <2> HIDE DEF v
    <2>3. Behind(a, v) = Behind(r, Taken(cur, off))
          /\ Behind(Taken(cur, off), BytesOf(Rest)) = Taken(cur, iovec[cur])
      BY <2>1, <2>2 DEF Behind
    <2>4. Behind(a, Behind(v, BytesOf(Rest))) = Behind(r, Taken(cur, iovec[cur]))
      BY <1>7, <2>1, <2>2, <2>3, TakeOn
    <2> QED BY <1>4, <1>7, <2>4 DEF v, Behind
  <1>9. Taken(cur + 1, 0) = <<>> /\ cur' - 1 = cur
    BY <1>1, <1>5, TakenNone
  <1>10. BuffersUpto(iovec, cur) \in Seq(Byte)
    <2>1. iovec \in Seq(Nat) /\ cur \in 0..Len(iovec)
      BY <1>4, SplitFacts
    <2> QED BY <2>1, BuffersStep
  <1>11. a \o PiecesBytes(vecs') = BuffersUpto(iovec, cur' - 1) \o Taken(cur', off')
    BY <1>1, <1>8, <1>9, <1>10, ConcatEmptySeq
  <1>12. Len(PiecesBytes(vecs)) + remaining = max_length /\ pos = Len(a)
         /\ (vecs # <<>> /\ parts # <<>> => remaining < max_length)
         /\ (vecs = <<>> /\ parts # <<>> => off < iovec[cur])
    BY <1>3 DEF IovecTurns, a
  <1>13. remaining' \in 0..max_length /\ remaining' <= remaining
    <2>1. remaining \in Nat /\ remaining <= max_length /\ max_length \in Nat
      BY <1>5
    <2> QED BY <1>6, <2>1
  <1>14. Len(PiecesBytes(vecs')) + remaining' = max_length
    <2>1. Len(PiecesBytes(vecs')) = Len(PiecesBytes(vecs)) + l
      BY <1>5, <1>7, ConcatProperties
    <2>2. Len(PiecesBytes(vecs)) \in Nat
      BY <1>5, LenProperties
    <2>3. remaining \in Nat /\ max_length \in Nat /\ remaining' = remaining - l /\ l \in Nat
          /\ Len(PiecesBytes(vecs)) + remaining = max_length
      BY <1>5, <1>12, <1>6
    <2> QED BY <2>1, <2>2, <2>3
  <1>15. parts # <<>> => remaining' < max_length
    <2>1. CASE vecs # <<>>
      BY <1>5, <1>12, <1>13, <2>1
    <2>2. CASE vecs = <<>>
      <3> SUFFICES ASSUME parts # <<>> PROVE remaining' < max_length
        OBVIOUS
      <3>1. off < iovec[cur]
        BY <1>12, <2>2
      <3>2. remaining \in Nat /\ max_length \in Nat /\ remaining <= max_length
            /\ l \in Nat /\ l > 0 /\ remaining' = remaining - l
        BY <1>5, <1>6, <3>1
      <3> QED BY <3>2
    <2> QED BY <2>1, <2>2
  <1>16. cur' <= Len(iovec) => off' <= iovec[cur']
    <2> SUFFICES ASSUME cur' <= Len(iovec) PROVE 0 <= iovec[cur']
      BY <1>1
    <2>1. cur' \in 1..Len(iovec)
      BY <1>1, <1>5
    <2>2. iovec[cur'] \in Nat
      BY <1>5, <2>1
    <2> QED BY <2>2
  <1>17. a = BytesUpto(parts', Len(parts'))
    BY <1>1 DEF a
  <1>18. IovecTurns'
    BY <1>1, <1>2, <1>7, <1>11, <1>12, <1>14, <1>15, <1>16, <1>17 DEF IovecTurns
  <1>19. TypeOK'
    <2>1. cur' \in 1..(Len(iovec) + 1) /\ off' \in 0..MaxSize
      BY <1>1, <1>4, <1>5
    <2>2. at' \in {"buffer", "iovec", "done", "aborted"} /\ pos' \in Nat /\ parts' \in Seq(Part)
      BY <1>1, <1>3 DEF TypeOK
    <2> QED BY <1>2, <1>7, <1>13, <2>1, <2>2 DEF TypeOK
  <1>20. at' = "iovec"
    BY <1>1
  <1> QED BY <1>1, <1>2, <1>3, <1>18, <1>19, <1>20 DEF SplitInv

LEMMA CutBufferKeeps ==
    ASSUME SplitInv, CutBuffer
    PROVE  SplitInv'
  <1> DEFINE piece == PieceAt(cur, off, remaining)
             last == IF remaining > 0 THEN <<[Rest EXCEPT !.len = remaining]>> ELSE <<>>
             p == SubReqIovec(max_length, vecs \o last)
             a == BytesUpto(parts, Len(parts))
             r == BuffersUpto(iovec, cur - 1)
             l == iovec[cur] - off
  <1>1. /\ at = "iovec" /\ cur <= Len(iovec) /\ Rest.len > remaining
        /\ parts' = Append(parts, p)
        /\ off' = off + remaining /\ pos' = pos + max_length
        /\ vecs' = <<>> /\ remaining' = max_length
        /\ UNCHANGED request /\ at' = at /\ cur' = cur
    BY DEF CutBuffer
  <1>2. /\ op' = op /\ iovec' = iovec /\ max_length' = max_length
        /\ RequestBytes' = RequestBytes /\ RequestType' = RequestType
    BY <1>1, SameRequest
  <1>3. AllFull(parts, max_length) /\ IovecTurns /\ Placed(parts, max_length)
        /\ TypeOK /\ RequestType
    BY <1>1 DEF SplitInv
  <1>4. /\ cur \in 1..Len(iovec) /\ iovec[cur] \in Nat /\ off <= iovec[cur]
        /\ iovec[cur] <= MaxSize /\ Rest.len = l
        /\ \A n \in Nat : [Rest EXCEPT !.len = n] = PieceAt(cur, off, n)
        /\ a \o PiecesBytes(vecs) = r \o Taken(cur, off) /\ r \in Seq(Byte)
    BY <1>1, RestIs
  <1>5. /\ Len(iovec) \in Nat /\ max_length \in Nat \ {0} /\ cur \in Nat \ {0} /\ off \in Nat
        /\ remaining \in Nat /\ remaining <= max_length /\ pos \in Nat /\ MaxSize \in Nat
        /\ vecs \in Seq(Piece) /\ PiecesBytes(vecs) \in Seq(Byte) /\ a \in Seq(Byte)
        /\ parts \in Seq(Part) /\ Len(parts) \in Nat
    BY SplitFacts
  <1>6. Len(PiecesBytes(vecs)) + remaining = max_length /\ pos = Len(a)
    BY <1>3 DEF IovecTurns, a
  <1>7. off + remaining < iovec[cur] /\ off + remaining \in Nat
    <2>1. l > remaining /\ iovec[cur] \in Nat /\ off \in Nat /\ remaining \in Nat
      BY <1>1, <1>4, <1>5
    <2> QED BY <2>1
  <1>8. piece \in Piece /\ BytesOf(piece) \in Seq(Byte) /\ Len(BytesOf(piece)) = remaining
    <2>1. piece \in Piece
      BY <1>5 DEF Piece, PieceAt
    <2>2. piece.len = remaining
      BY DEF PieceAt
    <2> QED BY <2>1, <2>2, BytesOfPiece
  <1>9. /\ vecs \o last \in Seq(Piece)
        /\ PiecesBytes(vecs \o last) = PiecesBytes(vecs) \o BytesOf(piece)
    <2>1. CASE remaining > 0
      <3>1. last = <<piece>>
        BY <1>4, <1>5, <2>1
      <3>2. vecs \o <<piece>> = Append(vecs, piece) /\ Append(vecs, piece) \in Seq(Piece)
        BY <1>5, <1>8, AppendIsConcat, AppendProperties
      <3> HIDE DEF last, piece
      <3> QED BY <1>5, <1>8, <3>1, <3>2, PiecesStep
    <2>2. CASE ~ (remaining > 0)
      <3>1. last = <<>> /\ remaining = 0
        BY <1>5, <2>2
      <3>2. Len(BytesOf(piece)) = 0 /\ BytesOf(piece) \in Seq(Byte)
        BY <1>8, <3>1
      <3>3. BytesOf(piece) = <<>>
        BY <3>2, EmptySeq
      <3> HIDE DEF last, piece
      <3> QED BY <1>5, <3>1, <3>3, ConcatEmptySeq
    <2> QED BY <2>1, <2>2
  <1>10. /\ p \in Part /\ p.pos = pos /\ p.size = max_length /\ p.iovecs = vecs \o last
    BY <1>5, <1>9 DEF SubReqIovec, Part
  <1> HIDE DEF a, r, p, last, l
  <1>11. BytesOfPart(p) = PiecesBytes(vecs) \o BytesOf(piece)
    BY <1>9, <1>10, PartBytesAre
  <1>12. BytesOfPart(p) \in Seq(Byte) /\ Len(BytesOfPart(p)) = max_length
    <2>1. /\ PiecesBytes(vecs) \o BytesOf(piece) \in Seq(Byte)
          /\ Len(PiecesBytes(vecs) \o BytesOf(piece)) = Len(PiecesBytes(vecs)) + remaining
      BY <1>5, <1>8, ConcatProperties
    <2> QED BY <1>6, <1>11, <2>1
  <1>13. a \o BytesOfPart(p) = r \o Taken(cur, off + remaining)
    <2> DEFINE v == PiecesBytes(vecs)
    <2>1. v \in Seq(Byte) /\ a \in Seq(Byte) /\ r \in Seq(Byte)
          /\ cur \in Nat \ {0} /\ off \in Nat /\ remaining \in Nat
          /\ a \o v = r \o Taken(cur, off)
      BY <1>4, <1>5
    <2>2. Taken(cur, off) \in Seq(Byte)
          /\ Taken(cur, off) \o BytesOf(piece) = Taken(cur, off + remaining)
      BY <2>1, TakenMore
    <2> HIDE DEF v, piece
    <2>3. Behind(a, v) = Behind(r, Taken(cur, off))
          /\ Behind(Taken(cur, off), BytesOf(piece)) = Taken(cur, off + remaining)
      BY <2>1, <2>2 DEF Behind
    <2>4. Behind(a, Behind(v, BytesOf(piece))) = Behind(r, Taken(cur, off + remaining))
      BY <1>8, <2>1, <2>2, <2>3, TakeOn
    <2> QED BY <1>11, <2>4 DEF v, Behind
  <1>14. /\ parts' \in Seq(Part) /\ Len(parts') = Len(parts) + 1 /\ parts' # <<>>
         /\ Placed(parts', max_length) /\ AllFull(parts', max_length)
    <2>1. max_length \in Nat /\ p.size = Len(BytesOfPart(p)) /\ p.size <= max_length
      BY <1>5, <1>10, <1>12
    <2>2. p.pos = Len(BytesUpto(parts, Len(parts)))
      BY <1>6, <1>10 DEF a
    <2> QED BY <1>1, <1>3, <1>5, <1>10, <2>1, <2>2, PlacedStep
  <1>15. BytesUpto(parts', Len(parts')) = r \o Taken(cur, off + remaining)
    BY <1>1, <1>5, <1>10, <1>13, <1>14, PartsStep DEF a
  <1>16. pos' = Len(BytesUpto(parts', Len(parts')))
    <2>1. BytesUpto(parts', Len(parts')) = a \o BytesOfPart(p)
      BY <1>13, <1>15
    <2>2. Len(a \o BytesOfPart(p)) = Len(a) + max_length
      BY <1>5, <1>12, ConcatProperties
    <2> QED BY <1>1, <1>6, <2>1, <2>2
  <1>17. PiecesBytes(vecs') = <<>> /\ Len(PiecesBytes(vecs')) = 0 /\ vecs' \in Seq(Piece)
    BY <1>1, PiecesNone, EmptySeq
  <1>18. IovecTurns'
    <2>1. r \o Taken(cur, off + remaining) \in Seq(Byte)
      <3>1. off + remaining \in Nat
        BY <1>5
      <3>2. Taken(cur, off + remaining) \in Seq(Byte)
        BY <1>5, <3>1, TakenMore
      <3> QED BY <1>4, <3>2, ConcatProperties
    <2>2. BytesUpto(parts', Len(parts')) \o PiecesBytes(vecs') =
              BuffersUpto(iovec', cur' - 1) \o Taken(cur', off')
      BY <1>1, <1>2, <1>15, <1>17, <2>1, ConcatEmptySeq DEF r
    <2>3. Len(PiecesBytes(vecs')) + remaining' = max_length'
      <3>1. Len(PiecesBytes(vecs')) = 0 /\ remaining' = max_length' /\ max_length' \in Nat
        BY <1>1, <1>2, <1>5, <1>17
      <3>2. ASSUME NEW x, NEW y, NEW z, x = 0, y = z, z \in Nat PROVE x + y = z
        BY <3>2
      <3> QED BY <3>1, <3>2
    <2>4. cur' <= Len(iovec') /\ off' < iovec'[cur'] /\ off' <= iovec'[cur']
      <3>1. off + remaining <= iovec[cur]
        <4>1. iovec[cur] \in Nat
          BY <1>4
        <4> QED BY <1>7, <4>1
      <3> QED BY <1>1, <1>2, <1>7, <3>1
    <2>5. ~ (cur' > Len(iovec'))
      <3>1. cur \in Nat /\ Len(iovec) \in Nat /\ cur <= Len(iovec)
        BY <1>1, <1>5
      <3>2. ~ (cur > Len(iovec))
        BY <3>1
      <3> QED BY <1>1, <1>2, <3>2
    <2> QED BY <1>1, <1>14, <1>16, <2>2, <2>3, <2>4, <2>5 DEF IovecTurns
  <1>19. TypeOK'
    <2>1. off' \in 0..MaxSize /\ pos' \in Nat /\ remaining' \in 0..max_length'
      <3>1. /\ off' \in Nat /\ off' < iovec[cur] /\ iovec[cur] \in Nat /\ iovec[cur] <= MaxSize
            /\ MaxSize \in Nat
        BY <1>1, <1>4, <1>5, <1>7
      <3>2. /\ pos \in Nat /\ max_length \in Nat /\ pos' = pos + max_length
            /\ remaining' = max_length'  /\ max_length' \in Nat
        BY <1>1, <1>2, <1>5
      <3> QED BY <3>1, <3>2
    <2>2. at' \in {"buffer", "iovec", "done", "aborted"} /\ cur' \in 1..(Len(iovec') + 1)
      BY <1>1, <1>2, <1>3 DEF TypeOK
    <2> QED BY <1>14, <1>17, <2>1, <2>2 DEF TypeOK
  <1>20. at' = "iovec"
    BY <1>1
  <1> QED BY <1>2, <1>3, <1>14, <1>18, <1>19, <1>20 DEF SplitInv

LEMMA LastPartKeeps ==
    ASSUME SplitInv, LastPart
    PROVE  SplitInv'
  <1> DEFINE p == SubReqIovec(max_length - remaining, vecs)
             a == BytesUpto(parts, Len(parts))
  <1>1. /\ at = "iovec" /\ cur > Len(iovec)
        /\ parts' = (IF vecs = <<>> THEN parts ELSE Append(parts, p))
        /\ at' = "done" /\ UNCHANGED request
        /\ cur' = cur /\ off' = off /\ pos' = pos /\ remaining' = remaining /\ vecs' = vecs
    BY DEF LastPart
  <1>2. /\ op' = op /\ iovec' = iovec /\ max_length' = max_length
        /\ RequestBytes' = RequestBytes /\ RequestType' = RequestType
    BY <1>1, SameRequest
  <1>3. AllFull(parts, max_length) /\ IovecTurns /\ Placed(parts, max_length)
        /\ TypeOK /\ RequestType
    BY <1>1 DEF SplitInv
  <1>4. /\ Len(iovec) \in Nat /\ max_length \in Nat \ {0} /\ cur \in Nat \ {0}
        /\ cur <= Len(iovec) + 1
        /\ remaining \in Nat /\ remaining <= max_length /\ pos \in Nat
        /\ vecs \in Seq(Piece) /\ PiecesBytes(vecs) \in Seq(Byte) /\ a \in Seq(Byte)
        /\ parts \in Seq(Part) /\ Len(parts) \in Nat
    BY SplitFacts
  <1>5. /\ off = 0 /\ a \o PiecesBytes(vecs) = BuffersUpto(iovec, cur - 1) \o Taken(cur, off)
        /\ Len(PiecesBytes(vecs)) + remaining = max_length /\ pos = Len(a)
        /\ vecs # <<>> /\ parts # <<>> => remaining < max_length
    BY <1>1, <1>3 DEF IovecTurns
  <1>6. a \o PiecesBytes(vecs) = RequestBytes
    <2>1. cur - 1 = Len(iovec) /\ Len(iovec) \in 0..Len(iovec) /\ iovec \in Seq(Nat)
      BY <1>1, <1>4, SplitFacts
    <2>2. Taken(cur, off) = <<>> /\ BuffersUpto(iovec, Len(iovec)) \in Seq(Byte)
      BY <1>4, <1>5, <2>1, TakenNone, BuffersStep
    <2> QED BY <1>5, <2>1, <2>2, ConcatEmptySeq, RequestIs
  <1>7. TypeOK' <=> parts' \in Seq(Part)
    BY <1>1, <1>2, <1>3 DEF TypeOK
  <1> SUFFICES parts' \in Seq(Part) /\ Placed(parts', max_length) /\ AllButLastFull'
               /\ BytesUpto(parts', Len(parts')) = RequestBytes
    BY <1>1, <1>2, <1>3, <1>7 DEF SplitInv
  <1>8. ASSUME NEW k \in 1..Len(parts) PROVE parts[k].size = max_length /\ parts[k].size > 0
    BY <1>3, <1>4 DEF AllFull
  <1>9. CASE vecs = <<>>
    <2>1. a = RequestBytes
      BY <1>4, <1>6, <1>9, PiecesNone, ConcatEmptySeq
    <2>2. parts' = parts
      BY <1>1, <1>9
    <2>3. AllButLastFull'
      BY <1>2, <1>8, <2>2 DEF AllButLastFull
    <2> QED BY <1>3, <1>4, <2>1, <2>2, <2>3
  <1>10. CASE vecs # <<>>
    <2>1. p \in Part /\ p.pos = pos /\ p.size = max_length - remaining /\ p.iovecs = vecs
      BY <1>4 DEF SubReqIovec, Part
    <2>2. parts' = Append(parts, p)
      BY <1>1, <1>10
    <2> HIDE DEF p
    <2>3. BytesOfPart(p) = PiecesBytes(vecs)
      BY <2>1, PartBytesAre
    <2>4. Len(PiecesBytes(vecs)) \in Nat
      BY <1>4, LenProperties
    <2>5. p.size = Len(BytesOfPart(p)) /\ p.size <= max_length /\ max_length \in Nat
      BY <1>4, <1>5, <2>1, <2>3, <2>4
    <2>6. /\ parts' \in Seq(Part) /\ Len(parts') = Len(parts) + 1
          /\ Placed(parts', max_length)
          /\ \A k \in 1..Len(parts) : parts'[k] = parts[k]
          /\ parts'[Len(parts) + 1] = p
      BY <1>3, <1>4, <1>5, <2>1, <2>2, <2>5, PlacedStep
    <2>7. BytesUpto(parts', Len(parts')) = RequestBytes
      BY <1>4, <1>6, <2>1, <2>2, <2>3, <2>6, PartsStep
    <2>8. RequestBytes # <<>> => p.size > 0
      <3>1. CASE parts # <<>>
        BY <1>4, <1>5, <1>10, <2>1, <3>1
      <3>2. CASE parts = <<>>
        <4>1. a = <<>>
          <5>1. 0 \in 0..Len(parts) /\ Len(parts) = 0
            BY <1>4, <3>2, EmptySeq
          <5> QED BY <1>4, <5>1, PartsType
        <4>2. RequestBytes = PiecesBytes(vecs)
          BY <1>4, <1>6, <4>1, ConcatEmptySeq
        <4>3. RequestBytes # <<>> => Len(PiecesBytes(vecs)) \in Nat \ {0}
          BY <1>4, <4>2, EmptySeq
        <4> QED BY <2>3, <2>5, <4>3
      <3> QED BY <3>1, <3>2
    <2>9. ASSUME NEW k \in 1..Len(parts')
          PROVE  /\ k < Len(parts') => parts'[k].size = max_length
                 /\ RequestBytes # <<>> => parts'[k].size > 0
      <3>1. k \in 1..Len(parts) \/ (k = Len(parts) + 1 /\ ~ (k < Len(parts')))
        BY <1>4, <2>6
      <3> QED BY <1>8, <2>6, <2>8, <3>1
    <2>10. AllButLastFull'
      BY <1>2, <2>9 DEF AllButLastFull
    <2> QED BY <2>6, <2>7, <2>10
  <1> QED BY <1>9, <1>10

LEMMA SplitStep == SplitInv /\ [AllNext]_allVars => SplitInv'
  <1> SUFFICES ASSUME SplitInv, [AllNext]_allVars PROVE SplitInv'
    OBVIOUS
  <1>1. CASE Next
    BY <1>1, BufferTurnKeeps, TakeRestKeeps, CutBufferKeeps, LastPartKeeps DEF Next
  <1>2. CASE UNCHANGED vars
    <2>1. /\ op' = op /\ iovec' = iovec /\ max_length' = max_length /\ at' = at
          /\ cur' = cur /\ off' = off /\ pos' = pos /\ remaining' = remaining
          /\ vecs' = vecs /\ parts' = parts
      BY <1>2 DEF vars, request
    <2>2. TypeOK' = TypeOK /\ RequestType' = RequestType
      BY <2>1 DEF TypeOK, RequestType
    <2>3. RequestBytes' = RequestBytes
      BY <2>1 DEF RequestBytes, BytesOf
    <2>4. AllButLastFull' = AllButLastFull
      BY <2>1, <2>3 DEF AllButLastFull
    <2>5. IovecTurns' = IovecTurns /\ BufferTurns' = BufferTurns
      BY <2>1 DEF IovecTurns, BufferTurns
    <2> QED BY <2>1, <2>2, <2>3, <2>4, <2>5 DEF SplitInv
  <1>3. Next \/ UNCHANGED vars
    BY DEF AllNext, OfSplit, OfHist, OfBin, OfPoint, allVars
  <1> QED BY <1>1, <1>2, <1>3

LEMMA SplitAlways == AllSpec => []SplitInv
  <1>1. AllInit => SplitInv
    BY SplitStart DEF AllInit
  <1> QED BY <1>1, SplitStep, PTL DEF AllSpec

(***************************************************************************)
(* Split's variables have their types: no offset is beyond its buffer, and *)
(* no part is asked for more than max_length bytes.                        *)
(***************************************************************************)
THEOREM SplitTypes == AllSpec => []TypeOK
  <1>1. SplitInv => TypeOK
    BY DEF SplitInv
  <1> QED BY <1>1, SplitAlways, PTL

(***************************************************************************)
(* Whatever the buffers and whatever max_length, the parts that Split      *)
(* returns hold every byte of the request once and in order, each part at  *)
(* the position in the file where its first byte belongs.                  *)
(***************************************************************************)
THEOREM SplitKeepsTheRequest == AllSpec => []PartsAreRequest
  <1>1. SplitInv => PartsAreRequest
    <2> SUFFICES ASSUME SplitInv, at = "done" PROVE PartsAreRequest
      BY DEF PartsAreRequest
    <2>1. BytesUpto(parts, Len(parts)) = RequestBytes /\ Placed(parts, max_length)
      BY DEF SplitInv
    <2>2. \A n : PartBytes(n) = BytesUpto(parts, n)
      BY DEF PartBytes, BytesUpto
    <2> QED BY <2>1, <2>2 DEF PartsAreRequest, Placed
  <1> QED BY <1>1, SplitAlways, PTL

(***************************************************************************)
(* At any time every part that is made holds what its size says, no more   *)
(* than max_length, all but the last exactly that, and none is empty       *)
(* unless the request is.                                                  *)
(***************************************************************************)
THEOREM SplitFillsTheParts == AllSpec => []PartsFull
  <1>1. SplitInv => PartsFull
    <2> SUFFICES ASSUME SplitInv PROVE PartsFull
      OBVIOUS
    <2>1. Placed(parts, max_length) /\ max_length \in Nat \ {0}
      BY SplitFacts DEF SplitInv
    <2>2. AllFull(parts, max_length) => AllButLastFull
      BY <2>1 DEF AllFull, AllButLastFull
    <2>3. at \in {"iovec", "buffer", "done"} => AllButLastFull
      BY <2>2 DEF SplitInv
    <2>4. at = "aborted" => AllButLastFull
      <3> SUFFICES ASSUME at = "aborted" PROVE AllButLastFull
        OBVIOUS
      <3>1. Len(parts) = 0
        BY EmptySeq DEF SplitInv
      <3> QED BY <3>1 DEF AllButLastFull
    <2>5. at \in {"buffer", "iovec", "done", "aborted"}
      BY DEF SplitInv, TypeOK
    <2>6. AllButLastFull
      BY <2>3, <2>4, <2>5
    <2> QED BY <2>1, <2>6 DEF PartsFull, Placed, AllButLastFull
  <1> QED BY <1>1, SplitAlways, PTL

(***************************************************************************)
(* The conversion.  A machine that swaps the bytes to write them keeps     *)
(* them swapped in memory: the two cancel.                                 *)
(***************************************************************************)
LEMMA ReverseTwice ==
    ASSUME NEW S, NEW s \in Seq(S)
    PROVE  Reverse(Reverse(s)) = s
  <1> DEFINE n == Len(s)
             r == Reverse(s)
             t == Reverse(r)
  <1>1. n \in Nat /\ s \in [1..n -> S]
    BY LenProperties
  <1> HIDE DEF n
  <1>2. r = [i \in 1..n |-> s[(n - i) + 1]]
    BY DEF Reverse, n
  <1>3. \A i \in 1..n : (n - i) + 1 \in 1..n
    BY <1>1
  <1>4. r \in [1..n -> S]
    BY <1>1, <1>2, <1>3
  <1>5. Len(r) = n
    BY <1>1, <1>4, LenOf
  <1>6. t = [i \in 1..n |-> r[(n - i) + 1]]
    BY <1>5 DEF Reverse
  <1> HIDE DEF r, t
  <1>7. ASSUME NEW i \in 1..n PROVE t[i] = s[i]
    <2>1. (n - ((n - i) + 1)) + 1 = i
      BY <1>1
    <2> QED BY <1>2, <1>3, <1>6, <2>1
  <1>8. t = s
    BY <1>1, <1>6, <1>7
  <1> QED BY <1>8 DEF t, r

BytesInv ==
    /\ value \in Seq(Bytes)
    /\ memory \in {Bin!Nothing, value}
    /\ result \in {Bin!Nothing, value}

LEMMA BytesAlways == AllSpec => []BytesInv
  <1>1. AllInit => BytesInv
    <2> SUFFICES ASSUME AllInit PROVE BytesInv
      OBVIOUS
    <2>1. Bin!Init
      BY DEF AllInit
    <2>2. PICK n \in ByteCounts : value \in [1..n -> Bytes]
      BY <2>1 DEF Bin!Init
    <2>3. n \in Nat
      BY AlgorithmsAssumption
    <2> QED BY <2>1, <2>2, <2>3, LenOf DEF BytesInv, Bin!Init
  <1>2. BytesInv /\ [AllNext]_allVars => BytesInv'
    <2> SUFFICES ASSUME BytesInv, [AllNext]_allVars PROVE BytesInv'
      OBVIOUS
    <2> USE DEF Bin!Nothing
    <2>1. Bin!Reverse(Bin!Reverse(value)) = value
      <3>1. \A s : Bin!Reverse(s) = Reverse(s)
        BY DEF Bin!Reverse, Reverse
      <3> QED BY <3>1, ReverseTwice DEF BytesInv
    <2>2. CASE Bin!SerializeLE
      BY <2>1, <2>2 DEF BytesInv, Bin!SerializeLE, Bin!ToLE, Bin!Memcpy
    <2>3. CASE Bin!DeserializeLE
      BY <2>1, <2>3 DEF BytesInv, Bin!DeserializeLE, Bin!ToLE, Bin!Memcpy
    <2>4. CASE UNCHANGED binVars
      BY <2>4 DEF BytesInv, binVars
    <2>5. Bin!SerializeLE \/ Bin!DeserializeLE \/ UNCHANGED binVars
      BY DEF AllNext, OfSplit, OfHist, OfBin, OfPoint, Bin!Next, allVars
    <2> QED BY <2>2, <2>3, <2>4, <2>5
  <1> QED BY <1>1, <1>2, PTL DEF AllSpec

(***************************************************************************)
(* Of a value of any width, written by a machine of either byte order and  *)
(* read by one of either, the bytes in memory are little-endian, and what  *)
(* is read is what was written.                                            *)
(***************************************************************************)
THEOREM BytesAreLittleEndian == AllSpec => []LittleEndian
  <1>1. BytesInv => LittleEndian
    BY DEF BytesInv, LittleEndian, Bin!LittleEndian
  <1> QED BY <1>1, BytesAlways, PTL

(***************************************************************************)
(* The sum of the values of a function on a finite set does not depend on  *)
(* the order in which the fold chooses the elements.                       *)
(***************************************************************************)
Some(s) == CHOOSE x \in s : TRUE

\* g holds the sums of f on the sets of D.
Sums(f, D, g) == g = [s \in D |-> IF s = {} THEN 0 ELSE f[Some(s)] + g[s \ {Some(s)}]]

Small(S, n) == {s \in SUBSET S : Cardinality(s) <= n}

LEMMA SomeIn ==
    ASSUME NEW S, IsFiniteSet(S), S # {}
    PROVE  /\ Some(S) \in S /\ S \ {Some(S)} \in SUBSET S
           /\ IsFiniteSet(S \ {Some(S)})
           /\ Cardinality(S) \in Nat \ {0} /\ Cardinality(S \ {Some(S)}) = Cardinality(S) - 1
  <1>1. Some(S) \in S
    BY DEF Some
  <1>2. Cardinality(S) \in Nat /\ Cardinality(S) # 0
    BY FS_CardinalityType, FS_EmptySet
  <1> QED BY <1>1, <1>2, FS_RemoveElement

LEMMA SubsetInduction ==
    ASSUME NEW S, IsFiniteSet(S), NEW Q, {} \in Q,
           \A s \in SUBSET S : s # {} /\ (\A x \in s : s \ {x} \in Q) => s \in Q
    PROVE  SUBSET S \subseteq Q
  <1> DEFINE T == {n \in Nat : \A s \in SUBSET S : Cardinality(s) = n => s \in Q}
  <1>1. 0 \in T
    <2>1. \A s \in SUBSET S : Cardinality(s) = 0 => s = {}
      BY FS_Subset, FS_EmptySet
    <2> QED BY <2>1
  <1>2. ASSUME NEW n \in T PROVE n + 1 \in T
    <2> SUFFICES ASSUME NEW s \in SUBSET S, Cardinality(s) = n + 1 PROVE s \in Q
      OBVIOUS
    <2>1. n \in Nat /\ n + 1 # 0 /\ n + 1 - 1 = n
      OBVIOUS
    <2>2. IsFiniteSet(s)
      BY FS_Subset
    <2>3. s # {}
      BY <2>1, FS_EmptySet
    <2>4. ASSUME NEW x \in s PROVE s \ {x} \in Q
      <3>1. Cardinality(s \ {x}) = Cardinality(s) - 1
        BY <2>2, FS_RemoveElement
      <3>2. Cardinality(s \ {x}) = n /\ s \ {x} \in SUBSET S
        BY <2>1, <3>1
      <3> QED BY <3>2
    <2> QED BY <2>3, <2>4
  <1>3. T \subseteq Nat
    OBVIOUS
  <1> HIDE DEF T
  <1>4. T = Nat
    BY <1>1, <1>2, <1>3, Induction
  <1>5. ASSUME NEW s \in SUBSET S PROVE s \in Q
    <2>1. Cardinality(s) \in T
      BY <1>4, FS_Subset, FS_CardinalityType
    <2> QED BY <2>1 DEF T
  <1> QED BY <1>5

LEMMA SumsExist ==
    ASSUME NEW S, IsFiniteSet(S), NEW f
    PROVE  \E g : Sums(f, SUBSET S, g)
  <1> DEFINE T == {n \in Nat : \E g : Sums(f, Small(S, n), g)}
  <1>1. 0 \in T
    <2> DEFINE e == [s \in Small(S, 0) |-> 0]
    <2>1. \A s \in Small(S, 0) : s = {}
      <3>1. \A s \in Small(S, 0) : s \in SUBSET S /\ Cardinality(s) <= 0
        BY DEF Small
      <3>2. \A s \in SUBSET S : IsFiniteSet(s) /\ Cardinality(s) \in Nat
        BY FS_Subset, FS_CardinalityType
      <3>3. \A s \in Small(S, 0) : IsFiniteSet(s) /\ Cardinality(s) = 0
        BY <3>1, <3>2
      <3> QED BY <3>3, FS_EmptySet
    <2>2. e = [s \in Small(S, 0) |-> IF s = {} THEN 0 ELSE f[Some(s)] + e[s \ {Some(s)}]]
      BY <2>1
    <2> HIDE DEF e
    <2>3. Sums(f, Small(S, 0), e)
      BY <2>2 DEF Sums
    <2> QED BY <2>3
  <1>2. ASSUME NEW n \in T PROVE n + 1 \in T
    <2>1. n \in Nat /\ \E g : Sums(f, Small(S, n), g)
      OBVIOUS
    <2>2. PICK g : Sums(f, Small(S, n), g)
      BY <2>1
    <2> DEFINE D == Small(S, n)
               E == Small(S, n + 1)
               F(s) == IF s = {} THEN 0 ELSE f[Some(s)] + g[s \ {Some(s)}]
               h == [s \in E |-> IF s \in D THEN g[s] ELSE F(s)]
    <2>3. ASSUME NEW s \in E, s # {} PROVE s \ {Some(s)} \in D /\ s \ {Some(s)} \in E
      <3>1. s \in SUBSET S /\ Cardinality(s) <= n + 1
        BY DEF Small
      <3>2. IsFiniteSet(s)
        BY <3>1, FS_Subset
      <3>3. /\ s \ {Some(s)} \in SUBSET S /\ Cardinality(s) \in Nat
            /\ Cardinality(s \ {Some(s)}) = Cardinality(s) - 1
        BY <2>3, <3>1, <3>2, SomeIn
      <3>4. Cardinality(s \ {Some(s)}) <= n /\ Cardinality(s \ {Some(s)}) <= n + 1
        BY <2>1, <3>1, <3>3
      <3> QED BY <3>3, <3>4 DEF Small
    <2>4. ASSUME NEW s \in D PROVE g[s] = F(s)
      <3> DEFINE k == [t \in D |-> IF t = {} THEN 0 ELSE f[Some(t)] + g[t \ {Some(t)}]]
      <3>1. g = k
        BY <2>2 DEF Sums
      <3>2. k[s] = F(s)
        OBVIOUS
      <3> HIDE DEF k, D, F
      <3> QED BY <3>1, <3>2
    <2>5. ASSUME NEW s \in E
          PROVE  h[s] = IF s = {} THEN 0 ELSE f[Some(s)] + h[s \ {Some(s)}]
      <3>1. h[s] = F(s)
        BY <2>4
      <3>2. s # {} => h[s \ {Some(s)}] = g[s \ {Some(s)}]
        BY <2>3
      <3> HIDE DEF h
      <3> QED BY <3>1, <3>2
    <2>6. h = [s \in E |-> h[s]]
      OBVIOUS
    <2> HIDE DEF h, E
    <2>7. h = [s \in E |-> IF s = {} THEN 0 ELSE f[Some(s)] + h[s \ {Some(s)}]]
      BY <2>5, <2>6
    <2>8. Sums(f, Small(S, n + 1), h)
      BY <2>7 DEF Sums, E
    <2>9. n + 1 \in Nat
      BY <2>1
    <2> QED BY <2>8, <2>9
  <1>3. T \subseteq Nat
    OBVIOUS
  <1> HIDE DEF T
  <1>4. T = Nat
    BY <1>1, <1>2, <1>3, Induction
  <1>5. Cardinality(S) \in T
    BY <1>4, FS_CardinalityType
  <1>6. Small(S, Cardinality(S)) = SUBSET S
    BY FS_Subset DEF Small
  <1> QED BY <1>5, <1>6 DEF T

LEMMA SumsAt ==
    ASSUME NEW f, NEW D, NEW g, Sums(f, D, g), NEW s \in D
    PROVE  g[s] = IF s = {} THEN 0 ELSE f[Some(s)] + g[s \ {Some(s)}]
  <1> DEFINE k == [t \in D |-> IF t = {} THEN 0 ELSE f[Some(t)] + g[t \ {Some(t)}]]
  <1>1. g = k
    BY DEF Sums
  <1>2. k[s] = IF s = {} THEN 0 ELSE f[Some(s)] + g[s \ {Some(s)}]
    OBVIOUS
  <1> HIDE DEF k
  <1> QED BY <1>1, <1>2

LEMMA SumsAgree ==
    ASSUME NEW S, NEW U, IsFiniteSet(S), S \subseteq U, NEW f, NEW g, NEW h,
           Sums(f, SUBSET S, g), Sums(f, SUBSET U, h)
    PROVE  g[S] = h[S]
  <1> DEFINE Q == {s \in SUBSET S : g[s] = h[s]}
  <1>1. {} \in Q
    <2>1. g[{}] = 0 /\ h[{}] = 0
      BY SumsAt
    <2> QED BY <2>1
  <1>2. ASSUME NEW s \in SUBSET S, s # {}, \A x \in s : s \ {x} \in Q PROVE s \in Q
    <2>1. IsFiniteSet(s)
      BY FS_Subset
    <2>2. Some(s) \in s
      BY <1>2, <2>1, SomeIn
    <2>3. g[s \ {Some(s)}] = h[s \ {Some(s)}]
      BY <1>2, <2>2
    <2>4. g[s] = IF s = {} THEN 0 ELSE f[Some(s)] + g[s \ {Some(s)}]
      BY SumsAt
    <2> DEFINE W == SUBSET U
    <2>5. s \in W /\ Sums(f, W, h)
      OBVIOUS
    <2> HIDE DEF W
    <2>6. h[s] = IF s = {} THEN 0 ELSE f[Some(s)] + h[s \ {Some(s)}]
      BY <2>5, SumsAt
    <2> QED BY <1>2, <2>3, <2>4, <2>6
  <1> HIDE DEF Q
  <1>3. SUBSET S \subseteq Q
    BY <1>1, <1>2, SubsetInduction
  <1>4. S \in Q
    BY <1>3
  <1> QED BY <1>4 DEF Q

\* The sum on S: what the fold of the library gives.
Total(f, S) == SumFunctionOnSet(f, S)

LEMMA TotalIs ==
    ASSUME NEW S, IsFiniteSet(S), NEW f
    PROVE  \E g : Sums(f, SUBSET S, g) /\ Total(f, S) = g[S]
  <1> DEFINE h == CHOOSE g : g = [s \in SUBSET S |->
                      IF s = {} THEN 0
                      ELSE LET x == CHOOSE x \in s : TRUE IN f[x] + g[s \ {x}]]
  <1>1. \E g : g = [s \in SUBSET S |->
                      IF s = {} THEN 0
                      ELSE LET x == CHOOSE x \in s : TRUE IN f[x] + g[s \ {x}]]
    <2>1. PICK g : Sums(f, SUBSET S, g)
      BY SumsExist
    <2>2. g = [s \in SUBSET S |->
                 IF s = {} THEN 0
                 ELSE LET x == CHOOSE x \in s : TRUE IN f[x] + g[s \ {x}]]
      BY <2>1 DEF Sums, Some
    <2> QED BY <2>2
  <1>2. Sums(f, SUBSET S, h)
    BY <1>1 DEF Sums, Some
  <1>3. Total(f, S) = h[S]
    BY DEF Total, SumFunctionOnSet, FoldFunctionOnSet, MapThenFoldSet
  <1> QED BY <1>2, <1>3

LEMMA TotalNone == ASSUME NEW f PROVE Total(f, {}) = 0
  <1>1. IsFiniteSet({}) /\ {} \in SUBSET {}
    BY FS_EmptySet
  <1>2. PICK g : Sums(f, SUBSET {}, g) /\ Total(f, {}) = g[{}]
    BY <1>1, TotalIs
  <1> QED BY <1>1, <1>2, SumsAt

LEMMA TotalStep ==
    ASSUME NEW S, IsFiniteSet(S), NEW f, S # {}
    PROVE  Total(f, S) = f[Some(S)] + Total(f, S \ {Some(S)})
  <1> DEFINE R == S \ {Some(S)}
  <1>1. IsFiniteSet(R) /\ R \subseteq S /\ R \in SUBSET R /\ S \in SUBSET S
    BY SomeIn
  <1>2. PICK g : Sums(f, SUBSET S, g) /\ Total(f, S) = g[S]
    BY TotalIs
  <1>3. PICK h : Sums(f, SUBSET R, h) /\ Total(f, R) = h[R]
    BY <1>1, TotalIs
  <1>4. h[R] = g[R]
    <2>1. Sums(f, SUBSET S, g) /\ Sums(f, SUBSET R, h) /\ IsFiniteSet(R) /\ R \subseteq S
      BY <1>1, <1>2, <1>3
    <2> HIDE DEF R
    <2> QED BY <2>1, SumsAgree
  <1>5. g[S] = IF S = {} THEN 0 ELSE f[Some(S)] + g[R]
    BY <1>1, <1>2, SumsAt
  <1> QED BY <1>2, <1>3, <1>4, <1>5

LEMMA TotalType ==
    ASSUME NEW S, IsFiniteSet(S), NEW f, \A x \in S : f[x] \in Int
    PROVE  Total(f, S) \in Int
  <1> DEFINE Q == {s \in SUBSET S : Total(f, s) \in Int}
  <1>1. {} \in Q
    BY TotalNone
  <1>2. ASSUME NEW s \in SUBSET S, s # {}, \A x \in s : s \ {x} \in Q PROVE s \in Q
    <2>1. IsFiniteSet(s)
      BY FS_Subset
    <2>2. Some(s) \in s
      BY <1>2, <2>1, SomeIn
    <2>3. Total(f, s) = f[Some(s)] + Total(f, s \ {Some(s)})
      BY <1>2, <2>1, TotalStep
    <2>4. Total(f, s \ {Some(s)}) \in Int /\ f[Some(s)] \in Int
      BY <1>2, <2>2
    <2>5. Total(f, s) \in Int
      BY <2>3, <2>4
    <2> QED BY <2>5
  <1> HIDE DEF Q
  <1>3. SUBSET S \subseteq Q
    BY <1>1, <1>2, SubsetInduction
  <1>4. S \in Q
    BY <1>3
  <1> QED BY <1>4 DEF Q

\* Any element may be taken out first.
LEMMA TotalOut ==
    ASSUME NEW S, IsFiniteSet(S), NEW f, \A x \in S : f[x] \in Int, NEW z \in S
    PROVE  Total(f, S) = f[z] + Total(f, S \ {z})
  <1> DEFINE Q == {s \in SUBSET S : \A x \in s : Total(f, s) = f[x] + Total(f, s \ {x})}
  <1>1. {} \in Q
    OBVIOUS
  <1>2. ASSUME NEW s \in SUBSET S, s # {}, \A x \in s : s \ {x} \in Q PROVE s \in Q
    <2>1. IsFiniteSet(s)
      BY FS_Subset
    <2> DEFINE y == Some(s)
    <2>2. y \in s
      BY <1>2, <2>1, SomeIn
    <2>3. Total(f, s) = f[y] + Total(f, s \ {y})
      BY <1>2, <2>1, TotalStep
    <2> HIDE DEF y
    <2>4. ASSUME NEW x \in s PROVE Total(f, s) = f[x] + Total(f, s \ {x})
      <3>1. CASE x = y
        BY <2>3, <3>1
      <3>2. CASE x # y
        <4>1. s \ {y} \in Q /\ x \in s \ {y} /\ s \ {x} \in Q /\ y \in s \ {x}
          BY <1>2, <2>2, <3>2
        <4>2. Total(f, s \ {y}) = f[x] + Total(f, (s \ {y}) \ {x})
          BY <4>1
        <4>3. Total(f, s \ {x}) = f[y] + Total(f, (s \ {x}) \ {y})
          BY <4>1
        <4>4. (s \ {y}) \ {x} = (s \ {x}) \ {y}
          OBVIOUS
        <4>5. f[x] \in Int /\ f[y] \in Int
          BY <2>2
        <4>6. Total(f, (s \ {x}) \ {y}) \in Int
          <5>1. (s \ {x}) \ {y} \in SUBSET S
            OBVIOUS
          <5>2. IsFiniteSet((s \ {x}) \ {y})
            BY <5>1, FS_Subset
          <5> QED BY <5>1, <5>2, TotalType
        <4>7. ASSUME NEW i \in Int, NEW j \in Int, NEW k \in Int
              PROVE  j + (i + k) = i + (j + k)
          OBVIOUS
        <4>8. Total(f, s) = f[y] + (f[x] + Total(f, (s \ {x}) \ {y}))
          BY <2>3, <4>2, <4>4
        <4>9. Total(f, s) = f[x] + (f[y] + Total(f, (s \ {x}) \ {y}))
          BY <4>5, <4>6, <4>7, <4>8
        <4> QED BY <4>3, <4>9
      <3> QED BY <3>1, <3>2
    <2> QED BY <2>4
  <1> HIDE DEF Q
  <1>3. SUBSET S \subseteq Q
    BY <1>1, <1>2, SubsetInduction
  <1>4. S \in Q
    BY <1>3
  <1> QED BY <1>4 DEF Q

\* The sum of a sum is the sum of the sums.
LEMMA TotalAdd ==
    ASSUME NEW S, IsFiniteSet(S), NEW a, NEW b, NEW c,
           \A x \in S : a[x] \in Int /\ b[x] \in Int /\ c[x] = a[x] + b[x]
    PROVE  Total(c, S) = Total(a, S) + Total(b, S)
  <1> DEFINE Q == {s \in SUBSET S : Total(c, s) = Total(a, s) + Total(b, s)}
  <1>1. {} \in Q
    BY TotalNone
  <1>2. ASSUME NEW s \in SUBSET S, s # {}, \A x \in s : s \ {x} \in Q PROVE s \in Q
    <2>1. IsFiniteSet(s)
      BY FS_Subset
    <2> DEFINE y == Some(s)
               r == s \ {y}
    <2>2. y \in s /\ IsFiniteSet(r) /\ r \in SUBSET S
      BY <1>2, <2>1, SomeIn
    <2>3. /\ Total(a, s) = a[y] + Total(a, r)
          /\ Total(b, s) = b[y] + Total(b, r)
          /\ Total(c, s) = c[y] + Total(c, r)
      BY <1>2, <2>1, TotalStep
    <2>4. Total(c, r) = Total(a, r) + Total(b, r)
      BY <1>2, <2>2
    <2> HIDE DEF y, r
    <2>5. /\ a[y] \in Int /\ b[y] \in Int /\ c[y] = a[y] + b[y]
          /\ Total(a, r) \in Int /\ Total(b, r) \in Int
      BY <2>2, TotalType
    <2>6. Total(c, s) = Total(a, s) + Total(b, s)
      BY <2>3, <2>4, <2>5
    <2> QED BY <2>6
  <1> HIDE DEF Q
  <1>3. SUBSET S \subseteq Q
    BY <1>1, <1>2, SubsetInduction
  <1>4. S \in Q
    BY <1>3
  <1> QED BY <1>4 DEF Q

LEMMA TwiceZero == \A t, u \in Int : t = t + t => t = 0 /\ u + t = u
  OBVIOUS

LEMMA TotalSame ==
    ASSUME NEW S, IsFiniteSet(S), NEW a, NEW c, \A x \in S : a[x] \in Int /\ c[x] = a[x]
    PROVE  Total(c, S) = Total(a, S)
  <1> DEFINE z == [x \in S |-> 0]
  <1>1. \A x \in S : z[x] = 0
    OBVIOUS
  <1> HIDE DEF z
  <1>2. \A x \in S : z[x] = z[x] + z[x] /\ c[x] = a[x] + z[x] /\ z[x] \in Int
    BY <1>1
  <1>3. Total(z, S) = Total(z, S) + Total(z, S) /\ Total(z, S) \in Int /\ Total(a, S) \in Int
    BY <1>2, TotalAdd, TotalType
  <1>4. Total(c, S) = Total(a, S) + Total(z, S)
    BY <1>2, TotalAdd
  <1>5. Total(a, S) + Total(z, S) = Total(a, S)
    BY <1>3, TwiceZero
  <1> QED BY <1>4, <1>5

\* One value changes by d.
Raised(S, a, c, y, d) ==
    \A x \in S : a[x] \in Int /\ c[x] = IF x = y THEN a[x] + d ELSE a[x]

LEMMA TotalUpdate ==
    ASSUME NEW S, IsFiniteSet(S), NEW a, NEW c, NEW y, NEW d \in Int, Raised(S, a, c, y, d)
    PROVE  Total(c, S) = IF y \in S THEN Total(a, S) + d ELSE Total(a, S)
  <1> USE DEF Raised
  <1>1. CASE y \in S
    <2> DEFINE r == S \ {y}
    <2>1. IsFiniteSet(r) /\ \A x \in r : a[x] \in Int /\ c[x] = a[x]
      BY FS_RemoveElement
    <2>2. Total(c, r) = Total(a, r) /\ Total(a, r) \in Int
      BY <2>1, TotalSame, TotalType
    <2>3. \A x \in S : a[x] \in Int /\ c[x] \in Int
      OBVIOUS
    <2>4. Total(c, S) = c[y] + Total(c, r) /\ Total(a, S) = a[y] + Total(a, r)
      BY <1>1, <2>3, TotalOut
    <2> HIDE DEF r
    <2>5. a[y] \in Int /\ c[y] = a[y] + d
      BY <1>1
    <2> QED BY <1>1, <2>2, <2>4, <2>5
  <1>2. CASE y \notin S
    BY <1>2, TotalSame
  <1> QED BY <1>1, <1>2

\* A sum of more of what is not negative is not less.
LEMMA TotalAtLeast ==
    ASSUME NEW S, IsFiniteSet(S), NEW a, \A x \in S : a[x] \in Nat
    PROVE  Total(a, S) \in Nat
  <1> DEFINE Q == {s \in SUBSET S : Total(a, s) \in Nat}
  <1>1. {} \in Q
    BY TotalNone
  <1>2. ASSUME NEW s \in SUBSET S, s # {}, \A x \in s : s \ {x} \in Q PROVE s \in Q
    <2>1. IsFiniteSet(s)
      BY FS_Subset
    <2>2. Some(s) \in s
      BY <1>2, <2>1, SomeIn
    <2>3. Total(a, s) = a[Some(s)] + Total(a, s \ {Some(s)})
      BY <1>2, <2>1, TotalStep
    <2>4. Total(a, s \ {Some(s)}) \in Nat /\ a[Some(s)] \in Nat
      BY <1>2, <2>2
    <2>5. Total(a, s) \in Nat
      BY <2>3, <2>4
    <2> QED BY <2>5
  <1> HIDE DEF Q
  <1>3. SUBSET S \subseteq Q
    BY <1>1, <1>2, SubsetInduction
  <1>4. S \in Q
    BY <1>3
  <1> QED BY <1>4 DEF Q

LEMMA TotalZero ==
    ASSUME NEW S, IsFiniteSet(S), NEW z, \A x \in S : z[x] = 0
    PROVE  Total(z, S) = 0
  <1>1. \A x \in S : z[x] = z[x] + z[x] /\ z[x] \in Int
    OBVIOUS
  <1>2. Total(z, S) = Total(z, S) + Total(z, S) /\ Total(z, S) \in Int
    BY <1>1, TotalAdd, TotalType
  <1> QED BY <1>2, TwiceZero

(***************************************************************************)
(* The histogram.  HistAgrees is what CountsBracket says of one histogram  *)
(* with the buckets b: cnt and jnk are its counters and their first        *)
(* values, ins how often each datum was inserted.                          *)
(***************************************************************************)
HistData == 1..(2 * MaxBound + 1)

DataUpto(d) == {e \in HistData : e <= d}

HistAgrees(b, cnt, jnk, ins, num, tot) ==
    /\ num = Total(ins, HistData)
    /\ tot = Total([d \in HistData |-> d * ins[d]], HistData)
    /\ Total(cnt, 1..Len(b)) - Total(jnk, 1..Len(b)) = Total(ins, HistData)
    /\ \A i \in 1..(Len(b) - 1) :
          /\ Total(ins, DataUpto(b[i])) <= Total(cnt, 1..i) - Total(jnk, 1..i)
          /\ Total(cnt, 1..i) - Total(jnk, 1..i) <= Total(ins, DataUpto(b[i + 1]))

LEMMA DataFinite ==
    /\ MaxBound \in Nat /\ IsFiniteSet(HistData) /\ HistData \subseteq Nat
    /\ \A d : IsFiniteSet(DataUpto(d)) /\ DataUpto(d) \subseteq HistData
    /\ \A n \in Nat : IsFiniteSet(1..n)
  <1>1. MaxBound \in Nat
    BY AlgorithmsAssumption
  <1>2. IsFiniteSet(HistData) /\ HistData \subseteq Nat
    BY <1>1, FS_Interval DEF HistData
  <1>3. \A d : IsFiniteSet(DataUpto(d)) /\ DataUpto(d) \subseteq HistData
    BY <1>2, FS_Subset DEF DataUpto
  <1>4. \A n \in Nat : IsFiniteSet(1..n)
    BY FS_Interval
  <1> QED BY <1>1, <1>2, <1>3, <1>4

LEMMA BucketsAscend ==
    ASSUME NEW b \in Buckets
    PROVE  /\ b \in Seq(Nat) /\ Len(b) \in Nat \ {0}
           /\ \A i \in 1..Len(b) : b[i] \in Nat
           /\ \A i, j \in 1..Len(b) : i < j => b[i] < b[j]
  <1> DEFINE E == {2 * n : n \in 1..MaxBound}
  <1>1. PICK m \in 0..MaxBound : b \in [1..m -> E]
    BY DEF Buckets, SeqOf
  <1>2. E \subseteq Nat /\ m \in Nat
    BY DataFinite
  <1>3. b \in [1..m -> Nat]
    BY <1>1, <1>2
  <1>4. b \in Seq(Nat)
    BY <1>2, <1>3, LenOf
  <1>5. b # <<>> /\ \A i, j \in 1..Len(b) : i < j => b[i] < b[j]
    BY DEF Buckets
  <1> QED BY <1>4, <1>5, EmptySeq, ElementOfSeq

LEMMA AgreesAtFirst ==
    ASSUME NEW b \in Seq(Nat), NEW cnt \in [1..Len(b) -> Nat],
           NEW ins \in [HistData -> Nat], \A d \in HistData : ins[d] = 0
    PROVE  HistAgrees(b, cnt, cnt, ins, 0, 0)
  <1> DEFINE w == [d \in HistData |-> d * ins[d]]
  <1>1. \A d \in HistData : w[d] = 0
    BY DataFinite
  <1> HIDE DEF w
  <1>2. Total(ins, HistData) = 0 /\ Total(w, HistData) = 0
    BY <1>1, DataFinite, TotalZero
  <1>3. \A x : Total(ins, DataUpto(x)) = 0
    BY DataFinite, TotalZero
  <1>4. ASSUME NEW i \in 0..Len(b) PROVE Total(cnt, 1..i) - Total(cnt, 1..i) = 0
    <2>1. i \in Nat /\ \A x \in 1..i : cnt[x] \in Int
      BY LenProperties
    <2>2. Total(cnt, 1..i) \in Int
      BY <2>1, DataFinite, TotalType
    <2> QED BY <2>2
  <1>5. Len(b) \in 0..Len(b) /\ \A i \in 1..(Len(b) - 1) : i \in 0..Len(b)
    BY LenProperties
  <1> QED BY <1>2, <1>3, <1>4, <1>5 DEF HistAgrees, w

LEMMA OneMore == \A x, y, z \in Int : x - y = z => (x + 1) - y = z + 1
  OBVIOUS

LEMMA StillBetween ==
    \A l, c, j, u, q, s, t \in Int :
        l <= c - j /\ c - j <= u /\ q <= s /\ s <= t
        => l + q <= (c + s) - j /\ (c + s) - j <= u + t
  OBVIOUS

LEMMA BothBetween ==
    \A l, c, j, u, l1, c1, j1, u1 \in Int :
        l <= c - j /\ c - j <= u /\ l1 <= c1 - j1 /\ c1 - j1 <= u1
        => l + l1 <= (c + c1) - (j + j1) /\ (c + c1) - (j + j1) <= u + u1
  OBVIOUS

LEMMA BothEqual ==
    \A c, j, n, c1, j1, n1 \in Int :
        c - j = n /\ c1 - j1 = n1 => (c + c1) - (j + j1) = n + n1
  OBVIOUS

\* No bound below the one of the counter p is as large as d, and the next one is.
Fits(b, p, d) ==
    \A i \in 1..(Len(b) - 1) : (d <= b[i] => p <= i) /\ (p <= i => d <= b[i + 1])

\* The function f with one more at p, and the sum of two functions on S.
OneMoreAt(f, p) == [f EXCEPT ![p] = @ + 1]

SumOf(S, f, g) == [x \in S |-> f[x] + g[x]]

LEMMA OneMoreAtType ==
    ASSUME NEW S, NEW f \in [S -> Nat], NEW p \in S
    PROVE  OneMoreAt(f, p) \in [S -> Nat]
  <1>1. f[p] + 1 \in Nat
    OBVIOUS
  <1> QED BY <1>1 DEF OneMoreAt

LEMMA SumOfType ==
    ASSUME NEW S, NEW f \in [S -> Nat], NEW g \in [S -> Nat]
    PROVE  SumOf(S, f, g) \in [S -> Nat]
  <1>1. \A x \in S : f[x] + g[x] \in Nat
    OBVIOUS
  <1> QED BY <1>1 DEF SumOf

LEMMA AgreesWithOneMore ==
    ASSUME NEW b \in Seq(Nat), NEW cnt \in [1..Len(b) -> Nat], NEW jnk \in [1..Len(b) -> Nat],
           NEW ins \in [HistData -> Nat], NEW num, NEW tot,
           HistAgrees(b, cnt, jnk, ins, num, tot),
           NEW p \in 1..Len(b), NEW d \in HistData, Fits(b, p, d),
           NEW cnt2, cnt2 = OneMoreAt(cnt, p),
           NEW ins2, ins2 = OneMoreAt(ins, d)
    PROVE  HistAgrees(b, cnt2, jnk, ins2, num + 1, tot + d)
  <1> DEFINE w == [e \in HistData |-> e * ins[e]]
             w2 == [e \in HistData |-> e * ins2[e]]
  <1>1. \A e \in HistData : ins[e] \in Int /\ ins2[e] = IF e = d THEN ins[e] + 1 ELSE ins[e]
    BY DEF OneMoreAt
  <1>2. \A e \in HistData : w[e] \in Int /\ w2[e] = IF e = d THEN w[e] + d ELSE w[e]
    <2> SUFFICES ASSUME NEW e \in HistData
                 PROVE  e * ins[e] \in Int /\ e * ins2[e] = IF e = d THEN e * ins[e] + d ELSE e * ins[e]
      OBVIOUS
    <2>1. e \in Nat /\ ins[e] \in Nat
      BY DataFinite
    <2>2. \A m, n \in Nat : m * (n + 1) = m * n + m /\ m * n \in Int
      OBVIOUS
    <2> QED BY <1>1, <2>1, <2>2
  <1> DEFINE M == 1..Len(b)
  <1>3. ASSUME NEW x \in M
        PROVE  cnt[x] \in Int /\ jnk[x] \in Int /\ cnt2[x] = IF x = p THEN cnt[x] + 1 ELSE cnt[x]
    <2>1. cnt \in [M -> Nat] /\ jnk \in [M -> Nat] /\ p \in M
      OBVIOUS
    <2> HIDE DEF M
    <2>2. cnt[x] \in Nat /\ jnk[x] \in Nat
      BY <2>1
    <2>3. cnt2[x] = IF x = p THEN cnt[x] + 1 ELSE cnt[x]
      BY <2>1 DEF OneMoreAt
    <2> QED BY <2>2, <2>3
  <1>4. ASSUME NEW i \in 0..Len(b)
        PROVE  \A x \in 1..i : /\ cnt[x] \in Int /\ jnk[x] \in Int
                               /\ cnt2[x] = IF x = p THEN cnt[x] + 1 ELSE cnt[x]
    <2>1. Len(b) \in Nat
      BY LenProperties
    <2>2. \A x \in 1..i : x \in M
      BY <2>1
    <2> QED BY <1>3, <2>2
  <1> HIDE DEF w, w2
  <1>5. /\ Total(ins2, HistData) = Total(ins, HistData) + 1 /\ Total(ins, HistData) \in Int
        /\ Total(w2, HistData) = Total(w, HistData) + d
    <2>1. d \in Int /\ 1 \in Int
      BY DataFinite
    <2>2. IsFiniteSet(HistData)
      BY DataFinite
    <2>3. Total(ins2, HistData) = Total(ins, HistData) + 1
      <3>1. Raised(HistData, ins, ins2, d, 1)
        BY <1>1 DEF Raised
      <3> QED BY <2>1, <2>2, <3>1, TotalUpdate
    <2>4. Total(w2, HistData) = Total(w, HistData) + d
      <3>1. Raised(HistData, w, w2, d, d)
        BY <1>2 DEF Raised
      <3> QED BY <2>1, <2>2, <3>1, TotalUpdate
    <2>5. Total(ins, HistData) \in Int
      BY <1>1, <2>2, TotalType
    <2> QED BY <2>3, <2>4, <2>5
  <1>6. ASSUME NEW x
        PROVE  /\ Total(ins, DataUpto(x)) \in Int
               /\ Total(ins2, DataUpto(x)) =
                     IF d <= x THEN Total(ins, DataUpto(x)) + 1 ELSE Total(ins, DataUpto(x))
    <2>1. /\ IsFiniteSet(DataUpto(x))
          /\ \A e \in DataUpto(x) : ins[e] \in Int /\ ins2[e] = IF e = d THEN ins[e] + 1 ELSE ins[e]
      BY <1>1, DataFinite
    <2>2. 1 \in Int /\ (d \in DataUpto(x) <=> d <= x)
      BY DEF DataUpto
    <2>3. Total(ins2, DataUpto(x)) =
              IF d \in DataUpto(x) THEN Total(ins, DataUpto(x)) + 1 ELSE Total(ins, DataUpto(x))
      <3>1. Raised(DataUpto(x), ins, ins2, d, 1)
        BY <2>1 DEF Raised
      <3> QED BY <2>1, <2>2, <3>1, TotalUpdate
    <2>4. Total(ins, DataUpto(x)) \in Int
      BY <2>1, TotalType
    <2> QED BY <2>2, <2>3, <2>4
  <1>7. ASSUME NEW i \in 0..Len(b)
        PROVE  /\ Total(cnt, 1..i) \in Int /\ Total(jnk, 1..i) \in Int
               /\ Total(cnt2, 1..i) = IF p <= i THEN Total(cnt, 1..i) + 1 ELSE Total(cnt, 1..i)
    <2>1. i \in Nat /\ Len(b) \in Nat /\ i <= Len(b) /\ 1 \in Int /\ (p \in 1..i <=> p <= i)
      BY LenProperties
    <2> DEFINE I == 1..i
    <2>2. IsFiniteSet(I)
      BY <2>1, DataFinite
    <2>3. \A x \in I : /\ cnt[x] \in Int /\ jnk[x] \in Int
                       /\ cnt2[x] = IF x = p THEN cnt[x] + 1 ELSE cnt[x]
      BY <1>4
    <2>4. p \in I <=> p <= i
      BY <2>1
    <2> HIDE DEF I
    <2>5. Total(cnt2, I) = IF p \in I THEN Total(cnt, I) + 1 ELSE Total(cnt, I)
      <3>1. Raised(I, cnt, cnt2, p, 1)
        BY <2>3 DEF Raised
      <3> QED BY <2>1, <2>2, <3>1, TotalUpdate
    <2>6. Total(cnt, I) \in Int /\ Total(jnk, I) \in Int
      BY <2>2, <2>3, TotalType
    <2> QED BY <2>4, <2>5, <2>6 DEF I
  <1>8. Len(b) \in Nat /\ Len(b) \in 0..Len(b) /\ p <= Len(b)
        /\ \A i \in 1..(Len(b) - 1) : i \in 0..Len(b)
    BY LenProperties
  <1>9. /\ num = Total(ins, HistData) /\ tot = Total(w, HistData)
        /\ Total(cnt, 1..Len(b)) - Total(jnk, 1..Len(b)) = Total(ins, HistData)
    BY DEF HistAgrees, w
  <1>10. num + 1 = Total(ins2, HistData) /\ tot + d = Total(w2, HistData)
    BY <1>5, <1>9
  <1>11. Total(cnt2, 1..Len(b)) - Total(jnk, 1..Len(b)) = Total(ins2, HistData)
    <2> DEFINE L == 1..Len(b)
    <2>1. /\ Total(cnt, L) \in Int /\ Total(jnk, L) \in Int
          /\ Total(cnt2, L) = Total(cnt, L) + 1
      BY <1>7, <1>8
    <2>2. Total(cnt, L) - Total(jnk, L) = Total(ins, HistData)
      BY <1>9
    <2> HIDE DEF L
    <2> QED BY <1>5, <2>1, <2>2, OneMore DEF L
  <1>12. ASSUME NEW i \in 1..(Len(b) - 1)
         PROVE  /\ Total(ins2, DataUpto(b[i])) <= Total(cnt2, 1..i) - Total(jnk, 1..i)
                /\ Total(cnt2, 1..i) - Total(jnk, 1..i) <= Total(ins2, DataUpto(b[i + 1]))
    <2>1. /\ Total(ins, DataUpto(b[i])) <= Total(cnt, 1..i) - Total(jnk, 1..i)
          /\ Total(cnt, 1..i) - Total(jnk, 1..i) <= Total(ins, DataUpto(b[i + 1]))
      BY DEF HistAgrees
    <2> DEFINE q == IF d <= b[i] THEN 1 ELSE 0
               s == IF p <= i THEN 1 ELSE 0
               t == IF d <= b[i + 1] THEN 1 ELSE 0
    <2>2. (d <= b[i] => p <= i) /\ (p <= i => d <= b[i + 1])
      BY DEF Fits
    <2>3. q \in Int /\ s \in Int /\ t \in Int /\ q <= s /\ s <= t
      BY <2>2
    <2>4. \A x \in Int : x + 0 = x
      OBVIOUS
    <2>5. /\ Total(ins2, DataUpto(b[i])) = Total(ins, DataUpto(b[i])) + q
          /\ Total(ins2, DataUpto(b[i + 1])) = Total(ins, DataUpto(b[i + 1])) + t
          /\ Total(cnt2, 1..i) = Total(cnt, 1..i) + s
      BY <1>6, <1>7, <1>8, <2>4
    <2> HIDE DEF q, s, t
    <2> DEFINE l == Total(ins, DataUpto(b[i]))
               u == Total(ins, DataUpto(b[i + 1]))
               c == Total(cnt, 1..i)
               j == Total(jnk, 1..i)
    <2>6. l \in Int /\ u \in Int /\ c \in Int /\ j \in Int
      BY <1>6, <1>7, <1>8
    <2>7. l <= c - j /\ c - j <= u
      BY <2>1
    <2> HIDE DEF l, u, c, j
    <2>8. l + q <= (c + s) - j /\ (c + s) - j <= u + t
      BY <2>3, <2>6, <2>7, StillBetween
    <2> QED BY <2>5, <2>8 DEF l, u, c, j
  <1> QED BY <1>10, <1>11, <1>12 DEF HistAgrees, w2

LEMMA AgreesWhenMerged ==
    ASSUME NEW b \in Seq(Nat),
           NEW cnt \in [1..Len(b) -> Nat], NEW jnk \in [1..Len(b) -> Nat],
           NEW ins \in [HistData -> Nat], NEW num, NEW tot,
           NEW cnt1 \in [1..Len(b) -> Nat], NEW jnk1 \in [1..Len(b) -> Nat],
           NEW ins1 \in [HistData -> Nat], NEW num1, NEW tot1,
           HistAgrees(b, cnt, jnk, ins, num, tot),
           HistAgrees(b, cnt1, jnk1, ins1, num1, tot1),
           NEW cnt2, cnt2 = SumOf(1..Len(b), cnt, cnt1),
           NEW jnk2, jnk2 = SumOf(1..Len(b), jnk, jnk1),
           NEW ins2, ins2 = SumOf(HistData, ins, ins1)
    PROVE  HistAgrees(b, cnt2, jnk2, ins2, num + num1, tot + tot1)
  <1> DEFINE w  == [e \in HistData |-> e * ins[e]]
             w1 == [e \in HistData |-> e * ins1[e]]
             w2 == [e \in HistData |-> e * ins2[e]]
  <1>1. \A e \in HistData : ins[e] \in Int /\ ins1[e] \in Int /\ ins2[e] = ins[e] + ins1[e]
    BY DEF SumOf
  <1>2. \A e \in HistData : w[e] \in Int /\ w1[e] \in Int /\ w2[e] = w[e] + w1[e]
    <2> SUFFICES ASSUME NEW e \in HistData
                 PROVE  /\ e * ins[e] \in Int /\ e * ins1[e] \in Int
                        /\ e * ins2[e] = e * ins[e] + e * ins1[e]
      OBVIOUS
    <2>1. e \in Nat /\ ins[e] \in Nat /\ ins1[e] \in Nat
      BY DataFinite
    <2>2. \A m, n, l \in Nat : m * (n + l) = m * n + m * l /\ m * n \in Int
      OBVIOUS
    <2> QED BY <1>1, <2>1, <2>2
  <1> HIDE DEF w, w1, w2
  <1>3. /\ Total(ins2, HistData) = Total(ins, HistData) + Total(ins1, HistData)
        /\ Total(ins, HistData) \in Int /\ Total(ins1, HistData) \in Int
        /\ Total(w2, HistData) = Total(w, HistData) + Total(w1, HistData)
    <2>1. IsFiniteSet(HistData)
      BY DataFinite
    <2>2. Total(ins2, HistData) = Total(ins, HistData) + Total(ins1, HistData)
      <3> DEFINE z == ins2
      <3>1. \A e \in HistData : ins[e] \in Int /\ ins1[e] \in Int /\ z[e] = ins[e] + ins1[e]
        BY <1>1
      <3> HIDE DEF z
      <3>2. Total(z, HistData) = Total(ins, HistData) + Total(ins1, HistData)
        BY <2>1, <3>1, TotalAdd
      <3> QED BY <3>2 DEF z
    <2>3. Total(w2, HistData) = Total(w, HistData) + Total(w1, HistData)
      BY <1>2, <2>1, TotalAdd
    <2>4. Total(ins, HistData) \in Int /\ Total(ins1, HistData) \in Int
      BY <1>1, <2>1, TotalType
    <2> QED BY <2>2, <2>3, <2>4
  <1>4. ASSUME NEW x
        PROVE  /\ Total(ins, DataUpto(x)) \in Int /\ Total(ins1, DataUpto(x)) \in Int
               /\ Total(ins2, DataUpto(x)) = Total(ins, DataUpto(x)) + Total(ins1, DataUpto(x))
    <2>1. /\ IsFiniteSet(DataUpto(x))
          /\ \A e \in DataUpto(x) : ins[e] \in Int /\ ins1[e] \in Int /\ ins2[e] = ins[e] + ins1[e]
      BY <1>1, DataFinite
    <2> QED BY <2>1, TotalAdd, TotalType
  <1>5. ASSUME NEW i \in 0..Len(b)
        PROVE  /\ Total(cnt, 1..i) \in Int /\ Total(jnk, 1..i) \in Int
               /\ Total(cnt1, 1..i) \in Int /\ Total(jnk1, 1..i) \in Int
               /\ Total(cnt2, 1..i) = Total(cnt, 1..i) + Total(cnt1, 1..i)
               /\ Total(jnk2, 1..i) = Total(jnk, 1..i) + Total(jnk1, 1..i)
    <2> DEFINE I == 1..i
               M == 1..Len(b)
    <2>1. i \in Nat /\ Len(b) \in Nat
      BY LenProperties
    <2>2. IsFiniteSet(I) /\ \A x \in I : x \in M
      BY <2>1, DataFinite
    <2>3. ASSUME NEW x \in M
          PROVE  /\ cnt[x] \in Int /\ cnt1[x] \in Int /\ cnt2[x] = cnt[x] + cnt1[x]
                 /\ jnk[x] \in Int /\ jnk1[x] \in Int /\ jnk2[x] = jnk[x] + jnk1[x]
      <3>1. cnt \in [M -> Nat] /\ cnt1 \in [M -> Nat] /\ jnk \in [M -> Nat] /\ jnk1 \in [M -> Nat]
            /\ cnt2 = [k \in M |-> cnt[k] + cnt1[k]] /\ jnk2 = [k \in M |-> jnk[k] + jnk1[k]]
        BY DEF SumOf
      <3> HIDE DEF M
      <3> QED BY <3>1
    <2> HIDE DEF I, M
    <2>4. \A x \in I : cnt[x] \in Int /\ cnt1[x] \in Int /\ cnt2[x] = cnt[x] + cnt1[x]
      BY <2>2, <2>3
    <2>5. \A x \in I : jnk[x] \in Int /\ jnk1[x] \in Int /\ jnk2[x] = jnk[x] + jnk1[x]
      BY <2>2, <2>3
    <2>6. Total(cnt2, I) = Total(cnt, I) + Total(cnt1, I)
      BY <2>2, <2>4, TotalAdd
    <2>7. Total(jnk2, I) = Total(jnk, I) + Total(jnk1, I)
      BY <2>2, <2>5, TotalAdd
    <2>8. /\ Total(cnt, I) \in Int /\ Total(cnt1, I) \in Int
          /\ Total(jnk, I) \in Int /\ Total(jnk1, I) \in Int
      BY <2>2, <2>4, <2>5, TotalType
    <2> QED BY <2>6, <2>7, <2>8 DEF I
  <1>6. Len(b) \in 0..Len(b) /\ \A i \in 1..(Len(b) - 1) : i \in 0..Len(b)
    BY LenProperties
  <1>7. /\ num = Total(ins, HistData) /\ tot = Total(w, HistData)
        /\ num1 = Total(ins1, HistData) /\ tot1 = Total(w1, HistData)
        /\ Total(cnt, 1..Len(b)) - Total(jnk, 1..Len(b)) = Total(ins, HistData)
        /\ Total(cnt1, 1..Len(b)) - Total(jnk1, 1..Len(b)) = Total(ins1, HistData)
    BY DEF HistAgrees, w, w1
  <1>8. num + num1 = Total(ins2, HistData) /\ tot + tot1 = Total(w2, HistData)
    BY <1>3, <1>7
  <1>9. Total(cnt2, 1..Len(b)) - Total(jnk2, 1..Len(b)) = Total(ins2, HistData)
    <2> DEFINE L == 1..Len(b)
    <2>1. /\ Total(cnt, L) \in Int /\ Total(jnk, L) \in Int
          /\ Total(cnt1, L) \in Int /\ Total(jnk1, L) \in Int
          /\ Total(cnt2, L) = Total(cnt, L) + Total(cnt1, L)
          /\ Total(jnk2, L) = Total(jnk, L) + Total(jnk1, L)
      BY <1>5, <1>6
    <2>2. /\ Total(cnt, L) - Total(jnk, L) = Total(ins, HistData)
          /\ Total(cnt1, L) - Total(jnk1, L) = Total(ins1, HistData)
      BY <1>7
    <2> HIDE DEF L
    <2> QED BY <1>3, <2>1, <2>2, BothEqual DEF L
  <1>10. ASSUME NEW i \in 1..(Len(b) - 1)
         PROVE  /\ Total(ins2, DataUpto(b[i])) <= Total(cnt2, 1..i) - Total(jnk2, 1..i)
                /\ Total(cnt2, 1..i) - Total(jnk2, 1..i) <= Total(ins2, DataUpto(b[i + 1]))
    <2>1. /\ Total(ins, DataUpto(b[i])) <= Total(cnt, 1..i) - Total(jnk, 1..i)
          /\ Total(cnt, 1..i) - Total(jnk, 1..i) <= Total(ins, DataUpto(b[i + 1]))
          /\ Total(ins1, DataUpto(b[i])) <= Total(cnt1, 1..i) - Total(jnk1, 1..i)
          /\ Total(cnt1, 1..i) - Total(jnk1, 1..i) <= Total(ins1, DataUpto(b[i + 1]))
      BY DEF HistAgrees
    <2>2. i \in 0..Len(b)
      BY <1>6
    <2> DEFINE l  == Total(ins, DataUpto(b[i]))
               u  == Total(ins, DataUpto(b[i + 1]))
               c  == Total(cnt, 1..i)
               j  == Total(jnk, 1..i)
               l1 == Total(ins1, DataUpto(b[i]))
               u1 == Total(ins1, DataUpto(b[i + 1]))
               c1 == Total(cnt1, 1..i)
               j1 == Total(jnk1, 1..i)
    <2>3. /\ l \in Int /\ u \in Int /\ c \in Int /\ j \in Int
          /\ l1 \in Int /\ u1 \in Int /\ c1 \in Int /\ j1 \in Int
      BY <1>4, <1>5, <2>2
    <2>4. l <= c - j /\ c - j <= u /\ l1 <= c1 - j1 /\ c1 - j1 <= u1
      BY <2>1
    <2>5. /\ Total(ins2, DataUpto(b[i])) = l + l1
          /\ Total(ins2, DataUpto(b[i + 1])) = u + u1
          /\ Total(cnt2, 1..i) = c + c1 /\ Total(jnk2, 1..i) = j + j1
      BY <1>4, <1>5, <2>2
    <2> HIDE DEF l, u, c, j, l1, u1, c1, j1
    <2>6. l + l1 <= (c + c1) - (j + j1) /\ (c + c1) - (j + j1) <= u + u1
      BY <2>3, <2>4, BothBetween
    <2> QED BY <2>5, <2>6
  <1> QED BY <1>8, <1>9, <1>10 DEF HistAgrees, w2

(***************************************************************************)
(* The invariant of the histograms.  While Insert searches, the datum is   *)
(* above the bound below lo and not above the second one beyond hi.        *)
(***************************************************************************)
HistTypes ==
    /\ bucket \in Buckets /\ hat \in {"idle", "search", "merged"}
    /\ counter \in [Hist!Histograms -> [1..Len(bucket) -> Nat]]
    /\ junk \in [Hist!Histograms -> [1..Len(bucket) -> Nat]]
    /\ inserted \in [Hist!Histograms -> [HistData -> Nat]]
    /\ num_ \in [Hist!Histograms -> Nat] /\ total_ \in [Hist!Histograms -> Nat]

HistSearch ==
    /\ into \in Hist!Histograms /\ datum \in HistData
    /\ lo \in 0..(Len(bucket) - 1) /\ hi \in -1..(Len(bucket) - 1) /\ lo <= hi + 1
    /\ lo > 0 => datum > bucket[lo]
    /\ hi < Len(bucket) - 1 => datum <= bucket[hi + 2]

HistCounts ==
    \A h \in Hist!Histograms :
        HistAgrees(bucket, counter[h], junk[h], inserted[h], num_[h], total_[h])

HistInv == HistTypes /\ (hat = "search" => HistSearch) /\ HistCounts

LEMMA HistStart == Hist!Init => HistInv
  <1> SUFFICES ASSUME Hist!Init PROVE HistInv
    OBVIOUS
  <1> DEFINE n == Len(bucket)
             H == Hist!Histograms
  <1>1. bucket \in Buckets /\ bucket \in Seq(Nat) /\ n \in Nat
    BY BucketsAscend DEF Hist!Init
  <1>2. /\ junk \in [H -> {[i \in 1..n |-> j] : j \in {0, 1}}] /\ counter = junk
        /\ num_ = [h \in H |-> 0] /\ total_ = [h \in H |-> 0]
        /\ inserted = [h \in H |-> [d \in HistData |-> 0]] /\ hat = "idle"
    BY DEF Hist!Init, HistData
  <1> HIDE DEF n
  <1>3. {[i \in 1..n |-> j] : j \in {0, 1}} \subseteq [1..n -> Nat]
    OBVIOUS
  <1>4. junk \in [H -> [1..n -> Nat]] /\ counter \in [H -> [1..n -> Nat]]
    <2> HIDE DEF H
    <2> QED BY <1>2, <1>3
  <1>5. HistTypes
    BY <1>1, <1>2, <1>4 DEF HistTypes, n
  <1>6. ASSUME NEW h \in H
        PROVE  HistAgrees(bucket, counter[h], junk[h], inserted[h], num_[h], total_[h])
    <2> HIDE DEF H
    <2>1. /\ num_[h] = 0 /\ total_[h] = 0 /\ counter[h] = junk[h] /\ junk[h] \in [1..Len(bucket) -> Nat]
          /\ inserted[h] = [d \in HistData |-> 0]
      BY <1>2, <1>4 DEF n
    <2>2. inserted[h] \in [HistData -> Nat] /\ \A d \in HistData : inserted[h][d] = 0
      BY <2>1
    <2>3. HistAgrees(bucket, junk[h], junk[h], inserted[h], 0, 0)
      BY <1>1, <2>1, <2>2, AgreesAtFirst
    <2> QED BY <2>1, <2>3
  <1> QED BY <1>2, <1>5, <1>6 DEF HistInv, HistCounts

LEMMA HistInserts ==
    ASSUME HistInv, NEW h \in Hist!Histograms, NEW d \in 1..(2 * MaxBound + 1), Hist!Insert(h, d)
    PROVE  HistInv'
  <1>1. /\ into' = h /\ datum' = d /\ lo' = 0 /\ hi' = Len(bucket) - 1 /\ hat' = "search"
        /\ bucket' = bucket /\ counter' = counter /\ junk' = junk /\ inserted' = inserted
        /\ num_' = num_ /\ total_' = total_
    BY DEF Hist!Insert, Hist!num_buckets_, Hist!sums
  <1>2. HistTypes /\ HistCounts
    BY DEF HistInv
  <1>3. Len(bucket) \in Nat \ {0}
    BY <1>2, BucketsAscend DEF HistTypes
  <1>4. HistTypes' /\ HistCounts'
    BY <1>1, <1>2 DEF HistTypes, HistCounts
  <1>5. /\ lo' \in 0..(Len(bucket) - 1) /\ hi' \in -1..(Len(bucket) - 1) /\ lo' <= hi' + 1
        /\ ~ (lo' > 0) /\ ~ (hi' < Len(bucket) - 1)
    BY <1>1, <1>3
  <1>6. HistSearch'
    BY <1>1, <1>5 DEF HistSearch, HistData
  <1> QED BY <1>4, <1>6 DEF HistInv

LEMMA HistHalves ==
    ASSUME HistInv, Hist!Halve
    PROVE  HistInv'
  <1> DEFINE n == Len(bucket)
             m == Hist!Mid
  <1>1. /\ hat = "search" /\ hi > lo
        /\ IF datum > bucket[m + 1]
           THEN lo' = m + 1 /\ hi' = hi
           ELSE hi' = m - 1 /\ lo' = lo
        /\ bucket' = bucket /\ counter' = counter /\ junk' = junk /\ inserted' = inserted
        /\ num_' = num_ /\ total_' = total_ /\ hat' = hat /\ into' = into /\ datum' = datum
    BY DEF Hist!Halve, Hist!sums
  <1>2. HistTypes /\ HistCounts /\ HistSearch
    BY <1>1 DEF HistInv
  <1>3. HistTypes' /\ HistCounts'
    BY <1>1, <1>2 DEF HistTypes, HistCounts
  <1>4. /\ n \in Nat \ {0} /\ lo \in 0..(n - 1) /\ hi \in -1..(n - 1)
        /\ lo > 0 => datum > bucket[lo]
        /\ hi < n - 1 => datum <= bucket[hi + 2]
    BY <1>2, BucketsAscend DEF HistSearch, HistTypes
  <1>5. m \in Nat /\ lo <= m /\ m < hi
    <2>1. lo \in Nat /\ hi \in Nat /\ hi > lo
      BY <1>1, <1>4
    <2>2. \A a, b \in Nat : b > a => /\ a + ((b - a) \div 2) \in Nat
                                     /\ a <= a + ((b - a) \div 2) /\ a + ((b - a) \div 2) < b
      OBVIOUS
    <2> QED BY <2>1, <2>2 DEF Hist!Mid
  <1>6. datum \in Nat /\ m + 1 \in 1..n /\ bucket[m + 1] \in Nat
    <2>1. bucket \in Buckets /\ datum \in HistData
      BY <1>2 DEF HistTypes, HistSearch
    <2>2. m + 1 \in 1..n
      BY <1>4, <1>5
    <2> QED BY <2>1, <2>2, BucketsAscend, DataFinite
  <1> HIDE DEF n, m
  <1>7. /\ lo' \in 0..(n - 1) /\ hi' \in -1..(n - 1) /\ lo' <= hi' + 1
        /\ lo' > 0 => datum > bucket[lo']
        /\ hi' < n - 1 => datum <= bucket[hi' + 2]
    <2>1. CASE datum > bucket[m + 1]
      <3>1. lo' = m + 1 /\ hi' = hi
        BY <1>1, <2>1
      <3> QED BY <1>4, <1>5, <2>1, <3>1
    <2>2. CASE ~ (datum > bucket[m + 1])
      <3>1. hi' = m - 1 /\ lo' = lo /\ hi' + 2 = m + 1
        BY <1>1, <1>5, <2>2
      <3>2. datum <= bucket[hi' + 2]
        BY <1>6, <2>2, <3>1
      <3>3. lo' \in 0..(n - 1) /\ hi' \in -1..(n - 1) /\ lo' <= hi' + 1
        BY <1>4, <1>5, <3>1
      <3> QED BY <1>4, <3>1, <3>2, <3>3
    <2> QED BY <2>1, <2>2
  <1>8. HistSearch'
    BY <1>1, <1>2, <1>7 DEF HistSearch, n
  <1> QED BY <1>3, <1>8 DEF HistInv

LEMMA HistCountsOne ==
    ASSUME HistInv, Hist!Count
    PROVE  HistInv'
  <1> DEFINE n == Len(bucket)
             H == Hist!Histograms
             p == lo + 1
  <1>1. /\ hat = "search" /\ hi <= lo
        /\ counter' = [counter EXCEPT ![into] = OneMoreAt(counter[into], p)]
        /\ total_' = [total_ EXCEPT ![into] = @ + datum]
        /\ num_' = [num_ EXCEPT ![into] = @ + 1]
        /\ inserted' = [inserted EXCEPT ![into] = OneMoreAt(inserted[into], datum)]
        /\ hat' = "idle" /\ bucket' = bucket /\ junk' = junk
    BY DEF Hist!Count, OneMoreAt
  <1>2. HistTypes /\ HistCounts /\ HistSearch
    BY <1>1 DEF HistInv
  <1>3. /\ bucket \in Buckets
        /\ counter \in [H -> [1..n -> Nat]] /\ junk \in [H -> [1..n -> Nat]]
        /\ inserted \in [H -> [HistData -> Nat]]
        /\ num_ \in [H -> Nat] /\ total_ \in [H -> Nat]
    BY <1>2 DEF HistTypes
  <1>4. /\ into \in H /\ datum \in HistData
        /\ lo \in 0..(n - 1) /\ hi \in -1..(n - 1) /\ lo <= hi + 1
        /\ lo > 0 => datum > bucket[lo]
        /\ hi < n - 1 => datum <= bucket[hi + 2]
    BY <1>2 DEF HistSearch
  <1>5. /\ n \in Nat \ {0} /\ bucket \in Seq(Nat) /\ datum \in Nat
        /\ \A i \in 1..n : bucket[i] \in Nat
        /\ \A i, j \in 1..n : i < j => bucket[i] < bucket[j]
    BY <1>3, <1>4, BucketsAscend, DataFinite
  <1>6. p \in 1..n
    BY <1>4, <1>5
  <1>7. /\ lo \in Int /\ 0 <= lo /\ lo <= n - 1
        /\ hi \in Int /\ -1 <= hi /\ hi <= lo /\ lo <= hi + 1
    BY <1>1, <1>4, <1>5
  <1>8. ASSUME NEW i \in 1..(n - 1)
        PROVE  (datum <= bucket[i] => p <= i) /\ (p <= i => datum <= bucket[i + 1])
    <2>1. i \in 1..n /\ i + 1 \in 1..n /\ bucket[i] \in Nat /\ bucket[i + 1] \in Nat
      BY <1>5
    <2>2. ASSUME ~ (p <= i) PROVE datum > bucket[i]
      <3>1. n \in Nat /\ i \in Nat /\ i >= 1 /\ ~ (lo + 1 <= i)
        BY <1>5, <2>1, <2>2
      <3>2. lo \in 1..n /\ i <= lo /\ lo > 0
        BY <1>7, <3>1
      <3>3. lo \in 1..n /\ i <= lo /\ datum > bucket[lo] /\ bucket[lo] \in Nat
        BY <1>4, <1>5, <3>2
      <3>4. i = lo \/ bucket[i] < bucket[lo]
        BY <1>5, <2>1, <3>3
      <3> QED BY <1>5, <2>1, <3>3, <3>4
    <2>3. ASSUME p <= i PROVE datum <= bucket[i + 1]
      <3>1. n \in Nat /\ i \in Nat /\ i <= n - 1 /\ lo + 1 <= i
        BY <1>5, <2>1, <2>3
      <3>2. hi + 2 \in 1..n /\ hi + 2 <= i + 1 /\ hi < n - 1
        BY <1>7, <3>1
      <3>3. hi + 2 \in 1..n /\ hi + 2 <= i + 1 /\ datum <= bucket[hi + 2]
        BY <1>4, <3>2
      <3>4. bucket[hi + 2] \in Nat /\ (hi + 2 = i + 1 \/ bucket[hi + 2] < bucket[i + 1])
        BY <1>5, <2>1, <3>3
      <3> QED BY <1>5, <2>1, <3>3, <3>4
    <2> QED BY <1>5, <2>1, <2>2, <2>3
  <1> HIDE DEF n, H, p
  <1>9. /\ counter' \in [H -> [1..n -> Nat]] /\ inserted' \in [H -> [HistData -> Nat]]
        /\ num_' \in [H -> Nat] /\ total_' \in [H -> Nat]
        /\ counter'[into] = OneMoreAt(counter[into], p)
        /\ inserted'[into] = OneMoreAt(inserted[into], datum)
        /\ num_'[into] = num_[into] + 1 /\ total_'[into] = total_[into] + datum
    <2>1. into \in H /\ datum \in HistData /\ datum \in Nat
      BY <1>4, <1>5
    <2>2. num_' \in [H -> Nat] /\ num_'[into] = num_[into] + 1
      BY <1>1, <1>3, <2>1
    <2>3. total_' \in [H -> Nat] /\ total_'[into] = total_[into] + datum
      BY <1>1, <1>3, <2>1
    <2>4. counter[into] \in [1..n -> Nat] /\ inserted[into] \in [HistData -> Nat]
      BY <1>3, <2>1
    <2>5. OneMoreAt(counter[into], p) \in [1..n -> Nat]
      BY <1>6, <2>4, OneMoreAtType
    <2>6. OneMoreAt(inserted[into], datum) \in [HistData -> Nat]
      BY <2>1, <2>4, OneMoreAtType
    <2>7. /\ counter' \in [H -> [1..n -> Nat]]
          /\ counter'[into] = OneMoreAt(counter[into], p)
      BY <1>1, <1>3, <2>1, <2>5
    <2>8. /\ inserted' \in [H -> [HistData -> Nat]]
          /\ inserted'[into] = OneMoreAt(inserted[into], datum)
      BY <1>1, <1>3, <2>1, <2>6
    <2> QED BY <2>2, <2>3, <2>7, <2>8
  <1>10. ASSUME NEW h \in H, h # into
         PROVE  /\ counter'[h] = counter[h] /\ inserted'[h] = inserted[h]
                /\ num_'[h] = num_[h] /\ total_'[h] = total_[h]
    BY <1>1, <1>3, <1>10
  <1>11. HistTypes'
    BY <1>1, <1>3, <1>9 DEF HistTypes, n, H
  <1>12. ASSUME NEW h \in H
         PROVE  HistAgrees(bucket, counter'[h], junk[h], inserted'[h], num_'[h], total_'[h])
    <2>1. HistAgrees(bucket, counter[h], junk[h], inserted[h], num_[h], total_[h])
      BY <1>2 DEF HistCounts, H
    <2>2. CASE h # into
      BY <1>10, <2>1, <2>2
    <2>3. CASE h = into
      <3>1. /\ counter[into] \in [1..Len(bucket) -> Nat] /\ junk[into] \in [1..Len(bucket) -> Nat]
            /\ inserted[into] \in [HistData -> Nat] /\ p \in 1..Len(bucket)
        BY <1>3, <1>4, <1>6 DEF n
      <3>2. Fits(bucket, p, datum)
        BY <1>8 DEF Fits, n
      <3>3. HistAgrees(bucket, counter[into], junk[into], inserted[into], num_[into], total_[into])
        BY <2>1, <2>3
      <3>4. HistAgrees(bucket, counter'[into], junk[into], inserted'[into],
                       num_[into] + 1, total_[into] + datum)
        BY <1>4, <1>5, <1>9, <3>1, <3>2, <3>3, AgreesWithOneMore
      <3> QED BY <1>9, <2>3, <3>4
    <2> QED BY <2>2, <2>3
  <1>13. HistCounts'
    BY <1>1, <1>12 DEF HistCounts, H
  <1> QED BY <1>1, <1>11, <1>13 DEF HistInv

LEMMA HistMerges ==
    ASSUME HistInv, Hist!Merge
    PROVE  HistInv'
  <1> DEFINE n == Len(bucket)
             H == Hist!Histograms
             c == SumOf(1..n, counter["mine"], counter["other"])
             j == SumOf(1..n, junk["mine"], junk["other"])
             s == SumOf(HistData, inserted["mine"], inserted["other"])
  <1>1. /\ total_' = [total_ EXCEPT !["mine"] = @ + total_["other"]]
        /\ num_' = [num_ EXCEPT !["mine"] = @ + num_["other"]]
        /\ counter' = [counter EXCEPT !["mine"] = c]
        /\ junk' = [junk EXCEPT !["mine"] = j]
        /\ inserted' = [inserted EXCEPT !["mine"] = s]
        /\ hat' = "merged" /\ bucket' = bucket
    BY DEF Hist!Merge, Hist!num_buckets_, HistData, SumOf
  <1>2. HistTypes /\ HistCounts
    BY DEF HistInv
  <1>3. /\ bucket \in Buckets /\ n \in Nat
        /\ counter \in [H -> [1..n -> Nat]] /\ junk \in [H -> [1..n -> Nat]]
        /\ inserted \in [H -> [HistData -> Nat]]
        /\ num_ \in [H -> Nat] /\ total_ \in [H -> Nat]
        /\ bucket \in Seq(Nat)
    BY <1>2, BucketsAscend DEF HistTypes
  <1>4. "mine" \in H /\ "other" \in H
    BY DEF Hist!Histograms
  <1> HIDE DEF n, H
  <1>5. /\ counter["mine"] \in [1..n -> Nat] /\ counter["other"] \in [1..n -> Nat]
        /\ junk["mine"] \in [1..n -> Nat] /\ junk["other"] \in [1..n -> Nat]
        /\ inserted["mine"] \in [HistData -> Nat] /\ inserted["other"] \in [HistData -> Nat]
        /\ num_["mine"] \in Nat /\ num_["other"] \in Nat
        /\ total_["mine"] \in Nat /\ total_["other"] \in Nat
    BY <1>3, <1>4
  <1>6. c \in [1..n -> Nat] /\ j \in [1..n -> Nat] /\ s \in [HistData -> Nat]
    <2>1. c \in [1..n -> Nat]
      BY <1>5, SumOfType
    <2>2. j \in [1..n -> Nat]
      BY <1>5, SumOfType
    <2>3. s \in [HistData -> Nat]
      BY <1>5, SumOfType
    <2> QED BY <2>1, <2>2, <2>3
  <1>7. HistAgrees(bucket, c, j, s, num_["mine"] + num_["other"], total_["mine"] + total_["other"])
    <2>1. /\ HistAgrees(bucket, counter["mine"], junk["mine"], inserted["mine"],
                        num_["mine"], total_["mine"])
          /\ HistAgrees(bucket, counter["other"], junk["other"], inserted["other"],
                        num_["other"], total_["other"])
      BY <1>2, <1>4 DEF HistCounts, H
    <2> DEFINE cm == counter["mine"]
               co == counter["other"]
               jm == junk["mine"]
               jo == junk["other"]
               im == inserted["mine"]
               io == inserted["other"]
    <2>2. /\ cm \in [1..Len(bucket) -> Nat] /\ co \in [1..Len(bucket) -> Nat]
          /\ jm \in [1..Len(bucket) -> Nat] /\ jo \in [1..Len(bucket) -> Nat]
          /\ im \in [HistData -> Nat] /\ io \in [HistData -> Nat]
      BY <1>5 DEF n
    <2>3. /\ c = SumOf(1..Len(bucket), cm, co) /\ j = SumOf(1..Len(bucket), jm, jo)
          /\ s = SumOf(HistData, im, io)
      BY DEF n
    <2>4. HistAgrees(bucket, cm, jm, im, num_["mine"], total_["mine"])
          /\ HistAgrees(bucket, co, jo, io, num_["other"], total_["other"])
      BY <2>1
    <2> HIDE DEF cm, co, jm, jo, im, io, c, j, s
    <2> QED BY <1>3, <2>2, <2>3, <2>4, AgreesWhenMerged
  <1> HIDE DEF c, j, s
  <1>8. /\ counter' \in [H -> [1..n -> Nat]] /\ junk' \in [H -> [1..n -> Nat]]
        /\ inserted' \in [H -> [HistData -> Nat]]
        /\ num_' \in [H -> Nat] /\ total_' \in [H -> Nat]
        /\ counter'["mine"] = c /\ junk'["mine"] = j /\ inserted'["mine"] = s
        /\ num_'["mine"] = num_["mine"] + num_["other"]
        /\ total_'["mine"] = total_["mine"] + total_["other"]
    <2>1. counter' \in [H -> [1..n -> Nat]] /\ counter'["mine"] = c
      BY <1>1, <1>3, <1>4, <1>6
    <2>2. junk' \in [H -> [1..n -> Nat]] /\ junk'["mine"] = j
      BY <1>1, <1>3, <1>4, <1>6
    <2>3. inserted' \in [H -> [HistData -> Nat]] /\ inserted'["mine"] = s
      BY <1>1, <1>3, <1>4, <1>6
    <2>4. num_' \in [H -> Nat] /\ num_'["mine"] = num_["mine"] + num_["other"]
      BY <1>1, <1>3, <1>4, <1>5
    <2>5. total_' \in [H -> Nat] /\ total_'["mine"] = total_["mine"] + total_["other"]
      BY <1>1, <1>3, <1>4, <1>5
    <2> QED BY <2>1, <2>2, <2>3, <2>4, <2>5
  <1>9. ASSUME NEW h \in H, h # "mine"
        PROVE  /\ counter'[h] = counter[h] /\ junk'[h] = junk[h] /\ inserted'[h] = inserted[h]
               /\ num_'[h] = num_[h] /\ total_'[h] = total_[h]
    BY <1>1, <1>3, <1>9
  <1>10. HistTypes'
    BY <1>1, <1>3, <1>8 DEF HistTypes, n, H
  <1>11. ASSUME NEW h \in H
         PROVE  HistAgrees(bucket, counter'[h], junk'[h], inserted'[h], num_'[h], total_'[h])
    <2>1. CASE h # "mine"
      <3>1. HistAgrees(bucket, counter[h], junk[h], inserted[h], num_[h], total_[h])
        BY <1>2 DEF HistCounts, H
      <3> QED BY <1>9, <2>1, <3>1
    <2>2. CASE h = "mine"
      BY <1>7, <1>8, <2>2
    <2> QED BY <2>1, <2>2
  <1>12. HistCounts'
    BY <1>1, <1>11 DEF HistCounts, H
  <1> QED BY <1>1, <1>10, <1>12 DEF HistInv

LEMMA HistAlways == AllSpec => []HistInv
  <1>1. AllInit => HistInv
    BY HistStart DEF AllInit
  <1>2. HistInv /\ [AllNext]_allVars => HistInv'
    <2> SUFFICES ASSUME HistInv, [AllNext]_allVars PROVE HistInv'
      OBVIOUS
    <2>1. CASE Hist!Next
      BY <2>1, HistInserts, HistHalves, HistCountsOne, HistMerges DEF Hist!Next, Hist!Search
    <2>2. CASE UNCHANGED histVars
      BY <2>2 DEF histVars, HistInv, HistTypes, HistSearch, HistCounts
    <2>3. Hist!Next \/ UNCHANGED histVars
      BY DEF AllNext, OfSplit, OfHist, OfBin, OfPoint, allVars
    <2> QED BY <2>1, <2>2, <2>3
  <1> QED BY <1>1, <1>2, PTL DEF AllSpec

(***************************************************************************)
(* Whatever was inserted and merged, the counters up to a bound count      *)
(* every datum up to that bound and none beyond the next bound, num_ and   *)
(* total_ are those of all data, and the search stays in the buckets.      *)
(***************************************************************************)
THEOREM HistogramCounts == AllSpec => []CountsBracket
  <1>1. HistInv => CountsBracket
    <2> SUFFICES ASSUME HistInv PROVE CountsBracket
      OBVIOUS
    <2>1. HistTypes /\ HistCounts /\ (hat = "search" => HistSearch)
      BY DEF HistInv
    <2>2. hat = "search" => lo \in 0..(Hist!num_buckets_ - 1) /\ hi \in -1..(Hist!num_buckets_ - 1)
      BY <2>1 DEF HistSearch, Hist!num_buckets_
    <2>3. \A f : Hist!SumFunction(f) = Total(f, DOMAIN f)
      BY DEF Hist!SumFunction, Hist!SumFunctionOnSet, Hist!FoldFunctionOnSet, Hist!MapThenFoldSet,
             Total, SumFunctionOnSet, FoldFunctionOnSet, MapThenFoldSet
    <2> DEFINE D == 1..(2 * MaxBound + 1)
               n == Len(bucket)
    <2>4. ASSUME NEW h \in Hist!Histograms
          PROVE  /\ num_[h] = Hist!All(h)
                 /\ total_[h] = Hist!SumFunction([d \in D |-> d * inserted[h][d]])
                 /\ Hist!Counted(h, n) = Hist!All(h)
                 /\ \A i \in 1..(n - 1) :
                       /\ Hist!Upto(h, bucket[i]) <= Hist!Counted(h, i)
                       /\ Hist!Counted(h, i) <= Hist!Upto(h, bucket[i + 1])
      <3>1. /\ counter[h] \in [1..n -> Nat] /\ junk[h] \in [1..n -> Nat]
            /\ inserted[h] \in [HistData -> Nat] /\ n \in Nat
            /\ HistAgrees(bucket, counter[h], junk[h], inserted[h], num_[h], total_[h])
        BY <2>1, BucketsAscend DEF HistTypes, HistCounts
      <3>2. Hist!All(h) = Total(inserted[h], HistData)
        BY <2>3, <3>1 DEF Hist!All
      <3>3. ASSUME NEW x PROVE Hist!Upto(h, x) = Total(inserted[h], DataUpto(x))
        <4> DEFINE f == [e \in DataUpto(x) |-> inserted[h][e]]
        <4>1. Hist!Upto(h, x) = Total(f, DataUpto(x))
          BY <2>3 DEF Hist!Upto, DataUpto, HistData
        <4>2. \A e \in DataUpto(x) : inserted[h][e] \in Int /\ f[e] = inserted[h][e]
          BY <3>1 DEF DataUpto
        <4> HIDE DEF f
        <4> QED BY <4>1, <4>2, DataFinite, TotalSame
      <3>4. ASSUME NEW i \in 0..n
            PROVE  Hist!Counted(h, i) = Total(counter[h], 1..i) - Total(junk[h], 1..i)
        <4> DEFINE c == [k \in 1..i |-> counter[h][k]]
                   j == [k \in 1..i |-> junk[h][k]]
        <4>1. Hist!Counted(h, i) = Total(c, 1..i) - Total(j, 1..i)
          BY <2>3 DEF Hist!Counted
        <4>2. \A k \in 1..i : /\ counter[h][k] \in Int /\ c[k] = counter[h][k]
                              /\ junk[h][k] \in Int /\ j[k] = junk[h][k]
          BY <3>1
        <4>3. IsFiniteSet(1..i)
          BY <3>1, DataFinite
        <4> HIDE DEF c, j
        <4>4. Total(c, 1..i) = Total(counter[h], 1..i)
          BY <4>2, <4>3, TotalSame
        <4>5. Total(j, 1..i) = Total(junk[h], 1..i)
          BY <4>2, <4>3, TotalSame
        <4> QED BY <4>1, <4>4, <4>5
      <3>5. total_[h] = Hist!SumFunction([d \in D |-> d * inserted[h][d]])
        BY <2>3, <3>1 DEF HistAgrees, HistData
      <3>6. n \in 0..n /\ \A i \in 1..(n - 1) : i \in 0..n
        BY <3>1
      <3> HIDE DEF D
      <3> QED BY <3>1, <3>2, <3>3, <3>4, <3>5, <3>6 DEF HistAgrees
    <2> QED BY <2>2, <2>4 DEF CountsBracket, Hist!CountsBracket, Hist!num_buckets_
  <1> QED BY <1>1, HistAlways, PTL

=============================================================================
