----------------------------- MODULE RingProofs -----------------------------
(***************************************************************************)
(* What holds of the three rings that MCRings joins, for every constant.   *)
(* RingClient: the cursors stay a buffer apart, regions in use do not      *)
(* share a byte, and the ring implements BoundedWindow.  RingMemory: the   *)
(* name of the shared memory does not outlive its use, and nobody gets     *)
(* hold of memory that another has gone on with.  RingBuffer: no position  *)
(* of the cursor space is handed out twice.                                *)
(***************************************************************************)
EXTENDS MCRings, SequenceLemmas

(***************************************************************************)
(* Distances in a word that wraps, case by case, so that the steps below   *)
(* need linear arithmetic only.  An advance of the far cursor lengthens a  *)
(* distance, one of the near cursor shortens it.                           *)
(***************************************************************************)
LEMMA WordMinus ==
    ASSUME NEW W \in Nat \ {0}, NEW x \in 0..(W - 1), NEW y \in 0..(W - 1)
    PROVE  /\ (x - y) % W = IF x >= y THEN x - y ELSE x - y + W
           /\ (x - y) % W \in 0..(W - 1)
  <1> DEFINE n == x - y
  <1>1. n \in Int /\ n < W /\ -W < n /\ (n >= 0 <=> x >= y)
    OBVIOUS
  <1> HIDE DEF n
  <1>2. CASE n >= 0
    <2>1. n \in 0..(W - 1)
      BY <1>1, <1>2
    <2>2. n % W = n
      BY <2>1
    <2> QED BY <1>1, <1>2, <2>1, <2>2 DEF n
  <1>3. CASE n < 0
    <2>1. n \in (-W)..(-1)
      BY <1>1, <1>3
    <2>2. n % W = n + W
      BY <2>1
    <2> QED BY <1>1, <1>3, <2>1, <2>2 DEF n
  <1> QED BY <1>1, <1>2, <1>3

LEMMA WordPlus ==
    ASSUME NEW W \in Nat \ {0}, NEW x \in 0..(W - 1), NEW y \in 0..(W - 1)
    PROVE  /\ (x + y) % W = IF x + y < W THEN x + y ELSE x + y - W
           /\ (x + y) % W \in 0..(W - 1)
  <1> DEFINE n == x + y
  <1>1. n \in Nat /\ n <= 2 * W - 2
    OBVIOUS
  <1> HIDE DEF n
  <1>2. n < W => n % W = n
    BY <1>1
  <1>3. n >= W => n % W = n - W
    <2> SUFFICES ASSUME n >= W PROVE n % W = n - W
      OBVIOUS
    <2>1. n \in W..(2 * W - 1)
      BY <1>1
    <2> QED BY <2>1
  <1> QED BY <1>1, <1>2, <1>3 DEF n

LEMMA WordFarther ==
    ASSUME NEW W \in Nat \ {0}, NEW x \in 0..(W - 1), NEW y \in 0..(W - 1),
           NEW n \in 0..(W - 1), ((x - y) % W) + n < W
    PROVE  (((x + n) % W) - y) % W = ((x - y) % W) + n
  <1> DEFINE d == (x - y) % W
             u == (x + n) % W
             e == (u - y) % W
  <1>1. d \in 0..(W - 1) /\ d = IF x >= y THEN x - y ELSE x - y + W
    BY WordMinus
  <1>2. u \in 0..(W - 1) /\ u = IF x + n < W THEN x + n ELSE x + n - W
    BY WordPlus
  <1>3. e \in 0..(W - 1) /\ e = IF u >= y THEN u - y ELSE u - y + W
    BY <1>2, WordMinus
  <1>4. d + n < W
    OBVIOUS
  <1> HIDE DEF d, u, e
  <1>5. e = d + n
    BY <1>1, <1>2, <1>3, <1>4
  <1> QED BY <1>5 DEF d, u, e

LEMMA WordNearer ==
    ASSUME NEW W \in Nat \ {0}, NEW x \in 0..(W - 1), NEW y \in 0..(W - 1),
           NEW n \in 0..(W - 1), n <= (x - y) % W
    PROVE  (x - ((y + n) % W)) % W = ((x - y) % W) - n
  <1> DEFINE d == (x - y) % W
             u == (y + n) % W
             e == (x - u) % W
  <1>1. d \in 0..(W - 1) /\ d = IF x >= y THEN x - y ELSE x - y + W
    BY WordMinus
  <1>2. u \in 0..(W - 1) /\ u = IF y + n < W THEN y + n ELSE y + n - W
    BY WordPlus
  <1>3. e \in 0..(W - 1) /\ e = IF x >= u THEN x - u ELSE x - u + W
    BY <1>2, WordMinus
  <1>4. n <= d
    OBVIOUS
  <1> HIDE DEF d, u, e
  <1>5. e = d - n
    BY <1>1, <1>2, <1>3, <1>4
  <1> QED BY <1>5 DEF d, u, e

(***************************************************************************)
(* RingClient: the distances of its cursors.                               *)
(***************************************************************************)
Distance(x, t) == (x - t) % Word

LEMMA Constants ==
    /\ kBufferSize \in Nat \ {0} /\ Word \in Nat \ {0} /\ kBufferSize < Word
    /\ Word % kBufferSize = 0
    /\ Sizes \subseteq Nat \ {0}
  BY ClientAssumption

LEMMA DistanceIs ==
    ASSUME NEW x \in 0..(Word - 1), NEW t \in 0..(Word - 1)
    PROVE  /\ Distance(x, t) = IF x >= t THEN x - t ELSE x - t + Word
           /\ Distance(x, t) \in 0..(Word - 1)
  BY Constants, WordMinus DEF Distance

LEMMA AdvanceIs ==
    ASSUME NEW x \in 0..(Word - 1), NEW s \in 0..(Word - 1)
    PROVE  /\ (x + s) % Word = IF x + s < Word THEN x + s ELSE x + s - Word
           /\ (x + s) % Word \in 0..(Word - 1)
  BY Constants, WordPlus

LEMMA FarAdvance ==
    ASSUME NEW x \in 0..(Word - 1), NEW t \in 0..(Word - 1), NEW s \in Nat,
           Distance(x, t) + s < Word
    PROVE  Distance((x + s) % Word, t) = Distance(x, t) + s
  <1>1. s \in 0..(Word - 1)
    BY DistanceIs, Constants
  <1> QED BY <1>1, Constants, WordFarther DEF Distance

LEMMA NearAdvance ==
    ASSUME NEW x \in 0..(Word - 1), NEW t \in 0..(Word - 1), NEW s \in Nat,
           s <= Distance(x, t)
    PROVE  Distance(x, (t + s) % Word) = Distance(x, t) - s
  <1>1. s \in 0..(Word - 1)
    BY DistanceIs, Constants
  <1> QED BY <1>1, Constants, WordNearer DEF Distance

LEMMA Between ==
    ASSUME NEW x \in 0..(Word - 1), NEW t \in 0..(Word - 1), NEW u \in 0..(Word - 1),
           Distance(t, u) <= Distance(x, u)
    PROVE  Distance(x, t) = Distance(x, u) - Distance(t, u)
  <1>1. /\ Distance(x, t) = IF x >= t THEN x - t ELSE x - t + Word
        /\ Distance(x, u) = IF x >= u THEN x - u ELSE x - u + Word
        /\ Distance(t, u) = IF t >= u THEN t - u ELSE t - u + Word
    BY DistanceIs
  <1> QED BY <1>1, Constants

(***************************************************************************)
(* The inductive invariant.  The regions in use are laid end to end from   *)
(* the tail to the head, so their distances from the tail order them; a    *)
(* tail that was loaded before lies at most a buffer behind the head.      *)
(***************************************************************************)
EndOf(r) == (r.at + r.size) % Word

Chained ==
    /\ live = <<>> => head_ = tail_
    /\ live # <<>> => live[1].at = tail_ /\ EndOf(live[Len(live)]) = head_
    /\ \A i \in 1..(Len(live) - 1) : live[i + 1].at = EndOf(live[i])

Ordered ==
    /\ \A i \in 1..Len(live) : Distance(live[i].at, tail_) + live[i].size <= InRing
    /\ \A i, j \in 1..Len(live) : i < j =>
          Distance(live[i].at, tail_) + live[i].size <= Distance(live[j].at, tail_)

Placed == \A i \in 1..Len(live) : live[i].start = live[i].at % kBufferSize

RingInv == TypeOK /\ WindowBounded /\ Chained /\ Ordered /\ Placed

LEMMA InRingIs ==
    ASSUME TypeOK
    PROVE  InRing = Distance(head_, tail_) /\ InRing \in 0..(Word - 1)
  BY DistanceIs DEF InRing, Distance, TypeOK, Ring!RingTypeOK

(***************************************************************************)
(* The test of RequestWriteSpace, without its modular subtractions.        *)
(***************************************************************************)
LEMMA FitsIs ==
    ASSUME TypeOK, NEW t \in 0..(Word - 1), NEW s \in Nat,
           Distance(head_, t) <= kBufferSize
    PROVE  Ring!Fits(s, t) <=> Distance(head_, t) + s <= kBufferSize
  <1>1. Distance(head_, t) \in 0..(Word - 1)
    BY DistanceIs DEF TypeOK, Ring!RingTypeOK
  <1> DEFINE f == kBufferSize - Distance(head_, t)
  <1>2. f \in 0..(Word - 1)
    BY <1>1, Constants
  <1> HIDE DEF f
  <1>3. f % Word = f
    BY <1>2, Constants
  <1>4. Ring!FreeSpace(t) = f
    BY <1>3 DEF Ring!FreeSpace, Ring!UsedSpace, Distance, f
  <1> QED BY <1>1, <1>4, Constants DEF Ring!Fits, f

LEMMA LiveTypes ==
    ASSUME TypeOK, NEW i \in 1..Len(live)
    PROVE  /\ live[i].at \in 0..(Word - 1) /\ live[i].size \in Nat \ {0}
           /\ live[i].start \in 0..(kBufferSize - 1)
           /\ live[i].size \in Sizes
  <1>1. live[i] \in Region
    BY DEF TypeOK
  <1> QED BY <1>1, Constants DEF Region

LEMMA RingInvInit == Init => RingInv
  <1> SUFFICES ASSUME Init PROVE RingInv
    OBVIOUS
  <1>1. TypeOK
    BY Constants DEF Init, Ring!RingInit, TypeOK, Ring!RingTypeOK
  <1>2. WindowBounded
    <2>1. head_ \in 0..(Word - 1) /\ tail_ \in 0..(Word - 1) /\ head_ = tail_
      BY <1>1 DEF Init, Ring!RingInit, TypeOK, Ring!RingTypeOK
    <2>2. Distance(head_, tail_) = 0
      BY <2>1, DistanceIs, Constants
    <2> QED BY <2>2, Constants DEF Init, WindowBounded, InRing, Distance
  <1> QED BY <1>1, <1>2 DEF Init, Ring!RingInit, RingInv, Chained, Ordered, Placed

LEMMA LoadTailKeeps ==
    ASSUME RingInv, NEW s \in Sizes, LoadTail(s)
    PROVE  RingInv'
  <1>1. TypeOK'
    BY DEF RingInv, LoadTail, TypeOK, Ring!RingTypeOK
  <1>2. Distance(tail_, tail_) = 0
    BY DistanceIs, Constants DEF RingInv, TypeOK, Ring!RingTypeOK
  <1>3. WindowBounded'
    BY <1>2, InRingIs DEF RingInv, LoadTail, WindowBounded, InRing, Distance
  <1> QED BY <1>1, <1>3
       DEF RingInv, LoadTail, Chained, Ordered, Placed, InRing, Distance, EndOf

LEMMA RefuseKeeps ==
    ASSUME RingInv, Refuse
    PROVE  RingInv'
  BY DEF RingInv, Refuse, TypeOK, Ring!RingTypeOK, WindowBounded, Chained, Ordered,
         Placed, InRing, Distance, EndOf

(***************************************************************************)
(* What Reserve has to spare, with the tail of this moment.                *)
(***************************************************************************)
LEMMA Room ==
    ASSUME RingInv, Reserve
    PROVE  /\ size \in Sizes /\ size \in Nat \ {0}
           /\ InRing + size <= kBufferSize
           /\ Distance(head_, cur_tail) + size <= kBufferSize
  <1>1. /\ head_ \in 0..(Word - 1) /\ tail_ \in 0..(Word - 1)
        /\ cur_tail \in 0..(Word - 1) /\ size \in Sizes
    BY DEF RingInv, TypeOK, Ring!RingTypeOK, Reserve
  <1>2. size \in Nat \ {0}
    BY <1>1, Constants
  <1>3. /\ Distance(head_, cur_tail) <= kBufferSize
        /\ Distance(tail_, cur_tail) <= Distance(head_, cur_tail)
    BY DEF RingInv, Reserve, WindowBounded, Distance
  <1>4. Distance(head_, cur_tail) + size <= kBufferSize
    BY <1>1, <1>2, <1>3, FitsIs DEF RingInv, Reserve
  <1>5. InRing = Distance(head_, cur_tail) - Distance(tail_, cur_tail)
    BY <1>1, <1>3, Between, InRingIs DEF RingInv
  <1>6. Distance(tail_, cur_tail) \in Nat /\ Distance(head_, cur_tail) \in Nat
    <2>1. /\ Distance(tail_, cur_tail) \in 0..(Word - 1)
          /\ Distance(head_, cur_tail) \in 0..(Word - 1)
      BY <1>1, DistanceIs
    <2> QED BY <2>1, Constants
  <1> QED BY <1>1, <1>2, <1>4, <1>5, <1>6, Constants

LEMMA ReserveKeeps ==
    ASSUME RingInv, Reserve
    PROVE  RingInv'
  <1> DEFINE r == [start |-> Ring!HeadIndex, size |-> size, at |-> head_]
             n == Len(live)
  <1>1. /\ head_ \in 0..(Word - 1) /\ tail_ \in 0..(Word - 1)
        /\ cur_tail \in 0..(Word - 1) /\ live \in Seq(Region) /\ n \in Nat
    BY DEF RingInv, TypeOK, Ring!RingTypeOK
  <1>2. r \in Region
    <2>1. Ring!HeadIndex \in 0..(kBufferSize - 1)
      BY <1>1, Constants DEF Ring!HeadIndex
    <2> QED BY <2>1, <1>1, Room DEF Region
  <1>3. head_' = (head_ + size) % Word /\ head_' \in 0..(Word - 1)
    <2>1. size \in 0..(Word - 1)
      BY Room, InRingIs, Constants DEF RingInv
    <2> QED BY <2>1, <1>1, AdvanceIs DEF Reserve, Ring!AdvanceHead
  <1>4. /\ live' = Append(live, r) /\ tail_' = tail_ /\ size' = 0 /\ cur_tail' = cur_tail
    BY DEF Reserve
  <1>5. /\ live' \in Seq(Region) /\ Len(live') = n + 1
        /\ \A i \in 1..n : live'[i] = live[i]
        /\ live'[n + 1] = r
    BY <1>1, <1>2, <1>4
  <1>6. TypeOK'
    BY <1>1, <1>3, <1>4, <1>5 DEF TypeOK, Ring!RingTypeOK
  <1>7. InRing' = InRing + size /\ InRing' <= kBufferSize
    <2>1. Distance(head_, tail_) + size < Word
      BY Room, InRingIs, Constants DEF RingInv
    <2>2. Distance((head_ + size) % Word, tail_) = Distance(head_, tail_) + size
      BY <1>1, <2>1, FarAdvance, Room
    <2> QED BY <2>2, <1>3, <1>4, InRingIs, Room DEF InRing, Distance, RingInv
  <1>8. WindowBounded'
    BY <1>4, <1>7 DEF WindowBounded
  <1>9. Chained'
    <2>1. live' # <<>>
      BY <1>5, <1>1
    <2>2. live'[1].at = tail_'
      <3>1. CASE n = 0
        BY <3>1, <1>1, <1>4, <1>5 DEF RingInv, Chained
      <3>2. CASE n # 0
        BY <3>2, <1>1, <1>4, <1>5 DEF RingInv, Chained
      <3> QED BY <3>1, <3>2
    <2>3. EndOf(live'[Len(live')]) = head_'
      BY <1>1, <1>3, <1>5 DEF EndOf
    <2>4. ASSUME NEW i \in 1..(Len(live') - 1) PROVE live'[i + 1].at = EndOf(live'[i])
      <3>1. CASE i = n
        <4>1. live # <<>> /\ EndOf(live[n]) = head_
          BY <3>1, <2>4, <1>1, <1>5 DEF RingInv, Chained
        <4> QED BY <4>1, <3>1, <2>4, <1>1, <1>5
      <3>2. CASE i # n
        <4>1. i \in 1..(n - 1) /\ i \in 1..n /\ i + 1 \in 1..n
          BY <3>2, <2>4, <1>1, <1>5
        <4> QED BY <4>1, <1>5 DEF RingInv, Chained
      <3> QED BY <3>1, <3>2
    <2> QED BY <2>1, <2>2, <2>3, <2>4 DEF Chained, EndOf
  <1>10. Ordered'
    <2>1. ASSUME NEW i \in 1..n
          PROVE  /\ Distance(live[i].at, tail_) + live[i].size <= InRing
                 /\ Distance(live[i].at, tail_) \in Nat /\ live[i].size \in Nat
      <3>1. live[i].at \in 0..(Word - 1) /\ live[i].size \in Nat
        BY LiveTypes DEF RingInv
      <3>2. Distance(live[i].at, tail_) \in 0..(Word - 1)
        BY <3>1, <1>1, DistanceIs
      <3> QED BY <3>1, <3>2, Constants DEF RingInv, Ordered
    <2>2. Distance(r.at, tail_) = InRing /\ r.size = size
      BY InRingIs DEF RingInv
    <2>3. InRing \in Nat /\ size \in Nat
      BY InRingIs, Room, Constants DEF RingInv
    <2>4. ASSUME NEW i \in 1..Len(live')
          PROVE  Distance(live'[i].at, tail_') + live'[i].size <= InRing'
      BY <2>1, <2>2, <2>3, <1>1, <1>4, <1>5, <1>7
    <2>5. ASSUME NEW i \in 1..Len(live'), NEW j \in 1..Len(live'), i < j
          PROVE  Distance(live'[i].at, tail_') + live'[i].size
                     <= Distance(live'[j].at, tail_')
      <3>1. i \in 1..n
        BY <2>5, <1>1, <1>5
      <3>2. CASE j = n + 1
        BY <3>1, <3>2, <2>1, <2>2, <1>4, <1>5
      <3>3. CASE j # n + 1
        <4>1. j \in 1..n
          BY <3>3, <1>1, <1>5
        <4> QED BY <4>1, <3>1, <2>5, <1>4, <1>5 DEF RingInv, Ordered
      <3> QED BY <3>2, <3>3
    <2> QED BY <2>4, <2>5 DEF Ordered, Distance
  <1>11. Placed'
    <2> SUFFICES ASSUME NEW i \in 1..Len(live')
                 PROVE  live'[i].start = live'[i].at % kBufferSize
      BY DEF Placed
    <2>1. CASE i = n + 1
      BY <2>1, <1>5 DEF Ring!HeadIndex
    <2>2. CASE i # n + 1
      <3>1. i \in 1..n
        BY <2>2, <1>1, <1>5
      <3> QED BY <3>1, <1>5 DEF RingInv, Placed
    <2> QED BY <2>1, <2>2
  <1> QED BY <1>6, <1>8, <1>9, <1>10, <1>11 DEF RingInv

LEMMA CommitKeeps ==
    ASSUME RingInv, CommitWrite
    PROVE  /\ RingInv'
           /\ InRing' = InRing - Head(live).size
           /\ Head(live).size <= InRing
  <1> DEFINE n == Len(live)
             s == live[1].size
  <1>1. /\ head_ \in 0..(Word - 1) /\ tail_ \in 0..(Word - 1)
        /\ cur_tail \in 0..(Word - 1) /\ live \in Seq(Region) /\ n \in Nat \ {0}
        /\ 1 \in 1..n /\ Head(live) = live[1]
    BY DEF RingInv, TypeOK, Ring!RingTypeOK, CommitWrite
  <1>2. s \in Nat \ {0} /\ live[1].at = tail_
    BY <1>1, LiveTypes DEF RingInv, Chained, CommitWrite
  <1>3. Distance(tail_, tail_) = 0
    BY <1>1, DistanceIs, Constants
  <1>4. s <= InRing /\ s \in 0..(Word - 1)
    <2>1. Distance(live[1].at, tail_) + s <= InRing
      BY <1>1 DEF RingInv, Ordered
    <2> QED BY <2>1, <1>2, <1>3, InRingIs, Constants DEF RingInv
  <1>5. /\ tail_' = (tail_ + s) % Word /\ tail_' \in 0..(Word - 1)
        /\ head_' = head_ /\ size' = size /\ cur_tail' = cur_tail /\ live' = Tail(live)
    BY <1>1, <1>4, AdvanceIs DEF CommitWrite, Ring!CommitWrite
  <1>6. /\ live' \in Seq(Region) /\ Len(live') = n - 1
        /\ \A i \in 1..(n - 1) : live'[i] = live[i + 1]
    BY <1>1, <1>5
  <1>7. TypeOK'
    BY <1>5, <1>6 DEF RingInv, TypeOK, Ring!RingTypeOK
  <1>8. InRing' = InRing - s
    <2>1. Distance(head_, (tail_ + s) % Word) = Distance(head_, tail_) - s
      BY <1>1, <1>2, <1>4, NearAdvance, InRingIs DEF RingInv
    <2> QED BY <2>1, <1>5, InRingIs DEF RingInv, InRing, Distance
  <1>9. WindowBounded'
    <2>1. InRing' <= kBufferSize
      <3>1. InRing \in 0..(Word - 1) /\ InRing <= kBufferSize
        BY InRingIs DEF RingInv, WindowBounded
      <3> QED BY <3>1, <1>2, <1>8, Constants
    <2>2. ASSUME size # 0
          PROVE  /\ Distance(head_, cur_tail) <= kBufferSize
                 /\ Distance(tail_', cur_tail) <= Distance(head_, cur_tail)
      <3>1. /\ Distance(head_, cur_tail) <= kBufferSize
            /\ Distance(tail_, cur_tail) <= Distance(head_, cur_tail)
        BY <2>2 DEF RingInv, WindowBounded, Distance
      <3>2. InRing = Distance(head_, cur_tail) - Distance(tail_, cur_tail)
        BY <3>1, <1>1, Between, InRingIs DEF RingInv
      <3>3. /\ Distance(tail_, cur_tail) \in 0..(Word - 1)
            /\ Distance(head_, cur_tail) \in 0..(Word - 1)
        BY <1>1, DistanceIs
      <3>4. Distance(tail_, cur_tail) + s <= Distance(head_, cur_tail)
        BY <3>2, <3>3, <1>2, <1>4, Constants
      <3>5. Distance(tail_, cur_tail) + s < Word
        BY <3>3, <3>4, <1>2, Constants
      <3>6. Distance((tail_ + s) % Word, cur_tail) = Distance(tail_, cur_tail) + s
        BY <3>5, <1>1, <1>2, FarAdvance
      <3> QED BY <3>1, <3>4, <3>6, <1>5
    <2> QED BY <2>1, <2>2, <1>5 DEF WindowBounded, Distance
  <1>10. Chained'
    <2>1. live' = <<>> => head_' = tail_'
      <3> SUFFICES ASSUME n = 1 PROVE head_' = tail_'
        BY <1>1, <1>6
      <3>1. live # <<>>
        BY DEF CommitWrite
      <3> QED BY <3>1, <1>1, <1>2, <1>5 DEF RingInv, Chained, EndOf
    <2>2. ASSUME live' # <<>>
          PROVE  live'[1].at = tail_' /\ EndOf(live'[Len(live')]) = head_'
      <3>1. n > 1
        BY <2>2, <1>1, <1>6
      <3>2. live'[1] = live[2] /\ live'[Len(live')] = live[n]
        BY <3>1, <1>1, <1>6
      <3>3. 1 \in 1..(n - 1) /\ 1 + 1 = 2
        BY <3>1, <1>1
      <3>4. live[2].at = EndOf(live[1]) /\ EndOf(live[n]) = head_
        BY <3>1, <3>3, <1>1 DEF RingInv, Chained
      <3> QED BY <3>2, <3>4, <1>2, <1>5 DEF EndOf
    <2>3. ASSUME NEW i \in 1..(Len(live') - 1) PROVE live'[i + 1].at = EndOf(live'[i])
      <3>1. i + 1 \in 1..(n - 1) /\ i \in 1..(n - 1)
        BY <2>3, <1>1, <1>6
      <3>2. live'[i + 1] = live[i + 1 + 1] /\ live'[i] = live[i + 1]
        BY <3>1, <1>6
      <3> QED BY <3>1, <3>2 DEF RingInv, Chained
    <2> QED BY <2>1, <2>2, <2>3 DEF Chained, EndOf
  <1>11. ASSUME NEW i \in 2..n
         PROVE  /\ Distance(live[i].at, tail_') = Distance(live[i].at, tail_) - s
                /\ Distance(live[i].at, tail_) \in Int /\ live[i].size \in Int
    <2>1. i \in 1..n /\ 1 < i
      BY <1>1
    <2>2. live[i].at \in 0..(Word - 1) /\ live[i].size \in Int
      BY <2>1, LiveTypes DEF RingInv
    <2>3. Distance(live[1].at, tail_) + s <= Distance(live[i].at, tail_)
      BY <2>1, <1>1 DEF RingInv, Ordered
    <2>4. Distance(live[i].at, tail_) \in 0..(Word - 1)
      BY <2>2, <1>1, DistanceIs
    <2>5. s <= Distance(live[i].at, tail_)
      BY <2>3, <2>4, <1>2, <1>3, Constants
    <2>6. Distance(live[i].at, (tail_ + s) % Word) = Distance(live[i].at, tail_) - s
      BY <2>2, <2>5, <1>1, <1>2, NearAdvance
    <2> QED BY <2>2, <2>4, <2>6, <1>5, Constants
  <1>12. Ordered'
    <2>1. ASSUME NEW i \in 1..Len(live')
          PROVE  Distance(live'[i].at, tail_') + live'[i].size <= InRing'
      <3>1. i + 1 \in 2..n /\ i + 1 \in 1..n /\ live'[i] = live[i + 1]
        BY <1>1, <1>6
      <3>2. Distance(live[i + 1].at, tail_) + live[i + 1].size <= InRing
        BY <3>1 DEF RingInv, Ordered
      <3>3. /\ Distance(live[i + 1].at, tail_') = Distance(live[i + 1].at, tail_) - s
            /\ Distance(live[i + 1].at, tail_) \in Int /\ live[i + 1].size \in Int
        BY <3>1, <1>11
      <3>4. InRing \in Int
        BY InRingIs, Constants DEF RingInv
      <3> QED BY <3>1, <3>2, <3>3, <3>4, <1>2, <1>8
    <2>2. ASSUME NEW i \in 1..Len(live'), NEW j \in 1..Len(live'), i < j
          PROVE  Distance(live'[i].at, tail_') + live'[i].size
                     <= Distance(live'[j].at, tail_')
      <3>1. /\ i + 1 \in 2..n /\ i + 1 \in 1..n /\ live'[i] = live[i + 1]
            /\ j + 1 \in 2..n /\ j + 1 \in 1..n /\ live'[j] = live[j + 1]
            /\ i + 1 < j + 1
        BY <2>2, <1>1, <1>6
      <3>2. Distance(live[i + 1].at, tail_) + live[i + 1].size
               <= Distance(live[j + 1].at, tail_)
        BY <3>1 DEF RingInv, Ordered
      <3>3. /\ Distance(live[i + 1].at, tail_') = Distance(live[i + 1].at, tail_) - s
            /\ Distance(live[i + 1].at, tail_) \in Int /\ live[i + 1].size \in Int
            /\ Distance(live[j + 1].at, tail_') = Distance(live[j + 1].at, tail_) - s
            /\ Distance(live[j + 1].at, tail_) \in Int
        BY <3>1, <1>11
      <3> QED BY <3>1, <3>2, <3>3, <1>2
    <2> QED BY <2>1, <2>2 DEF Ordered, Distance
  <1>13. Placed'
    <2> SUFFICES ASSUME NEW i \in 1..Len(live')
                 PROVE  live'[i].start = live'[i].at % kBufferSize
      BY DEF Placed
    <2>1. i + 1 \in 1..n /\ live'[i] = live[i + 1]
      BY <1>1, <1>6
    <2> QED BY <2>1 DEF RingInv, Placed
  <1> QED BY <1>1, <1>4, <1>7, <1>8, <1>9, <1>10, <1>12, <1>13 DEF RingInv

LEMMA RingInvStep == RingInv /\ [Next]_vars => RingInv'
  <1> SUFFICES ASSUME RingInv, [Next]_vars PROVE RingInv'
    OBVIOUS
  <1>1. CASE UNCHANGED vars
    BY <1>1 DEF vars, RingInv, TypeOK, Ring!RingTypeOK, WindowBounded, Chained, Ordered,
                Placed, InRing, Distance, EndOf
  <1>2. CASE Next
    BY <1>2, LoadTailKeeps, ReserveKeeps, RefuseKeeps, CommitKeeps DEF Next
  <1> QED BY <1>1, <1>2

LEMMA RingInvariant == Spec => []RingInv
  <1>1. Init => RingInv
    BY RingInvInit
  <1>2. RingInv /\ [Next]_vars => RingInv'
    BY RingInvStep
  <1> QED BY <1>1, <1>2, PTL DEF Spec

(***************************************************************************)
(* head_ and tail_ are size_t and have the range of one.                   *)
(***************************************************************************)
THEOREM RingTypes == Spec => []TypeOK
  <1>1. RingInv => TypeOK
    BY DEF RingInv
  <1> QED BY <1>1, RingInvariant, PTL

(***************************************************************************)
(* The subtractions of sp_ring_buffer.h lines 69 and 70 never wrap by      *)
(* accident: the cursors stay at most a buffer apart, and so do the head   *)
(* and a tail that was loaded before the consumer moved it.                *)
(***************************************************************************)
THEOREM WindowStaysBounded == Spec => []WindowBounded
  <1>1. RingInv => WindowBounded
    BY DEF RingInv
  <1> QED BY <1>1, RingInvariant, PTL

(***************************************************************************)
(* Regions in use do not share a byte.  Two offsets that are congruent     *)
(* modulo kBufferSize are at least a buffer apart, and all regions lie     *)
(* within one buffer of the tail.                                          *)
(***************************************************************************)
LEMMA Quotient ==
    ASSUME NEW n \in Int, NEW w \in Nat \ {0}
    PROVE  \E q \in Int : n = (w * q) + (n % w)
  <1>1. n \div w \in Int /\ n = (w * (n \div w)) + (n % w)
    OBVIOUS
  <1> QED BY <1>1

LEMMA NoMultiple ==
    ASSUME NEW w \in Nat \ {0}, NEW n \in Int, 0 < w * n, w * n < w
    PROVE  FALSE
  OBVIOUS

LEMMA Congruent ==
    ASSUME NEW i \in 1..Len(live), NEW a \in Nat, TypeOK, Placed
    PROVE  \E q \in Int : tail_ + Distance(live[i].at, tail_) + a
                            = (kBufferSize * q) + ((live[i].start + a) % kBufferSize)
  <1> DEFINE x == live[i].at
             d == Distance(x, tail_)
  <1>1. x \in 0..(Word - 1) /\ tail_ \in 0..(Word - 1)
    BY LiveTypes DEF TypeOK, Ring!RingTypeOK
  <1>2. PICK m \in Int : Word = kBufferSize * m
    <2>1. Word \in Int /\ kBufferSize \in Nat \ {0}
      BY Constants
    <2>2. PICK m \in Int : Word = (kBufferSize * m) + (Word % kBufferSize)
      BY <2>1, Quotient, Zenon
    <2>3. kBufferSize * m \in Int
      BY <2>1, <2>2
    <2>4. Word = kBufferSize * m
      BY <2>2, <2>3, Constants
    <2> QED BY <2>4, <2>2
  <1>3. PICK e \in {0, 1} : tail_ + d = x + Word * e
    <2>1. d = IF x >= tail_ THEN x - tail_ ELSE x - tail_ + Word
      BY <1>1, DistanceIs
    <2>2. CASE x >= tail_
      <3>1. tail_ + d = x + Word * 0
        BY <2>1, <2>2, <1>1, Constants
      <3> QED BY <3>1
    <2>3. CASE ~(x >= tail_)
      <3>1. tail_ + d = x + Word * 1
        BY <2>1, <2>3, <1>1, Constants
      <3> QED BY <3>1
    <2> QED BY <2>2, <2>3
  <1>4. live[i].start = x % kBufferSize /\ live[i].start \in Nat
    BY LiveTypes, Constants DEF Placed
  <1>5. PICK p \in Int : x = (kBufferSize * p) + live[i].start
    <2>1. x \in Int /\ kBufferSize \in Nat \ {0}
      BY <1>1, Constants
    <2>2. \E p \in Int : x = (kBufferSize * p) + (x % kBufferSize)
      BY <2>1, Quotient, Zenon
    <2> QED BY <2>2, <1>4
  <1>6. PICK q \in Int : live[i].start + a
                           = (kBufferSize * q) + ((live[i].start + a) % kBufferSize)
    <2>1. live[i].start + a \in Int /\ kBufferSize \in Nat \ {0}
      BY <1>4, Constants
    <2> QED BY <2>1, Quotient, Zenon
  <1> DEFINE r == (live[i].start + a) % kBufferSize
  <1>7. r \in Int
    BY <1>4, Constants
  <1> HIDE DEF r
  <1>8. Word * e = kBufferSize * (m * e)
    BY <1>2, <1>3, Constants
  <1>9. tail_ + d + a = (kBufferSize * p) + (kBufferSize * q) + (kBufferSize * (m * e)) + r
    <2>1. d \in Int
      <3>1. d \in 0..(Word - 1)
        BY <1>1, DistanceIs
      <3> QED BY <3>1, Constants
    <2>2. /\ kBufferSize * p \in Int /\ kBufferSize * q \in Int
          /\ kBufferSize * (m * e) \in Int
      BY <1>2, <1>3, <1>5, <1>6, Constants
    <2>3. live[i].start + a = (kBufferSize * q) + r
      BY <1>6 DEF r
    <2> DEFINE P == kBufferSize * p
               Q == kBufferSize * q
               M == kBufferSize * (m * e)
               start == live[i].start
    <2>4. /\ P \in Int /\ Q \in Int /\ M \in Int /\ start \in Int
          /\ x = P + start /\ start + a = Q + r /\ tail_ + d = x + M
      BY <2>2, <2>3, <1>3, <1>4, <1>5, <1>8
    <2>5. x \in Int /\ tail_ \in Int
      BY <1>1, Constants
    <2> HIDE DEF P, Q, M, start, x, d
    <2>6. tail_ + d + a = P + Q + M + r
      BY <2>1, <2>4, <2>5, <1>7
    <2> QED BY <2>6 DEF P, Q, M
  <1>10. tail_ + d + a = (kBufferSize * (p + q + (m * e))) + r
    BY <1>2, <1>3, <1>5, <1>6, <1>7, <1>9, Constants
  <1>11. p + q + (m * e) \in Int
    BY <1>2, <1>3, <1>5, <1>6
  <1> QED BY <1>10, <1>11 DEF r

LEMMA Apart ==
    ASSUME RingInv, NEW i \in 1..Len(live), NEW j \in 1..Len(live), i < j
    PROVE  Bytes(live[i]) \cap Bytes(live[j]) = {}
  <1> SUFFICES ASSUME NEW b \in Bytes(live[i]), b \in Bytes(live[j]) PROVE FALSE
    OBVIOUS
  <1> DEFINE di == Distance(live[i].at, tail_)
             dj == Distance(live[j].at, tail_)
  <1>1. PICK x \in 0..(live[i].size - 1) : b = (live[i].start + x) % kBufferSize
    BY DEF Bytes
  <1>2. PICK y \in 0..(live[j].size - 1) : b = (live[j].start + y) % kBufferSize
    BY DEF Bytes
  <1>3. /\ live[i].at \in 0..(Word - 1) /\ live[i].size \in Nat /\ live[i].start \in Nat
        /\ live[j].at \in 0..(Word - 1) /\ live[j].size \in Nat /\ live[j].start \in Nat
        /\ tail_ \in 0..(Word - 1)
    BY LiveTypes, Constants DEF RingInv, TypeOK, Ring!RingTypeOK
  <1>4. di \in Nat /\ dj \in Nat
    <2>1. di \in 0..(Word - 1) /\ dj \in 0..(Word - 1)
      BY <1>3, DistanceIs
    <2> QED BY <2>1, Constants
  <1>5. di + live[i].size <= dj /\ dj + live[j].size <= kBufferSize
    <2>1. /\ di + live[i].size <= dj
          /\ dj + live[j].size <= InRing /\ InRing <= kBufferSize /\ InRing \in 0..(Word - 1)
      BY InRingIs DEF RingInv, Ordered, WindowBounded
    <2> HIDE DEF di, dj
    <2>2. kBufferSize \in Nat /\ InRing \in Nat /\ dj \in Nat /\ live[j].size \in Nat
      BY <2>1, <1>3, <1>4, Constants
    <2>3. dj + live[j].size <= kBufferSize
      BY <2>1, <2>2
    <2> QED BY <2>1, <2>3
  <1> HIDE DEF di, dj
  <1>6. x \in Nat /\ y \in Nat /\ di + x < dj + y /\ dj + y < kBufferSize
    <2> DEFINE si == live[i].size
               sj == live[j].size
    <2>1. /\ x \in 0..(si - 1) /\ y \in 0..(sj - 1) /\ si \in Nat /\ sj \in Nat
          /\ di + si <= dj /\ dj + sj <= kBufferSize
      BY <1>3, <1>5
    <2> HIDE DEF si, sj
    <2> QED BY <2>1, <1>4, Constants
  <1>7. PICK q \in Int : tail_ + di + x = (kBufferSize * q) + b
    BY <1>1, <1>6, Congruent DEF RingInv, di
  <1>8. PICK p \in Int : tail_ + dj + y = (kBufferSize * p) + b
    BY <1>2, <1>6, Congruent DEF RingInv, dj
  <1>9. b \in Int
    BY <1>1, <1>3, Constants
  <1>10. (dj + y) - (di + x) = (kBufferSize * p) - (kBufferSize * q)
    BY <1>3, <1>4, <1>6, <1>7, <1>8, <1>9, Constants
  <1>11. (kBufferSize * p) - (kBufferSize * q) = kBufferSize * (p - q)
    BY <1>7, <1>8, Constants
  <1>12. 0 < kBufferSize * (p - q) /\ kBufferSize * (p - q) < kBufferSize
    BY <1>4, <1>6, <1>10, <1>11, Constants
  <1> QED BY <1>12, <1>7, <1>8, NoMultiple, Constants

(***************************************************************************)
(* No byte of the buffer is in two regions in use, whatever their sizes,   *)
(* across the end of the first mapping and through overflow of the         *)
(* cursors (sp_ring_buffer.h lines 67-83).                                 *)
(***************************************************************************)
THEOREM RegionsNeverOverlap == Spec => []NoOverlap
  <1>1. RingInv => NoOverlap
    <2> SUFFICES ASSUME RingInv, NEW i \in 1..Len(live), NEW j \in 1..Len(live), i # j
                 PROVE  Bytes(live[i]) \cap Bytes(live[j]) = {}
      BY DEF NoOverlap
    <2>1. CASE i < j
      BY <2>1, Apart
    <2>2. CASE j < i
      BY <2>2, Apart
    <2> QED BY <2>1, <2>2
  <1> QED BY <1>1, RingInvariant, PTL

(***************************************************************************)
(* Refinement.  In a state of the invariant the ring's own test, with the  *)
(* tail of this moment, is the window's.                                   *)
(***************************************************************************)
LengthsOf(regions) == [i \in 1..Len(regions) |-> regions[i].size]

Lengths == LengthsOf(live)

Tight == size # 0 /\ ~Ring!Fits(size, cur_tail)

LEMMA LengthsOfIs ==
    ASSUME NEW regions \in Seq(Region)
    PROVE  /\ LengthsOf(regions) \in Seq(Sizes)
           /\ Len(LengthsOf(regions)) = Len(regions)
           /\ \A i \in 1..Len(regions) : LengthsOf(regions)[i] = regions[i].size
  <1>1. \A i \in 1..Len(regions) : regions[i] \in Region
    OBVIOUS
  <1>2. \A r \in Region : r.size \in Sizes
    BY DEF Region
  <1>3. Len(regions) \in Nat
    OBVIOUS
  <1> QED BY <1>1, <1>2, <1>3 DEF LengthsOf

LEMMA LengthsOfAppend ==
    ASSUME NEW regions \in Seq(Region), NEW r \in Region
    PROVE  LengthsOf(Append(regions, r)) = Append(LengthsOf(regions), r.size)
  <1> DEFINE more == Append(regions, r)
             old  == LengthsOf(regions)
             s    == LengthsOf(more)
             t    == Append(old, r.size)
             n    == Len(regions)
  <1>1. r.size \in Sizes
    BY DEF Region
  <1>2. /\ more \in Seq(Region) /\ Len(more) = n + 1 /\ n \in Nat
        /\ \A i \in 1..n : more[i] = regions[i]
        /\ more[n + 1] = r
    BY AppendProperties
  <1>3. /\ old \in Seq(Sizes) /\ Len(old) = n
        /\ \A i \in 1..n : old[i] = regions[i].size
    BY LengthsOfIs
  <1> HIDE DEF more, old, n
  <1>4. /\ s \in Seq(Sizes) /\ Len(s) = n + 1
        /\ \A i \in 1..(n + 1) : s[i] = more[i].size
    BY <1>2, LengthsOfIs
  <1>5. /\ t \in Seq(Sizes) /\ Len(t) = n + 1
        /\ \A i \in 1..n : t[i] = old[i]
        /\ t[n + 1] = r.size
    BY <1>1, <1>3, AppendProperties
  <1> HIDE DEF s, t
  <1>6. \A i \in 1..(n + 1) : s[i] = t[i]
    BY <1>2, <1>3, <1>4, <1>5
  <1>7. s = t
    BY <1>4, <1>5, <1>6, SeqEqual
  <1> QED BY <1>7 DEF s, t, more, old

LEMMA LengthsOfTail ==
    ASSUME NEW regions \in Seq(Region), regions # <<>>
    PROVE  /\ LengthsOf(regions) # <<>>
           /\ Head(LengthsOf(regions)) = Head(regions).size
           /\ LengthsOf(Tail(regions)) = Tail(LengthsOf(regions))
  <1> DEFINE less == Tail(regions)
             old  == LengthsOf(regions)
             s    == LengthsOf(less)
             t    == Tail(old)
             n    == Len(regions)
  <1>1. n \in Nat \ {0} /\ Head(regions) = regions[1]
    OBVIOUS
  <1>2. /\ less \in Seq(Region) /\ Len(less) = n - 1
        /\ \A i \in 1..(n - 1) : less[i] = regions[i + 1]
    BY HeadTailProperties
  <1>3. /\ old \in Seq(Sizes) /\ Len(old) = n
        /\ \A i \in 1..n : old[i] = regions[i].size
    BY LengthsOfIs
  <1> HIDE DEF less, old, n
  <1>4. old # <<>> /\ Head(old) = old[1]
    BY <1>1, <1>3
  <1>5. /\ s \in Seq(Sizes) /\ Len(s) = n - 1
        /\ \A i \in 1..(n - 1) : s[i] = less[i].size
    BY <1>2, LengthsOfIs
  <1>6. /\ t \in Seq(Sizes) /\ Len(t) = n - 1
        /\ \A i \in 1..(n - 1) : t[i] = old[i + 1]
    BY <1>3, <1>4, HeadTailProperties
  <1> HIDE DEF s, t
  <1>7. \A i \in 1..(n - 1) : s[i] = t[i]
    BY <1>1, <1>2, <1>3, <1>5, <1>6
  <1>8. s = t
    BY <1>5, <1>6, <1>7, SeqEqual
  <1> QED BY <1>1, <1>3, <1>4, <1>8 DEF s, t, less, old

LEMMA AskSimulated ==
    ASSUME RingInv, NEW s \in Sizes, LoadTail(s)
    PROVE  Window!Ask(s)
  <1>1. /\ size = 0 /\ size' = s /\ cur_tail' = tail_ /\ head_' = head_
        /\ tail_' = tail_ /\ live' = live
    BY DEF LoadTail
  <1>2. TypeOK /\ tail_ \in 0..(Word - 1) /\ s \in Nat \ {0}
    BY Constants DEF RingInv, TypeOK, Ring!RingTypeOK
  <1>3. InRing = Distance(head_, tail_) /\ InRing <= kBufferSize
    BY InRingIs DEF RingInv, WindowBounded
  <1>4. Ring!Fits(s, tail_) <=> InRing + s <= kBufferSize
    BY <1>2, <1>3, FitsIs
  <1>5. InRing \in Nat
    BY <1>2, InRingIs, Constants
  <1>6. Tight' = ~Ring!Fits(s, tail_)
    BY <1>1, <1>2 DEF Tight, Ring!Fits, Ring!FreeSpace, Ring!UsedSpace
  <1>7. Tight' = (InRing + s > kBufferSize)
    BY <1>2, <1>4, <1>5, <1>6, Constants
  <1>8. Lengths' = Lengths /\ InRing' = InRing
    BY <1>1 DEF Lengths, InRing
  <1> QED BY <1>1, <1>7, <1>8 DEF Window!Ask, Lengths, LengthsOf, Tight

LEMMA GrantSimulated ==
    ASSUME RingInv, Reserve
    PROVE  Window!Grant
  <1>1. /\ size # 0 /\ size' = 0 /\ tail_' = tail_
        /\ live' = Append(live, [start |-> Ring!HeadIndex, size |-> size, at |-> head_])
    BY DEF Reserve
  <1>2. live \in Seq(Region) /\ Len(live) \in Nat
    BY DEF RingInv, TypeOK
  <1>3. InRing + size <= kBufferSize
    BY Room
  <1>4. InRing' = InRing + size
    <2>1. /\ head_ \in 0..(Word - 1) /\ tail_ \in 0..(Word - 1)
          /\ size \in Nat /\ InRing \in Nat /\ InRing = Distance(head_, tail_)
      BY Room, InRingIs, Constants DEF RingInv, TypeOK, Ring!RingTypeOK
    <2>2. Distance((head_ + size) % Word, tail_) = InRing + size
      BY <2>1, <1>3, FarAdvance, Constants
    <2> QED BY <2>2, <1>1 DEF InRing, Distance, Reserve, Ring!AdvanceHead
  <1>5. Lengths' = Append(Lengths, size)
    <2>1. [start |-> Ring!HeadIndex, size |-> size, at |-> head_] \in Region
      BY Room, Constants DEF RingInv, TypeOK, Ring!RingTypeOK, Ring!HeadIndex, Region
    <2> QED BY <2>1, <1>1, <1>2, LengthsOfAppend DEF Lengths
  <1>6. Tight' = FALSE
    BY <1>1 DEF Tight
  <1> QED BY <1>1, <1>3, <1>4, <1>5, <1>6 DEF Window!Grant, Lengths, LengthsOf, Tight

LEMMA RefuseSimulated ==
    ASSUME RingInv, Refuse
    PROVE  Window!Refuse
  <1>1. /\ Tight /\ size # 0 /\ size' = 0 /\ head_' = head_ /\ tail_' = tail_
        /\ live' = live
    BY DEF Refuse, Tight
  <1>2. Tight' = FALSE
    BY <1>1 DEF Tight
  <1>3. Lengths' = Lengths /\ InRing' = InRing
    BY <1>1 DEF Lengths, InRing
  <1> QED BY <1>1, <1>2, <1>3 DEF Window!Refuse, Lengths, LengthsOf, Tight

LEMMA ReturnSimulated ==
    ASSUME RingInv, CommitWrite
    PROVE  Window!Return
  <1>1. /\ live # <<>> /\ live' = Tail(live) /\ head_' = head_ /\ size' = size
        /\ cur_tail' = cur_tail
    BY DEF CommitWrite
  <1>2. live \in Seq(Region) /\ Len(live) \in Nat \ {0} /\ Head(live) = live[1]
    BY <1>1 DEF RingInv, TypeOK
  <1>3. Lengths # <<>> /\ Head(Lengths) = Head(live).size /\ Lengths' = Tail(Lengths)
    BY <1>1, <1>2, LengthsOfTail DEF Lengths
  <1>4. InRing' = InRing - Head(live).size
    BY CommitKeeps
  <1>5. Tight' = Tight
    BY <1>1 DEF Tight, Ring!Fits, Ring!FreeSpace, Ring!UsedSpace
  <1> QED BY <1>1, <1>3, <1>4, <1>5 DEF Window!Return, Lengths, LengthsOf, Tight

(***************************************************************************)
(* The ring implements the bounded window: what RequestWriteSpace grants,  *)
(* refuses and CommitWrite gives back is what BoundedWindow allows.        *)
(***************************************************************************)
THEOREM ImplementsWindow == Spec => IsWindow
  <1>1. Init => Window!Init
    <2> SUFFICES ASSUME Init PROVE Window!Init
      OBVIOUS
    <2>1. head_ = 0 /\ tail_ = 0 /\ size = 0 /\ live = <<>>
      BY DEF Init, Ring!RingInit
    <2>2. InRing = 0
      BY <2>1, Constants DEF InRing
    <2>3. Lengths = <<>> /\ Tight = FALSE
      BY <2>1 DEF Lengths, LengthsOf, Tight
    <2> QED BY <2>1, <2>2, <2>3 DEF Window!Init, Lengths, LengthsOf, Tight
  <1>2. RingInv /\ [Next]_vars => [Window!Next]_Window!vars
    <2> SUFFICES ASSUME RingInv, [Next]_vars PROVE [Window!Next]_Window!vars
      OBVIOUS
    <2>1. CASE UNCHANGED vars
      <3>1. /\ head_' = head_ /\ tail_' = tail_ /\ size' = size /\ live' = live
            /\ cur_tail' = cur_tail
        BY <2>1 DEF vars
      <3>2. Lengths' = Lengths /\ InRing' = InRing /\ Tight' = Tight
        BY <3>1 DEF Lengths, InRing, Tight, Ring!Fits, Ring!FreeSpace, Ring!UsedSpace
      <3> QED BY <3>1, <3>2 DEF Window!vars, Lengths, LengthsOf, Tight
    <2>2. CASE Next
      BY <2>2, AskSimulated, GrantSimulated, RefuseSimulated, ReturnSimulated
         DEF Next, Window!Next
    <2> QED BY <2>1, <2>2
  <1> QED BY <1>1, <1>2, RingInvariant, PTL DEF Spec, IsWindow, Window!Spec

(***************************************************************************)
(* RingMemory and RingBuffer.                                              *)
(***************************************************************************)
LEMMA RingConstants ==
    /\ SliceBuffer \in Nat \ {0} /\ SliceWord \in Nat \ {0} /\ SliceBuffer < SliceWord
    /\ SliceSizes \subseteq 1..SliceBuffer
    /\ None \notin Objects
  BY RingsAssumption

(***************************************************************************)
(* A step of MCRings is a step of RingMemory or leaves it alone.           *)
(***************************************************************************)
LEMMA MemoryMoves ==
    ASSUME [AllNext]_allVars
    PROVE  \/ \E p \in Processes : Memory!Construct(p) \/ Memory!Destroy(p) \/ Memory!Die(p)
           \/ UNCHANGED <<name, at, fd, maps, left>>
  <1>1. CASE Single(Next)
    BY <1>1 DEF Single, memoryVars
  <1>2. CASE OfMulti(Multi!Next)
    BY <1>2 DEF OfMulti, memoryVars
  <1>3. CASE OfMemory(Memory!Next)
    BY <1>3 DEF OfMemory, Memory!Next
  <1>4. CASE UNCHANGED allVars
    BY <1>4 DEF allVars, memoryVars
  <1> QED BY <1>1, <1>2, <1>3, <1>4 DEF AllNext

(***************************************************************************)
(* The inductive invariant of RingMemory.  A process that is to map an     *)
(* object has it open, and whoever holds the object that the name stands   *)
(* for has the removal of the name still before it.                        *)
(***************************************************************************)
HasObject ==
    \A p \in Processes :
        at[p] \in {"unlink", "truncate", "reserve", "map", "close"} => fd[p] \in Objects

NameFresh ==
    name # None => \A p \in Processes : p \in Memory!Holders(name) => at[p] = "unlink"

MemoryInv == Memory!TypeOK /\ HasObject /\ NameFresh /\ NameTransient

LEMMA MemoryInit == AllInit => MemoryInv
  <1> SUFFICES ASSUME AllInit PROVE MemoryInv
    OBVIOUS
  <1>1. /\ name = None /\ left = FALSE
        /\ at = [p \in Processes |-> "out"]
        /\ fd = [p \in Processes |-> None]
        /\ maps = [p \in Processes |-> <<>>]
    BY DEF AllInit, Memory!Init
  <1>2. <<>> \in Seq(Objects)
    OBVIOUS
  <1>3. Memory!TypeOK
    BY <1>1, <1>2 DEF Memory!TypeOK
  <1> QED BY <1>1, <1>3 DEF MemoryInv, HasObject, NameFresh, NameTransient, Memory!NameTransient

(***************************************************************************)
(* What a step of one process leaves alone, and that nobody but a process  *)
(* that opens the object becomes a holder.                                 *)
(***************************************************************************)
Others(p) ==
    \A q \in Processes \ {p} : at'[q] = at[q] /\ fd'[q] = fd[q] /\ maps'[q] = maps[q]

Holds(p, o) == fd[p] = o \/ o \in Range(maps[p])

LEMMA HoldersAre ==
    ASSUME NEW o, NEW p \in Processes
    PROVE  p \in Memory!Holders(o) <=> Holds(p, o)
  BY DEF Memory!Holders, Holds, Memory!Range, Range

(***************************************************************************)
(* The steps of RingMemory, by what they do to their process: it gets the  *)
(* object that the name stands for or a new one; it removes the name; it   *)
(* maps what it has open; or it keeps or gives up what it holds.           *)
(***************************************************************************)
Gets(p, o) ==
    /\ at[p] \in {"out", "open"} /\ at'[p] = "unlink"
    /\ fd'[p] = o /\ maps'[p] = maps[p]
    /\ name' = o /\ left' = left
    /\ name = o \/ (name = None /\ \A q \in Processes : ~Holds(q, o))

Removes(p) ==
    /\ at[p] = "unlink" /\ at'[p] = "truncate"
    /\ fd'[p] = fd[p] /\ maps'[p] = maps[p]
    /\ name' = None

Maps(p) ==
    /\ at[p] = "map" /\ at'[p] \in {"map", "close"}
    /\ fd'[p] = fd[p] /\ maps'[p] = Append(maps[p], fd[p])
    /\ name' = name /\ left' = left

Keeps(p) ==
    /\ at[p] # "unlink"
    /\ at'[p] \in {"open", "ready", "failed", "out"} \/ (at'[p] \in {"reserve", "map"}
                                                       /\ at[p] \in {"truncate", "reserve"})
    /\ fd'[p] = fd[p] \/ (fd'[p] = None /\ at'[p] \in {"out", "ready"})
    /\ maps'[p] = maps[p] \/ maps'[p] = <<>>
    /\ name' = name /\ left' = left

Dies(p) ==
    /\ at'[p] = "out" /\ fd'[p] = None /\ maps'[p] = <<>>
    /\ name' = name
    /\ left' = (left \/ (at[p] = "unlink" /\ name = fd[p]))

LEMMA MemorySteps ==
    ASSUME Memory!TypeOK, NEW p \in Processes,
           Memory!Construct(p) \/ Memory!Destroy(p) \/ Memory!Die(p)
    PROVE  /\ Others(p)
           /\ at' \in [Processes -> Memory!Constructing \cup {"ready", "failed", "out"}]
           /\ DOMAIN fd' = Processes /\ DOMAIN maps' = Processes
           /\ fd' = [fd EXCEPT ![p] = fd'[p]] /\ maps' = [maps EXCEPT ![p] = maps'[p]]
           /\ \/ \E o \in Objects : Gets(p, o)
              \/ Removes(p) /\ left' = FALSE
              \/ Maps(p) \/ Keeps(p) \/ Dies(p)
  <1> USE DEF Memory!Goto, Others
  <1>1. /\ at \in [Processes -> Memory!Constructing \cup {"ready", "failed", "out"}]
        /\ DOMAIN fd = Processes /\ DOMAIN maps = Processes
        /\ fd = [fd EXCEPT ![p] = fd[p]] /\ maps = [maps EXCEPT ![p] = maps[p]]
        /\ name \in Objects \cup {None}
        /\ {"open", "unlink", "truncate", "reserve", "map", "close"} = Memory!Constructing
    BY DEF Memory!TypeOK, Memory!Constructing
  <1>2. CASE Memory!Create(p)
    BY <1>1, <1>2, HoldersAre DEF Memory!Create, Gets
  <1>3. CASE Memory!CreateFails(p)
    BY <1>1, <1>3 DEF Memory!CreateFails, Keeps
  <1>4. CASE Memory!Open(p)
    BY <1>1, <1>4 DEF Memory!Open, Gets
  <1>5. CASE Memory!OpenFails(p)
    BY <1>1, <1>5 DEF Memory!OpenFails, Keeps
  <1>6. CASE Memory!Unlink(p)
    BY <1>1, <1>6 DEF Memory!Unlink, Removes
  <1>7. CASE Memory!Truncate(p)
    BY <1>1, <1>7 DEF Memory!Truncate, Keeps
  <1>8. CASE Memory!ReserveRange(p)
    BY <1>1, <1>8 DEF Memory!ReserveRange, Keeps
  <1>9. CASE Memory!Map(p)
    BY <1>1, <1>9 DEF Memory!Map, Maps
  <1>10. CASE Memory!MapFails(p)
    BY <1>1, <1>10 DEF Memory!MapFails, Keeps
  <1>11. CASE Memory!Close(p)
    BY <1>1, <1>11 DEF Memory!Close, Keeps
  <1>12. CASE Memory!Destroy(p)
    BY <1>1, <1>12 DEF Memory!Destroy, Keeps
  <1>13. CASE Memory!Die(p)
    BY <1>1, <1>13 DEF Memory!Die, Dies
  <1> QED BY <1>2, <1>3, <1>4, <1>5, <1>6, <1>7, <1>8, <1>9, <1>10, <1>11, <1>12, <1>13
          DEF Memory!Construct

LEMMA HoldsMoves ==
    ASSUME Memory!TypeOK, HasObject, NEW p \in Processes, NEW o \in Objects,
           Memory!Construct(p) \/ Memory!Destroy(p) \/ Memory!Die(p)
    PROVE  /\ \A q \in Processes \ {p} : Holds(q, o)' <=> Holds(q, o)
           /\ Holds(p, o)' => Holds(p, o) \/ Gets(p, o)
           /\ Dies(p) => ~Holds(p, o)'
  <1>1. Others(p)
    BY MemorySteps
  <1>2. o # None /\ Range(<<>>) = {}
    BY RingConstants DEF Range
  <1>3. ASSUME NEW u \in Objects, Gets(p, u) PROVE Holds(p, o)' => Holds(p, o) \/ Gets(p, o)
    BY <1>3 DEF Gets, Holds
  <1>4. ASSUME Removes(p) PROVE Holds(p, o)' => Holds(p, o)
    BY <1>4 DEF Removes, Holds
  <1>5. ASSUME Maps(p) PROVE Holds(p, o)' => Holds(p, o)
    <2>1. fd[p] \in Objects /\ maps[p] \in Seq(Objects)
      BY <1>5 DEF Maps, HasObject, Memory!TypeOK
    <2>2. Range(maps'[p]) = Range(maps[p]) \cup {fd[p]}
      BY <1>5, <2>1, AppendElements DEF Maps
    <2> QED BY <1>5, <2>2 DEF Maps, Holds
  <1>6. ASSUME Keeps(p) PROVE Holds(p, o)' => Holds(p, o)
    <2>1. fd'[p] \in {fd[p], None} /\ (maps'[p] = maps[p] \/ Range(maps'[p]) = {})
      BY <1>2, <1>6 DEF Keeps
    <2> QED BY <1>2, <2>1 DEF Holds
  <1>7. \A q \in Processes \ {p} : Holds(q, o)' <=> Holds(q, o)
    BY <1>1 DEF Others, Holds
  <1>8. Dies(p) => ~Holds(p, o)'
    BY <1>2 DEF Holds, Dies
  <1>9. Holds(p, o)' => Holds(p, o) \/ Gets(p, o)
    BY <1>3, <1>4, <1>5, <1>6, <1>8, MemorySteps
  <1> QED BY <1>7, <1>8, <1>9

LEMMA MemoryTypeStep ==
    ASSUME Memory!TypeOK, HasObject, NEW p \in Processes,
           Memory!Construct(p) \/ Memory!Destroy(p) \/ Memory!Die(p)
    PROVE  Memory!TypeOK' /\ HasObject'
  <1>1. /\ name \in Objects \cup {None} /\ left \in BOOLEAN
        /\ fd[p] \in Objects \cup {None} /\ maps[p] \in Seq(Objects)
        /\ fd \in [Processes -> Objects \cup {None}] /\ maps \in [Processes -> Seq(Objects)]
    BY DEF Memory!TypeOK
  <1>2. <<>> \in Seq(Objects)
    OBVIOUS
  <1>3. /\ name' \in Objects \cup {None} /\ left' \in BOOLEAN
        /\ fd'[p] \in Objects \cup {None} /\ maps'[p] \in Seq(Objects)
        /\ at'[p] \in {"unlink", "truncate", "reserve", "map", "close"} => fd'[p] \in Objects
    <2>1. CASE \E o \in Objects : Gets(p, o)
      BY <1>1, <2>1 DEF Gets
    <2>2. CASE Removes(p) /\ left' = FALSE
      BY <1>1, <2>2 DEF Removes, HasObject
    <2>3. CASE Maps(p)
      <3>1. fd[p] \in Objects
        BY <2>3 DEF Maps, HasObject
      <3>2. maps'[p] \in Seq(Objects)
        BY <1>1, <2>3, <3>1, AppendElements DEF Maps
      <3> QED BY <1>1, <2>3, <3>1, <3>2 DEF Maps
    <2>4. CASE Keeps(p)
      BY <1>1, <1>2, <2>4 DEF Keeps, HasObject
    <2>5. CASE Dies(p)
      BY <1>1, <1>2, <2>5 DEF Dies
    <2> QED BY <2>1, <2>2, <2>3, <2>4, <2>5, MemorySteps
  <1>4. /\ at' \in [Processes -> Memory!Constructing \cup {"ready", "failed", "out"}]
        /\ fd' = [fd EXCEPT ![p] = fd'[p]] /\ maps' = [maps EXCEPT ![p] = maps'[p]]
        /\ Others(p)
    BY MemorySteps
  <1>5. Memory!TypeOK'
    BY <1>1, <1>3, <1>4 DEF Memory!TypeOK, Memory!Constructing
  <1>6. HasObject'
    BY <1>3, <1>4 DEF HasObject, Others
  <1> QED BY <1>5, <1>6

LEMMA NameStep ==
    ASSUME MemoryInv, NEW p \in Processes,
           Memory!Construct(p) \/ Memory!Destroy(p) \/ Memory!Die(p)
    PROVE  NameFresh' /\ NameTransient'
  <1>1. Memory!TypeOK /\ HasObject /\ NameFresh /\ NameTransient
        /\ Others(p) /\ None \notin Objects /\ name \in Objects \cup {None}
    BY MemorySteps, RingConstants DEF MemoryInv, Memory!TypeOK
  <1>2. CASE \E o \in Objects : Gets(p, o)
    <2>1. PICK o \in Objects : Gets(p, o)
      BY <1>2
    <2>2. \A q \in Processes \ {p} : Holds(q, o)' => at[q] = "unlink"
      <3> SUFFICES ASSUME NEW q \in Processes \ {p}, Holds(q, o)' PROVE at[q] = "unlink"
        OBVIOUS
      <3>1. Holds(q, o)
        BY <1>1, HoldsMoves
      <3>2. name = o
        BY <2>1, <3>1 DEF Gets
      <3> QED BY <1>1, <3>1, <3>2, HoldersAre DEF NameFresh
    <2>3. \A q \in Processes : q \in Memory!Holders(o)' <=> Holds(q, o)'
      BY DEF Memory!Holders, Holds, Memory!Range, Range
    <2>4. name' = o /\ at'[p] = "unlink" /\ fd'[p] = o
      BY <2>1 DEF Gets
    <2>5. \A q \in Processes : q \in Memory!Holders(name)' => at'[q] = "unlink"
      BY <1>1, <2>2, <2>3, <2>4 DEF Others, Memory!Holders
    <2> QED BY <2>4, <2>5 DEF NameFresh, NameTransient, Memory!NameTransient
  <1>3. CASE Removes(p)
    BY <1>3 DEF Removes, NameFresh, NameTransient, Memory!NameTransient
  <1>4. CASE Maps(p) \/ Keeps(p) \/ Dies(p)
    <2>1. name' = name
      BY <1>4 DEF Maps, Keeps, Dies
    <2>2. CASE name = None
      BY <2>1, <2>2 DEF NameFresh, NameTransient, Memory!NameTransient
    <2>3. CASE name # None
      <3>1. PICK o \in Objects : o = name
        BY <1>1, <2>3
      <3>2. \A q \in Processes : q \in Memory!Holders(o)' <=> Holds(q, o)'
        BY DEF Memory!Holders, Holds, Memory!Range, Range
      <3>3. \A q \in Processes : Holds(q, o) => at[q] = "unlink"
        BY <1>1, <2>3, <3>1, HoldersAre DEF NameFresh
      <3>4. ~Holds(p, o)'
        <4>1. CASE Dies(p)
          BY <1>1, <4>1, HoldsMoves
        <4>2. CASE Maps(p) \/ Keeps(p)
          <5>1. at[p] # "unlink" /\ ~(at'[p] = "unlink")
            BY <4>2 DEF Maps, Keeps
          <5>2. ~Gets(p, o)
            BY <5>1 DEF Gets
          <5> QED BY <1>1, <3>3, <5>1, <5>2, HoldsMoves
        <4> QED BY <1>4, <4>1, <4>2
      <3>5. \A q \in Processes \ {p} : Holds(q, o)' => at'[q] = "unlink"
        BY <1>1, <3>3, HoldsMoves DEF Others
      <3>6. NameFresh'
        <4>1. \A q \in Processes : q \in Memory!Holders(o)' => at'[q] = "unlink"
          BY <3>2, <3>4, <3>5
        <4>2. name' = o
          BY <2>1, <3>1
        <4> QED BY <4>1, <4>2 DEF NameFresh, Memory!Holders
      <3>7. NameTransient'
        <4>1. CASE left
          <5>1. left'
            BY <1>4, <4>1 DEF Maps, Keeps, Dies
          <5> QED BY <5>1 DEF NameTransient, Memory!NameTransient
        <4>2. CASE ~left
          <5>1. PICK q \in Processes : at[q] = "unlink" /\ fd[q] = name
            BY <1>1, <2>3, <4>2 DEF NameTransient, Memory!NameTransient
          <5>2. CASE q = p
            <6>1. Dies(p)
              BY <1>4, <5>1, <5>2 DEF Maps, Keeps
            <6>2. left'
              BY <5>1, <5>2, <6>1 DEF Dies
            <6> QED BY <6>2 DEF NameTransient, Memory!NameTransient
          <5>3. CASE q # p
            BY <1>1, <2>1, <5>1, <5>3 DEF Others, NameTransient, Memory!NameTransient
          <5> QED BY <5>2, <5>3
        <4> QED BY <4>1, <4>2
      <3> QED BY <3>6, <3>7
    <2> QED BY <2>2, <2>3
  <1> QED BY <1>1, <1>2, <1>3, <1>4, MemorySteps

LEMMA MemoryInvariant == AllSpec => []MemoryInv
  <1>1. MemoryInv /\ [AllNext]_allVars => MemoryInv'
    <2> SUFFICES ASSUME MemoryInv, [AllNext]_allVars PROVE MemoryInv'
      OBVIOUS
    <2>1. CASE \E p \in Processes :
                  Memory!Construct(p) \/ Memory!Destroy(p) \/ Memory!Die(p)
      BY <2>1, MemoryTypeStep, NameStep DEF MemoryInv
    <2>2. CASE UNCHANGED <<name, at, fd, maps, left>>
      BY <2>2 DEF MemoryInv, Memory!TypeOK, HasObject, NameFresh, NameTransient,
                  Memory!NameTransient, Memory!Holders
    <2> QED BY <2>1, <2>2, MemoryMoves
  <1> QED BY MemoryInit, <1>1, PTL DEF AllSpec

(***************************************************************************)
(* The name of the shared memory is bound only while its remover lives, or *)
(* after one died there.                                                   *)
(***************************************************************************)
THEOREM NameDoesNotOutlive == AllSpec => []NameTransient
  BY MemoryInvariant, PTL DEF MemoryInv

(***************************************************************************)
(* An object that a process has gone on with gets no other holder.         *)
(***************************************************************************)
THEOREM GoneOnIsPrivate == AllSpec => PrivateOnceUnlinked
  <1>1. MemoryInv /\ [AllNext]_allVars
          => [\A p \in Processes, o \in Objects :
                 at[p] # "unlink" /\ p \in Memory!Holders(o)
                    => Memory!Holders(o)' \subseteq Memory!Holders(o)]_(Memory!vars)
    <2> SUFFICES ASSUME MemoryInv, [AllNext]_allVars, ~UNCHANGED <<name, at, fd, maps, left>>,
                        NEW q \in Processes, NEW o \in Objects,
                        at[q] # "unlink", q \in Memory!Holders(o)
                 PROVE  Memory!Holders(o)' \subseteq Memory!Holders(o)
      BY DEF Memory!vars
    <2>1. PICK p \in Processes : Memory!Construct(p) \/ Memory!Destroy(p) \/ Memory!Die(p)
      BY MemoryMoves
    <2>2. ~Gets(p, o)
      <3>1. Holds(q, o)
        BY HoldersAre
      <3>2. name # o
        BY RingConstants DEF MemoryInv, NameFresh
      <3> QED BY <3>1, <3>2 DEF Gets
    <2>3. \A u \in Processes : Holds(u, o)' => Holds(u, o)
      BY <2>1, <2>2, HoldsMoves DEF MemoryInv
    <2>4. \A u \in Processes : u \in Memory!Holders(o)' <=> Holds(u, o)'
      BY DEF Memory!Holders, Holds, Memory!Range, Range
    <2>5. Memory!Holders(o)' \subseteq Processes
      BY DEF Memory!Holders
    <2> QED BY <2>3, <2>4, <2>5, HoldersAre
  <1> QED BY <1>1, MemoryInvariant, PTL
          DEF AllSpec, PrivateOnceUnlinked, Memory!PrivateOnceUnlinked

(***************************************************************************)
(* The inductive invariant of RingBuffer.  Seen from the head backwards,   *)
(* a region lies between Behind(p) - msize[p] and Behind(p), and of two    *)
(* regions one lies wholly before the other.                               *)
(***************************************************************************)
Behind(p) == (mhead - mslice[p].from) % SliceWord

Granted(p) ==
    /\ mslice[p] = Multi!Slice(mslice[p].from, msize[p])
    /\ mslice[p].from \in 0..(SliceWord - 1)
    /\ msize[p] <= Behind(p)

MultiTyped ==
    /\ mhead \in 0..(SliceWord - 1) /\ mtail \in 0..(SliceWord - 1)
    /\ mat \in [Producers -> {"idle", "tail", "swap", "held"}]
    /\ msize \in [Producers -> SliceSizes \cup {0}]
    /\ mcur_head \in [Producers -> 0..(SliceWord - 1)]
    /\ DOMAIN mslice = Producers

SlicesApart(p, q) == Behind(p) >= Behind(q) + msize[p] \/ Behind(q) >= Behind(p) + msize[q]

MultiInv ==
    /\ MultiTyped
    /\ \A p \in Producers : mat[p] = "held" => Granted(p)
    /\ \A p, q \in Producers : p # q /\ mat[p] = "held" /\ mat[q] = "held" => SlicesApart(p, q)

LEMMA SizeInWord ==
    ASSUME MultiTyped, NEW p \in Producers
    PROVE  /\ SliceWord \in Nat \ {0}
           /\ msize[p] \in Nat /\ msize[p] \in 0..(SliceWord - 1) /\ msize[p] < SliceWord
  <1>1. SliceBuffer \in Nat /\ SliceWord \in Nat /\ SliceBuffer < SliceWord
    BY RingsAssumption
  <1>2. msize[p] \in SliceSizes \cup {0}
    BY DEF MultiTyped
  <1>3. msize[p] \in 1..SliceBuffer \/ msize[p] = 0
    BY <1>2, RingsAssumption
  <1> QED BY <1>1, <1>3

LEMMA MultiMoves ==
    ASSUME [AllNext]_allVars
    PROVE  \/ \E p \in Producers : Multi!RequestWriteSpace(p) \/ Multi!CommitWrite(p)
           \/ UNCHANGED multiVars
  <1>1. CASE Single(Next)
    BY <1>1 DEF Single
  <1>2. CASE OfMulti(Multi!Next)
    BY <1>2 DEF OfMulti, Multi!Next
  <1>3. CASE OfMemory(Memory!Next)
    BY <1>3 DEF OfMemory
  <1>4. CASE UNCHANGED allVars
    BY <1>4 DEF allVars
  <1> QED BY <1>1, <1>2, <1>3, <1>4 DEF AllNext

LEMMA MultiInit == AllInit => MultiInv
  <1> SUFFICES ASSUME AllInit PROVE MultiInv
    OBVIOUS
  <1>1. Multi!Init
    BY DEF AllInit
  <1>2. MultiTyped
    BY <1>1, RingConstants DEF Multi!Init, MultiTyped
  <1> QED BY <1>1, <1>2 DEF Multi!Init, MultiInv

(***************************************************************************)
(* A step that leaves the head and the regions that are held alone.        *)
(***************************************************************************)
LEMMA MultiAside ==
    ASSUME MultiInv, MultiTyped', NEW p \in Producers, UNCHANGED <<mhead, mslice>>,
           mat'[p] # "held",
           \A q \in Producers \ {p} : mat'[q] = mat[q] /\ msize'[q] = msize[q]
    PROVE  MultiInv'
  <1>1. \A q \in Producers : Behind(q)' = Behind(q)
    BY DEF Behind
  <1>2. ASSUME NEW q \in Producers, mat'[q] = "held" PROVE Granted(q)'
    <2>1. q # p /\ mat[q] = "held" /\ msize'[q] = msize[q]
      BY <1>2
    <2> QED BY <1>1, <2>1 DEF MultiInv, Granted, Multi!Slice
  <1>3. ASSUME NEW q \in Producers, NEW u \in Producers, q # u, mat'[q] = "held", mat'[u] = "held"
        PROVE  SlicesApart(q, u)'
    <2>1. /\ q # p /\ mat[q] = "held" /\ msize'[q] = msize[q]
          /\ u # p /\ mat[u] = "held" /\ msize'[u] = msize[u]
      BY <1>3
    <2> QED BY <1>1, <1>3, <2>1 DEF MultiInv, SlicesApart
  <1> QED BY <1>2, <1>3 DEF MultiInv

LEMMA SwapStep ==
    ASSUME MultiInv, NEW p \in Producers, Multi!Swap(p)
    PROVE  MultiInv'
  <1>1. PICK n \in Nat : n = msize[p] /\ n < SliceWord
    BY SizeInWord DEF MultiInv
  <1>2. /\ mat[p] = "swap" /\ mat' = [mat EXCEPT ![p] = "held"]
        /\ mhead' = (mhead + n) % SliceWord
        /\ mslice' = [mslice EXCEPT ![p] = Multi!Slice(mhead, n)]
        /\ UNCHANGED <<mtail, msize, mcur_head>>
        /\ \A q \in Producers : mat[q] = "held" => Behind(q) + n < SliceWord
    BY <1>1 DEF Multi!Swap, Multi!Goto, Multi!Unlapped, Behind
  <1>3. SliceWord \in Nat \ {0} /\ mhead \in 0..(SliceWord - 1) /\ n \in 0..(SliceWord - 1)
        /\ \A q \in Producers : msize[q] \in Nat
    <2>1. MultiTyped /\ mhead \in 0..(SliceWord - 1)
      BY DEF MultiInv, MultiTyped
    <2> QED BY <1>1, <2>1, SizeInWord
  <1>4. MultiTyped'
    <2>1. mhead' \in 0..(SliceWord - 1)
      BY <1>2, <1>3, WordPlus
    <2> QED BY <1>2, <2>1 DEF MultiInv, MultiTyped
  <1>5. /\ mslice'[p] = Multi!Slice(mhead, n) /\ mslice'[p].from = mhead
        /\ \A q \in Producers \ {p} : mslice'[q] = mslice[q] /\ mat'[q] = mat[q]
        /\ mat'[p] = "held"
    BY <1>2 DEF MultiInv, MultiTyped, Multi!Slice
  <1>6. Behind(p)' = n
    <2>1. (mhead - mhead) % SliceWord = 0
      BY <1>3, WordMinus
    <2>2. (((mhead + n) % SliceWord) - mhead) % SliceWord = n
      BY <1>3, <2>1, WordFarther
    <2> QED BY <1>2, <1>5, <2>2 DEF Behind
  <1>7. ASSUME NEW q \in Producers \ {p}, mat[q] = "held"
        PROVE  Behind(q) \in Nat /\ msize[q] <= Behind(q) /\ Behind(q)' = Behind(q) + n
    <2>1. Granted(q) /\ mslice[q].from \in 0..(SliceWord - 1)
      BY <1>7 DEF MultiInv, Granted
    <2>2. Behind(q) \in Nat /\ msize[q] <= Behind(q)
      BY <1>3, <2>1, WordMinus DEF Behind, Granted
    <2>3. (((mhead + n) % SliceWord) - mslice[q].from) % SliceWord
             = ((mhead - mslice[q].from) % SliceWord) + n
      BY <1>2, <1>3, <1>7, <2>1, WordFarther DEF Behind
    <2> QED BY <1>2, <1>5, <2>2, <2>3 DEF Behind
  <1>8. ASSUME NEW q \in Producers, mat'[q] = "held" PROVE Granted(q)'
    <2>1. CASE q = p
      <3>1. msize'[p] = n
        BY <1>1, <1>2
      <3> QED BY <1>3, <1>5, <1>6, <2>1, <3>1 DEF Granted, Multi!Slice
    <2>2. CASE q # p
      <3>1. mat[q] = "held" /\ Granted(q)
        BY <1>5, <1>8, <2>2 DEF MultiInv
      <3>2. msize'[q] <= Behind(q)'
        BY <1>2, <1>3, <1>7, <2>2, <3>1
      <3> QED BY <1>2, <1>5, <2>2, <3>1, <3>2 DEF Granted, Multi!Slice
    <2> QED BY <2>1, <2>2
  <1>9. ASSUME NEW q \in Producers \ {p}, mat[q] = "held"
        PROVE  Behind(q)' >= Behind(p)' + msize'[q]
    BY <1>2, <1>3, <1>6, <1>7, <1>9
  <1>10. ASSUME NEW q \in Producers, NEW u \in Producers, q # u, mat'[q] = "held", mat'[u] = "held"
         PROVE  SlicesApart(q, u)'
    <2>1. CASE q = p
      BY <1>5, <1>9, <1>10, <2>1 DEF SlicesApart
    <2>2. CASE u = p
      BY <1>5, <1>9, <1>10, <2>2 DEF SlicesApart
    <2>3. CASE q # p /\ u # p
      <3>1. mat[q] = "held" /\ mat[u] = "held" /\ SlicesApart(q, u)
        BY <1>5, <1>10, <2>3 DEF MultiInv
      <3> QED BY <1>2, <1>3, <1>7, <2>3, <3>1 DEF SlicesApart
    <2> QED BY <2>1, <2>2, <2>3
  <1> QED BY <1>4, <1>8, <1>10 DEF MultiInv

LEMMA MultiStep ==
    ASSUME MultiInv, NEW p \in Producers, Multi!RequestWriteSpace(p) \/ Multi!CommitWrite(p)
    PROVE  MultiInv'
  <1> USE DEF Multi!Goto
  <1>1. ASSUME NEW n \in SliceSizes, Multi!LoadHead(p, n) PROVE MultiInv'
    <2>1. MultiTyped' /\ UNCHANGED <<mhead, mslice>> /\ mat'[p] # "held"
          /\ \A q \in Producers \ {p} : mat'[q] = mat[q] /\ msize'[q] = msize[q]
      BY <1>1 DEF Multi!LoadHead, MultiInv, MultiTyped
    <2> QED BY <2>1, MultiAside
  <1>2. CASE Multi!LoadTail(p)
    <2>1. MultiTyped' /\ UNCHANGED <<mhead, mslice>> /\ mat'[p] # "held"
          /\ \A q \in Producers \ {p} : mat'[q] = mat[q] /\ msize'[q] = msize[q]
      BY <1>2 DEF Multi!LoadTail, MultiInv, MultiTyped
    <2> QED BY <2>1, MultiAside
  <1>3. CASE Multi!SwapFails(p)
    <2>1. MultiTyped' /\ UNCHANGED <<mhead, mslice>> /\ mat'[p] # "held"
          /\ \A q \in Producers \ {p} : mat'[q] = mat[q] /\ msize'[q] = msize[q]
      BY <1>3 DEF Multi!SwapFails, MultiInv, MultiTyped
    <2> QED BY <2>1, MultiAside
  <1>4. CASE Multi!CommitWrite(p)
    <2>1. msize[p] \in 0..(SliceWord - 1) /\ mtail \in 0..(SliceWord - 1)
      BY SizeInWord DEF MultiInv, MultiTyped
    <2>2. mtail' \in 0..(SliceWord - 1)
      BY <1>4, <2>1, RingConstants, WordPlus DEF Multi!CommitWrite
    <2>3. MultiTyped' /\ UNCHANGED <<mhead, mslice>> /\ mat'[p] # "held"
          /\ \A q \in Producers \ {p} : mat'[q] = mat[q] /\ msize'[q] = msize[q]
      BY <1>4, <2>2 DEF Multi!CommitWrite, MultiInv, MultiTyped
    <2> QED BY <2>3, MultiAside
  <1> QED BY <1>1, <1>2, <1>3, <1>4, SwapStep DEF Multi!RequestWriteSpace, Multi!Reserve

LEMMA MultiInvariant == AllSpec => []MultiInv
  <1>1. MultiInv /\ [AllNext]_allVars => MultiInv'
    <2> SUFFICES ASSUME MultiInv, [AllNext]_allVars, UNCHANGED multiVars PROVE MultiInv'
      BY MultiMoves, MultiStep
    <2>1. UNCHANGED <<mhead, mtail, mat, msize, mcur_head, mslice>>
      BY DEF multiVars
    <2>2. MultiTyped'
      BY <2>1 DEF MultiInv, MultiTyped
    <2>3. \A p \in Producers : (Granted(p)' <=> Granted(p)) /\ Behind(p)' = Behind(p)
      BY <2>1 DEF Granted, Behind, Multi!Slice
    <2> QED BY <2>1, <2>2, <2>3 DEF MultiInv, SlicesApart
  <1> QED BY MultiInit, <1>1, PTL DEF AllSpec

(***************************************************************************)
(* Types of RingBuffer and RingMemory.                                     *)
(***************************************************************************)
THEOREM RingsTypes == AllSpec => []TypesOK
  <1>1. MultiInv => Multi!TypeOK
    BY DEF MultiInv, MultiTyped, Granted, Multi!TypeOK
  <1>2. MemoryInv => Memory!TypeOK
    BY DEF MemoryInv
  <1> QED BY <1>1, <1>2, MultiInvariant, MemoryInvariant, PTL DEF TypesOK

(***************************************************************************)
(* No position of the cursor space is in two regions at once, however the  *)
(* loads and swaps of the producers fall.                                  *)
(***************************************************************************)
THEOREM NothingGrantedTwice == AllSpec => []GrantsDisjoint
  <1>1. MultiInv => GrantsDisjoint
    <2> SUFFICES ASSUME MultiInv, NEW p \in Producers, NEW q \in Producers, p # q,
                        mat[p] = "held", mat[q] = "held",
                        NEW i \in 0..(msize[p] - 1), NEW j \in 0..(msize[q] - 1),
                        (mslice[p].from + i) % SliceWord = (mslice[q].from + j) % SliceWord
                 PROVE  FALSE
      BY DEF GrantsDisjoint, Multi!GrantsDisjoint, Multi!Positions
    <2>1. SliceWord \in Nat \ {0} /\ mhead \in 0..(SliceWord - 1)
          /\ msize[p] \in Nat /\ msize[q] \in Nat
          /\ mslice[p].from \in 0..(SliceWord - 1) /\ mslice[q].from \in 0..(SliceWord - 1)
          /\ msize[p] <= Behind(p) /\ msize[q] <= Behind(q) /\ SlicesApart(p, q)
      <3>1. MultiTyped /\ mhead \in 0..(SliceWord - 1) /\ Granted(p) /\ Granted(q) /\ SlicesApart(p, q)
        BY DEF MultiInv, MultiTyped
      <3> QED BY <3>1, SizeInWord DEF Granted
    <2>2. Behind(p) \in 0..(SliceWord - 1) /\ Behind(q) \in 0..(SliceWord - 1)
      BY <2>1, WordMinus DEF Behind
    <2>3. /\ i \in 0..(SliceWord - 1) /\ i < msize[p] /\ i <= Behind(p)
          /\ j \in 0..(SliceWord - 1) /\ j < msize[q] /\ j <= Behind(q)
      BY <2>1, <2>2
    <2>4. /\ (mhead - ((mslice[p].from + i) % SliceWord)) % SliceWord = Behind(p) - i
          /\ (mhead - ((mslice[q].from + j) % SliceWord)) % SliceWord = Behind(q) - j
      BY <2>1, <2>3, WordNearer DEF Behind
    <2>5. Behind(p) - i = Behind(q) - j
      BY <2>4
    <2> QED BY <2>1, <2>2, <2>3, <2>5 DEF SlicesApart
  <1> QED BY <1>1, MultiInvariant, PTL
=============================================================================
