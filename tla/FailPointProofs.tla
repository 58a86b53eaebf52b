-------------------------- MODULE FailPointProofs --------------------------
(***************************************************************************)
(* What holds of a fail point for every number of threads, passes and      *)
(* calls of Enable: once an Enable has returned, each hit is judged once   *)
(* and by the mode that was asked for.                                     *)
(***************************************************************************)
EXTENDS FailPoint, FiniteSetTheorems, TLAPS

(***************************************************************************)
(* The inductive invariant.  The passes begun, as pairs, bound the hits.   *)
(* A thread that has counted in this round and not yet decided is pending: *)
(* those threads have numbers of their own among the hits, and every hit   *)
(* that is not pending has been judged as the mode says.                   *)
(***************************************************************************)
Begun == {p \in Threads \X (1..MaxPasses) : p[2] <= passes[p[1]]}

Counting == {t \in Threads : pass[t] = "enabled"}

Pending == {t \in Threads : pass[t] = "counted" /\ counted[t] = round}

Typed ==
    /\ enabled \in BOOLEAN /\ hit \in Nat /\ mode \in Modes /\ nth \in Nth \cup {0}
    /\ stores \subseteq {"enabled", "mode", "nth", "hit"}
    /\ wants \in [mode : Modes, nth : Nth \cup {0}]
    /\ pass \in [Threads -> {"out", "enabled", "counted"}]
    /\ ownHit \in [Threads -> Hits] /\ passes \in [Threads -> 0..MaxPasses]
    /\ round \in 0..MaxEnables /\ counted \in [Threads -> 0..MaxEnables]
    /\ fired \in Nat

HitsBounded == hit + Cardinality(Counting) <= Cardinality(Begun)

FiredBounded == fired + Cardinality(Pending) <= hit

Storing ==
    /\ stores # {} => "hit" \in stores /\ round < MaxEnables
    /\ "mode" \notin stores => mode = wants.mode
    /\ "nth" \notin stores => nth = wants.nth

Numbered ==
    /\ \A t \in Threads : counted[t] <= round
    /\ \A t \in Pending : ownHit[t] \in 1..hit
    /\ \A t, u \in Pending : ownHit[t] = ownHit[u] => t = u

Sought == IF mode = "ONCE" THEN 1 ELSE nth

Judged ==
    stores = {} /\ round > 0 =>
        /\ mode = "ALWAYS" => fired + Cardinality(Pending) = hit
        /\ mode \in {"ONCE", "NTH"} =>
              fired = IF Sought > 0 /\ Sought <= hit /\ (\A t \in Pending : ownHit[t] # Sought)
                      THEN 1 ELSE 0

PointInv == Typed /\ HitsBounded /\ FiredBounded /\ Storing /\ Numbered /\ Judged

(***************************************************************************)
(* The sets that are counted are finite, and the passes begun are no more  *)
(* than Hits allows.                                                       *)
(***************************************************************************)
LEMMA BoundTypes ==
    /\ IsFiniteSet(Threads) /\ Nth \subseteq Nat /\ MaxEnables \in Nat /\ MaxPasses \in Nat
    /\ IsFiniteSet(Threads \X (1..MaxPasses))
    /\ MaxPasses * Cardinality(Threads) \in Nat
    /\ Cardinality(Threads \X (1..MaxPasses)) = MaxPasses * Cardinality(Threads)
  <1>1. IsFiniteSet(Threads) /\ Nth \subseteq Nat /\ MaxEnables \in Nat /\ MaxPasses \in Nat
    BY FailPointAssumption
  <1>2. IsFiniteSet(1..MaxPasses) /\ Cardinality(1..MaxPasses) = MaxPasses
    BY <1>1, FS_Interval
  <1>3. Cardinality(Threads) \in Nat
    BY <1>1, FS_CardinalityType
  <1>4. /\ IsFiniteSet(Threads \X (1..MaxPasses))
        /\ Cardinality(Threads \X (1..MaxPasses)) = Cardinality(Threads) * MaxPasses
    BY <1>1, <1>2, FS_Product
  <1>5. ASSUME NEW a \in Nat, NEW b \in Nat PROVE a * b = b * a /\ a * b \in Nat
    OBVIOUS
  <1> QED BY <1>1, <1>3, <1>4, <1>5

LEMMA Countable ==
    /\ IsFiniteSet(Counting) /\ Cardinality(Counting) \in Nat
    /\ IsFiniteSet(Pending) /\ Cardinality(Pending) \in Nat
    /\ IsFiniteSet(Begun) /\ Cardinality(Begun) \in Nat
    /\ Cardinality(Begun) <= MaxPasses * Cardinality(Threads)
  <1>1. Counting \subseteq Threads /\ Pending \subseteq Threads
        /\ Begun \subseteq Threads \X (1..MaxPasses)
    BY DEF Counting, Pending, Begun
  <1>2. IsFiniteSet(Counting) /\ IsFiniteSet(Pending) /\ IsFiniteSet(Begun)
        /\ Cardinality(Begun) <= MaxPasses * Cardinality(Threads)
    BY <1>1, BoundTypes, FS_Subset
  <1> QED BY <1>2, FS_CardinalityType

(***************************************************************************)
(* One thread more or less is one more or less in number.                  *)
(***************************************************************************)
LEMMA OneMore ==
    ASSUME NEW S, IsFiniteSet(S), NEW x, x \notin S
    PROVE  Cardinality(S \cup {x}) = Cardinality(S) + 1
  BY FS_AddElement

LEMMA OneLess ==
    ASSUME NEW S, IsFiniteSet(S), NEW x \in S
    PROVE  Cardinality(S \ {x}) = Cardinality(S) - 1
  BY FS_RemoveElement

LEMMA PointStart == PointInit => PointInv
  <1> SUFFICES ASSUME PointInit PROVE PointInv
    OBVIOUS
  <1>1. Counting = {} /\ Pending = {}
    BY DEF PointInit, Counting, Pending
  <1>2. Cardinality(Counting) = 0 /\ Cardinality(Pending) = 0
    BY <1>1, FS_EmptySet
  <1>3. Typed
    <2>1. 0 \in Hits /\ 0 \in 0..MaxPasses /\ 0 \in 0..MaxEnables
      BY BoundTypes DEF Hits
    <2> HIDE DEF Hits
    <2> QED BY <2>1 DEF PointInit, Typed, Modes
  <1>4. HitsBounded /\ FiredBounded
    BY <1>2, Countable DEF PointInit, HitsBounded, FiredBounded
  <1>5. Storing /\ Numbered /\ Judged
    BY <1>1 DEF PointInit, Storing, Numbered, Judged
  <1> QED BY <1>3, <1>4, <1>5 DEF PointInv

(***************************************************************************)
(* The steps of the tester.                                                *)
(***************************************************************************)
LEMMA TesterSets ==
    ASSUME UNCHANGED <<pass, passes, counted, round>>
    PROVE  UNCHANGED <<Counting, Begun, Pending>>
  BY DEF Counting, Begun, Pending

LEMMA EnableStep ==
    ASSUME PointInv, NEW m \in Modes, NEW n \in Nth, Enable(m, n)
    PROVE  PointInv'
  <1>1. /\ stores = {} /\ round < MaxEnables
        /\ stores' = {"enabled", "mode", "nth", "hit"} /\ wants' = [mode |-> m, nth |-> n]
        /\ UNCHANGED <<enabled, hit, mode, nth, pass, ownHit, passes, round, counted, fired>>
    BY DEF Enable, pointVars, passVars, roundVars
  <1>2. UNCHANGED <<Counting, Begun, Pending>>
    BY <1>1, TesterSets
  <1>3. Typed'
    BY <1>1 DEF PointInv, Typed
  <1>4. HitsBounded' /\ FiredBounded' /\ Numbered'
    BY <1>1, <1>2 DEF PointInv, HitsBounded, FiredBounded, Numbered
  <1>5. Storing' /\ Judged'
    BY <1>1 DEF Storing, Judged
  <1> QED BY <1>3, <1>4, <1>5 DEF PointInv

LEMMA StoreFieldStep ==
    ASSUME PointInv, StoreField
    PROVE  PointInv'
  <1>1. PICK f \in stores \ {"hit"} :
            /\ stores' = stores \ {f}
            /\ enabled' = (f = "enabled" \/ enabled)
            /\ mode' = IF f = "mode" THEN wants.mode ELSE mode
            /\ nth' = IF f = "nth" THEN wants.nth ELSE nth
            /\ UNCHANGED <<hit, wants, pass, ownHit, passes, round, counted, fired>>
    BY DEF StoreField, passVars, roundVars
  <1>2. UNCHANGED <<Counting, Begun, Pending>>
    BY <1>1, TesterSets
  <1>3. Typed'
    BY <1>1 DEF PointInv, Typed
  <1>4. HitsBounded' /\ FiredBounded' /\ Numbered'
    BY <1>1, <1>2 DEF PointInv, HitsBounded, FiredBounded, Numbered
  <1>5. stores' # {} /\ "hit" \in stores'
    BY <1>1 DEF PointInv, Storing
  <1>6. Storing' /\ Judged'
    BY <1>1, <1>5 DEF PointInv, Storing, Judged
  <1> QED BY <1>3, <1>4, <1>6 DEF PointInv

(***************************************************************************)
(* The store to hit begins a round in which nobody has counted.            *)
(***************************************************************************)
LEMMA StoreHitStep ==
    ASSUME PointInv, StoreHit
    PROVE  PointInv'
  <1>1. /\ stores = {"hit"} /\ stores' = {} /\ hit' = 0
        /\ round' = round + 1 /\ fired' = 0
        /\ UNCHANGED <<enabled, mode, nth, wants, pass, ownHit, passes, counted>>
    BY DEF StoreHit, passVars
  <1>2. round \in Nat /\ round < MaxEnables /\ \A t \in Threads : counted[t] \in Nat
    BY <1>1, BoundTypes DEF PointInv, Typed, Storing
  <1>3. \A t \in Threads : counted[t] <= round /\ counted'[t] # round' /\ counted'[t] <= round'
    BY <1>1, <1>2 DEF PointInv, Numbered
  <1>4. Pending' = {}
    BY <1>3 DEF Pending
  <1>5. Cardinality(Pending') = 0
    BY <1>4, FS_EmptySet
  <1>6. UNCHANGED <<Counting, Begun>>
    BY <1>1 DEF Counting, Begun
  <1>7. Typed'
    BY <1>1, <1>2, BoundTypes DEF PointInv, Typed
  <1>8. HitsBounded'
    BY <1>1, <1>6, Countable DEF PointInv, Typed, HitsBounded
  <1>9. FiredBounded'
    BY <1>1, <1>5 DEF FiredBounded
  <1>10. Storing'
    BY <1>1 DEF PointInv, Storing
  <1>11. Numbered'
    BY <1>1, <1>2, <1>3, <1>4 DEF Numbered
  <1>12. Judged'
    <2>1. Sought' \in Int /\ ~(Sought' > 0 /\ Sought' <= 0)
      BY <1>7, BoundTypes DEF Sought, Typed
    <2> QED BY <1>1, <1>4, <1>5, <2>1 DEF Judged
  <1> QED BY <1>7, <1>8, <1>9, <1>10, <1>11, <1>12 DEF PointInv

LEMMA DisableStep ==
    ASSUME PointInv, Disable
    PROVE  PointInv'
  <1>1. /\ enabled' = FALSE
        /\ UNCHANGED <<hit, mode, nth, stores, wants, pass, ownHit, passes, round, counted, fired>>
    BY DEF Disable, testerVars, passVars, roundVars
  <1>2. UNCHANGED <<Counting, Begun, Pending>>
    BY <1>1, TesterSets
  <1>3. Typed'
    BY <1>1 DEF PointInv, Typed
  <1>4. HitsBounded' /\ FiredBounded' /\ Numbered'
    BY <1>1, <1>2 DEF PointInv, HitsBounded, FiredBounded, Numbered
  <1>5. Storing'
    BY <1>1 DEF PointInv, Storing
  <1>6. Judged'
    BY <1>1, <1>2 DEF PointInv, Judged, Sought
  <1> QED BY <1>3, <1>4, <1>5, <1>6 DEF PointInv

(***************************************************************************)
(* The steps of a pass.                                                    *)
(***************************************************************************)
LEMMA LoadEnabledStep ==
    ASSUME PointInv, NEW t \in Threads, LoadEnabled(t)
    PROVE  PointInv'
  <1>1. /\ pass[t] = "out" /\ passes[t] < MaxPasses
        /\ pass' = [pass EXCEPT ![t] = "enabled"]
        /\ passes' = [passes EXCEPT ![t] = passes[t] + 1]
        /\ UNCHANGED <<enabled, hit, mode, nth, stores, wants, ownHit, round, counted, fired>>
    BY DEF LoadEnabled, pointVars, testerVars, roundVars
  <1>2. /\ pass \in [Threads -> {"out", "enabled", "counted"}]
        /\ passes \in [Threads -> 0..MaxPasses] /\ MaxPasses \in Nat
    BY BoundTypes DEF PointInv, Typed
  <1>3. Typed'
    BY <1>1, <1>2 DEF PointInv, Typed
  <1>4. Cardinality(Counting') = Cardinality(Counting) + 1
    <2>1. t \notin Counting /\ Counting' = Counting \cup {t}
      BY <1>1, <1>2 DEF Counting
    <2> QED BY <2>1, Countable, OneMore
  <1>5. Cardinality(Begun') = Cardinality(Begun) + 1
    <2> DEFINE p == <<t, passes[t] + 1>>
    <2>1. p \in Threads \X (1..MaxPasses) /\ p \notin Begun
      BY <1>1, <1>2 DEF Begun
    <2>2. ASSUME NEW q \in Threads \X (1..MaxPasses)
          PROVE  q \in Begun' <=> q \in Begun \/ q = p
      <3>1. q = <<q[1], q[2]>> /\ q[1] \in Threads /\ q[2] \in 1..MaxPasses
        OBVIOUS
      <3>2. CASE q[1] = t
        <4>1. passes'[t] = passes[t] + 1 /\ passes[t] \in Nat
          BY <1>1, <1>2
        <4>2. q[2] <= passes'[t] <=> q[2] <= passes[t] \/ q[2] = passes[t] + 1
          BY <3>1, <4>1, <1>2
        <4> QED BY <3>1, <3>2, <4>2 DEF Begun
      <3>3. CASE q[1] # t
        BY <1>1, <1>2, <3>1, <3>3 DEF Begun
      <3> QED BY <3>2, <3>3
    <2>3. Begun' = Begun \cup {p}
      <3>1. Begun \subseteq Threads \X (1..MaxPasses) /\ Begun' \subseteq Threads \X (1..MaxPasses)
        BY DEF Begun
      <3> QED BY <2>1, <2>2, <3>1
    <2> HIDE DEF p
    <2> QED BY <2>1, <2>3, Countable, OneMore
  <1>6. HitsBounded'
    BY <1>1, <1>4, <1>5, Countable DEF PointInv, Typed, HitsBounded
  <1>7. UNCHANGED Pending
    BY <1>1, <1>2 DEF Pending
  <1>8. FiredBounded' /\ Storing' /\ Numbered' /\ Judged'
    BY <1>1, <1>7 DEF PointInv, FiredBounded, Storing, Numbered, Judged, Sought
  <1> QED BY <1>3, <1>6, <1>8 DEF PointInv

LEMMA CountStep ==
    ASSUME PointInv, NEW t \in Threads, Count(t)
    PROVE  PointInv'
  <1>1. /\ pass[t] = "enabled" /\ hit' = hit + 1
        /\ ownHit' = [ownHit EXCEPT ![t] = hit + 1]
        /\ counted' = [counted EXCEPT ![t] = round]
        /\ pass' = [pass EXCEPT ![t] = "counted"]
        /\ UNCHANGED <<enabled, mode, nth, stores, wants, passes, round, fired>>
    BY DEF Count, testerVars
  <1>2. /\ pass \in [Threads -> {"out", "enabled", "counted"}]
        /\ counted \in [Threads -> 0..MaxEnables] /\ ownHit \in [Threads -> Hits]
        /\ hit \in Nat /\ round \in 0..MaxEnables /\ round \in Nat
    BY BoundTypes DEF PointInv, Typed
  <1>3. t \in Counting /\ Counting' = Counting \ {t}
    BY <1>1, <1>2 DEF Counting
  <1>4. Cardinality(Counting') = Cardinality(Counting) - 1
    BY <1>3, Countable, OneLess
  <1>5. t \notin Pending /\ Pending' = Pending \cup {t}
    BY <1>1, <1>2 DEF Pending
  <1>6. Cardinality(Pending') = Cardinality(Pending) + 1
    BY <1>5, Countable, OneMore
  <1>7. UNCHANGED Begun
    BY <1>1 DEF Begun
  <1>8. hit + 1 \in Hits
    <2>1. hit + Cardinality(Counting) <= MaxPasses * Cardinality(Threads)
      BY <1>2, Countable, BoundTypes DEF PointInv, HitsBounded
    <2>2. Cardinality(Counting') \in Nat
      BY <1>3, Countable, FS_RemoveElement, FS_CardinalityType
    <2>3. ASSUME NEW m \in Nat, hit + Cardinality(Counting) <= m PROVE hit + 1 \in 0..m
      BY <1>2, <1>4, <2>2, <2>3, Countable
    <2> QED BY <2>1, <2>3, BoundTypes DEF Hits
  <1>9. Typed'
    BY <1>1, <1>2, <1>8 DEF PointInv, Typed
  <1>10. HitsBounded'
    BY <1>1, <1>2, <1>4, <1>7, Countable DEF PointInv, HitsBounded
  <1>11. FiredBounded'
    BY <1>1, <1>2, <1>6, Countable DEF PointInv, Typed, FiredBounded
  <1>12. Storing'
    BY <1>1 DEF PointInv, Storing
  <1>13. /\ ownHit'[t] = hit + 1 /\ t \in Pending'
         /\ \A u \in Pending : ownHit'[u] = ownHit[u] /\ ownHit[u] \in 1..hit /\ u \in Pending'
    BY <1>1, <1>2, <1>5 DEF PointInv, Numbered, Pending
  <1>14. Numbered'
    <2>1. \A u \in Threads : counted'[u] <= round'
      BY <1>1, <1>2 DEF PointInv, Numbered
    <2>2. \A u \in Pending' : ownHit'[u] \in 1..hit'
      BY <1>1, <1>2, <1>5, <1>13
    <2>3. \A u, w \in Pending' : ownHit'[u] = ownHit'[w] => u = w
      BY <1>2, <1>5, <1>13 DEF PointInv, Numbered
    <2> QED BY <2>1, <2>2, <2>3 DEF Numbered
  <1>15. Judged'
    <2> SUFFICES ASSUME stores' = {}, round' > 0
                 PROVE  /\ mode' = "ALWAYS" => fired' + Cardinality(Pending') = hit'
                        /\ mode' \in {"ONCE", "NTH"} =>
                              fired' = IF Sought' > 0 /\ Sought' <= hit'
                                          /\ (\A u \in Pending' : ownHit'[u] # Sought')
                                       THEN 1 ELSE 0
      BY DEF Judged
    <2>1. mode' = "ALWAYS" => fired' + Cardinality(Pending') = hit'
      BY <1>1, <1>2, <1>6, Countable DEF PointInv, Typed, Judged
    <2>2. Sought' = Sought /\ Sought \in Int
      BY <1>1, BoundTypes DEF Sought, PointInv, Typed
    <2>3. (\A u \in Pending' : ownHit'[u] # Sought)
             <=> (\A u \in Pending : ownHit[u] # Sought) /\ Sought # hit + 1
      BY <1>5, <1>13
    <2>4. Sought = hit + 1 => \A u \in Pending : ownHit[u] # Sought
      BY <1>2, <1>13
    <2>5. ASSUME mode \in {"ONCE", "NTH"}
          PROVE  fired = IF Sought > 0 /\ Sought <= hit /\ (\A u \in Pending : ownHit[u] # Sought)
                         THEN 1 ELSE 0
      BY <1>1, <2>5 DEF PointInv, Judged
    <2>6. (Sought > 0 /\ Sought <= hit /\ (\A u \in Pending : ownHit[u] # Sought))
             <=> (Sought > 0 /\ Sought <= hit' /\ (\A u \in Pending' : ownHit'[u] # Sought))
      BY <1>1, <1>2, <2>2, <2>3, <2>4
    <2> QED BY <1>1, <2>1, <2>2, <2>5, <2>6
  <1> QED BY <1>9, <1>10, <1>11, <1>12, <1>14, <1>15 DEF PointInv

LEMMA DecideStep ==
    ASSUME PointInv, NEW t \in Threads, Decide(t)
    PROVE  PointInv'
  <1>1. PICK fires \in Outcomes(ownHit[t]) :
            fired' = IF fires /\ counted[t] = round THEN fired + 1 ELSE fired
    BY DEF Decide
  <1>2. /\ pass[t] = "counted" /\ pass' = [pass EXCEPT ![t] = "out"]
        /\ UNCHANGED <<enabled, hit, mode, nth, stores, wants, ownHit, passes, round, counted>>
    BY DEF Decide, pointVars, testerVars
  <1>3. /\ pass \in [Threads -> {"out", "enabled", "counted"}]
        /\ hit \in Nat /\ fired \in Nat /\ Sought \in Int /\ mode \in Modes
    BY BoundTypes DEF PointInv, Typed, Sought
  <1>4. UNCHANGED <<Counting, Begun>>
    BY <1>2, <1>3 DEF Counting, Begun
  <1>5. Pending' = Pending \ {t}
    BY <1>2, <1>3 DEF Pending
  <1>6. Sought' = Sought
    BY <1>2 DEF Sought
  <1>7. Typed'
    <2>1. fired' \in Nat
      BY <1>1, <1>3
    <2> QED BY <1>2, <1>3, <2>1 DEF PointInv, Typed
  <1>8. HitsBounded' /\ Storing'
    BY <1>2, <1>4 DEF PointInv, HitsBounded, Storing
  <1>9. Numbered'
    BY <1>2, <1>5 DEF PointInv, Numbered
  <1>10. CASE counted[t] # round
    <2>1. fired' = fired /\ Pending' = Pending
      BY <1>1, <1>5, <1>10 DEF Pending
    <2>2. FiredBounded' /\ Judged'
      BY <1>2, <1>6, <2>1 DEF PointInv, FiredBounded, Judged
    <2> QED BY <1>7, <1>8, <1>9, <2>2 DEF PointInv
  <1>11. CASE counted[t] = round
    <2>1. t \in Pending
      BY <1>2, <1>11 DEF Pending
    <2>2. Cardinality(Pending') = Cardinality(Pending) - 1
      BY <1>5, <2>1, Countable, OneLess
    <2>3. (fires /\ fired' = fired + 1) \/ (~fires /\ fired' = fired)
      BY <1>1, <1>11
    <2>4. FiredBounded'
      BY <1>2, <1>3, <2>2, <2>3, Countable DEF PointInv, FiredBounded
    <2>5. ASSUME mode = "ALWAYS", fired + Cardinality(Pending) = hit
          PROVE  fired' + Cardinality(Pending') = hit'
      <3>1. fires
        BY <1>1, <2>5 DEF Outcomes
      <3> QED BY <1>2, <1>3, <2>2, <2>3, <2>5, <3>1, Countable
    <2>6. ASSUME mode \in {"ONCE", "NTH"},
                 fired = IF Sought > 0 /\ Sought <= hit /\ (\A u \in Pending : ownHit[u] # Sought)
                         THEN 1 ELSE 0
          PROVE  fired' = IF Sought > 0 /\ Sought <= hit /\ (\A u \in Pending' : ownHit[u] # Sought)
                          THEN 1 ELSE 0
      <3>1. ownHit[t] \in 1..hit /\ \A u \in Pending : ownHit[u] = ownHit[t] => u = t
        BY <2>1 DEF PointInv, Numbered
      <3>2. fires <=> Sought > 0 /\ ownHit[t] = Sought
        <4>1. CASE mode = "ONCE"
          <5>1. Sought = 1 /\ Outcomes(ownHit[t]) = {ownHit[t] = 1}
            BY <4>1 DEF Outcomes, Sought
          <5>2. fires = (ownHit[t] = 1)
            BY <1>1, <5>1
          <5>3. fires <=> ownHit[t] = 1
            BY <5>2
          <5>4. Sought > 0
            BY <5>1
          <5> QED BY <5>1, <5>3, <5>4
        <4>2. CASE mode = "NTH"
          <5>1. Sought = nth /\ Outcomes(ownHit[t]) = {nth > 0 /\ ownHit[t] = nth}
            BY <4>2 DEF Outcomes, Sought
          <5>2. fires = (nth > 0 /\ ownHit[t] = nth)
            BY <1>1, <5>1
          <5> QED BY <5>1, <5>2
        <4> QED BY <2>6, <4>1, <4>2
      <3>3. CASE ownHit[t] = Sought
        <4>1. Sought > 0 /\ Sought <= hit /\ (\A u \in Pending' : ownHit[u] # Sought)
          BY <1>3, <1>5, <3>1, <3>3
        <4>2. fired = 0
          BY <2>1, <2>6, <3>3
        <4> QED BY <2>3, <3>2, <3>3, <4>1, <4>2
      <3>4. CASE ownHit[t] # Sought
        <4>1. (\A u \in Pending : ownHit[u] # Sought) <=> (\A u \in Pending' : ownHit[u] # Sought)
          BY <1>5, <3>4
        <4> QED BY <2>3, <2>6, <3>2, <3>4, <4>1
      <3> QED BY <3>3, <3>4
    <2>7. Judged'
      BY <1>2, <1>6, <2>5, <2>6 DEF PointInv, Judged
    <2> QED BY <1>7, <1>8, <1>9, <2>4, <2>7 DEF PointInv
  <1> QED BY <1>10, <1>11

THEOREM PointInvariant == PointSpec => []PointInv
  <1>1. PointInv /\ [PointNext]_failPointVars => PointInv'
    <2> SUFFICES ASSUME PointInv, [PointNext]_failPointVars PROVE PointInv'
      OBVIOUS
    <2>1. CASE Tester
      BY <2>1, EnableStep, StoreFieldStep, StoreHitStep, DisableStep DEF Tester
    <2>2. CASE \E t \in Threads : ShouldFire(t)
      BY <2>2, LoadEnabledStep, CountStep, DecideStep DEF ShouldFire
    <2>3. CASE UNCHANGED failPointVars
      <3>1. UNCHANGED <<enabled, hit, mode, nth, stores, wants, pass, ownHit, passes,
                        round, counted, fired>>
        BY <2>3 DEF failPointVars, pointVars, testerVars, passVars, roundVars
      <3>2. UNCHANGED <<Counting, Begun, Pending>>
        BY <3>1, TesterSets
      <3>3. Typed' /\ Storing'
        BY <3>1 DEF PointInv, Typed, Storing
      <3>4. HitsBounded' /\ FiredBounded' /\ Numbered' /\ Judged'
        BY <3>1, <3>2 DEF PointInv, HitsBounded, FiredBounded, Numbered, Judged, Sought
      <3> QED BY <3>3, <3>4 DEF PointInv
    <2> QED BY <2>1, <2>2, <2>3 DEF PointNext
  <1> QED BY PointStart, <1>1, PTL DEF PointSpec

(***************************************************************************)
(* Types; in particular a point has no more hits than passes began, and a  *)
(* round no more firings than hits.                                        *)
(***************************************************************************)
THEOREM PointTypes == PointSpec => []PointTypeOK
  <1>1. PointInv => PointTypeOK
    <2> SUFFICES ASSUME PointInv PROVE PointTypeOK
      OBVIOUS
    <2>1. hit \in Nat /\ fired \in Nat
      BY DEF PointInv, Typed
    <2>2. hit \in Hits
      BY <2>1, Countable, BoundTypes DEF PointInv, HitsBounded, Hits
    <2>3. fired \in 0..hit
      BY <2>1, Countable DEF PointInv, FiredBounded
    <2> QED BY <2>2, <2>3 DEF PointInv, Typed, PointTypeOK
  <1> QED BY <1>1, PointInvariant, PTL

(***************************************************************************)
(* After Enable has returned, ALWAYS fires on every hit, ONCE on one, and  *)
(* NTH on one when so many have come.                                      *)
(***************************************************************************)
THEOREM PointFiresAsAsked == PointSpec => []FiresAsAsked
  <1>1. PointInv => FiresAsAsked
    <2> SUFFICES ASSUME PointInv, stores = {}, round > 0,
                        \A t \in Threads : pass[t] # "counted"
                 PROVE  mode = wants.mode /\ nth = wants.nth /\ fired \in Due
      BY DEF FiresAsAsked
    <2>1. Pending = {}
      BY DEF Pending
    <2>2. Cardinality(Pending) = 0
      BY <2>1, FS_EmptySet
    <2>3. hit \in Nat /\ fired \in Nat /\ mode \in Modes /\ nth \in Nat
      BY BoundTypes DEF PointInv, Typed
    <2>4. mode = "ALWAYS" => fired = hit
      BY <2>2, <2>3 DEF PointInv, Judged
    <2>5. mode \in {"ONCE", "NTH"} =>
             fired = IF Sought > 0 /\ Sought <= hit THEN 1 ELSE 0
      BY <2>1 DEF PointInv, Judged
    <2>6. fired \in 0..hit
      BY <2>2, <2>3 DEF PointInv, FiredBounded
    <2>7. fired \in Due
      <3>1. CASE mode = "ALWAYS"
        BY <2>4, <3>1 DEF Due
      <3>2. CASE mode = "ONCE"
        <4>1. fired = IF hit >= 1 THEN 1 ELSE 0
          BY <2>3, <2>5, <3>2 DEF Sought
        <4> QED BY <3>2, <4>1 DEF Due
      <3>3. CASE mode = "NTH"
        <4>1. fired = IF nth > 0 /\ hit >= nth THEN 1 ELSE 0
          BY <2>3, <2>5, <3>3 DEF Sought
        <4> QED BY <3>3, <4>1 DEF Due
      <3>4. CASE mode = "RANDOM"
        BY <2>6, <3>4 DEF Due
      <3> QED BY <2>3, <3>1, <3>2, <3>3, <3>4 DEF Modes
    <2> QED BY <2>7 DEF PointInv, Storing
  <1> QED BY <1>1, PointInvariant, PTL
=============================================================================
