------------------------------ MODULE FailPoint ------------------------------
(***************************************************************************)
(* src/tools/failpoint: one Point, which a tester enables and disables     *)
(* (failpoint_config.h, or the constructor and destructor of               *)
(* failpoint_scope.h) while threads pass it (ShouldFire).                  *)
(*                                                                         *)
(* mode and nth are plain fields that Enable writes while others read them *)
(* and the store to enabled does not order the stores that follow it, so   *)
(* those three may take effect in any order; the store to hit is the last. *)
(* Registry::Get creates and finds the point under a lock: no step.        *)
(***************************************************************************)
EXTENDS Integers, FiniteSets

CONSTANTS
    Threads,
    Nth,         \* the values of nth
    MaxEnables,  \* bound: how often the tester calls Enable
    MaxPasses    \* bound: how often each thread passes

ASSUME FailPointAssumption ==
    IsFiniteSet(Threads) /\ Nth \subseteq Nat /\ MaxEnables \in Nat /\ MaxPasses \in Nat

Modes == {"ALWAYS", "ONCE", "NTH", "RANDOM"}

VARIABLES
    enabled, hit, mode, nth,  \* the Point
    stores,      \* the fields that the present Enable has still to store
    wants,       \* its arguments
    pass,        \* where each thread is in ShouldFire
    ownHit,      \* the hit each thread has counted
    passes,      \* how often each thread has passed
    round,       \* history: the stores to hit so far
    counted,     \* history: the round in which each thread has counted
    fired        \* history: passes that counted in this round and fired

pointVars  == <<enabled, hit, mode, nth>>
testerVars == <<stores, wants>>
passVars   == <<pass, ownHit, passes>>
roundVars  == <<round, counted, fired>>
failPointVars == <<pointVars, testerVars, passVars, roundVars>>

Hits == 0..MaxPasses * Cardinality(Threads)

PointTypeOK ==
    /\ enabled \in BOOLEAN /\ hit \in Hits /\ mode \in Modes /\ nth \in Nth \cup {0}
    /\ stores \subseteq {"enabled", "mode", "nth", "hit"}
    /\ wants \in [mode : Modes, nth : Nth \cup {0}]
    /\ pass \in [Threads -> {"out", "enabled", "counted"}]
    /\ ownHit \in [Threads -> Hits] /\ passes \in [Threads -> 0..MaxPasses]
    /\ round \in 0..MaxEnables /\ counted \in [Threads -> 0..MaxEnables]
    /\ fired \in 0..hit

PointInit ==
    /\ enabled = FALSE /\ hit = 0 /\ mode = "ALWAYS" /\ nth = 0
    /\ stores = {} /\ wants = [mode |-> "ALWAYS", nth |-> 0]
    /\ pass = [t \in Threads |-> "out"]
    /\ ownHit = [t \in Threads |-> 0] /\ passes = [t \in Threads |-> 0]
    /\ round = 0 /\ counted = [t \in Threads |-> 0] /\ fired = 0

(***************************************************************************)
(* Enable(name, mode, nth, prob) and Disable(name).                        *)
(***************************************************************************)
Enable(m, n) ==
    /\ stores = {} /\ round < MaxEnables
    /\ stores' = {"enabled", "mode", "nth", "hit"}
    /\ wants' = [mode |-> m, nth |-> n]
    /\ UNCHANGED <<pointVars, passVars, roundVars>>

StoreField ==
    \E f \in stores \ {"hit"} :
        /\ stores' = stores \ {f}
        /\ enabled' = (f = "enabled" \/ enabled)
        /\ mode' = IF f = "mode" THEN wants.mode ELSE mode
        /\ nth' = IF f = "nth" THEN wants.nth ELSE nth
        /\ UNCHANGED <<hit, wants, passVars, roundVars>>

\* MUTANT of StoreHit: the hits are cleared before the rest is stored.
StoreHitEarly ==
    /\ "hit" \in stores
    /\ stores' = stores \ {"hit"}
    /\ hit' = 0
    /\ round' = round + 1 /\ fired' = 0
    /\ UNCHANGED <<enabled, mode, nth, wants, passVars, counted>>

StoreHit ==
    /\ stores = {"hit"}
    /\ stores' = {}
    /\ hit' = 0
    /\ round' = round + 1 /\ fired' = 0
    /\ UNCHANGED <<enabled, mode, nth, wants, passVars, counted>>

\* MUTANT of Disable: it clears the hits as well.
DisableClears ==
    /\ stores = {} /\ enabled
    /\ enabled' = FALSE /\ hit' = 0
    /\ UNCHANGED <<mode, nth, testerVars, passVars, roundVars>>

Disable ==
    /\ stores = {} /\ enabled
    /\ enabled' = FALSE
    /\ UNCHANGED <<hit, mode, nth, testerVars, passVars, roundVars>>

Tester ==
    \/ \E m \in Modes, n \in Nth : Enable(m, n)
    \/ StoreField \/ StoreHit \/ Disable

(***************************************************************************)
(* ShouldFire(name).  The pass of a point that is off is no step.          *)
(***************************************************************************)
LoadEnabled(t) ==
    /\ pass[t] = "out" /\ passes[t] < MaxPasses
    /\ enabled
    /\ pass' = [pass EXCEPT ![t] = "enabled"]
    /\ passes' = [passes EXCEPT ![t] = @ + 1]
    /\ UNCHANGED <<pointVars, testerVars, ownHit, roundVars>>

Count(t) ==
    /\ pass[t] = "enabled"
    /\ hit' = hit + 1
    /\ ownHit' = [ownHit EXCEPT ![t] = hit + 1]
    /\ counted' = [counted EXCEPT ![t] = round]
    /\ pass' = [pass EXCEPT ![t] = "counted"]
    /\ UNCHANGED <<enabled, mode, nth, testerVars, passes, round, fired>>

\* The values ShouldFire may return to a pass that has counted hit k.
Outcomes(k) ==
    CASE mode = "ALWAYS" -> {TRUE}
      [] mode = "ONCE"   -> {k = 1}
      [] mode = "NTH"    -> {nth > 0 /\ k = nth}
      [] mode = "RANDOM" -> BOOLEAN

Decide(t) ==
    /\ pass[t] = "counted"
    /\ \E fires \in Outcomes(ownHit[t]) :
          fired' = IF fires /\ counted[t] = round THEN fired + 1 ELSE fired
    /\ pass' = [pass EXCEPT ![t] = "out"]
    /\ UNCHANGED <<pointVars, testerVars, ownHit, passes, round, counted>>

ShouldFire(t) == LoadEnabled(t) \/ Count(t) \/ Decide(t)

PointNext == Tester \/ \E t \in Threads : ShouldFire(t)

PointSpec == PointInit /\ [][PointNext]_failPointVars

(***************************************************************************)
(* Once Enable has returned, and until the next one begins, every hit is   *)
(* judged once and by the mode that was asked for, whichever threads came  *)
(* by while it ran: ALWAYS fires on each, ONCE on one and NTH on one when  *)
(* so many have come, and never again.  (Hits counted while Enable runs    *)
(* are no part of the promise: they may be judged by either mode.)         *)
(***************************************************************************)
Due ==
    CASE mode = "ALWAYS" -> {hit}
      [] mode = "ONCE"   -> {IF hit >= 1 THEN 1 ELSE 0}
      [] mode = "NTH"    -> {IF nth > 0 /\ hit >= nth THEN 1 ELSE 0}
      [] mode = "RANDOM" -> 0..hit

FiresAsAsked ==
    stores = {} /\ round > 0 /\ (\A t \in Threads : pass[t] # "counted") =>
        /\ mode = wants.mode /\ nth = wants.nth
        /\ fired \in Due
=============================================================================
