------------------------- MODULE LeaderWatchProofs -------------------------
(***************************************************************************)
(* Theorems about LeaderWatch: types, the error of the counted leader time *)
(* and when VerifyLeader is called, for all periods and any set of peers.  *)
(***************************************************************************)
EXTENDS LeaderWatch, TLAPS

\* The last tick of collectStats, or the start.
LastTick == statsAt - StatsPeriod

\* By how much Counted may be off: a period for each one that is over and in
\* which leadership changed, and the part of the current one if it did now.
Allowance ==
  IF changed THEN StatsPeriod * (dirty - 1) + (now - LastTick) ELSE StatsPeriod * dirty

(***************************************************************************)
(* LeaderTimeIsAccurate is not inductive: between two ticks the error      *)
(* grows, and only where the role of the last sample is not the role now.  *)
(***************************************************************************)
StatsInv ==
  /\ LastTick <= now /\ now <= statsAt
  /\ leaderSince # None => leaderSince <= now
  /\ changed => dirty > 0
  /\ tracked /\ ~changed => (IsLeader <=> leaderSince # None)
  /\ tracked => Counted - led <= Allowance /\ led - Counted <= Allowance

(***************************************************************************)
(* While the timer of monitorLeadership runs, no look has found an address *)
(* and VerifyLeader was not called since it was set.                       *)
(***************************************************************************)
WatchInv ==
  /\ seen # None => seen <= now
  /\ verified # None => verified <= now
  /\ observedLeader # None => seen # None
  /\ leaderlessTime # None =>
       /\ observedLeader = None
       /\ seen # None /\ seen <= leaderlessTime
       /\ leaderlessTime <= now
       /\ verified # None => verified <= leaderlessTime
  /\ at = "verify" => leaderlessTime # None /\ now - leaderlessTime > Patience

Inv == TypeOK /\ StatsInv /\ WatchInv

----------------------------------------------------------------------------
\* Whatever raft names for a role is an address.
LEMMA NamesAreAddresses == \A r \in Roles : Names(r) \subseteq Addresses
  BY DEF Roles, Names, Addresses

\* A dirty period that is over counts in full.
LEMMA PeriodOver ==
  ASSUME NEW P \in Nat, NEW d \in Nat
  PROVE  P * (d - 1) + P = P * d /\ P * ((d + 1) - 1) = P * d
  OBVIOUS

LEMMA AllowanceTypes == TypeOK => Allowance \in Int /\ Counted \in Int
  BY PeriodAssumption, AddressAssumption DEF TypeOK, Allowance, LastTick, Counted, Since, Times

----------------------------------------------------------------------------
\* One round of monitorLeadership that found addr.
LEMMA ObserveKeepsTypes ==
  ASSUME TypeOK, NEW addr \in Addresses, Observe(addr)
  PROVE  /\ lookAt' \in Nat /\ at' \in {"asleep", "fallback", "verify"}
         /\ observedLeader' \in Addresses /\ previousLeader' \in Addresses
         /\ leaderlessTime' \in Times /\ leaderLostTime' \in Times
         /\ leaderless' \in BOOLEAN /\ seen' \in Times
<1>1. leaderlessTime' \in Times /\ lookAt' \in Nat /\ seen' \in Times
  BY PeriodAssumption DEF TypeOK, Observe, NextLeaderless, Times
<1>2. leaderless' \in BOOLEAN /\ at' \in {"asleep", "fallback", "verify"}
  BY Zenon DEF TypeOK, Observe
<1>3. /\ observedLeader' \in Addresses /\ previousLeader' \in Addresses
      /\ leaderLostTime' \in Times
  BY DEF TypeOK, Observe, Times
<1> QED BY <1>1, <1>2, <1>3

LEMMA ObserveKeepsWatch ==
  ASSUME TypeOK, WatchInv, NEW addr \in Addresses, Observe(addr),
         now' = now, verified' = verified
  PROVE  WatchInv'
<1> USE PeriodAssumption, AddressAssumption DEF TypeOK, WatchInv, Times
<1>1. /\ leaderlessTime' = NextLeaderless(addr)
      /\ observedLeader' = addr
      /\ seen' = IF addr # None THEN now ELSE seen
      /\ at' = "verify" => addr = None /\ leaderlessTime' # None /\ now - leaderlessTime' > Patience
  BY DEF Observe, LeaderChanged, TooLong, Since
<1>2. CASE addr # None
  <2>1. leaderlessTime' = None
    BY <1>1, <1>2 DEF NextLeaderless, LeaderChanged
  <2> QED BY <1>1, <1>2, <2>1
<1>3. CASE addr = None
  <2>1. leaderlessTime' = leaderlessTime \/ (leaderlessTime' = now /\ observedLeader # None)
    BY <1>1, <1>3 DEF NextLeaderless, LeaderChanged
  <2> QED BY <1>1, <1>3, <2>1
<1> QED BY <1>2, <1>3

LEMMA InitInv == Init => Inv
<1> SUFFICES ASSUME Init PROVE Inv
  OBVIOUS
<1> USE PeriodAssumption, AddressAssumption DEF Init
<1>1. TypeOK
  BY DEF TypeOK, Times, Addresses, Roles
<1>2. StatsInv
  <2>1. Allowance = 0 /\ Counted = 0
    BY DEF Allowance, Counted
  <2> QED BY <2>1 DEF StatsInv, LastTick, IsLeader
<1>3. WatchInv
  BY DEF WatchInv
<1> QED BY <1>1, <1>2, <1>3 DEF Inv

LEMMA StepTypes == Inv /\ [Next]_vars => TypeOK'
<1> SUFFICES ASSUME Inv, [Next]_vars PROVE TypeOK'
  OBVIOUS
<1> USE PeriodAssumption, AddressAssumption DEF Inv, TypeOK, Times
<1>1. CASE Look
  <2>1. CASE lead # None
    BY <1>1, <2>1, ObserveKeepsTypes DEF Look, raftVars, statsVars, ledVars
  <2>2. CASE lead = None
    BY <1>1, <2>2 DEF Look, raftVars, statsVars, ledVars
  <2> QED BY <2>1, <2>2
<1>2. CASE Fallback
  <2>1. PICK addr \in Addresses : Observe(addr)
    BY <1>2 DEF Fallback, Addresses
  <2> QED BY <1>2, <2>1, ObserveKeepsTypes DEF Fallback, raftVars, statsVars, ledVars
<1>3. CASE Verify
  BY <1>3 DEF Verify, raftVars, statsVars, ledVars
<1>4. CASE Sample
  <2>1. leaderSince # None => leaderSince \in Nat /\ leaderSince <= now
    BY DEF StatsInv
  <2>2. statsAt' \in Nat /\ changed' = FALSE
    BY <1>4 DEF Sample
  <2>5. leaderSince' \in Times
    <3>1. leaderSince' = leaderSince \/ leaderSince' = now \/ leaderSince' = None
      BY <1>4 DEF Sample, NextLeaderSince
    <3>2. leaderSince \in Times /\ now \in Times /\ None \in Times
      OBVIOUS
    <3> QED BY Zenon, <3>1, <3>2
  <2>3. totalLeaderTime' \in Nat
    BY <1>4, <2>1 DEF Sample, Since
  <2>4. leadershipTime' \in Nat
    BY <1>4, <2>1 DEF Sample, NextLeaderSince, Since
  <2> QED BY <1>4, <2>2, <2>3, <2>4, <2>5 DEF Sample, raftVars, watchVars, seenVars
<1>5. CASE Untrack
  BY <1>5 DEF Untrack, raftVars, watchVars, ledVars, seenVars
<1>6. CASE RoleChange
  BY <1>6, NamesAreAddresses DEF RoleChange, watchVars, statsVars, seenVars
<1>7. CASE ConfigChange
  BY <1>7 DEF ConfigChange, watchVars, statsVars, ledVars, seenVars
<1>8. CASE Tick
  BY <1>8 DEF Tick, raftVars, watchVars, statsVars, seenVars
<1>9. CASE UNCHANGED vars
  BY <1>9 DEF vars, raftVars, watchVars, statsVars, ledVars, seenVars
<1> QED BY <1>1, <1>2, <1>3, <1>4, <1>5, <1>6, <1>7, <1>8, <1>9 DEF Next

LEMMA StepStats == Inv /\ [Next]_vars => StatsInv'
<1> SUFFICES ASSUME Inv, [Next]_vars PROVE StatsInv'
  OBVIOUS
<1> USE PeriodAssumption, AddressAssumption DEF Inv, TypeOK, Times
<1> USE DEF StatsInv, LastTick, IsLeader, Counted, Since
<1>1. CASE Look \/ Fallback \/ Verify \/ ConfigChange \/ UNCHANGED vars
  <2>1. UNCHANGED <<now, role, statsVars, ledVars>>
    BY <1>1 DEF Look, Fallback, Verify, ConfigChange, vars, raftVars
  <2> QED BY <2>1 DEF Allowance, statsVars, ledVars
<1>2. CASE Sample
  <2>1. now = statsAt /\ statsAt' = now' + StatsPeriod /\ ~changed' /\ UNCHANGED <<now, role, tracked, led, dirty>>
    BY <1>2 DEF Sample, raftVars
  <2>2. leaderSince' # None => leaderSince' <= now'
    BY <1>2, <2>1 DEF Sample, NextLeaderSince
  <2>3. ASSUME tracked PROVE (IsLeader' <=> leaderSince' # None) /\ Counted' = Counted
    BY <1>2, <2>1, <2>3 DEF Sample, NextLeaderSince
  <2>4. Allowance <= Allowance'
    BY <2>1, PeriodOver DEF Allowance
  <2>5. Allowance \in Int /\ Allowance' \in Int /\ Counted \in Int
    BY AllowanceTypes, StepTypes DEF Allowance
  <2> HIDE DEF Counted
  <2> QED BY <2>1, <2>2, <2>3, <2>4, <2>5
<1>3. CASE Untrack
  BY <1>3 DEF Untrack, raftVars, ledVars
<1>4. CASE RoleChange
  <2>1. UNCHANGED <<now, statsVars, led>> /\ Counted' = Counted
    BY <1>4 DEF RoleChange, statsVars
  <2>2. (changed' => dirty' > 0) /\ (~changed' => ~changed /\ IsLeader' = IsLeader)
    <3>1. (role' = "leader") # (role = "leader") => changed'
      BY <1>4 DEF RoleChange
    <3>2. changed => changed'
      BY <1>4 DEF RoleChange
    <3>3. changed' => dirty' > 0
      BY <1>4 DEF RoleChange
    <3> QED BY <3>1, <3>2, <3>3
  <2>3. Allowance <= Allowance'
    BY <1>4, <2>1, PeriodOver DEF RoleChange, Allowance, statsVars
  <2>4. Allowance \in Int /\ Allowance' \in Int /\ Counted \in Int
    BY AllowanceTypes, StepTypes DEF Allowance
  <2> HIDE DEF Counted
  <2> QED BY <2>1, <2>2, <2>3, <2>4 DEF statsVars
<1>5. CASE Tick
  <2>1. now' = now + 1 /\ now < statsAt /\ led' = IF IsLeader THEN led + 1 ELSE led
    BY <1>5 DEF Tick
  <2>2. UNCHANGED <<role, changed, dirty, statsVars>>
    BY <1>5 DEF Tick, raftVars
  <2>3. Allowance' = IF changed THEN Allowance + 1 ELSE Allowance
    BY <2>1, <2>2 DEF Allowance, statsVars
  <2>4. Counted' = IF leaderSince # None THEN Counted + 1 ELSE Counted
    BY <2>1, <2>2 DEF statsVars
  <2>5. Allowance \in Int /\ Counted \in Int
    BY AllowanceTypes
  <2>6. LastTick' <= now' /\ now' <= statsAt' /\ (leaderSince' # None => leaderSince' <= now')
    BY <2>1, <2>2 DEF statsVars
  <2> HIDE DEF Counted
  <2> QED BY <2>1, <2>2, <2>3, <2>4, <2>5, <2>6 DEF statsVars
<1> QED BY <1>1, <1>2, <1>3, <1>4, <1>5 DEF Next

LEMMA StepWatch == Inv /\ [Next]_vars => WatchInv'
<1> SUFFICES ASSUME Inv, [Next]_vars PROVE WatchInv'
  OBVIOUS
<1> USE PeriodAssumption, AddressAssumption DEF Inv, TypeOK, Times
<1>1. CASE Look
  <2>1. CASE lead # None
    BY <1>1, <2>1, ObserveKeepsWatch DEF Look
  <2>2. CASE lead = None
    BY <1>1, <2>2 DEF Look, WatchInv
  <2> QED BY <2>1, <2>2
<1>2. CASE Fallback
  <2>1. PICK addr \in Addresses : Observe(addr)
    BY <1>2 DEF Fallback, Addresses
  <2> QED BY <1>2, <2>1, ObserveKeepsWatch DEF Fallback
<1>3. CASE Verify
  BY <1>3 DEF Verify, WatchInv
<1>4. CASE Sample \/ Untrack \/ RoleChange \/ ConfigChange \/ UNCHANGED vars
  BY <1>4 DEF Sample, Untrack, RoleChange, ConfigChange, vars, watchVars, seenVars, WatchInv
<1>5. CASE Tick
  BY <1>5 DEF Tick, watchVars, seenVars, WatchInv
<1> QED BY <1>1, <1>2, <1>3, <1>4, <1>5 DEF Next

LEMMA Invariance == Spec => []Inv
<1>1. Inv /\ [Next]_vars => Inv'
  BY StepTypes, StepStats, StepWatch DEF Inv
<1> QED BY InitInv, <1>1, PTL DEF Spec

----------------------------------------------------------------------------
\* The model of the two goroutines never leaves its types: no time counted is
\* negative.
THEOREM WatchTypeCorrect == Spec => []TypeOK
<1>1. Inv => TypeOK
  BY DEF Inv
<1> QED BY Invariance, <1>1, PTL

\* The leader time a node has counted is off by at most StatsPeriod for every
\* period in which it won or lost leadership, for any period and for ever.
THEOREM LeaderTimeStaysAccurate == Spec => []LeaderTimeIsAccurate
<1>1. Inv => LeaderTimeIsAccurate
  <2> SUFFICES ASSUME Inv, tracked
               PROVE  Counted - led <= StatsPeriod * dirty /\ led - Counted <= StatsPeriod * dirty
    BY DEF LeaderTimeIsAccurate
  <2>1. Allowance <= StatsPeriod * dirty
    BY PeriodAssumption, PeriodOver DEF Inv, TypeOK, StatsInv, Allowance, LastTick
  <2>2. Counted - led <= Allowance /\ led - Counted <= Allowance
    BY DEF Inv, StatsInv
  <2>3. /\ Allowance \in Int /\ Counted \in Int /\ led \in Int
        /\ StatsPeriod * dirty \in Int
    BY AllowanceTypes, PeriodAssumption DEF Inv, TypeOK
  <2> QED BY <2>1, <2>2, <2>3
<1> QED BY Invariance, <1>1, PTL

\* VerifyLeader is called only after more than Patience without any address, and
\* no more often, for any Patience and any Interval.
THEOREM ChecksAreAlwaysEarned == Spec => ChecksAreEarned
<1>1. Inv /\ [Next]_vars => [verified' # verified =>
                               /\ seen # None /\ now - seen > Patience
                               /\ verified # None => now - verified > Patience]_vars
  <2> SUFFICES ASSUME Inv, Next, verified' # verified
               PROVE  /\ seen # None /\ now - seen > Patience
                      /\ verified # None => now - verified > Patience
    BY DEF vars, seenVars
  <2>1. Verify
    BY DEF Next, Look, Fallback, Sample, Untrack, RoleChange, ConfigChange, Tick, seenVars
  <2> QED BY <2>1, PeriodAssumption, AddressAssumption DEF Verify, Inv, TypeOK, WatchInv, Times
<1> QED BY Invariance, <1>1, PTL DEF Spec, ChecksAreEarned
=============================================================================
