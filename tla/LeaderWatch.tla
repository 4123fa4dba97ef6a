---------------------------- MODULE LeaderWatch ----------------------------
(***************************************************************************)
(* Two goroutines that every node starts and that watch raft by polling:   *)
(* monitorLeadership looks for a leader every 500 ms and is meant to act   *)
(* when there was none for 3 s; collectStats samples the role of the node  *)
(* every 5 s and sums up how long it led (raftnode/node.go).  Between two  *)
(* looks, and between two reads of one look, raft may go anywhere.         *)
(*                                                                         *)
(* Time is a counter.  A goroutine that is due runs before time goes on:   *)
(* delays of the scheduler are taken to be shorter than one unit.          *)
(***************************************************************************)
EXTENDS Integers

CONSTANTS
  Self,        \* the raft address of this node
  Peers,       \* addresses of other servers
  None,        \* "", and the zero time
  Interval,    \* sleepInterval of monitorLeadership
  Patience,    \* the 3 seconds
  StatsPeriod, \* the ticker of collectStats
  MaxTime      \* bound: when the clock stops

ASSUME AddressAssumption == Self \notin Peers /\ None \notin Peers \cup {Self} \cup Int
ASSUME PeriodAssumption  ==
  Interval \in Nat \ {0} /\ Patience \in Nat /\ StatsPeriod \in Nat \ {0} /\ MaxTime \in Nat

VARIABLES
  now,
  role, lead, others,  \* external: raft.State(), raft.Leader(), other servers configured
  at, lookAt,          \* monitorLeadership: where it is, and when it is due
  observedLeader, leaderlessTime, previousLeader, leaderLostTime, leaderless,
  statsAt,             \* collectStats: the next tick
  tracked,             \* n.stats has an entry for this node
  leaderSince, totalLeaderTime, leadershipTime,
  led,                 \* history: how long this node was leader
  changed,             \* history: it became or ceased to be since the last tick
  dirty,               \* history: the number of ticks before which it did
  seen,                \* history: when a look last found an address
  verified,            \* history: when VerifyLeader was last called
  dark                 \* history: since when raft follows nobody

raftVars  == <<role, lead, others>>
watchVars == <<at, lookAt, observedLeader, leaderlessTime, previousLeader,
               leaderLostTime, leaderless>>
statsVars == <<statsAt, tracked, leaderSince, totalLeaderTime, leadershipTime>>
ledVars   == <<led, changed, dirty>>
seenVars  == <<seen, verified>>
vars      == <<now, raftVars, watchVars, statsVars, ledVars, seenVars, dark>>

Roles     == {"follower", "candidate", "leader", "shutdown"}
Addresses == Peers \cup {Self, None}
Times     == Nat \cup {None}

TypeOK ==
  /\ now \in Nat /\ lookAt \in Nat /\ statsAt \in Nat
  /\ role \in Roles /\ lead \in Addresses /\ others \subseteq Peers
  /\ at \in {"asleep", "fallback", "verify"}
  /\ observedLeader \in Addresses /\ previousLeader \in Addresses
  /\ leaderlessTime \in Times /\ leaderLostTime \in Times
  /\ leaderless \in BOOLEAN /\ tracked \in BOOLEAN /\ changed \in BOOLEAN
  /\ leaderSince \in Times
  /\ totalLeaderTime \in Nat /\ leadershipTime \in Nat
  /\ led \in Nat /\ dirty \in Nat
  /\ seen \in Times /\ verified \in Times /\ dark \in Times

\* NewRaftNode starts both goroutines last; the ticker ticks after a period.
Init ==
  /\ now = 0
  /\ role = "follower" /\ lead = None /\ others \in SUBSET Peers
  /\ at = "asleep" /\ lookAt = 0
  /\ observedLeader = None /\ previousLeader = None
  /\ leaderlessTime = None /\ leaderLostTime = None /\ leaderless = FALSE
  /\ statsAt = StatsPeriod /\ tracked = TRUE
  /\ leaderSince = None /\ totalLeaderTime = 0 /\ leadershipTime = 0
  /\ led = 0 /\ changed = FALSE /\ dirty = 0
  /\ seen = None /\ verified = None /\ dark = 0

IsLeader == role = "leader"

\* Mutant: time.Until.
Until(t) == t - now

\* time.Since
Since(t) == now - t

----------------------------------------------------------------------------
(* monitorLeadership.                                                      *)

LeaderChanged(addr) == addr # observedLeader

\* Mutant: the timer is not cleared when there is a leader again.
TimerKeptRunning(addr) ==
  IF LeaderChanged(addr) /\ leaderlessTime = None THEN now ELSE leaderlessTime

\* leaderlessTime after a look that found addr: cleared by a change to a leader,
\* set by a change to none, unless it is set already.
NextLeaderless(addr) ==
  IF LeaderChanged(addr) /\ addr # None THEN None
  ELSE IF LeaderChanged(addr) /\ leaderlessTime = None THEN now
  ELSE leaderlessTime

TooLong(addr) ==
  /\ addr = None /\ NextLeaderless(addr) # None
  /\ Since(NextLeaderless(addr)) > Patience

\* The loop from the return of GetLeader to raft.State() or to its sleep.
Observe(addr) ==
  /\ leaderlessTime' = NextLeaderless(addr)
  /\ IF LeaderChanged(addr)
     THEN /\ previousLeader' = observedLeader
          /\ observedLeader' = addr
          /\ leaderless' = IF addr # None THEN FALSE
                           ELSE leaderless \/ leaderlessTime = None
          /\ leaderLostTime' = IF addr = None /\ leaderlessTime = None
                               THEN now ELSE leaderLostTime
     ELSE UNCHANGED <<previousLeader, observedLeader, leaderless, leaderLostTime>>
  /\ at' = IF TooLong(addr) THEN "verify" ELSE "asleep"
  /\ lookAt' = now + Interval
  /\ seen' = IF addr # None THEN now ELSE seen

\* GetLeader: the leader raft knows ...
Look ==
  /\ at = "asleep" /\ now >= lookAt
  /\ IF lead # None
     THEN Observe(lead)
     ELSE /\ at' = "fallback"
          /\ UNCHANGED <<lookAt, observedLeader, leaderlessTime, previousLeader,
                         leaderLostTime, leaderless, seen>>
  /\ UNCHANGED <<now, raftVars, statsVars, ledVars, verified, dark>>

\* ... or some other server of the configuration.
Fallback ==
  /\ at = "fallback"
  /\ \E addr \in IF others # {} THEN others ELSE {None} : Observe(addr)
  /\ UNCHANGED <<now, raftVars, statsVars, ledVars, verified, dark>>

\* Leaderless for too long: raft.VerifyLeader, unless the node leads or is a
\* candidate.  The timer starts again in any case.
Verify ==
  /\ at = "verify"
  /\ verified' = IF role \in {"leader", "candidate"} THEN verified ELSE now
  /\ leaderlessTime' = now
  /\ at' = "asleep"
  /\ UNCHANGED <<now, raftVars, lookAt, observedLeader, previousLeader, leaderLostTime,
                 leaderless, statsVars, ledVars, seen, dark>>

----------------------------------------------------------------------------
(* collectStats.                                                           *)

\* Mutant: leaderSince is not reset when the node does not lead any more.
LeaderSinceKept == IF IsLeader /\ leaderSince = None THEN now ELSE leaderSince

NextLeaderSince ==
  IF ~IsLeader THEN None ELSE IF leaderSince = None THEN now ELSE leaderSince

\* A tick, under statsMutex.
Sample ==
  /\ now >= statsAt
  /\ statsAt' = statsAt + StatsPeriod
  /\ leaderSince' = IF tracked THEN NextLeaderSince ELSE leaderSince
  /\ leadershipTime' = IF tracked /\ IsLeader THEN Since(NextLeaderSince) ELSE leadershipTime
  /\ totalLeaderTime' = IF tracked /\ ~IsLeader /\ leaderSince # None
                        THEN totalLeaderTime + Since(leaderSince) ELSE totalLeaderTime
  /\ changed' = FALSE
  /\ UNCHANGED <<now, raftVars, watchVars, tracked, led, dirty, seenVars, dark>>

\* The end of RemoveServer for this node itself, after which raft has shut down.
Untrack ==
  /\ role = "shutdown" /\ tracked
  /\ tracked' = FALSE
  /\ UNCHANGED <<now, raftVars, watchVars, statsAt, leaderSince, totalLeaderTime,
                 leadershipTime, ledVars, seenVars, dark>>

----------------------------------------------------------------------------
(* Raft.  A leader names itself, a candidate and a node that has shut down *)
(* name nobody.                                                            *)

Names(r) == CASE r = "leader" -> {Self} [] r = "follower" -> Peers \cup {None}
              [] OTHER -> {None}

RoleChange ==
  /\ role # "shutdown"
  /\ role' \in Roles /\ lead' \in Names(role')
  /\ LET flips == (role' = "leader") # IsLeader
     IN  /\ changed' = (changed \/ flips)
         /\ dirty' = IF flips /\ ~changed THEN dirty + 1 ELSE dirty
  /\ dark' = IF role' # "follower" \/ lead' # None THEN None
             ELSE IF dark = None THEN now ELSE dark
  /\ UNCHANGED <<now, others, watchVars, statsVars, led, seenVars>>

ConfigChange ==
  /\ others' \in SUBSET Peers
  /\ UNCHANGED <<now, role, lead, watchVars, statsVars, ledVars, seenVars, dark>>

Tick ==
  /\ now < MaxTime /\ at = "asleep" /\ now < lookAt /\ now < statsAt
  /\ now' = now + 1
  /\ led' = IF IsLeader THEN led + 1 ELSE led
  /\ UNCHANGED <<raftVars, watchVars, statsVars, changed, dirty, seenVars, dark>>

Next == Look \/ Fallback \/ Verify \/ Sample \/ Untrack \/ RoleChange \/ ConfigChange \/ Tick

Spec == Init /\ [][Next]_vars

----------------------------------------------------------------------------
\* What the node has counted, the leadership it is in included.
Counted == totalLeaderTime + (IF leaderSince # None THEN Since(leaderSince) ELSE 0)

(***************************************************************************)
(* The time counted as leader is off by at most one period for every       *)
(* period in which leadership was won or lost, in either direction: what   *)
(* is missed between two samples is never counted later, nothing is        *)
(* counted twice, and the error does not grow while the role stays.        *)
(***************************************************************************)
LeaderTimeIsAccurate ==
  tracked => /\ Counted - led <= StatsPeriod * dirty
             /\ led - Counted <= StatsPeriod * dirty

(***************************************************************************)
(* VerifyLeader, which makes raft talk to all servers, is called only when *)
(* every look for longer than Patience found neither a leader nor another  *)
(* server, and no more often than that - whatever leaders came and went    *)
(* before, and although the timer is kept across several rounds.           *)
(***************************************************************************)
ChecksAreEarned ==
  [][verified' # verified =>
       /\ seen # None /\ now - seen > Patience
       /\ verified # None => now - verified > Patience]_vars

(***************************************************************************)
(* "If we've been leaderless for too long, try to trigger an election"     *)
(* (node.go:619): a node that follows nobody for Patience and the two      *)
(* looks it takes to notice has called VerifyLeader meanwhile.  The code   *)
(* does not: GetLeader answers with any other server of the configuration, *)
(* and a node that starts without a leader sees no change to "".           *)
(***************************************************************************)
LeaderlessNodeActs ==
  dark # None /\ now - dark > Patience + 2 * Interval =>
    verified # None /\ verified >= dark
=============================================================================
