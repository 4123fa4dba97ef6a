---------------------------- MODULE RaftContract ----------------------------
(***************************************************************************)
(* hashicorp/raft as the code in src/ relies on it (raftnode/node.go uses  *)
(* State, Apply, the future's Error and the FSM callbacks).  The library   *)
(* is outside the repository, so this module states its contract and not   *)
(* its algorithm: there are no votes and no per-node logs, only            *)
(*   - the calls appended in each term that are not committed yet, of      *)
(*     which a newer leader may commit a prefix or drop the rest,          *)
(*   - the committed log, which only grows, and                            *)
(*   - the commit index each node has learned.                             *)
(* Several nodes may believe they lead: a partitioned leader goes on until *)
(* it steps down.  Membership is fixed (joining is another component).     *)
(***************************************************************************)
EXTENDS Integers, Sequences, FiniteSets

CONSTANTS Nodes, Requests,
          MaxTerm,      \* bound: elections
          MaxCrashes    \* bound: crashes

ASSUME MaxTermAssumption == MaxTerm \in Nat \ {0}
ASSUME MaxCrashesAssumption == MaxCrashes \in Nat

VARIABLES
  up,         \* the nodes whose process runs
  crashes,    \* number of crashes so far
  leads,      \* leads[n]: the term n believes it leads, 0 if none
  maxTerm,    \* the newest term that has a leader
  lastTerm,   \* the term of the newest entry known to be committed
  pend,       \* pend[t]: calls appended in term t and not committed
  log,        \* the committed calls
  known       \* known[n]: the commit index of n

raftVars == <<up, crashes, leads, maxTerm, lastTerm, pend, log, known>>

Terms == 1 .. MaxTerm

RaftTypeOK ==
  /\ up \in SUBSET Nodes
  /\ crashes \in 0 .. MaxCrashes
  /\ leads \in [Nodes -> 0 .. MaxTerm]
  /\ maxTerm \in 0 .. MaxTerm
  /\ lastTerm \in 0 .. maxTerm
  /\ pend \in [Terms -> Seq(Requests)]
  /\ log \in Seq(Requests)
  /\ known \in [Nodes -> 0 .. Len(log)]

RaftInit ==
  /\ up = Nodes
  /\ crashes = 0
  /\ leads = [n \in Nodes |-> 0]
  /\ maxTerm = 0
  /\ lastTerm = 0
  /\ pend = [t \in Terms |-> <<>>]
  /\ log = <<>>
  /\ known = [n \in Nodes |-> 0]

\* raft.State() == raft.Leader
IsLeader(n) == leads[n] # 0

Majority(S) == 2 * Cardinality(S) > Cardinality(Nodes)

\* The newest leader reaches the running nodes that do not lead an old term.
HasQuorum == Majority({n \in up : leads[n] \in {0, maxTerm}})

\* The one leader whose entries can still be committed.
Current(n) == IsLeader(n) /\ leads[n] = maxTerm

\* The calls n knows to be committed.
KnownCalls(n) == {log[i] : i \in 1 .. known[n]}

----------------------------------------------------------------------------
Elected(n) ==
  /\ n \in up /\ ~IsLeader(n)
  /\ Majority({m \in up : ~IsLeader(m)})
  /\ maxTerm < MaxTerm
  /\ maxTerm' = maxTerm + 1
  /\ leads' = [leads EXCEPT ![n] = maxTerm + 1]
  /\ UNCHANGED <<up, crashes, lastTerm, pend, log, known>>

\* A node that leads appends a call to its log.
Appended(n, r) ==
  /\ IsLeader(n)
  /\ pend' = [pend EXCEPT ![leads[n]] = Append(@, r)]
  /\ UNCHANGED <<up, crashes, leads, maxTerm, lastTerm, log, known>>

(***************************************************************************)
(* The log of a new leader holds some of the entries that older leaders    *)
(* left behind, in the order of their terms.  Nobody learns that they are  *)
(* committed before the leader's own first entry is (Established); what is *)
(* left then is lost.                                                      *)
(***************************************************************************)
Inherited(n, t) ==
  /\ Current(n) /\ HasQuorum
  /\ lastTerm < maxTerm /\ t \in lastTerm .. (maxTerm - 1)
  /\ t \in Terms /\ pend[t] # <<>>
  /\ log' = Append(log, Head(pend[t]))
  /\ pend' = [pend EXCEPT ![t] = Tail(@)]
  /\ lastTerm' = t
  /\ UNCHANGED <<up, crashes, leads, maxTerm, known>>

Established(n) ==
  /\ Current(n) /\ HasQuorum
  /\ lastTerm < maxTerm
  /\ lastTerm' = maxTerm
  /\ pend' = [t \in Terms |-> IF t < maxTerm THEN <<>> ELSE pend[t]]
  /\ known' = [known EXCEPT ![n] = Len(log)]
  /\ UNCHANGED <<up, crashes, leads, maxTerm, log>>

Committed(n) ==
  /\ Current(n) /\ HasQuorum
  /\ lastTerm = maxTerm
  /\ pend[maxTerm] # <<>>
  /\ log' = Append(log, Head(pend[maxTerm]))
  /\ pend' = [pend EXCEPT ![maxTerm] = Tail(@)]
  /\ known' = [known EXCEPT ![n] = Len(log) + 1]
  /\ UNCHANGED <<up, crashes, leads, maxTerm, lastTerm>>

\* A follower hears of a newer commit index from the leader.
Learned(n) ==
  /\ n \in up /\ ~IsLeader(n)
  /\ \E m \in Nodes :
       /\ Current(m)
       /\ \E i \in (known[n] + 1) .. known[m] : known' = [known EXCEPT ![n] = i]
  /\ UNCHANGED <<up, crashes, leads, maxTerm, lastTerm, pend, log>>

(***************************************************************************)
(* A leader steps down when it sees a newer term or cannot reach a quorum  *)
(* for LeaderLeaseTimeout.  While terms are left it may also happen for no *)
(* reason the model shows (a slow network).                                *)
(***************************************************************************)
MustStepDown(n) == IsLeader(n) /\ (leads[n] < maxTerm \/ ~HasQuorum)

SteppedDown(n) ==
  /\ IsLeader(n) /\ (MustStepDown(n) \/ maxTerm < MaxTerm)
  /\ leads' = [leads EXCEPT ![n] = 0]
  /\ UNCHANGED <<up, crashes, maxTerm, lastTerm, pend, log, known>>

\* Term, vote and log are on disk (BoltDB), the commit index is not.
Crashed(n) ==
  /\ n \in up /\ crashes < MaxCrashes
  /\ crashes' = crashes + 1
  /\ up' = up \ {n}
  /\ leads' = [leads EXCEPT ![n] = 0]
  /\ known' = [known EXCEPT ![n] = 0]
  /\ UNCHANGED <<maxTerm, lastTerm, pend, log>>

\* A node starts, or takes a snapshot from the leader, with everything up to
\* index i applied.
Loaded(n, i) ==
  /\ known' = [known EXCEPT ![n] = i]
  /\ UNCHANGED <<crashes, leads, maxTerm, lastTerm, pend, log>>
=============================================================================
