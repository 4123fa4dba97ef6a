----------------------- MODULE ReplicatedServiceProofs -----------------------
(***************************************************************************)
(* ReplicatedStore implements PrinterService, for any number of nodes,     *)
(* calls, terms and crashes: towards the clients that write, a cluster of  *)
(* competing leaders that crash and restart is one PrinterFSM.             *)
(* What has to be shown of a committed call is that no call sent after it  *)
(* had returned was answered before: raft appends in the order in which    *)
(* calls arrive, and a leader answers only what it knows to be committed.  *)
(***************************************************************************)
EXTENDS ReplicatedAnswersProofs

USE DEF Terms

----------------------------------------------------------------------------
(* The invariant.                                                          *)

\* The calls that leaders of term t have appended.
PendCalls(t) == {pend[t][i] : i \in 1 .. Len(pend[t])}

\* Calls that have succeeded, or that nothing but a crash can keep from it:
\* their node knows that they are committed.
Certain(s) == \/ call[s] = "ok"
              \/ call[s] = "waiting" /\ s \in KnownCalls(node[s])

BeforeInv == \A s \in Requests : \A r \in before[s] : call[r] \in Answers

LeadsInv ==
  /\ \A n \in Nodes : leads[n] <= maxTerm
  /\ \A m, n \in Nodes : IsLeader(m) /\ leads[m] = leads[n] => m = n
  /\ \A t \in Terms : t > maxTerm => PendCalls(t) = {}

\* Appended calls are in the order in which clients could have sent them.
QueueInv ==
  \A t \in Terms : \A i, j \in 1 .. Len(pend[t]) :
    i < j => pend[t][j] \notin before[pend[t][i]]

ProcessInv == \A s \in Requests : call[s] \in {"checked", "waiting"} => node[s] \in up

\* The future of a waiting call is committed, or its node leads: an old term,
\* or the newest with the call among what it has appended.
WaitingInv ==
  \A s \in Requests : call[s] = "waiting" =>
    \/ s \in KnownCalls(node[s])
    \/ IsLeader(node[s]) /\ (leads[node[s]] = maxTerm => s \in PendCalls(maxTerm))

\* A call that had returned before a certain one was sent is lost to raft.
OvertakenInv ==
  \A s \in Requests : Certain(s) =>
    \A r \in before[s] : \A t \in Terms : t >= lastTerm => r \notin PendCalls(t)

FenceInv == /\ BeforeInv /\ LeadsInv /\ QueueInv
            /\ ProcessInv /\ WaitingInv /\ OvertakenInv

AllInv == StoreInv /\ OnceInv /\ FenceInv

LEMMA InitFence == Init => FenceInv
<1> SUFFICES ASSUME Init PROVE FenceInv
  OBVIOUS
<1> USE DEF Init, RaftInit
<1>1. \A t \in Terms : PendCalls(t) = {}
  BY DEF PendCalls
<1>2. BeforeInv /\ QueueInv /\ ProcessInv /\ WaitingInv
  BY DEF BeforeInv, QueueInv, ProcessInv, WaitingInv
<1>3. LeadsInv
  BY <1>1 DEF LeadsInv, IsLeader
<1>4. OvertakenInv
  BY DEF OvertakenInv, Certain
<1> QED BY <1>2, <1>3, <1>4 DEF FenceInv

----------------------------------------------------------------------------
(* What the parts of the invariant say of sets of calls.                   *)

LEMMA StoreTypes ==
  ASSUME StoreInv
  PROVE  /\ pend \in [Terms -> Seq(Requests)] /\ log \in Seq(Requests)
         /\ \A t \in Terms : /\ pend[t] \in Seq(Requests) /\ Len(pend[t]) \in Nat
                             /\ PendCalls(t) \subseteq Requests
         /\ Len(log) \in Nat /\ known \in [Nodes -> 0 .. Len(log)]
         /\ Executed \subseteq Requests
         /\ leads \in [Nodes -> 0 .. MaxTerm] /\ MaxTerm \in Nat /\ MaxTerm >= 1
         /\ maxTerm \in 0 .. MaxTerm /\ lastTerm \in 0 .. maxTerm
         /\ call \in [Requests -> Calls] /\ up \subseteq Nodes
         /\ before \in [Requests -> SUBSET Requests]
         /\ node \in [Requests -> Nodes \cup {None}]
         /\ \A r \in Requests : call[r] # "idle" => node[r] \in Nodes
<1>1. /\ pend \in [Terms -> Seq(Requests)] /\ log \in Seq(Requests)
      /\ known \in [Nodes -> 0 .. Len(log)]
      /\ leads \in [Nodes -> 0 .. MaxTerm] /\ up \subseteq Nodes
      /\ maxTerm \in 0 .. MaxTerm /\ lastTerm \in 0 .. maxTerm
      /\ call \in [Requests -> Calls]
      /\ before \in [Requests -> SUBSET Requests]
      /\ node \in [Requests -> Nodes \cup {None}]
      /\ \A r \in Requests : call[r] # "idle" => node[r] \in Nodes
  BY DEF StoreInv, TypeOK, RaftTypeOK
<1>2. \A t \in Terms : pend[t] \in Seq(Requests) /\ Len(pend[t]) \in Nat
  <2> TAKE t \in Terms
  <2>1. pend[t] \in Seq(Requests)
    BY <1>1
  <2> QED BY <2>1
<1>3. \A t \in Terms : PendCalls(t) \subseteq Requests
  BY <1>2 DEF PendCalls
<1>4. Len(log) \in Nat /\ Executed \subseteq Requests
  BY <1>1 DEF Executed
<1> QED BY <1>1, <1>2, <1>3, <1>4, MaxTermAssumption

\* The stages of the calls in raft's hands, and where else they are.
LEMMA OnceInSets ==
  ASSUME StoreInv, OnceInv
  PROVE  /\ \A t \in Terms : \A r \in PendCalls(t) :
              r \notin Executed /\ call[r] \in {"waiting", "error", "lost"}
         /\ \A r \in Executed : call[r] \in {"waiting", "ok", "error", "lost"}
         /\ \A n \in Nodes : KnownCalls(n) \subseteq Executed
<1>1. \A t \in Terms : \A r \in PendCalls(t) : r \notin Executed /\ ~Outside(r)
  BY DEF PendCalls, Executed, OnceInv, LogOrPend, PendKnowsCall
<1>2. \A r \in Requests : call[r] = "ok" => r \in Executed
  BY DEF Executed, OnceInv, OkIsCommitted
<1>3. \A r \in Executed : ~Outside(r)
  BY DEF Executed, OnceInv, LogKnowsCall
<1>4. \A n \in Nodes : KnownCalls(n) \subseteq Executed
  BY StoreTypes DEF KnownCalls, Executed
<1> QED BY <1>1, <1>2, <1>3, <1>4, StoreTypes DEF Outside, Calls, Answers

\* The log grows at its end only, and a node forgets nothing while it runs.
LEMMA KnownGrows ==
  ASSUME StoreInv, NEW n \in Nodes, known'[n] \in Nat, known'[n] >= known[n],
         \A i \in 1 .. Len(log) : log'[i] = log[i]
  PROVE  KnownCalls(n) \subseteq KnownCalls(n)'
<1>1. known[n] \in 0 .. Len(log) /\ Len(log) \in Nat
  BY StoreTypes
<1>2. \A i \in 1 .. known[n] : log'[i] = log[i] /\ i \in 1 .. known'[n]
  BY <1>1
<1> QED BY <1>2 DEF KnownCalls

LEMMA KnownSame ==
  ASSUME StoreInv, NEW n \in Nodes, known'[n] = known[n],
         \A i \in 1 .. Len(log) : log'[i] = log[i]
  PROVE  KnownCalls(n)' = KnownCalls(n)
<1>1. known[n] \in 0 .. Len(log) /\ Len(log) \in Nat
  BY StoreTypes
<1>2. \A i \in 1 .. known[n] : log'[i] = log[i]
  BY <1>1
<1> QED BY <1>2 DEF KnownCalls

----------------------------------------------------------------------------
(* Steps that leave the log and the sequences of the leaders alone.        *)

(***************************************************************************)
(* Calls may end or be sent, nodes may step down or learn, as long as no   *)
(* call becomes certain that was not, and a waiting call keeps its reason. *)
(***************************************************************************)
LEMMA QuietFence ==
  ASSUME AllInv, UNCHANGED <<pend, maxTerm, lastTerm>>,
         \A r \in Requests : call[r] \in Answers => call'[r] \in Answers,
         \A s \in Requests : before'[s] = before[s]
                             \/ /\ call[s] = "idle" /\ call'[s] \in {"checked", "refused"}
                                /\ before'[s] = {r \in Requests : call[r] \in Answers},
         \A s \in Requests : Certain(s)' => Certain(s),
         \A n \in Nodes : leads'[n] = leads[n] \/ leads'[n] = 0,
         ProcessInv', WaitingInv'
  PROVE  FenceInv'
<1> USE DEF AllInv, FenceInv
<1>1. BeforeInv'
  BY StoreTypes DEF BeforeInv
<1>2. \A t \in Terms : PendCalls(t)' = PendCalls(t)
  BY DEF PendCalls
<1>3. LeadsInv'
  <2>1. \A n \in Nodes : leads'[n] <= maxTerm
    <3>1. maxTerm \in Nat
      BY StoreTypes
    <3> QED BY <3>1 DEF LeadsInv
  <2>2. \A m, n \in Nodes : IsLeader(m)' /\ leads'[m] = leads'[n] => m = n
    BY DEF LeadsInv, IsLeader
  <2> QED BY <1>2, <2>1, <2>2 DEF LeadsInv
<1>4. QueueInv'
  <2>1. \A t \in Terms : \A i \in 1 .. Len(pend[t]) : before'[pend[t][i]] = before[pend[t][i]]
    <3>1. \A t \in Terms : \A i \in 1 .. Len(pend[t]) : pend[t][i] \in PendCalls(t)
      BY DEF PendCalls
    <3> QED BY <3>1, OnceInSets, StoreTypes
  <2> QED BY <2>1 DEF QueueInv
<1>5. OvertakenInv'
  <2>1. \A s \in Requests : Certain(s)' => before'[s] = before[s]
    BY DEF Certain
  <2> QED BY <1>2, <2>1 DEF OvertakenInv
<1> QED BY <1>1, <1>3, <1>4, <1>5

LEMMA HandlersKeepFence ==
  ASSUME AllInv, NEW r \in Requests,
         \/ \E n \in Nodes, c \in ClientCommands : Receive(r, n, c)
         \/ EnqueueTimeout(r) \/ WriteTimeout(r)
  PROVE  FenceInv'
<1> USE DEF AllInv, FenceInv
<1>1. UNCHANGED raftVars
  BY DEF Receive, EnqueueTimeout, WriteTimeout
<1>2. /\ \A s \in Requests : s # r => call'[s] = call[s] /\ node'[s] = node[s]
      /\ call[r] \notin Answers /\ call'[r] # "waiting" /\ call'[r] # "ok"
      /\ call[r] # "idle" => call'[r] \in Answers
      /\ call'[r] = "checked" => node'[r] \in up
  BY StoreTypes DEF Receive, EnqueueTimeout, WriteTimeout, Answers
<1>3. \A s \in Requests : before'[s] = before[s]
                          \/ /\ call[s] = "idle" /\ call'[s] \in {"checked", "refused"}
                             /\ before'[s] = {x \in Requests : call[x] \in Answers}
  BY StoreTypes DEF Receive, EnqueueTimeout, WriteTimeout
<1>4. \A n : KnownCalls(n)' = KnownCalls(n) /\ IsLeader(n)' = IsLeader(n)
  BY <1>1 DEF KnownCalls, IsLeader, raftVars
<1>5. \A s \in Requests : Certain(s)' => Certain(s)
  BY <1>2, <1>4 DEF Certain
<1>6. ProcessInv'
  BY <1>1, <1>2 DEF ProcessInv, raftVars
<1>7. WaitingInv'
  BY <1>1, <1>2, <1>4 DEF WaitingInv, PendCalls, raftVars
<1> QED BY <1>1, <1>2, <1>3, <1>5, <1>6, <1>7, QuietFence DEF raftVars

LEMMA StepDownKeepsFence ==
  ASSUME AllInv, NEW n \in Nodes, StepDown(n)
  PROVE  FenceInv'
<1> USE DEF AllInv, FenceInv
<1> DEFINE failed == CallsAt(n, {"waiting"}) \ KnownCalls(n)
<1>1. /\ \A s \in Requests : call'[s] = IF s \in failed THEN "error" ELSE call[s]
      /\ leads' = [leads EXCEPT ![n] = 0]
      /\ UNCHANGED <<up, maxTerm, lastTerm, pend, log, known, node, before>>
  BY DEF StepDown, SteppedDown
<1>2. \A m : KnownCalls(m)' = KnownCalls(m)
  BY <1>1 DEF KnownCalls
<1>3. \A s \in Requests : Certain(s)' => Certain(s)
  BY <1>1, <1>2 DEF Certain
<1>4. ProcessInv'
  BY <1>1 DEF ProcessInv
<1>5. WaitingInv'
  <2>1. SUFFICES ASSUME NEW s \in Requests, call'[s] = "waiting", s \notin KnownCalls(node[s])
                 PROVE  /\ IsLeader(node[s])'
                        /\ leads'[node[s]] = maxTerm => s \in PendCalls(maxTerm)
    BY <1>1, <1>2 DEF WaitingInv, PendCalls
  <2>2. call[s] = "waiting" /\ node[s] # n /\ node[s] \in Nodes
    BY <1>1, <2>1, StoreTypes DEF CallsAt
  <2>3. leads'[node[s]] = leads[node[s]]
    BY <1>1, <2>2, StoreTypes
  <2> QED BY <1>1, <2>1, <2>2, <2>3 DEF WaitingInv, IsLeader
<1>6. \A m \in Nodes : leads'[m] = leads[m] \/ leads'[m] = 0
  BY <1>1, StoreTypes
<1>7. \A s \in Requests : call[s] \in Answers => call'[s] \in Answers
  BY <1>1 DEF Answers
<1> HIDE DEF failed
<1> QED BY <1>1, <1>3, <1>4, <1>5, <1>6, <1>7, QuietFence

LEMMA CrashKeepsFence ==
  ASSUME AllInv, NEW n \in Nodes, Crash(n)
  PROVE  FenceInv'
<1> USE DEF AllInv, FenceInv
<1> DEFINE broken == CallsAt(n, {"checked", "waiting"})
<1>1. /\ \A s \in Requests : call'[s] = IF s \in broken THEN "lost" ELSE call[s]
      /\ leads' = [leads EXCEPT ![n] = 0] /\ known' = [known EXCEPT ![n] = 0]
      /\ up' = up \ {n}
      /\ UNCHANGED <<maxTerm, lastTerm, pend, log, node, before>>
  BY DEF Crash, Crashed
<1>2. \A s \in Requests : call'[s] \in {"checked", "waiting"} =>
        call[s] = call'[s] /\ node[s] \in Nodes /\ node[s] # n
  BY <1>1, StoreTypes DEF CallsAt
<1>3. \A m \in Nodes : m # n => KnownCalls(m)' = KnownCalls(m) /\ leads'[m] = leads[m]
  BY <1>1, StoreTypes DEF KnownCalls
<1>4. \A s \in Requests : Certain(s)' => Certain(s)
  <2>1. \A s \in Requests : call'[s] = "ok" => call[s] = "ok"
    BY <1>1
  <2> QED BY <1>1, <1>2, <1>3, <2>1 DEF Certain
<1>5. ProcessInv'
  BY <1>1, <1>2 DEF ProcessInv
<1>6. WaitingInv'
  BY <1>1, <1>2, <1>3 DEF WaitingInv, PendCalls, IsLeader
<1>7. \A m \in Nodes : leads'[m] = leads[m] \/ leads'[m] = 0
  BY <1>1, StoreTypes
<1>8. \A s \in Requests : call[s] \in Answers => call'[s] \in Answers
  BY <1>1 DEF Answers
<1> HIDE DEF broken
<1> QED BY <1>1, <1>4, <1>5, <1>6, <1>7, <1>8, QuietFence

(***************************************************************************)
(* A node that does not lead learns of more committed calls: from a        *)
(* leader, from a snapshot, or because it starts.  No call there waits     *)
(* without being certain already.                                          *)
(***************************************************************************)
LEMMA LearningKeepsFence ==
  ASSUME AllInv, NEW n \in Nodes, ~IsLeader(n) \/ n \notin up, up \subseteq up',
         UNCHANGED <<leads, maxTerm, lastTerm, pend, log, call, node, before>>,
         \A m \in Nodes : m # n => known'[m] = known[m],
         n \in up => known'[n] \in Nat /\ known'[n] >= known[n]
  PROVE  FenceInv'
<1> USE DEF AllInv, FenceInv
<1>1. \A m \in Nodes : m # n => KnownCalls(m)' = KnownCalls(m)
  BY DEF KnownCalls
<1>2. \A s \in Requests : call[s] = "waiting" /\ node[s] = n =>
        s \in KnownCalls(n) /\ s \in KnownCalls(n)'
  BY KnownGrows DEF ProcessInv, WaitingInv
<1>3. \A s \in Requests : call[s] = "waiting" => node[s] \in Nodes
  BY StoreTypes
<1>4. \A s \in Requests : Certain(s)' => Certain(s)
  BY <1>1, <1>2, <1>3 DEF Certain
<1>5. ProcessInv'
  BY DEF ProcessInv
<1>6. WaitingInv'
  BY <1>1, <1>2, <1>3 DEF WaitingInv, PendCalls, IsLeader
<1> QED BY <1>4, <1>5, <1>6, QuietFence

LEMMA FollowersKeepFence ==
  ASSUME AllInv, NEW n \in Nodes, Learn(n) \/ InstallSnapshot(n) \/ Restart(n)
  PROVE  FenceInv'
<1> USE DEF AllInv
<1>1. CASE Learn(n)
  <2>1. /\ known'[n] \in Nat /\ known'[n] >= known[n]
        /\ \A m \in Nodes : m # n => known'[m] = known[m]
    BY <1>1, StoreTypes DEF Learn, Learned
  <2> QED BY <1>1, <2>1, LearningKeepsFence DEF Learn, Learned, callVars
<1>2. CASE InstallSnapshot(n)
  <2>1. PICK m \in Nodes : disk[m].index > known[n] /\ Loaded(n, disk[m].index)
    BY <1>2 DEF InstallSnapshot
  <2>2. disk[m].index \in Nat /\ known[n] \in Nat
    BY StoreTypes DEF StoreInv, TypeOK, Snapshots
  <2>3. /\ known'[n] \in Nat /\ known'[n] >= known[n]
        /\ \A l \in Nodes : l # n => known'[l] = known[l]
    BY <2>1, <2>2, StoreTypes DEF Loaded
  <2> QED BY <1>2, <2>1, <2>3, LearningKeepsFence DEF InstallSnapshot, Loaded, callVars
<1>3. CASE Restart(n)
  <2>1. \A m \in Nodes : m # n => known'[m] = known[m]
    BY <1>3, StoreTypes DEF Restart, Loaded
  <2> QED BY <1>3, <2>1, LearningKeepsFence DEF Restart, Loaded, callVars
<1> QED BY <1>1, <1>2, <1>3

LEMMA ApplyNextKeepsFence ==
  ASSUME AllInv, NEW n \in Nodes, ApplyNext(n)
  PROVE  FenceInv'
<1> USE DEF AllInv, FenceInv
<1> DEFINE r == log[applied[n] + 1]
<1>1. r \in KnownCalls(n)
  <2>1. applied[n] \in Nat /\ known[n] \in Nat /\ applied[n] < known[n]
    BY StoreTypes DEF ApplyNext, StoreInv, TypeOK
  <2>2. applied[n] + 1 \in 1 .. known[n]
    BY <2>1
  <2> QED BY <2>2 DEF KnownCalls
<1>2. /\ call' = [call EXCEPT ![r] = IF node[r] = n /\ call[r] = "waiting" THEN "ok" ELSE call[r]]
      /\ UNCHANGED <<raftVars, cmd, node, before>>
  BY DEF ApplyNext
<1> HIDE DEF r
<1>3. \A s \in Requests : \/ call'[s] = call[s]
                          \/ call'[s] = "ok" /\ call[s] = "waiting" /\ s \in KnownCalls(node[s])
  BY <1>1, <1>2, StoreTypes
<1>4. \A m : KnownCalls(m)' = KnownCalls(m) /\ IsLeader(m)' = IsLeader(m)
  BY <1>2 DEF KnownCalls, IsLeader, raftVars
<1>5. \A s \in Requests : Certain(s)' => Certain(s)
  BY <1>2, <1>3, <1>4 DEF Certain
<1>6. ProcessInv'
  BY <1>2, <1>3 DEF ProcessInv, raftVars
<1>7. WaitingInv'
  BY <1>2, <1>3, <1>4 DEF WaitingInv, PendCalls, raftVars
<1>8. \A s \in Requests : call[s] \in Answers => call'[s] \in Answers
  BY <1>3 DEF Answers
<1> QED BY <1>2, <1>5, <1>6, <1>7, <1>8, QuietFence DEF raftVars

LEMMA IdleStepsKeepFence ==
  ASSUME AllInv, UNCHANGED <<raftVars, callVars>>
  PROVE  FenceInv'
<1>1. UNCHANGED <<up, leads, maxTerm, lastTerm, pend, log, known, call, node, before>>
  BY DEF raftVars, callVars
<1>2. \A t \in Terms : PendCalls(t)' = PendCalls(t)
  BY <1>1 DEF PendCalls
<1>3. BeforeInv' /\ QueueInv' /\ ProcessInv'
  BY <1>1 DEF AllInv, FenceInv, BeforeInv, QueueInv, ProcessInv
<1>4. LeadsInv'
  BY <1>1, <1>2 DEF AllInv, FenceInv, LeadsInv, IsLeader
<1>5. WaitingInv'
  BY <1>1 DEF AllInv, FenceInv, WaitingInv, KnownCalls, IsLeader, PendCalls
<1>6. OvertakenInv'
  BY <1>1, <1>2 DEF AllInv, FenceInv, OvertakenInv, Certain, KnownCalls
<1> QED BY <1>3, <1>4, <1>5, <1>6 DEF FenceInv

----------------------------------------------------------------------------
(* Steps of leaders.                                                       *)

LEMMA ElectKeepsFence ==
  ASSUME AllInv, NEW n \in Nodes, Elect(n)
  PROVE  FenceInv'
<1> USE DEF AllInv, FenceInv
<1>1. /\ maxTerm' = maxTerm + 1 /\ leads' = [leads EXCEPT ![n] = maxTerm + 1]
      /\ ~IsLeader(n) /\ maxTerm \in Nat
      /\ UNCHANGED <<up, lastTerm, pend, log, known, call, node, before>>
  BY StoreTypes DEF Elect, Elected, callVars
<1>2. /\ \A t \in Terms : PendCalls(t)' = PendCalls(t)
      /\ \A m : KnownCalls(m)' = KnownCalls(m)
  BY <1>1 DEF PendCalls, KnownCalls
<1>3. /\ leads'[n] = maxTerm + 1
      /\ \A m \in Nodes : m # n => leads'[m] = leads[m]
      /\ \A m \in Nodes : leads[m] \in Nat /\ leads[m] <= maxTerm
  BY <1>1, StoreTypes DEF LeadsInv
<1>4. BeforeInv' /\ QueueInv' /\ ProcessInv'
  BY <1>1 DEF BeforeInv, QueueInv, ProcessInv
<1>5. LeadsInv'
  <2>1. \A m \in Nodes : leads'[m] <= maxTerm'
    BY <1>1, <1>3
  <2>2. \A l, m \in Nodes : IsLeader(l)' /\ leads'[l] = leads'[m] => l = m
    <3>1. \A m \in Nodes : m # n => leads'[m] # leads'[n]
      BY <1>1, <1>3
    <3> QED BY <1>3, <3>1 DEF LeadsInv, IsLeader
  <2>3. \A t \in Terms : t > maxTerm' => t > maxTerm
    BY <1>1
  <2> QED BY <1>2, <2>1, <2>2, <2>3 DEF LeadsInv
<1>6. WaitingInv'
  <2>1. SUFFICES ASSUME NEW s \in Requests, call[s] = "waiting", s \notin KnownCalls(node[s])
                 PROVE  IsLeader(node[s])' /\ leads'[node[s]] # maxTerm'
    BY <1>1, <1>2 DEF WaitingInv
  <2>2. node[s] \in Nodes /\ node[s] # n /\ IsLeader(node[s])
    BY <1>1, <2>1, StoreTypes DEF WaitingInv
  <2>3. leads'[node[s]] = leads[node[s]] /\ leads[node[s]] # maxTerm'
    BY <1>1, <1>3, <2>2
  <2> QED BY <1>1, <2>2, <2>3 DEF IsLeader
<1>7. OvertakenInv'
  BY <1>1, <1>2 DEF OvertakenInv, Certain
<1> QED BY <1>4, <1>5, <1>6, <1>7

LEMMA ProposeKeepsFence ==
  ASSUME AllInv, NEW r \in Requests, Propose(r)
  PROVE  FenceInv'
<1> USE DEF AllInv, FenceInv
<1>1. /\ call[r] = "checked" /\ call' = [call EXCEPT ![r] = call'[r]]
      /\ \A s \in Requests : s # r => call'[s] = call[s]
      /\ UNCHANGED <<up, leads, maxTerm, lastTerm, log, known, node, before>>
  BY StoreTypes DEF Propose, Appended, raftVars
<1>2. \A m : KnownCalls(m)' = KnownCalls(m) /\ IsLeader(m)' = IsLeader(m)
  BY <1>1 DEF KnownCalls, IsLeader
<1>3. r \notin Executed /\ \A t \in Terms : r \notin PendCalls(t)
  BY <1>1, OnceInSets
<1>4. node[r] \in Nodes /\ node[r] \in up /\ r \notin KnownCalls(node[r])
  BY <1>1, <1>3, OnceInSets, StoreTypes DEF ProcessInv
<1>5. CASE call'[r] = "error"
  <2>1. UNCHANGED pend
    BY <1>5, StoreTypes DEF Propose, raftVars
  <2>2. \A s \in Requests : Certain(s)' => Certain(s)
    BY <1>1, <1>2, <1>5 DEF Certain
  <2>3. ProcessInv' /\ WaitingInv'
    BY <1>1, <1>2, <1>5, <2>1 DEF ProcessInv, WaitingInv, PendCalls
  <2> QED BY <1>1, <1>5, <2>1, <2>2, <2>3, QuietFence DEF Answers
<1>6. CASE call'[r] # "error"
  <2>0. PICK t0 \in Nat : t0 = leads[node[r]]
    BY <1>4, StoreTypes
  <2>1. /\ call'[r] = "waiting" /\ IsLeader(node[r])
        /\ pend' = [pend EXCEPT ![t0] = Append(pend[t0], r)]
    BY <1>1, <1>6, <2>0, StoreTypes DEF Propose, Appended
  <2>2. t0 \in Terms /\ t0 <= maxTerm
    BY <1>4, <2>0, <2>1, StoreTypes DEF IsLeader, LeadsInv
  <2>3. /\ \A t \in Terms : t # t0 => pend'[t] = pend[t]
        /\ pend'[t0] = Append(pend[t0], r) /\ pend[t0] \in Seq(Requests)
    BY <2>1, <2>2, StoreTypes
  <2>4. /\ Len(pend[t0]) \in Nat /\ Len(pend'[t0]) = Len(pend[t0]) + 1
        /\ pend'[t0][Len(pend[t0]) + 1] = r
        /\ \A i \in 1 .. Len(pend[t0]) : pend'[t0][i] = pend[t0][i]
    BY <2>3
  <2>5. \A t \in Terms : t # t0 => PendCalls(t)' = PendCalls(t)
    BY <2>3 DEF PendCalls
  <2>6. PendCalls(t0)' = PendCalls(t0) \cup {r}
    BY <2>4 DEF PendCalls
  <2>7. \A s \in Requests : r \notin before[s]
    BY <1>1 DEF BeforeInv, Answers
  <2>8. BeforeInv'
    BY <1>1, <2>1, <2>7, StoreTypes DEF BeforeInv
  <2>9. LeadsInv'
    BY <1>1, <2>2, <2>5, StoreTypes DEF LeadsInv, IsLeader
  <2>10. QueueInv'
    <3>1. SUFFICES ASSUME NEW t \in Terms, NEW i \in 1 .. Len(pend'[t]),
                          NEW j \in 1 .. Len(pend'[t]), i < j
                   PROVE  pend'[t][j] \notin before[pend'[t][i]]
      BY <1>1 DEF QueueInv
    <3>2. CASE t # t0
      BY <2>3, <3>1, <3>2 DEF QueueInv
    <3>3. CASE t = t0 /\ j = Len(pend[t0]) + 1
      <4>1. i \in 1 .. Len(pend[t0])
        BY <2>4, <3>1, <3>3
      <4>2. pend[t0][i] \in Requests
        BY <2>3, <4>1
      <4> QED BY <2>4, <2>7, <3>3, <4>1, <4>2
    <3>4. CASE t = t0 /\ j # Len(pend[t0]) + 1
      <4>1. i \in 1 .. Len(pend[t0]) /\ j \in 1 .. Len(pend[t0])
        BY <2>4, <3>1, <3>4
      <4> QED BY <2>2, <2>4, <3>1, <3>4, <4>1 DEF QueueInv
    <3> QED BY <3>2, <3>3, <3>4
  <2>11. ProcessInv'
    BY <1>1, <1>4 DEF ProcessInv
  <2>12. WaitingInv'
    <3>1. SUFFICES ASSUME NEW s \in Requests, call'[s] = "waiting", s \notin KnownCalls(node[s])
                   PROVE  /\ IsLeader(node[s])
                          /\ leads[node[s]] = maxTerm => s \in PendCalls(maxTerm)'
      BY <1>1, <1>2 DEF WaitingInv
    <3>2. CASE s = r
      BY <1>1, <2>0, <2>1, <2>6, <3>2
    <3>3. CASE s # r
      <4>1. /\ IsLeader(node[s])
            /\ leads[node[s]] = maxTerm => s \in PendCalls(maxTerm) /\ maxTerm \in Terms
        BY <1>1, <3>1, <3>3, StoreTypes DEF WaitingInv, IsLeader
      <4> QED BY <1>1, <2>5, <2>6, <4>1
    <3> QED BY <3>2, <3>3
  <2>13. OvertakenInv'
    <3>1. \A s \in Requests : Certain(s)' => Certain(s)
      BY <1>1, <1>2, <1>4, <2>1 DEF Certain
    <3> QED BY <1>1, <2>5, <2>6, <2>7, <3>1 DEF OvertakenInv
  <2> QED BY <2>8, <2>9, <2>10, <2>11, <2>12, <2>13
<1> QED BY <1>5, <1>6

\* The oldest call of a term moves from what its leader appended to the log.
LEMMA HeadMoves ==
  ASSUME AllInv, NEW t0 \in Terms, pend[t0] # <<>>, NEW r, r = Head(pend[t0]),
         log' = Append(log, r), pend' = [pend EXCEPT ![t0] = Tail(@)]
  PROVE  /\ r \in PendCalls(t0) /\ PendCalls(t0)' = PendCalls(t0) \ {r}
         /\ \A t \in Terms : t # t0 => PendCalls(t)' = PendCalls(t)
         /\ \A s \in PendCalls(t0)' : s \notin before[r]
         /\ before' = before => QueueInv'
         /\ Len(log') = Len(log) + 1 /\ log'[Len(log')] = r
         /\ \A i \in 1 .. Len(log) : log'[i] = log[i]
         /\ Executed' = Executed \cup {r}
<1> USE DEF AllInv, FenceInv
<1> DEFINE old == pend[t0]
           new == pend'[t0]
<1>1. /\ old \in Seq(Requests) /\ Len(old) \in Nat /\ new = Tail(old)
      /\ \A t \in Terms : t # t0 => pend'[t] = pend[t]
  BY StoreTypes
<1>2. /\ Len(old) >= 1 /\ r = old[1] /\ Len(new) = Len(old) - 1
      /\ \A i \in 1 .. Len(new) : new[i] = old[i + 1]
  <2>1. old # <<>> /\ r = Head(old)
    OBVIOUS
  <2> HIDE DEF old, new
  <2>2. Len(old) >= 1 /\ r = old[1]
    BY <1>1, <2>1
  <2>3. Len(new) = Len(old) - 1 /\ \A i \in 1 .. Len(new) : new[i] = old[i + 1]
    BY <1>1, <2>1, <2>2
  <2> QED BY <2>2, <2>3
<1>3. \A i, j \in 1 .. Len(old) : old[i] = old[j] => i = j
  BY DEF OnceInv, OnceInPend
<1>4. \A i, j \in 1 .. Len(old) : i < j => old[j] \notin before[old[i]]
  BY DEF QueueInv
<1>5. PendCalls(t0) = {old[i] : i \in 1 .. Len(old)}
      /\ PendCalls(t0)' = {new[i] : i \in 1 .. Len(new)}
  BY DEF PendCalls
<1>6. \A t \in Terms : t # t0 => PendCalls(t)' = PendCalls(t)
  BY <1>1 DEF PendCalls
<1> HIDE DEF old, new
<1>7. r \in PendCalls(t0)
  <2>1. 1 \in 1 .. Len(old)
    BY <1>1, <1>2
  <2> QED BY <1>2, <1>5, <2>1
<1>8. \A i \in 1 .. Len(new) : i + 1 \in 1 .. Len(old) /\ new[i] = old[i + 1] /\ i + 1 # 1
  BY <1>1, <1>2
<1>9. \A j \in 1 .. Len(old) : j = 1 \/ (j - 1 \in 1 .. Len(new) /\ new[j - 1] = old[j])
  BY <1>1, <1>2
<1>10. PendCalls(t0)' \subseteq PendCalls(t0) \ {r}
  <2>1. 1 \in 1 .. Len(old)
    BY <1>1, <1>2
  <2>2. SUFFICES ASSUME NEW i \in 1 .. Len(new)
                 PROVE  new[i] \in PendCalls(t0) /\ new[i] # r
    BY <1>5
  <2>3. i + 1 \in 1 .. Len(old) /\ new[i] = old[i + 1] /\ i + 1 # 1
    BY <1>8
  <2> QED BY <1>2, <1>3, <1>5, <2>1, <2>3
<1>11. PendCalls(t0) \ {r} \subseteq PendCalls(t0)'
  <2>1. SUFFICES ASSUME NEW j \in 1 .. Len(old), old[j] # r
                 PROVE  old[j] \in PendCalls(t0)'
    BY <1>5
  <2>2. j - 1 \in 1 .. Len(new) /\ new[j - 1] = old[j]
    BY <1>2, <1>9, <2>1
  <2> QED BY <1>5, <2>2
<1>12. \A s \in PendCalls(t0)' : s \notin before[r]
  <2>1. 1 \in 1 .. Len(old) /\ \A i \in 1 .. Len(new) : 1 < i + 1
    BY <1>1, <1>2
  <2> QED BY <1>2, <1>4, <1>5, <1>8, <2>1
<1>13. ASSUME before' = before PROVE QueueInv'
  <2>1. \A i, j \in 1 .. Len(new) : i < j => new[j] \notin before[new[i]]
    <3>1. \A i, j \in 1 .. Len(new) : i < j => i + 1 < j + 1
      BY <1>1, <1>2
    <3> QED BY <1>4, <1>8, <3>1
  <2>2. SUFFICES ASSUME NEW t \in Terms, NEW i \in 1 .. Len(pend'[t]),
                        NEW j \in 1 .. Len(pend'[t]), i < j
                 PROVE  pend'[t][j] \notin before[pend'[t][i]]
    BY <1>13 DEF QueueInv
  <2>3. CASE t = t0
    BY <2>1, <2>2, <2>3 DEF new
  <2>4. CASE t # t0
    BY <1>1, <2>2, <2>4 DEF QueueInv
  <2> QED BY <2>3, <2>4
<1>14. /\ Len(log') = Len(log) + 1 /\ log'[Len(log')] = r /\ Len(log) \in Nat
       /\ \A i \in 1 .. Len(log) : log'[i] = log[i]
  <2>1. r \in Requests /\ log \in Seq(Requests)
    BY <1>7, StoreTypes
  <2> QED BY <2>1
<1>15. Executed' = Executed \cup {r}
  <2>1. Executed' = {log'[i] : i \in 1 .. Len(log')}
    BY DEF Executed
  <2>2. \A i \in 1 .. Len(log') : log'[i] = r \/ (i \in 1 .. Len(log) /\ log'[i] = log[i])
    BY <1>14
  <2>3. Len(log') \in 1 .. Len(log') /\ \A i \in 1 .. Len(log) : i \in 1 .. Len(log')
    BY <1>14
  <2> QED BY <1>14, <2>1, <2>2, <2>3 DEF Executed
<1> QED BY <1>6, <1>7, <1>10, <1>11, <1>12, <1>13, <1>14, <1>15

LEMMA InheritKeepsFence ==
  ASSUME AllInv, NEW n \in Nodes, Inherit(n)
  PROVE  FenceInv'
<1> USE DEF AllInv, FenceInv
<1>1. PICK t0 \in Terms : Inherited(n, t0)
  BY DEF Inherit
<1>2. PICK r : r = Head(pend[t0])
  OBVIOUS
<1>3. /\ pend[t0] # <<>> /\ log' = Append(log, r) /\ pend' = [pend EXCEPT ![t0] = Tail(@)]
      /\ t0 \in lastTerm .. (maxTerm - 1) /\ lastTerm' = t0
      /\ UNCHANGED <<up, leads, maxTerm, known, call, node, before>>
  BY <1>1, <1>2 DEF Inherit, Inherited, callVars
<1>4. /\ \A t \in Terms : /\ PendCalls(t)' \subseteq PendCalls(t)
                          /\ t # t0 => PendCalls(t)' = PendCalls(t)
      /\ QueueInv' /\ \A i \in 1 .. Len(log) : log'[i] = log[i]
  BY <1>2, <1>3, HeadMoves
<1>5. \A m \in Nodes : KnownCalls(m)' = KnownCalls(m)
  BY <1>3, <1>4, KnownSame
<1>6. t0 < maxTerm /\ lastTerm' >= lastTerm /\ lastTerm \in Nat /\ t0 \in Nat
  BY <1>3, StoreTypes
<1>7. \A s \in Requests : call[s] \in {"ok", "waiting"} => node[s] \in Nodes
  BY StoreTypes
<1>8. BeforeInv' /\ ProcessInv'
  BY <1>3 DEF BeforeInv, ProcessInv
<1>9. LeadsInv'
  BY <1>3, <1>4 DEF LeadsInv, IsLeader
<1>10. WaitingInv'
  <2>1. \A s : s \in PendCalls(maxTerm) /\ maxTerm \in Terms => s \in PendCalls(maxTerm)'
    BY <1>3, <1>4, <1>6
  <2>2. \A s \in Requests : node[s] \in Nodes /\ IsLeader(node[s]) /\ leads[node[s]] = maxTerm
          => maxTerm \in Terms
    BY StoreTypes DEF IsLeader
  <2> QED BY <1>3, <1>5, <1>7, <2>1, <2>2 DEF WaitingInv, IsLeader
<1>11. OvertakenInv'
  <2>1. \A s \in Requests : Certain(s)' => Certain(s)
    BY <1>3, <1>5, <1>7 DEF Certain
  <2>2. \A t \in Terms : t >= lastTerm' => t >= lastTerm
    <3>1. \A t \in Int : t >= t0 /\ t0 >= lastTerm => t >= lastTerm
      BY <1>6
    <3> QED BY <1>3, <1>6, <3>1, StoreTypes
  <2> QED BY <1>3, <1>4, <2>1, <2>2 DEF OvertakenInv
<1> QED BY <1>4, <1>8, <1>9, <1>10, <1>11

\* The leader of the newest term, and what waits there.
LEMMA AtTheLeader ==
  ASSUME AllInv, NEW n \in Nodes, Current(n)
  PROVE  /\ maxTerm \in Terms
         /\ \A s \in Requests : call[s] = "waiting" /\ node[s] = n /\ s \notin KnownCalls(n)
                               => s \in PendCalls(maxTerm) /\ s \notin Executed
<1>1. maxTerm \in Terms
  BY StoreTypes DEF AllInv, Current, IsLeader
<1> QED BY <1>1, OnceInSets DEF AllInv, FenceInv, WaitingInv, Current

(***************************************************************************)
(* Establishing its term tells the leader no answer of a waiting call: the *)
(* calls that wait there were appended in its own term.                    *)
(***************************************************************************)
LEMMA EstablishKeepsFence ==
  ASSUME AllInv, NEW n \in Nodes, Establish(n)
  PROVE  FenceInv'
<1> USE DEF AllInv, FenceInv
<1>1. /\ Current(n) /\ lastTerm < maxTerm /\ lastTerm' = maxTerm
      /\ pend' = [t \in Terms |-> IF t < maxTerm THEN <<>> ELSE pend[t]]
      /\ known' = [known EXCEPT ![n] = Len(log)]
      /\ UNCHANGED <<up, leads, maxTerm, log, call, node, before>>
  BY DEF Establish, Established, callVars
<1>2. /\ \A m \in Nodes : m # n => known'[m] = known[m]
      /\ known'[n] = Len(log) /\ maxTerm \in Nat /\ lastTerm \in Nat
  BY <1>1, StoreTypes
<1>3. \A t \in Terms : \/ (pend'[t] = pend[t] /\ PendCalls(t)' = PendCalls(t))
                        \/ (t < maxTerm /\ pend'[t] = <<>> /\ PendCalls(t)' = {})
  BY <1>1 DEF PendCalls
<1>4. \A m \in Nodes : m # n => KnownCalls(m)' = KnownCalls(m)
  BY <1>1, <1>2 DEF KnownCalls
<1>5. KnownCalls(n) \subseteq KnownCalls(n)' /\ KnownCalls(n)' = Executed
  <2>1. KnownCalls(n)' = Executed
    BY <1>1, <1>2 DEF KnownCalls, Executed
  <2> QED BY <2>1, OnceInSets
<1>6. \A s \in Requests : call[s] = "waiting" =>
        node[s] \in Nodes /\ (s \in KnownCalls(node[s])' <=> s \in KnownCalls(node[s]))
  <2> TAKE s \in Requests
  <2> HAVE call[s] = "waiting"
  <2>1. node[s] \in Nodes
    BY StoreTypes
  <2>2. CASE node[s] = n
    BY <1>1, <1>5, <2>2, AtTheLeader
  <2>3. CASE node[s] # n
    BY <1>1, <1>4, <2>1, <2>3
  <2> QED BY <2>1, <2>2, <2>3
<1>7. BeforeInv' /\ ProcessInv'
  BY <1>1 DEF BeforeInv, ProcessInv
<1>8. LeadsInv'
  BY <1>1, <1>3 DEF LeadsInv, IsLeader
<1>9. QueueInv'
  BY <1>1, <1>3 DEF QueueInv
<1>10. WaitingInv'
  <2>1. PendCalls(maxTerm)' = PendCalls(maxTerm)
    BY <1>1, <1>2, <1>3, AtTheLeader
  <2> QED BY <1>1, <1>6, <2>1 DEF WaitingInv, IsLeader
<1>11. OvertakenInv'
  <2>1. \A s \in Requests : Certain(s)' => Certain(s)
    BY <1>1, <1>6 DEF Certain
  <2>2. \A t \in Terms : t >= lastTerm' => t >= lastTerm
    BY <1>1, <1>2
  <2> QED BY <1>1, <1>3, <2>1, <2>2 DEF OvertakenInv
<1> QED BY <1>7, <1>8, <1>9, <1>10, <1>11

(***************************************************************************)
(* Committing the oldest call of the newest term makes at most that call   *)
(* certain, and everything still appended was sent before it returned.     *)
(***************************************************************************)
LEMMA CommitKeepsFence ==
  ASSUME AllInv, NEW n \in Nodes, Commit(n)
  PROVE  FenceInv'
<1> USE DEF AllInv, FenceInv
<1>0. PICK t0 \in Terms : t0 = maxTerm
  BY AtTheLeader DEF Commit, Committed
<1>1. PICK r : r = Head(pend[t0])
  OBVIOUS
<1>2. /\ Current(n) /\ lastTerm = maxTerm /\ lastTerm' = lastTerm /\ pend[t0] # <<>>
      /\ log' = Append(log, r) /\ pend' = [pend EXCEPT ![t0] = Tail(@)]
      /\ known' = [known EXCEPT ![n] = Len(log) + 1]
      /\ UNCHANGED <<up, leads, maxTerm, call, node, before>>
  BY <1>0, <1>1 DEF Commit, Committed, callVars
<1>3. /\ r \in PendCalls(t0) /\ PendCalls(t0)' = PendCalls(t0) \ {r}
      /\ \A t \in Terms : t # t0 => PendCalls(t)' = PendCalls(t)
      /\ \A s \in PendCalls(t0)' : s \notin before[r]
      /\ QueueInv' /\ Len(log') = Len(log) + 1
      /\ \A i \in 1 .. Len(log) : log'[i] = log[i]
      /\ Executed' = Executed \cup {r}
  BY <1>0, <1>1, <1>2, HeadMoves
<1>4. /\ \A m \in Nodes : m # n => known'[m] = known[m]
      /\ known'[n] = Len(log') /\ Len(log') >= known[n] /\ Len(log') \in Nat
  BY <1>2, <1>3, StoreTypes
<1>5. \A m \in Nodes : m # n => KnownCalls(m)' = KnownCalls(m)
  BY <1>3, <1>4, KnownSame
<1>6. KnownCalls(n) \subseteq KnownCalls(n)'
  BY <1>3, <1>4, KnownGrows
<1>7. KnownCalls(n)' = Executed \cup {r}
  <2>1. KnownCalls(n)' = Executed'
    BY <1>4 DEF KnownCalls, Executed
  <2> QED BY <1>3, <2>1
<1>8. ASSUME NEW s \in Requests, call[s] = "waiting"
      PROVE  /\ node[s] \in Nodes
             /\ s \in KnownCalls(node[s]) => s \in KnownCalls(node[s])'
             /\ s \in KnownCalls(node[s])' => s \in KnownCalls(node[s]) \/ s = r
  <2>1. node[s] \in Nodes
    BY <1>8, StoreTypes
  <2>2. CASE node[s] = n
    BY <1>2, <1>6, <1>7, <1>8, <2>2, AtTheLeader
  <2>3. CASE node[s] # n
    BY <1>2, <1>5, <2>1, <2>3
  <2> QED BY <2>1, <2>2, <2>3
<1>9. BeforeInv' /\ ProcessInv'
  BY <1>2 DEF BeforeInv, ProcessInv
<1>10. LeadsInv'
  BY <1>2, <1>3 DEF LeadsInv, IsLeader
<1>11. WaitingInv'
  <2>1. SUFFICES ASSUME NEW s \in Requests, call[s] = "waiting", s \notin KnownCalls(node[s])'
                 PROVE  /\ IsLeader(node[s])
                        /\ leads[node[s]] = maxTerm => s \in PendCalls(t0)'
    BY <1>0, <1>2 DEF WaitingInv, IsLeader
  <2>2. /\ IsLeader(node[s]) /\ node[s] \in Nodes
        /\ leads[node[s]] = maxTerm => s \in PendCalls(t0)
    BY <1>0, <1>8, <2>1 DEF WaitingInv
  <2>3. leads[node[s]] = maxTerm => node[s] = n
    BY <1>2, <2>2 DEF LeadsInv, Current
  <2>4. leads[node[s]] = maxTerm => s # r
    BY <1>2, <1>7, <2>1, <2>3
  <2> QED BY <1>3, <2>2, <2>4
<1>12. OvertakenInv'
  <2>1. SUFFICES ASSUME NEW s \in Requests, Certain(s)', NEW x \in before[s],
                        NEW t \in Terms, t >= lastTerm
                 PROVE  x \notin PendCalls(t)'
    BY <1>2 DEF OvertakenInv
  <2>2. Certain(s) \/ s = r
    BY <1>2, <1>8, <2>1 DEF Certain
  <2>3. CASE Certain(s)
    BY <1>3, <2>1, <2>3 DEF OvertakenInv
  <2>4. CASE s = r /\ t = t0
    BY <1>3, <2>1, <2>4
  <2>5. CASE t # t0
    <3>1. t > maxTerm
      BY <1>0, <1>2, <2>1, <2>5, StoreTypes
    <3> QED BY <1>3, <2>5, <3>1 DEF LeadsInv
  <2> QED BY <2>2, <2>3, <2>4, <2>5
<1> QED BY <1>3, <1>9, <1>10, <1>11, <1>12

----------------------------------------------------------------------------
LEMMA NextKeepsFence == AllInv /\ [Next]_vars => FenceInv'
<1> SUFFICES ASSUME AllInv, [Next]_vars
             PROVE  FenceInv'
  OBVIOUS
<1>1. CASE \E r \in Requests : CallStep(r)
  BY <1>1, HandlersKeepFence, ProposeKeepsFence DEF CallStep
<1>2. ASSUME NEW n \in Nodes, RaftStep(n)
      PROVE  FenceInv'
  BY <1>2, ElectKeepsFence, InheritKeepsFence, EstablishKeepsFence, CommitKeepsFence,
     FollowersKeepFence, StepDownKeepsFence DEF RaftStep
<1>3. ASSUME NEW n \in Nodes, FSMStep(n)
      PROVE  FenceInv'
  <2>1. CASE TakeSnapshot(n) \/ Persist(n) \/ PersistFails(n)
    BY <2>1, IdleStepsKeepFence DEF TakeSnapshot, Persist, PersistFails
  <2> QED BY <1>3, <2>1, ApplyNextKeepsFence, FollowersKeepFence DEF FSMStep
<1>4. ASSUME NEW n \in Nodes, Crash(n) \/ Restart(n)
      PROVE  FenceInv'
  BY <1>4, CrashKeepsFence, FollowersKeepFence
<1>5. CASE UNCHANGED vars
  BY <1>5, IdleStepsKeepFence DEF vars
<1> QED BY <1>1, <1>2, <1>3, <1>4, <1>5 DEF Next

LEMMA AllInvariant == Spec => []AllInv
<1>1. Init => AllInv
  BY InitStoreInv, InitOnceInv, InitFence DEF AllInv
<1>2. AllInv /\ [Next]_vars => AllInv'
  BY NextKeepsInv, NextKeepsOnce, NextKeepsFence DEF AllInv
<1> QED BY <1>1, <1>2, PTL DEF Spec

----------------------------------------------------------------------------
(* Every step of the cluster is a step of the service, or none.            *)

\* The service has the same FSM as the nodes.
LEMMA SameCommands ==
  ASSUME NEW d, NEW c
  PROVE  Service!ApplyCommand(d, c) = ApplyCommand(d, c)
<1>1. \A x : Service!Wrap(x) = Wrap(x)
  BY DEF Service!Wrap, Wrap
<1>2. \A x, y : Service!Deduct(x, y) = Deduct(x, y)
  BY <1>1 DEF Service!Deduct, Deduct
<1>3. \A x, y : Service!Charges(x, y) <=> Charges(x, y)
  BY DEF Service!Charges, Charges
<1>4. \A x, y : Service!ValidTransition(x, y) <=> ValidTransition(x, y)
  BY DEF Service!ValidTransition, ValidTransition
<1>5. Service!UpdateResult(d, c) = UpdateResult(d, c)
  BY <1>3, <1>4 DEF Service!UpdateResult, UpdateResult
<1>6. Service!ApplyUpdatePrintJobStatus(d, c) = ApplyUpdatePrintJobStatus(d, c)
  BY <1>2, <1>3, <1>5 DEF Service!ApplyUpdatePrintJobStatus, ApplyUpdatePrintJobStatus
<1>7. /\ Service!ApplyAddPrinter(d, c) = ApplyAddPrinter(d, c)
      /\ Service!ApplyAddFilament(d, c) = ApplyAddFilament(d, c)
      /\ Service!ApplyAddPrintJob(d, c) = ApplyAddPrintJob(d, c)
  BY DEF Service!ApplyAddPrinter, ApplyAddPrinter, Service!ApplyAddFilament, ApplyAddFilament,
         Service!ApplyAddPrintJob, ApplyAddPrintJob, Service!Unset, Unset
<1> QED BY <1>6, <1>7 DEF Service!ApplyCommand, ApplyCommand

LEMMA ServiceInit == Init => Service!Init
<1> SUFFICES ASSUME Init PROVE Service!Init
  OBVIOUS
<1>1. Executed = {} /\ states[Len(states)] = EmptyDB
  BY DEF Init, RaftInit, Executed
<1>2. [r \in Requests |-> Outcome(call[r])] = [r \in Requests |-> "idle"]
  BY DEF Init, Outcome
<1> QED BY <1>1, <1>2 DEF Init, Service!Init, Service!EmptyDB, EmptyDB

\* Nothing that clients can notice.
LEMMA StutterSimulation ==
  ASSUME UNCHANGED <<log, states, cmd, before>>,
         \A r \in Requests : Outcome(call[r])' = Outcome(call[r])
  PROVE  UNCHANGED Service!serviceVars
<1>1. [r \in Requests |-> Outcome(call[r])]' = [r \in Requests |-> Outcome(call[r])]
  OBVIOUS
<1>2. Executed' = Executed
  BY DEF Executed
<1> QED BY <1>1, <1>2 DEF Service!serviceVars

\* Some calls get an answer that says nothing of their effect.
LEMMA FailSimulation ==
  ASSUME NEW S \in SUBSET Requests, UNCHANGED <<log, states, cmd, before>>,
         \A r \in S : call[r] \in {"checked", "waiting"} /\ call'[r] \in {"error", "lost"},
         \A r \in Requests \ S : call'[r] = call[r]
  PROVE  Service!Next
<1>1. \A r \in Requests :
        Outcome(call[r])' = IF r \in S THEN "unknown" ELSE Outcome(call[r])
  BY DEF Outcome
<1>2. \A r \in S : Outcome(call[r]) = "open"
  BY DEF Outcome
<1>3. Executed' = Executed
  BY DEF Executed
<1>4. Service!Fail(S)
  BY <1>1, <1>2, <1>3 DEF Service!Fail
<1> QED BY <1>4 DEF Service!Next

LEMMA ReceiveSimulation ==
  ASSUME AllInv, NEW r \in Requests, NEW n \in Nodes, NEW c \in ClientCommands,
         Receive(r, n, c)
  PROVE  Service!Next
<1> DEFINE answer == IF IsLeader(n) THEN "open" ELSE "refused"
<1>1. /\ call[r] = "idle"
      /\ call' = [call EXCEPT ![r] = IF IsLeader(n) THEN "checked" ELSE "refused"]
      /\ cmd' = [cmd EXCEPT ![r] = c]
      /\ before' = [before EXCEPT ![r] = {s \in Requests : call[s] \in Answers}]
      /\ UNCHANGED <<log, states>>
  BY DEF Receive, raftVars
<1>2. \A s \in Requests : Outcome(call[s])' = IF s = r THEN answer ELSE Outcome(call[s])
  BY <1>1, StoreTypes DEF AllInv, Outcome
<1>3. Outcome(call[r]) = "idle"
  BY <1>1 DEF Outcome
<1>4. Service!Returned = {s \in Requests : call[s] \in Answers}
  BY StoreTypes DEF AllInv, Service!Returned, Outcome, Calls, Answers
<1>5. Executed' = Executed
  BY <1>1 DEF Executed
<1>6. answer \in {"open", "refused"}
  OBVIOUS
<1> HIDE DEF answer
<1>7. Service!Invoke(r, c, answer)
  BY <1>1, <1>2, <1>3, <1>4, <1>5 DEF Service!Invoke
<1> QED BY <1>6, <1>7 DEF Service!Next, Service!Request

(***************************************************************************)
(* The call that enters the log takes effect: it has not before, and no    *)
(* call that was sent after it returned has succeeded.                     *)
(***************************************************************************)
LEMMA CommitSimulation ==
  ASSUME AllInv, NEW t \in Terms, t >= lastTerm, pend[t] # <<>>,
         log' = Append(log, Head(pend[t])), pend' = [pend EXCEPT ![t] = Tail(@)],
         Record, UNCHANGED callVars
  PROVE  Service!Next
<1>1. PICK r : r = Head(pend[t])
  OBVIOUS
<1>2. /\ r \in PendCalls(t) /\ Executed' = Executed \cup {r}
      /\ log'[Len(log')] = r
  BY <1>1, HeadMoves
<1>3. r \in Requests /\ r \notin Executed /\ call[r] \in {"waiting", "error", "lost"}
  BY <1>2, OnceInSets, StoreTypes DEF AllInv
<1>4. ~Service!Overtaken(r)
  <2>1. SUFFICES ASSUME NEW s \in Requests, r \in before[s], Outcome(call[s]) = "ok"
                 PROVE  FALSE
    BY DEF Service!Overtaken
  <2>2. call[s] = "ok"
    BY <2>1, StoreTypes DEF AllInv, Outcome, Calls, Answers
  <2> QED BY <1>2, <2>1, <2>2 DEF AllInv, FenceInv, OvertakenInv, Certain
<1>5. states'[Len(states')] = ApplyCommand(states[Len(states)], cmd[r])
  <2>1. states \in Seq(DB) /\ states' = Append(states, ApplyCommand(states[Len(states)], cmd[r]))
    BY <1>2 DEF AllInv, StoreInv, TypeOK, Record
  <2>2. Len(states') = Len(states) + 1 /\ Len(states) \in Nat
    BY <2>1
  <2> QED BY <2>1, <2>2
<1>6. Outcome(call[r]) \in {"open", "unknown"}
  BY <1>3 DEF Outcome
<1>7. Service!Execute(r)
  BY <1>2, <1>3, <1>4, <1>5, <1>6, SameCommands DEF Service!Execute, callVars
<1> QED BY <1>3, <1>7 DEF Service!Next

LEMMA ApplySimulation ==
  ASSUME AllInv, NEW n \in Nodes, ApplyNext(n)
  PROVE  [Service!Next]_Service!serviceVars
<1>1. PICK r : r = log[applied[n] + 1]
  OBVIOUS
<1>2. r \in Executed /\ r \in Requests
  <2>1. applied[n] + 1 \in 1 .. Len(log)
    BY DEF AllInv, StoreInv, TypeOK, RaftTypeOK, ApplyNext
  <2> QED BY <1>1, <2>1, StoreTypes DEF AllInv, Executed
<1>3. /\ call' = [call EXCEPT ![r] = IF node[r] = n /\ call[r] = "waiting" THEN "ok" ELSE call[r]]
      /\ UNCHANGED <<log, states, cmd, before>>
  BY <1>1 DEF ApplyNext, raftVars
<1>4. CASE node[r] = n /\ call[r] = "waiting"
  <2>1. /\ \A s \in Requests : Outcome(call[s])' = IF s = r THEN "ok" ELSE Outcome(call[s])
        /\ Outcome(call[r]) = "open" /\ Executed' = Executed
    BY <1>3, <1>4, StoreTypes DEF AllInv, Outcome, Executed
  <2>2. Service!Succeed(r)
    BY <1>2, <1>3, <2>1 DEF Service!Succeed
  <2> QED BY <1>2, <2>2 DEF Service!Next
<1>5. CASE ~(node[r] = n /\ call[r] = "waiting")
  <2>1. call' = call
    BY <1>3, <1>5, StoreTypes DEF AllInv
  <2> QED BY <1>3, <2>1, StutterSimulation
<1> QED BY <1>4, <1>5

----------------------------------------------------------------------------
LEMMA HandlerSimulation ==
  ASSUME AllInv, NEW r \in Requests, CallStep(r)
  PROVE  [Service!Next]_Service!serviceVars
<1>1. CASE \E n \in Nodes, c \in ClientCommands : Receive(r, n, c)
  BY <1>1, ReceiveSimulation
<1>2. CASE Propose(r) /\ call'[r] = "waiting"
  <2>1. /\ UNCHANGED <<log, states, cmd, before>> /\ call[r] = "checked"
        /\ \A s \in Requests : s # r => call'[s] = call[s]
    BY <1>2, StoreTypes DEF AllInv, Propose, Appended, raftVars
  <2>2. \A s \in Requests : Outcome(call[s])' = Outcome(call[s])
    BY <1>2, <2>1 DEF Outcome
  <2> QED BY <2>1, <2>2, StutterSimulation
<1>3. CASE (Propose(r) /\ call'[r] # "waiting") \/ EnqueueTimeout(r) \/ WriteTimeout(r)
  <2>1. /\ UNCHANGED <<log, states, cmd, before>>
        /\ call[r] \in {"checked", "waiting"} /\ call'[r] \in {"error", "lost"}
        /\ \A s \in Requests : s # r => call'[s] = call[s]
    BY <1>3, StoreTypes DEF AllInv, Propose, Appended, EnqueueTimeout, WriteTimeout, raftVars
  <2>2. Service!Next
    BY <2>1, FailSimulation, {r} \in SUBSET Requests
  <2> QED BY <2>2
<1> QED BY <1>1, <1>2, <1>3 DEF CallStep

LEMMA RaftSimulation ==
  ASSUME AllInv, NEW n \in Nodes, RaftStep(n)
  PROVE  [Service!Next]_Service!serviceVars
<1>1. CASE Elect(n) \/ Establish(n) \/ Learn(n)
  <2>1. UNCHANGED <<log, states, call, cmd, before>>
    BY <1>1 DEF Elect, Elected, Establish, Established, Learn, Learned, callVars
  <2> QED BY <2>1, StutterSimulation
<1>2. CASE Inherit(n)
  <2>1. PICK t \in Terms : Inherited(n, t)
    BY <1>2 DEF Inherit
  <2>2. t >= lastTerm
    BY <2>1, StoreTypes DEF AllInv, Inherited
  <2> QED BY <1>2, <2>1, <2>2, CommitSimulation DEF Inherit, Inherited
<1>3. CASE Commit(n)
  <2>1. maxTerm \in Terms /\ maxTerm >= lastTerm
    BY <1>3, AtTheLeader, StoreTypes DEF AllInv, Commit, Committed
  <2> QED BY <1>3, <2>1, CommitSimulation DEF Commit, Committed
<1>4. CASE StepDown(n)
  <2> DEFINE failed == CallsAt(n, {"waiting"}) \ KnownCalls(n)
  <2>1. /\ UNCHANGED <<log, states, cmd, before>> /\ failed \in SUBSET Requests
        /\ \A r \in Requests : call'[r] = IF r \in failed THEN "error" ELSE call[r]
        /\ \A r \in failed : call[r] = "waiting"
    BY <1>4 DEF StepDown, SteppedDown, CallsAt
  <2> HIDE DEF failed
  <2> QED BY <2>1, FailSimulation
<1> QED BY <1>1, <1>2, <1>3, <1>4 DEF RaftStep

LEMMA NodeSimulation ==
  ASSUME AllInv, NEW n \in Nodes, FSMStep(n) \/ Crash(n) \/ Restart(n)
  PROVE  [Service!Next]_Service!serviceVars
<1>1. CASE TakeSnapshot(n) \/ Persist(n) \/ PersistFails(n) \/ InstallSnapshot(n) \/ Restart(n)
  <2>1. UNCHANGED <<log, states, call, cmd, before>>
    BY <1>1 DEF TakeSnapshot, Persist, PersistFails, InstallSnapshot, Restart, Loaded,
                raftVars, callVars
  <2> QED BY <2>1, StutterSimulation
<1>2. CASE Crash(n)
  <2> DEFINE broken == CallsAt(n, {"checked", "waiting"})
  <2>1. /\ UNCHANGED <<log, states, cmd, before>> /\ broken \in SUBSET Requests
        /\ \A r \in Requests : call'[r] = IF r \in broken THEN "lost" ELSE call[r]
        /\ \A r \in broken : call[r] \in {"checked", "waiting"}
    BY <1>2 DEF Crash, Crashed, CallsAt
  <2> HIDE DEF broken
  <2> QED BY <2>1, FailSimulation
<1> QED BY <1>1, <1>2, ApplySimulation DEF FSMStep

(***************************************************************************)
(* Clients cannot tell the cluster from a single PrinterFSM whose failed   *)
(* calls have an unknown outcome, with any number of nodes, of leaders at  *)
(* a time, of calls in flight and of crashes (node.go 323-413).            *)
(***************************************************************************)
THEOREM ClusterImplementsService == Spec => ImplementsService
<1>1. AllInv /\ [Next]_vars => [Service!Next]_Service!serviceVars
  <2> SUFFICES ASSUME AllInv, [Next]_vars
               PROVE  [Service!Next]_Service!serviceVars
    OBVIOUS
  <2>1. CASE UNCHANGED vars
    BY <2>1, StutterSimulation DEF vars, raftVars, callVars
  <2> QED BY <2>1, HandlerSimulation, RaftSimulation, NodeSimulation DEF Next
<1> QED BY <1>1, ServiceInit, AllInvariant, PTL DEF Spec, ImplementsService, Service!Spec

----------------------------------------------------------------------------
(* The order of writes.                                                    *)

(***************************************************************************)
(* Of two successful calls, or a successful one and any other that was     *)
(* executed, the one that had returned when the other was sent comes first *)
(* in the log - whichever nodes and leaders they went to.                  *)
(***************************************************************************)
WritesInOrder ==
  \A s \in Requests : \A r \in before[s] : \A j \in 1 .. Len(log) :
    call[r] = "ok" /\ log[j] = s => \E i \in 1 .. (j - 1) : log[i] = r

\* An answer is final, and a call is sent once.
LEMMA AnswersAreFinal ==
  ASSUME AllInv, [Next]_vars, NEW r \in Requests
  PROVE  /\ call[r] \in Answers => call'[r] = call[r]
         /\ before'[r] # before[r] => call[r] = "idle" /\ UNCHANGED log
<1>1. /\ call \in [Requests -> Calls] /\ before \in [Requests -> SUBSET Requests]
      /\ call[r] \in Answers => call[r] \notin {"idle", "checked", "waiting"}
  BY DEF AllInv, StoreInv, TypeOK, Answers
<1>2. CASE \E s \in Requests : CallStep(s)
  BY <1>1, <1>2 DEF CallStep, Receive, Propose, EnqueueTimeout, WriteTimeout, raftVars
<1>3. CASE \E n \in Nodes : RaftStep(n)
  BY <1>1, <1>3 DEF RaftStep, Elect, Inherit, Establish, Commit, Learn, StepDown, CallsAt, callVars
<1>4. CASE \E n \in Nodes : FSMStep(n)
  BY <1>1, <1>4 DEF FSMStep, ApplyNext, TakeSnapshot, Persist, PersistFails, InstallSnapshot,
                    callVars
<1>5. CASE \E n \in Nodes : Crash(n) \/ Restart(n)
  BY <1>1, <1>5 DEF Crash, Restart, CallsAt, callVars
<1> QED BY <1>1, <1>2, <1>3, <1>4, <1>5 DEF Next, vars, callVars

LEMMA LogGrows ==
  ASSUME [Next]_vars
  PROVE  UNCHANGED log \/ \E x : log' = Append(log, x)
BY DEF Next, CallStep, Receive, Propose, Appended, EnqueueTimeout, WriteTimeout, RaftStep,
       Elect, Elected, Inherit, Inherited, Establish, Established, Commit, Committed,
       Learn, Learned, StepDown, SteppedDown, FSMStep, ApplyNext, TakeSnapshot, Persist,
       PersistFails, InstallSnapshot, Loaded, Crash, Crashed, Restart, vars, raftVars

LEMMA NextKeepsOrder ==
  ASSUME AllInv, WritesInOrder, [Next]_vars
  PROVE  WritesInOrder'
<1> SUFFICES ASSUME NEW s \in Requests, NEW r \in before'[s], NEW j \in 1 .. Len(log'),
                    call'[r] = "ok", log'[j] = s
             PROVE  \E i \in 1 .. (j - 1) : log'[i] = r
  BY DEF WritesInOrder
<1>1. log \in Seq(Requests) /\ before \in [Requests -> SUBSET Requests]
  BY StoreTypes DEF AllInv, StoreInv, TypeOK
<1>2. before'[s] = before[s]
  <2> SUFFICES ASSUME before'[s] # before[s]
               PROVE  FALSE
    OBVIOUS
  <2>1. call[s] = "idle" /\ log' = log
    BY AnswersAreFinal
  <2> QED BY <2>1 DEF AllInv, OnceInv, LogKnowsCall, Outside
<1>3. r \in Requests /\ r \in before[s] /\ call[r] = "ok"
  <2>1. r \in Requests /\ r \in before[s]
    BY <1>1, <1>2
  <2>2. call[r] \in Answers
    BY <2>1 DEF AllInv, FenceInv, BeforeInv
  <2> QED BY <2>1, <2>2, AnswersAreFinal
<1>4. CASE j \in 1 .. Len(log) /\ log[j] = s
  <2>1. PICK i \in 1 .. (j - 1) : log[i] = r
    BY <1>3, <1>4 DEF WritesInOrder
  <2> QED BY <1>1, <1>4, <2>1, LogGrows
<1>5. CASE j = Len(log) + 1
  <2>1. PICK i \in 1 .. Len(log) : log[i] = r
    BY <1>3 DEF AllInv, OnceInv, OkIsCommitted
  <2> QED BY <1>1, <1>5, <2>1, LogGrows
<1> QED BY <1>1, <1>4, <1>5, LogGrows

(***************************************************************************)
(* The order in which clients see their calls succeed is the order in      *)
(* which every node applies them.                                          *)
(***************************************************************************)
THEOREM WritesStayInOrder == Spec => []WritesInOrder
<1>1. Init => WritesInOrder
  BY DEF Init, RaftInit, WritesInOrder
<1> QED BY <1>1, AllInvariant, NextKeepsOrder, PTL DEF Spec

----------------------------------------------------------------------------
(* Nobody waits for nothing.                                               *)

\* A node resolves the future of each call it applies.
NoneLeftBehind ==
  \A n \in Nodes : \A i \in 1 .. applied[n] :
    ~(call[log[i]] = "waiting" /\ node[log[i]] = n)

LEMMA AppliedIsCommitted ==
  ASSUME StoreInv, NEW n \in Nodes
  PROVE  /\ applied[n] \in Nat /\ applied[n] <= known[n] /\ applied[n] <= Len(log)
         /\ disk[n].index \in Nat /\ disk[n].index <= Len(log)
         /\ \A i \in 1 .. Len(log) : log[i] \in Requests
<1>1. /\ applied[n] \in Nat /\ disk[n].index \in Nat /\ known[n] \in 0 .. Len(log)
      /\ Len(log) \in Nat /\ \A i \in 1 .. Len(log) : log[i] \in Requests
  BY StoreTypes DEF StoreInv, TypeOK, Snapshots
<1> QED BY <1>1 DEF StoreInv, ReplicasFollowLog, SnapshotsFollowLog, Follows, HistoryFollowsLog

\* Calls that begin to wait are not committed yet.
LEMMA WaitingLeavesNoneBehind ==
  ASSUME AllInv, NoneLeftBehind,
         \A n \in Nodes : applied'[n] \in {0, applied[n]},
         \A i \in 1 .. Len(log) : log'[i] = log[i],
         \A r \in Requests : call'[r] = "waiting" =>
           call[r] \in {"checked", "waiting"} /\ node'[r] = node[r]
  PROVE  NoneLeftBehind'
<1> SUFFICES ASSUME NEW n \in Nodes, NEW i \in 1 .. applied'[n],
                    call'[log'[i]] = "waiting", node'[log'[i]] = n
             PROVE  FALSE
  BY DEF NoneLeftBehind
<1>1. i \in 1 .. applied[n] /\ i \in 1 .. Len(log) /\ log'[i] = log[i] /\ log[i] \in Requests
  BY AppliedIsCommitted DEF AllInv
<1>2. call[log[i]] \in {"checked", "waiting"} /\ node[log[i]] = n
  BY <1>1
<1>3. call[log[i]] # "checked"
  BY <1>1 DEF AllInv, OnceInv, LogKnowsCall, Outside
<1> QED BY <1>1, <1>2, <1>3 DEF NoneLeftBehind

LEMMA ApplyLeavesNoneBehind ==
  ASSUME AllInv, NoneLeftBehind, NEW n \in Nodes, ApplyNext(n)
  PROVE  NoneLeftBehind'
<1> SUFFICES ASSUME NEW m \in Nodes, NEW i \in 1 .. applied'[m],
                    call'[log[i]] = "waiting", node[log[i]] = m
             PROVE  FALSE
  BY DEF NoneLeftBehind, ApplyNext, raftVars
<1>1. /\ applied' = [applied EXCEPT ![n] = applied[n] + 1] /\ applied \in [Nodes -> Nat]
      /\ applied[n] + 1 \in 1 .. Len(log)
      /\ applied[m] \in Nat /\ applied[m] <= Len(log)
  <2>1. /\ applied' = [applied EXCEPT ![n] = applied[n] + 1] /\ applied \in [Nodes -> Nat]
        /\ applied[n] < known[n]
    BY DEF ApplyNext, AllInv, StoreInv, TypeOK
  <2>2. known[n] \in 0 .. Len(log) /\ Len(log) \in Nat
    BY StoreTypes DEF AllInv
  <2>3. applied[m] \in Nat /\ applied[m] <= Len(log)
    BY AppliedIsCommitted DEF AllInv
  <2>4. applied[n] \in Nat
    BY <2>1
  <2> QED BY <2>1, <2>2, <2>3, <2>4
<1>2. i \in 1 .. Len(log) /\ log[i] \in Requests /\ log[applied[n] + 1] \in Requests
  BY <1>1, AppliedIsCommitted DEF AllInv
<1>3. call[log[i]] = "waiting" /\ ~(m = n /\ i = applied[n] + 1)
  <2> DEFINE r == log[applied[n] + 1]
  <2>1. call' = [call EXCEPT ![r] = IF node[r] = n /\ call[r] = "waiting" THEN "ok" ELSE call[r]]
    BY DEF ApplyNext
  <2>2. call \in [Requests -> Calls] /\ r \in Requests
    BY <1>2, StoreTypes DEF AllInv
  <2> QED BY <1>2, <2>1, <2>2
<1>4. i \in 1 .. applied[m]
  BY <1>1, <1>3
<1> QED BY <1>3, <1>4 DEF NoneLeftBehind

\* A node nobody waits at may start from any snapshot.
LEMMA LoadLeavesNoneBehind ==
  ASSUME AllInv, NoneLeftBehind, NEW n \in Nodes, NEW m \in Nodes, Restore(n, disk[m]),
         UNCHANGED <<log, call, node>>,
         \A r \in Requests : ~(call[r] = "waiting" /\ node[r] = n)
  PROVE  NoneLeftBehind'
<1> SUFFICES ASSUME NEW l \in Nodes, NEW i \in 1 .. applied'[l],
                    call[log[i]] = "waiting", node[log[i]] = l
             PROVE  FALSE
  BY DEF NoneLeftBehind
<1>1. applied' = [applied EXCEPT ![n] = disk[m].index] /\ applied \in [Nodes -> Nat]
  BY DEF Restore, AllInv, StoreInv, TypeOK
<1>2. CASE l = n
  <2>1. i \in 1 .. Len(log) /\ log[i] \in Requests
    BY <1>1, <1>2, AppliedIsCommitted, StoreTypes DEF AllInv
  <2> QED BY <1>2, <2>1
<1>3. CASE l # n
  BY <1>1, <1>3 DEF NoneLeftBehind
<1> QED BY <1>2, <1>3

\* At a follower that has applied all it knows nobody waits.
LEMMA InstallLeavesNoneBehind ==
  ASSUME AllInv, NoneLeftBehind, NEW n \in Nodes, InstallSnapshot(n)
  PROVE  NoneLeftBehind'
<1>1. PICK m \in Nodes : Restore(n, disk[m])
  BY DEF InstallSnapshot
<1>2. ASSUME NEW r \in Requests, call[r] = "waiting", node[r] = n
      PROVE  FALSE
  <2>1. r \in KnownCalls(n) /\ applied[n] = known[n]
    BY <1>2 DEF InstallSnapshot, AllInv, FenceInv, WaitingInv
  <2>2. PICK i \in 1 .. applied[n] : log[i] = r
    BY <2>1 DEF KnownCalls
  <2> QED BY <1>2, <2>2 DEF NoneLeftBehind
<1> QED BY <1>1, <1>2, LoadLeavesNoneBehind DEF InstallSnapshot, Loaded, callVars

LEMMA NextLeavesNoneBehind ==
  ASSUME AllInv, NoneLeftBehind, [Next]_vars
  PROVE  NoneLeftBehind'
<1>1. \A i \in 1 .. Len(log) : log'[i] = log[i]
  BY LogGrows, StoreTypes DEF AllInv
<1>2. call \in [Requests -> Calls] /\ node \in [Requests -> Nodes \cup {None}]
      /\ applied \in [Nodes -> Nat]
  BY DEF AllInv, StoreInv, TypeOK
<1>3. CASE \E r \in Requests : CallStep(r)
  BY <1>1, <1>2, <1>3, WaitingLeavesNoneBehind
     DEF CallStep, Receive, Propose, EnqueueTimeout, WriteTimeout, raftVars, fsmVars
<1>4. CASE \E n \in Nodes : RaftStep(n)
  BY <1>1, <1>2, <1>4, WaitingLeavesNoneBehind
     DEF RaftStep, Elect, Inherit, Establish, Commit, Learn, StepDown, callVars, fsmVars
<1>5. CASE \E n \in Nodes : TakeSnapshot(n) \/ Persist(n) \/ PersistFails(n) \/ Crash(n)
  BY <1>1, <1>2, <1>5, WaitingLeavesNoneBehind
     DEF TakeSnapshot, Persist, PersistFails, Crash, callVars
<1>6. ASSUME NEW n \in Nodes, Restart(n)
      PROVE  NoneLeftBehind'
  <2>1. \A r \in Requests : ~(call[r] = "waiting" /\ node[r] = n)
    BY <1>6 DEF Restart, AllInv, FenceInv, ProcessInv
  <2> QED BY <1>6, <2>1, LoadLeavesNoneBehind DEF Restart, Loaded, callVars
<1>7. CASE UNCHANGED vars
  BY <1>1, <1>2, <1>7, WaitingLeavesNoneBehind DEF vars, callVars, fsmVars
<1> QED BY <1>3, <1>4, <1>5, <1>6, <1>7, ApplyLeavesNoneBehind, InstallLeavesNoneBehind
        DEF Next, FSMStep

(***************************************************************************)
(* No handler waits for a future that nothing will resolve: its node leads *)
(* or has the call, committed, ahead of what it has applied.               *)
(***************************************************************************)
THEOREM NoCallIsEverForgotten == Spec => []NoCallIsForgotten
<1>1. Init => NoneLeftBehind
  BY DEF Init, NoneLeftBehind
<1>2. AllInv /\ NoneLeftBehind => NoCallIsForgotten
  <2> SUFFICES ASSUME AllInv, NoneLeftBehind, NEW r \in Requests, call[r] = "waiting",
                      ~IsLeader(node[r])
               PROVE  /\ node[r] \in up
                      /\ \E i \in (applied[node[r]] + 1) .. known[node[r]] : log[i] = r
    BY DEF NoCallIsForgotten, AllInv, FenceInv, ProcessInv
  <2>1. node[r] \in up /\ node[r] \in Nodes /\ r \in KnownCalls(node[r])
    BY StoreTypes DEF AllInv, FenceInv, ProcessInv, WaitingInv
  <2>2. PICK i \in 1 .. known[node[r]] : log[i] = r
    BY <2>1 DEF KnownCalls
  <2>3. i \notin 1 .. applied[node[r]]
    BY <2>1, <2>2 DEF NoneLeftBehind
  <2> QED BY <2>1, <2>2, <2>3, AppliedIsCommitted, StoreTypes DEF AllInv
<1> QED BY <1>1, <1>2, AllInvariant, NextLeavesNoneBehind, PTL DEF Spec
=============================================================================
