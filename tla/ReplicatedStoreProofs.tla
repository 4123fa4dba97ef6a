------------------------ MODULE ReplicatedStoreProofs ------------------------
(***************************************************************************)
(* Proofs about ReplicatedStore, for any number of nodes, calls, terms and *)
(* crashes and any set of client commands.                                 *)
(***************************************************************************)
EXTENDS ReplicatedStore, PrinterCommandsLemmas

\* The calls that have reached a node, so that their command is fixed.
SentCalls == {r \in Requests : call[r] # "idle"}

(***************************************************************************)
(* The history of databases has one more element than the committed log    *)
(* and every element is the previous one after the call between them.      *)
(* Calls in the log have been sent: otherwise their command could change.  *)
(***************************************************************************)
HistoryFollowsLog ==
  /\ Len(states) = Len(log) + 1
  /\ states[1] = EmptyDB
  /\ \A i \in 1 .. Len(log) :
       /\ log[i] \in SentCalls
       /\ states[i + 1] = ApplyCommand(states[i], cmd[log[i]])
  /\ \A t \in Terms : \A i \in 1 .. Len(pend[t]) : pend[t][i] \in SentCalls

StoreInv == TypeOK /\ HistoryFollowsLog /\ ReplicasFollowLog /\ SnapshotsFollowLog

USE DEF Terms

LEMMA InitStoreInv == Init => StoreInv
<1> SUFFICES ASSUME Init
             PROVE  StoreInv
  OBVIOUS
<1>1. TypeOK
  BY EmptyDBType, MaxTermAssumption, MaxCrashesAssumption
     DEF Init, RaftInit, TypeOK, RaftTypeOK, Calls, Snapshots
<1>2. HistoryFollowsLog
  BY DEF Init, RaftInit, HistoryFollowsLog
<1>3. ReplicasFollowLog /\ SnapshotsFollowLog
  BY DEF Init, RaftInit, ReplicasFollowLog, SnapshotsFollowLog, Follows
<1>4. QED
  BY <1>1, <1>2, <1>3 DEF StoreInv

----------------------------------------------------------------------------
(* The steps that touch neither the log nor the databases.                 *)

\* The invariant only reads these variables.
LEMMA QuietStep ==
  ASSUME StoreInv, TypeOK', UNCHANGED <<log, known, cmd, states, fsmVars>>,
         SentCalls \subseteq SentCalls',
         \A t \in Terms : \A i \in 1 .. Len(pend'[t]) : pend'[t][i] \in SentCalls'
  PROVE  StoreInv'
<1>1. HistoryFollowsLog'
  BY DEF StoreInv, HistoryFollowsLog
<1>2. ReplicasFollowLog' /\ SnapshotsFollowLog'
  BY DEF StoreInv, ReplicasFollowLog, SnapshotsFollowLog, Follows, fsmVars
<1>3. QED
  BY <1>1, <1>2 DEF StoreInv

\* Steps that only move calls to another stage.
LEMMA StageStep ==
  ASSUME StoreInv, UNCHANGED <<log, known, pend, cmd, node, before, states, fsmVars>>,
         RaftTypeOK', call' \in [Requests -> Calls], SentCalls' = SentCalls
  PROVE  StoreInv'
<1>1. TypeOK'
  <2>1. \A r \in Requests : call'[r] # "idle" => call[r] # "idle"
    BY DEF SentCalls
  <2>2. QED
    BY <2>1 DEF StoreInv, TypeOK, fsmVars
<1>2. QED
  BY <1>1, QuietStep DEF StoreInv, HistoryFollowsLog

LEMMA ReceiveKeepsInv ==
  ASSUME StoreInv, NEW r \in Requests, NEW n \in Nodes, NEW c \in ClientCommands,
         Receive(r, n, c)
  PROVE  StoreInv'
<1>1. TypeOK'
  BY DEF StoreInv, TypeOK, RaftTypeOK, Receive, Calls, Answers, raftVars, fsmVars
<1>2. SentCalls \subseteq SentCalls' /\ \A s \in SentCalls : cmd'[s] = cmd[s]
  BY DEF StoreInv, TypeOK, Receive, SentCalls
<1>3. HistoryFollowsLog'
  BY <1>2 DEF StoreInv, HistoryFollowsLog, Receive, raftVars
<1>4. ReplicasFollowLog' /\ SnapshotsFollowLog'
  BY DEF StoreInv, Receive, ReplicasFollowLog, SnapshotsFollowLog, Follows, fsmVars, raftVars
<1>5. QED
  BY <1>1, <1>3, <1>4 DEF StoreInv

LEMMA ProposeKeepsInv ==
  ASSUME StoreInv, NEW r \in Requests, Propose(r)
  PROVE  StoreInv'
<1>0. call' \in [Requests -> Calls] /\ SentCalls' = SentCalls /\ r \in SentCalls
  BY DEF StoreInv, TypeOK, Propose, Calls, Answers, SentCalls
<1>1. CASE UNCHANGED raftVars
  BY <1>0, <1>1, StageStep DEF StoreInv, TypeOK, RaftTypeOK, Propose, raftVars
<1>2. CASE Appended(node[r], r)
  <2>1. node[r] \in Nodes /\ leads[node[r]] \in Terms
    BY <1>2, MaxTermAssumption
       DEF StoreInv, TypeOK, RaftTypeOK, Propose, Appended, IsLeader
  <2>2. pend' \in [Terms -> Seq(Requests)]
    BY <1>2, <2>1 DEF StoreInv, TypeOK, RaftTypeOK, Appended
  <2>3. TypeOK'
    <3>1. \A s \in Requests : call'[s] # "idle" => call[s] # "idle"
      BY <1>0 DEF SentCalls
    <3>2. QED
      BY <1>0, <1>2, <2>2, <3>1 DEF StoreInv, TypeOK, RaftTypeOK, Propose, Appended, fsmVars
  <2>4. \A t \in Terms : \A i \in 1 .. Len(pend'[t]) : pend'[t][i] \in SentCalls
    <3>1. TAKE t \in Terms
    <3>2. CASE t # leads[node[r]]
      BY <1>2, <2>1, <3>2 DEF StoreInv, TypeOK, RaftTypeOK, HistoryFollowsLog, Appended
    <3>3. CASE t = leads[node[r]]
      <4>1. pend'[t] = Append(pend[t], r) /\ pend[t] \in Seq(Requests)
        BY <1>2, <2>1, <3>3 DEF StoreInv, TypeOK, RaftTypeOK, Appended
      <4>2. QED
        BY <1>0, <4>1 DEF StoreInv, HistoryFollowsLog
    <3>4. QED
      BY <3>2, <3>3
  <2>5. QED
    BY <1>0, <1>2, <2>3, <2>4, QuietStep DEF Propose, Appended
<1>3. QED
  BY <1>1, <1>2 DEF Propose

LEMMA TimeoutsKeepInv ==
  ASSUME StoreInv, NEW r \in Requests, EnqueueTimeout(r) \/ WriteTimeout(r)
  PROVE  StoreInv'
<1>1. call' \in [Requests -> Calls] /\ SentCalls' = SentCalls
  BY DEF StoreInv, TypeOK, EnqueueTimeout, WriteTimeout, Calls, Answers, SentCalls
<1>2. QED
  BY <1>1, StageStep
     DEF StoreInv, TypeOK, RaftTypeOK, EnqueueTimeout, WriteTimeout, raftVars

LEMMA StepDownKeepsInv ==
  ASSUME StoreInv, NEW n \in Nodes, StepDown(n)
  PROVE  StoreInv'
<1>1. call' \in [Requests -> Calls] /\ SentCalls' = SentCalls
  BY DEF StoreInv, TypeOK, StepDown, CallsAt, Calls, Answers, SentCalls
<1>2. RaftTypeOK'
  BY MaxTermAssumption DEF StoreInv, TypeOK, RaftTypeOK, StepDown, SteppedDown
<1>3. QED
  BY <1>1, <1>2, StageStep DEF StepDown, SteppedDown

LEMMA ElectKeepsInv ==
  ASSUME StoreInv, NEW n \in Nodes, Elect(n)
  PROVE  StoreInv'
<1>1. RaftTypeOK'
  <2>1. maxTerm + 1 \in 0 .. MaxTerm /\ lastTerm \in 0 .. (maxTerm + 1)
    BY MaxTermAssumption DEF StoreInv, TypeOK, RaftTypeOK, Elect, Elected
  <2>2. QED
    BY <2>1 DEF StoreInv, TypeOK, RaftTypeOK, Elect, Elected
<1>2. QED
  BY <1>1, StageStep DEF StoreInv, TypeOK, Elect, Elected, callVars, SentCalls

----------------------------------------------------------------------------
(* The log and the commit indices grow.                                    *)

\* One more call is committed, and its database recorded.
LEMMA LogStep ==
  ASSUME StoreInv, NEW t \in Terms, pend[t] # <<>>,
         log' = Append(log, Head(pend[t])),
         pend' = [pend EXCEPT ![t] = Tail(@)],
         Record, UNCHANGED <<up, crashes, leads, maxTerm, callVars, fsmVars>>,
         lastTerm' \in 0 .. maxTerm,
         known' \in [Nodes -> 0 .. (Len(log) + 1)],
         \A n \in Nodes : known'[n] >= known[n]
  PROVE  StoreInv'
<1> DEFINE r == Head(pend[t])
<1>1. /\ pend[t] \in Seq(Requests) /\ r \in Requests /\ r \in SentCalls
      /\ log \in Seq(Requests) /\ states \in Seq(DB) /\ Len(states) = Len(log) + 1
  <2>1. pend[t] \in Seq(Requests)
    BY DEF StoreInv, TypeOK, RaftTypeOK
  <2>2. r = pend[t][1] /\ 1 \in 1 .. Len(pend[t])
    BY <2>1
  <2>3. QED
    BY <2>1, <2>2 DEF StoreInv, TypeOK, RaftTypeOK, HistoryFollowsLog
<1>2. log' \in Seq(Requests) /\ Len(log') = Len(log) + 1 /\ log'[Len(log')] = r
      /\ \A i \in 1 .. Len(log) : log'[i] = log[i]
  BY <1>1
<1> DEFINE d == ApplyCommand(states[Len(states)], cmd[r])
<1>3. d \in DB /\ states' = Append(states, d)
  <2>1. states[Len(states)] \in DB
    BY <1>1
  <2>2. cmd[r] \in Commands
    BY <1>1, ClientCommandsAssumption DEF StoreInv, TypeOK, SentCalls
  <2>3. QED
    BY <1>2, <2>1, <2>2, ApplyCommandType DEF Record
<1> HIDE DEF d, r
<1>4. states' \in Seq(DB) /\ Len(states') = Len(states) + 1 /\ states'[Len(states')] = d
      /\ \A i \in 1 .. Len(states) : states'[i] = states[i]
  BY <1>1, <1>3
<1>5. pend' \in [Terms -> Seq(Requests)]
      /\ \A u \in Terms : \A i \in 1 .. Len(pend'[u]) : pend'[u][i] \in SentCalls
  <2>1. Tail(pend[t]) \in Seq(Requests)
        /\ \A i \in 1 .. Len(Tail(pend[t])) : Tail(pend[t])[i] \in SentCalls
    <3>1. /\ Len(Tail(pend[t])) = Len(pend[t]) - 1
          /\ \A i \in 1 .. Len(Tail(pend[t])) : Tail(pend[t])[i] = pend[t][i + 1]
          /\ Tail(pend[t]) \in Seq(Requests)
      BY <1>1
    <3>2. QED
      BY <1>1, <3>1 DEF StoreInv, HistoryFollowsLog
  <2>2. QED
    BY <2>1 DEF StoreInv, TypeOK, RaftTypeOK, HistoryFollowsLog
<1>6. SentCalls' = SentCalls /\ UNCHANGED <<call, cmd, node, before, fsm, applied, snap, disk>>
  BY DEF callVars, fsmVars, SentCalls
<1>7. TypeOK'
  BY <1>2, <1>4, <1>5, <1>6 DEF StoreInv, TypeOK, RaftTypeOK
<1>8. HistoryFollowsLog'
  <2>1. \A i \in 1 .. Len(log') :
          log'[i] \in SentCalls /\ states'[i + 1] = ApplyCommand(states'[i], cmd[log'[i]])
    <3>1. TAKE i \in 1 .. Len(log')
    <3>2. CASE i = Len(log')
      BY <1>1, <1>2, <1>4, <3>2 DEF d
    <3>3. CASE i # Len(log')
      <4>1. i \in 1 .. Len(log) /\ i \in 1 .. Len(states) /\ i + 1 \in 1 .. Len(states)
        BY <1>1, <1>2, <3>3
      <4>2. QED
        BY <1>2, <1>4, <4>1 DEF StoreInv, HistoryFollowsLog
    <3>4. QED
      BY <3>2, <3>3
  <2>2. states'[1] = EmptyDB
    BY <1>1, <1>4 DEF StoreInv, HistoryFollowsLog
  <2>3. QED
    BY <1>1, <1>2, <1>4, <1>5, <1>6, <2>1, <2>2 DEF HistoryFollowsLog
<1>9. ReplicasFollowLog'
  <2>1. \A n \in Nodes : applied[n] \in Nat /\ applied[n] + 1 \in 1 .. Len(states)
                        /\ known[n] \in Nat /\ known'[n] \in Nat
    BY SMTT(30), <1>1 DEF StoreInv, TypeOK, RaftTypeOK, ReplicasFollowLog
  <2>2. \A n \in Nodes : states'[applied[n] + 1] = states[applied[n] + 1]
    BY <1>4, <2>1
  <2>3. \A n \in Nodes : applied[n] <= known'[n] /\ applied[n] < Len(states')
    BY SMTT(30), <1>1, <1>4, <2>1 DEF StoreInv, ReplicasFollowLog
  <2>4. \A n \in Nodes : fsm[n] = states[applied[n] + 1]
    BY DEF StoreInv, ReplicasFollowLog
  <2>5. QED
    BY <1>6, <2>2, <2>3, <2>4 DEF ReplicasFollowLog
<1>10. SnapshotsFollowLog'
  <2>1. \A s \in Snapshots : Follows(s) => s.index < Len(states') /\ s.db = states'[s.index + 1]
    BY <1>1, <1>4 DEF Follows, Snapshots
  <2>2. \A n \in Nodes : disk[n] \in Snapshots /\ (snap[n] # None => snap[n] \in Snapshots)
    BY DEF StoreInv, TypeOK
  <2>3. QED
    BY <1>6, <2>1, <2>2 DEF StoreInv, SnapshotsFollowLog, Follows
<1>11. QED
  BY <1>7, <1>8, <1>9, <1>10 DEF StoreInv

LEMMA InheritKeepsInv ==
  ASSUME StoreInv, NEW n \in Nodes, Inherit(n)
  PROVE  StoreInv'
<1>1. PICK t \in Terms : Inherited(n, t)
  BY DEF Inherit
<1>2. t \in 0 .. maxTerm
  BY <1>1 DEF StoreInv, TypeOK, RaftTypeOK, Inherited
<1>3. known' \in [Nodes -> 0 .. (Len(log) + 1)] /\ \A m \in Nodes : known'[m] >= known[m]
  BY <1>1 DEF StoreInv, TypeOK, RaftTypeOK, Inherited
<1>4. QED
  BY <1>1, <1>2, <1>3, LogStep DEF Inherit, Inherited

LEMMA CommitKeepsInv ==
  ASSUME StoreInv, NEW n \in Nodes, Commit(n)
  PROVE  StoreInv'
<1>1. maxTerm \in Terms /\ lastTerm \in 0 .. maxTerm
  BY MaxTermAssumption
     DEF StoreInv, TypeOK, RaftTypeOK, Commit, Committed, Current, IsLeader
<1>2. known' \in [Nodes -> 0 .. (Len(log) + 1)] /\ \A m \in Nodes : known'[m] >= known[m]
  BY DEF StoreInv, TypeOK, RaftTypeOK, Commit, Committed
<1>3. QED
  BY <1>1, <1>2, LogStep DEF Commit, Committed

\* A node learns that more of the log is committed.
LEMMA KnownStep ==
  ASSUME StoreInv, TypeOK', UNCHANGED <<log, callVars, fsmVars, states>>,
         \A n \in Nodes : known'[n] >= known[n],
         \A t \in Terms : \A i \in 1 .. Len(pend'[t]) : pend'[t][i] \in SentCalls
  PROVE  StoreInv'
<1>1. UNCHANGED <<call, cmd, fsm, applied, snap, disk>> /\ SentCalls' = SentCalls
  BY DEF callVars, fsmVars, SentCalls
<1>2. HistoryFollowsLog'
  BY <1>1 DEF StoreInv, HistoryFollowsLog
<1>3. ReplicasFollowLog'
  BY <1>1 DEF StoreInv, TypeOK, RaftTypeOK, ReplicasFollowLog
<1>4. SnapshotsFollowLog'
  BY <1>1 DEF StoreInv, SnapshotsFollowLog, Follows
<1>5. QED
  BY <1>2, <1>3, <1>4 DEF StoreInv

LEMMA EstablishKeepsInv ==
  ASSUME StoreInv, NEW n \in Nodes, Establish(n)
  PROVE  StoreInv'
<1>1. pend' \in [Terms -> Seq(Requests)]
      /\ \A t \in Terms : \A i \in 1 .. Len(pend'[t]) : pend'[t][i] \in SentCalls
  BY DEF StoreInv, TypeOK, RaftTypeOK, HistoryFollowsLog, Establish, Established
<1>2. known' \in [Nodes -> 0 .. Len(log)] /\ \A m \in Nodes : known'[m] >= known[m]
  BY DEF StoreInv, TypeOK, RaftTypeOK, Establish, Established
<1>3. TypeOK'
  BY <1>1, <1>2
     DEF StoreInv, TypeOK, RaftTypeOK, Establish, Established, callVars, fsmVars
<1>4. QED
  BY <1>1, <1>2, <1>3, KnownStep DEF Establish, Established

LEMMA LearnKeepsInv ==
  ASSUME StoreInv, NEW n \in Nodes, Learn(n)
  PROVE  StoreInv'
<1>1. known' \in [Nodes -> 0 .. Len(log)] /\ \A m \in Nodes : known'[m] >= known[m]
  BY DEF StoreInv, TypeOK, RaftTypeOK, Learn, Learned
<1>2. TypeOK'
  BY <1>1 DEF StoreInv, TypeOK, RaftTypeOK, Learn, Learned, callVars, fsmVars
<1>3. QED
  BY <1>1, <1>2, KnownStep DEF StoreInv, HistoryFollowsLog, Learn, Learned

----------------------------------------------------------------------------
(* The FSM of a node, its snapshots and its process.                       *)

\* The database at any index of the log has the right type.
LEMMA StatesType ==
  ASSUME StoreInv
  PROVE  /\ states \in Seq(DB) /\ Len(states) = Len(log) + 1 /\ Len(log) \in Nat
         /\ \A n \in Nodes : /\ applied[n] \in Nat /\ known[n] \in 0 .. Len(log)
                            /\ applied[n] <= known[n] /\ fsm[n] = states[applied[n] + 1]
         /\ EmptyDB = states[1]
BY DEF StoreInv, TypeOK, RaftTypeOK, HistoryFollowsLog, ReplicasFollowLog

LEMMA ApplyNextKeepsInv ==
  ASSUME StoreInv, NEW n \in Nodes, ApplyNext(n)
  PROVE  StoreInv'
<1> DEFINE r == log[applied[n] + 1]
<1>1. /\ applied[n] \in Nat /\ applied[n] + 1 \in 1 .. Len(log)
      /\ applied[n] + 1 <= known[n] /\ r \in Requests /\ r \in SentCalls
      /\ states[applied[n] + 2] = ApplyCommand(states[applied[n] + 1], cmd[r])
      /\ applied[n] + 2 \in 1 .. Len(states)
  BY DEF StoreInv, TypeOK, RaftTypeOK, HistoryFollowsLog, ApplyNext
<1> HIDE DEF r
<1>2. /\ call' = [call EXCEPT ![r] = IF node[r] = n /\ call[r] = "waiting" THEN "ok" ELSE call[r]]
      /\ fsm' = [fsm EXCEPT ![n] = ApplyCommand(fsm[n], cmd[r])]
      /\ applied' = [applied EXCEPT ![n] = applied[n] + 1]
      /\ UNCHANGED <<raftVars, cmd, node, before, snap, disk, states>>
  BY DEF ApplyNext, r
<1>3. call' \in [Requests -> Calls] /\ SentCalls' = SentCalls
  BY <1>2 DEF StoreInv, TypeOK, Calls, Answers, SentCalls
<1>4. fsm[n] = states[applied[n] + 1]
  BY DEF StoreInv, ReplicasFollowLog
<1>5. ApplyCommand(fsm[n], cmd[r]) = states[applied[n] + 2] /\ states[applied[n] + 2] \in DB
  BY <1>1, <1>4 DEF StoreInv, TypeOK
<1>6. TypeOK'
  <2>1. \A s \in Requests : call'[s] # "idle" => call[s] # "idle"
    BY <1>3 DEF SentCalls
  <2>2. QED
    BY SMTT(30), <1>1, <1>2, <1>3, <1>5, <2>1 DEF StoreInv, TypeOK, RaftTypeOK, raftVars
<1>7. HistoryFollowsLog'
  BY <1>2, <1>3 DEF StoreInv, HistoryFollowsLog, raftVars
<1>8. ReplicasFollowLog'
  BY <1>1, <1>2, <1>5 DEF StoreInv, TypeOK, ReplicasFollowLog, raftVars
<1>9. SnapshotsFollowLog'
  BY <1>2 DEF StoreInv, SnapshotsFollowLog, Follows
<1>10. QED
  BY <1>6, <1>7, <1>8, <1>9 DEF StoreInv

LEMMA SnapshotsKeepInv ==
  ASSUME StoreInv, NEW n \in Nodes, TakeSnapshot(n) \/ Persist(n) \/ PersistFails(n)
  PROVE  StoreInv'
<1>1. UNCHANGED <<up, crashes, leads, maxTerm, lastTerm, pend, log, known,
                  call, cmd, node, before, fsm, applied, states>>
  BY DEF TakeSnapshot, Persist, PersistFails, raftVars, callVars
<1>2. \A s \in Snapshots : Follows(s)' <=> Follows(s)
  BY <1>1 DEF Follows
<1>3. /\ [index |-> applied[n], db |-> fsm[n]] \in Snapshots
      /\ Follows([index |-> applied[n], db |-> fsm[n]])
  BY DEF StoreInv, TypeOK, Snapshots, ReplicasFollowLog, Follows
<1>4. snap' \in [Nodes -> Snapshots \cup {None}] /\ disk' \in [Nodes -> Snapshots]
  BY <1>3 DEF StoreInv, TypeOK, TakeSnapshot, Persist, PersistFails
<1>5. SnapshotsFollowLog'
  <2>1. \A m \in Nodes : Follows(disk'[m])
    BY DEF StoreInv, TypeOK, SnapshotsFollowLog, TakeSnapshot, Persist, PersistFails
  <2>2. \A m \in Nodes : snap'[m] # None => Follows(snap'[m])
    BY <1>3 DEF StoreInv, TypeOK, SnapshotsFollowLog, TakeSnapshot, Persist, PersistFails
  <2>3. QED
    BY <1>1, <2>1, <2>2 DEF SnapshotsFollowLog, Follows
<1>6. TypeOK'
  BY <1>1, <1>4 DEF StoreInv, TypeOK, RaftTypeOK
<1>7. HistoryFollowsLog' /\ ReplicasFollowLog'
  BY <1>1 DEF StoreInv, HistoryFollowsLog, ReplicasFollowLog, SentCalls
<1>8. QED
  BY <1>5, <1>6, <1>7 DEF StoreInv

LEMMA InstallSnapshotKeepsInv ==
  ASSUME StoreInv, NEW n \in Nodes, InstallSnapshot(n)
  PROVE  StoreInv'
<1>1. PICK m \in Nodes : /\ Restore(n, disk[m])
                         /\ disk' = [disk EXCEPT ![n] = disk[m]]
                         /\ Loaded(n, disk[m].index)
  BY DEF InstallSnapshot
<1>2. UNCHANGED <<up, crashes, leads, maxTerm, lastTerm, pend, log,
                  call, cmd, node, before, snap, states>>
  BY <1>1 DEF InstallSnapshot, Loaded, callVars
<1>3. /\ disk[m] \in Snapshots /\ disk[m].db \in DB /\ disk[m].index \in 0 .. Len(log)
      /\ disk[m].db = states[disk[m].index + 1] /\ disk[m].index < Len(states)
  BY StatesType DEF StoreInv, TypeOK, Snapshots, SnapshotsFollowLog, Follows
<1>4. TypeOK'
  BY SMTT(30), <1>1, <1>2, <1>3 DEF StoreInv, TypeOK, RaftTypeOK, Restore, Loaded
<1>5. HistoryFollowsLog'
  BY <1>2 DEF StoreInv, HistoryFollowsLog, SentCalls
<1>6. ReplicasFollowLog'
  BY SMTT(30), <1>1, <1>2, <1>3 DEF StoreInv, TypeOK, RaftTypeOK, ReplicasFollowLog, Restore, Loaded
<1>7. SnapshotsFollowLog'
  BY <1>1, <1>2 DEF StoreInv, TypeOK, SnapshotsFollowLog, Follows
<1>8. QED
  BY <1>4, <1>5, <1>6, <1>7 DEF StoreInv

LEMMA CrashKeepsInv ==
  ASSUME StoreInv, NEW n \in Nodes, Crash(n)
  PROVE  StoreInv'
<1>1. call' \in [Requests -> Calls] /\ SentCalls' = SentCalls
  BY DEF StoreInv, TypeOK, Crash, CallsAt, Calls, Answers, SentCalls
<1>2. RaftTypeOK'
  BY MaxTermAssumption, MaxCrashesAssumption
     DEF StoreInv, TypeOK, RaftTypeOK, Crash, Crashed
<1>3. TypeOK'
  <2>1. \A s \in Requests : call'[s] # "idle" => call[s] # "idle"
    BY <1>1 DEF SentCalls
  <2>2. QED
    BY <1>1, <1>2, <2>1, EmptyDBType DEF StoreInv, TypeOK, Crash, Crashed
<1>4. HistoryFollowsLog'
  BY <1>1 DEF StoreInv, HistoryFollowsLog, Crash, Crashed
<1>6. ReplicasFollowLog'
  <2>1. /\ fsm' = [fsm EXCEPT ![n] = EmptyDB] /\ fsm \in [Nodes -> DB]
        /\ applied' = [applied EXCEPT ![n] = 0] /\ applied \in [Nodes -> Nat]
        /\ known' = [known EXCEPT ![n] = 0] /\ known \in [Nodes -> 0 .. Len(log)]
        /\ states' = states
    BY DEF StoreInv, TypeOK, RaftTypeOK, Crash, Crashed
  <2>2. 0 < Len(states) /\ EmptyDB = states[0 + 1]
    BY StatesType
  <2>3. QED
    BY <2>1, <2>2 DEF StoreInv, ReplicasFollowLog
<1>7. SnapshotsFollowLog'
  BY DEF StoreInv, SnapshotsFollowLog, Follows, Crash, Crashed
<1>8. QED
  BY <1>3, <1>4, <1>6, <1>7 DEF StoreInv

LEMMA RestartKeepsInv ==
  ASSUME StoreInv, NEW n \in Nodes, Restart(n)
  PROVE  StoreInv'
<1>1. UNCHANGED <<crashes, leads, maxTerm, lastTerm, pend, log,
                  call, cmd, node, before, snap, disk, states>>
  BY DEF Restart, Loaded, callVars
<1>2. disk[n].db \in DB /\ disk[n].index \in 0 .. Len(log)
      /\ disk[n].db = states[disk[n].index + 1] /\ disk[n].index < Len(states)
  BY StatesType DEF StoreInv, TypeOK, Snapshots, SnapshotsFollowLog, Follows
<1>3. TypeOK'
  BY <1>1, <1>2 DEF StoreInv, TypeOK, RaftTypeOK, Restart, Restore, Loaded
<1>4. HistoryFollowsLog'
  BY <1>1 DEF StoreInv, HistoryFollowsLog, SentCalls
<1>5. ReplicasFollowLog'
  BY SMTT(30), <1>1, <1>2 DEF StoreInv, TypeOK, RaftTypeOK, ReplicasFollowLog, Restart, Restore, Loaded
<1>6. SnapshotsFollowLog'
  BY <1>1 DEF StoreInv, SnapshotsFollowLog, Follows
<1>7. QED
  BY <1>3, <1>4, <1>5, <1>6 DEF StoreInv

LEMMA NextKeepsInv == StoreInv /\ [Next]_vars => StoreInv'
<1> SUFFICES ASSUME StoreInv, [Next]_vars
             PROVE  StoreInv'
  OBVIOUS
<1>1. CASE \E r \in Requests : CallStep(r)
  BY <1>1, ReceiveKeepsInv, ProposeKeepsInv, TimeoutsKeepInv DEF CallStep
<1>2. ASSUME NEW n \in Nodes, RaftStep(n)
      PROVE  StoreInv'
  BY <1>2, ElectKeepsInv, InheritKeepsInv, EstablishKeepsInv, CommitKeepsInv,
     LearnKeepsInv, StepDownKeepsInv DEF RaftStep
<1>3. ASSUME NEW n \in Nodes, FSMStep(n)
      PROVE  StoreInv'
  BY <1>3, ApplyNextKeepsInv, SnapshotsKeepInv, InstallSnapshotKeepsInv DEF FSMStep
<1>4. ASSUME NEW n \in Nodes, Crash(n) \/ Restart(n)
      PROVE  StoreInv'
  BY <1>4, CrashKeepsInv, RestartKeepsInv
<1>5. CASE UNCHANGED vars
  BY <1>5, StageStep
     DEF StoreInv, TypeOK, RaftTypeOK, vars, raftVars, callVars, SentCalls
<1>6. QED
  BY <1>1, <1>2, <1>3, <1>4, <1>5 DEF Next

(***************************************************************************)
(* Types, the history of databases, the replicas and the snapshots hold    *)
(* together as one inductive invariant: none of them is inductive alone.   *)
(***************************************************************************)
THEOREM StoreInvariant == Spec => []StoreInv
BY InitStoreInv, NextKeepsInv, PTL DEF Spec

\* No call, crash or snapshot takes the store out of its types.
THEOREM StoreTypeCorrect == Spec => []TypeOK
BY StoreInvariant, PTL DEF StoreInv

(***************************************************************************)
(* Every node holds exactly what the committed calls up to its own index   *)
(* make of an empty database - on any number of nodes, with any commands   *)
(* and any number of elections and crashes.                                *)
(***************************************************************************)
THEOREM ReplicasAlwaysFollowLog == Spec => []ReplicasFollowLog
BY StoreInvariant, PTL DEF StoreInv

\* A snapshot, on disk or being written, is the database at its index.
THEOREM SnapshotsAlwaysFollowLog == Spec => []SnapshotsFollowLog
BY StoreInvariant, PTL DEF StoreInv

----------------------------------------------------------------------------
(* What commands preserve holds on every node.                             *)

HistorySolvent == \A i \in 1 .. Len(states) : Solvent(states[i])

\* A new database is the newest one after one more command.
LEMMA HistoryGrows ==
  ASSUME StoreInv, [Next]_vars
  PROVE  \/ UNCHANGED states
         \/ \E c \in Commands :
              states' = Append(states, ApplyCommand(states[Len(states)], c))
<1>1. CASE \E n \in Nodes : Inherit(n) \/ Commit(n)
  <2>1. PICK t \in Terms : /\ pend[t] # <<>> /\ log' = Append(log, Head(pend[t]))
                           /\ Record /\ UNCHANGED <<call, cmd>>
    BY <1>1 DEF Inherit, Commit, Inherited, Committed, Current, IsLeader, callVars,
                StoreInv, TypeOK, RaftTypeOK
  <2>2. PICK r \in Requests : r = Head(pend[t]) /\ call[r] # "idle"
    BY <2>1 DEF StoreInv, TypeOK, RaftTypeOK, HistoryFollowsLog, SentCalls
  <2>3. log'[Len(log')] = r
    BY <2>1, <2>2 DEF StoreInv, TypeOK, RaftTypeOK
  <2>4. cmd[r] \in Commands
    BY <2>2, ClientCommandsAssumption DEF StoreInv, TypeOK
  <2> QED BY <2>1, <2>3, <2>4 DEF Record
<1>2. CASE ~\E n \in Nodes : Inherit(n) \/ Commit(n)
  BY <1>2 DEF Next, CallStep, Receive, Propose, EnqueueTimeout, WriteTimeout, RaftStep, Elect,
              Establish, Learn, StepDown, FSMStep, ApplyNext, TakeSnapshot, Persist,
              PersistFails, InstallSnapshot, Crash, Restart, vars
<1> QED BY <1>1, <1>2

\* The database of the committed calls.
FSM == INSTANCE PrinterFSM WITH db <- states[Len(states)]

\* PrinterFSM has the same commands as the nodes.
LEMMA FSMHasSameCommands ==
  /\ FSM!EmptyDB = EmptyDB
  /\ \A d, c : FSM!ApplyCommand(d, c) = ApplyCommand(d, c)
  /\ FSM!PrinterCommands = PrinterCommands /\ FSM!FilamentCommands = FilamentCommands
  /\ FSM!JobCommands = JobCommands /\ FSM!UpdateCommands = UpdateCommands
<1>1. \A x : FSM!Wrap(x) = Wrap(x)
  BY DEF FSM!Wrap, Wrap
<1>2. \A x, y : FSM!Deduct(x, y) = Deduct(x, y)
  BY <1>1 DEF FSM!Deduct, Deduct
<1>3. \A x, y : /\ FSM!Charges(x, y) <=> Charges(x, y)
                /\ FSM!ValidTransition(x, y) <=> ValidTransition(x, y)
  BY DEF FSM!Charges, Charges, FSM!ValidTransition, ValidTransition
<1>4. \A d, c : FSM!UpdateResult(d, c) = UpdateResult(d, c)
  BY <1>3 DEF FSM!UpdateResult, UpdateResult
<1>5. \A d, c : FSM!ApplyUpdatePrintJobStatus(d, c) = ApplyUpdatePrintJobStatus(d, c)
  BY <1>2, <1>3, <1>4 DEF FSM!ApplyUpdatePrintJobStatus, ApplyUpdatePrintJobStatus
<1>6. \A d, c : /\ FSM!ApplyAddPrinter(d, c) = ApplyAddPrinter(d, c)
                /\ FSM!ApplyAddFilament(d, c) = ApplyAddFilament(d, c)
                /\ FSM!ApplyAddPrintJob(d, c) = ApplyAddPrintJob(d, c)
  BY DEF FSM!ApplyAddPrinter, ApplyAddPrinter, FSM!ApplyAddFilament, ApplyAddFilament,
         FSM!ApplyAddPrintJob, ApplyAddPrintJob, FSM!Unset, Unset
<1>7. \A d, c : FSM!ApplyCommand(d, c) = ApplyCommand(d, c)
  BY <1>5, <1>6 DEF FSM!ApplyCommand, ApplyCommand
<1> QED BY <1>7 DEF FSM!EmptyDB, EmptyDB, FSM!PrinterCommands, PrinterCommands,
                    FSM!FilamentCommands, FilamentCommands, FSM!JobCommands, JobCommands,
                    FSM!UpdateCommands, UpdateCommands, FSM!Unset, Unset,
                    FSM!Statuses, Statuses

(***************************************************************************)
(* All nodes together are one PrinterFSM: the database of the committed    *)
(* calls starts empty and changes by whole commands that a handler let     *)
(* through, one at a time, and by nothing else - no election, crash or     *)
(* snapshot.  Whatever holds of one PrinterFSM holds of it.                *)
(***************************************************************************)
THEOREM CommittedCallsAreOneFSM == Spec => FSM!Spec
<1>1. Init => FSM!Init
  BY FSMHasSameCommands DEF Init, FSM!Init
<1>2. StoreInv /\ [Next]_vars => [FSM!Next]_(states[Len(states)])
  <2> SUFFICES ASSUME StoreInv, [Next]_vars,
                      NEW c \in Commands,
                      states' = Append(states, ApplyCommand(states[Len(states)], c))
               PROVE  FSM!Next
    BY HistoryGrows
  <2>1. states'[Len(states')] = ApplyCommand(states[Len(states)], c)
    BY DEF StoreInv, TypeOK
  <2>2. FSM!Execute(c)
    BY <2>1, FSMHasSameCommands DEF FSM!Execute
  <2> QED BY <2>2, FSMHasSameCommands
          DEF Commands, FSM!Next, FSM!AddPrinter, FSM!AddFilament, FSM!AddPrintJob,
              FSM!UpdatePrintJobStatus
<1> QED BY <1>1, <1>2, StoreInvariant, PTL DEF Spec, FSM!Spec

LEMMA HistoryStaysSolvent ==
  ASSUME Weights \subseteq Nat, StoreInv, HistorySolvent, [Next]_vars
  PROVE  HistorySolvent'
<1>1. CASE UNCHANGED states
  BY <1>1 DEF HistorySolvent
<1>2. ASSUME NEW c \in Commands,
             states' = Append(states, ApplyCommand(states[Len(states)], c))
      PROVE  HistorySolvent'
  <2>1. states \in Seq(DB) /\ Len(states) \in 1 .. Len(states)
    BY DEF StoreInv, TypeOK, RaftTypeOK, HistoryFollowsLog
  <2>2. states[Len(states)] \in DB /\ Solvent(states[Len(states)])
    BY <2>1 DEF HistorySolvent
  <2>3. Solvent(ApplyCommand(states[Len(states)], c))
    BY <1>2, <2>2, ApplyCommandKeepsSolvent
  <2> QED BY <1>2, <2>1, <2>3 DEF HistorySolvent
<1> QED BY <1>1, <1>2, HistoryGrows

(***************************************************************************)
(* With non-negative weights no GET at any node shows a filament below     *)
(* zero, and no snapshot holds one: not while a node catches up, nor after *)
(* it restarted from an old snapshot or received one, nor when a retried   *)
(* or inherited update charges a roll that others have emptied meanwhile.  *)
(***************************************************************************)
THEOREM NodesNeverOverdraw ==
  ASSUME Weights \subseteq Nat
  PROVE  Spec => [](\A n \in Nodes : /\ Solvent(fsm[n]) /\ Solvent(disk[n].db)
                                     /\ snap[n] # None => Solvent(snap[n].db))
<1>1. Init => HistorySolvent
  BY EmptyDBSolvent DEF Init, HistorySolvent
<1>2. StoreInv /\ HistorySolvent /\ [Next]_vars => HistorySolvent'
  BY HistoryStaysSolvent
<1>3. StoreInv /\ HistorySolvent =>
        \A n \in Nodes : /\ Solvent(fsm[n]) /\ Solvent(disk[n].db)
                         /\ snap[n] # None => Solvent(snap[n].db)
  <2> SUFFICES ASSUME StoreInv, HistorySolvent, NEW n \in Nodes
               PROVE  /\ Solvent(fsm[n]) /\ Solvent(disk[n].db)
                      /\ snap[n] # None => Solvent(snap[n].db)
    OBVIOUS
  <2>1. ASSUME NEW i \in Nat, i < Len(states)
        PROVE  Solvent(states[i + 1])
    BY <2>1 DEF HistorySolvent, StoreInv, TypeOK
  <2>2. applied[n] \in Nat /\ disk[n].index \in Nat /\ (snap[n] # None => snap[n].index \in Nat)
    BY DEF StoreInv, TypeOK, Snapshots
  <2> QED BY <2>1, <2>2 DEF StoreInv, ReplicasFollowLog, SnapshotsFollowLog, Follows
<1> QED BY <1>1, <1>2, <1>3, StoreInvariant, PTL DEF Spec
=============================================================================
