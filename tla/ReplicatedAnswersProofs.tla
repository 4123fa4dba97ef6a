----------------------- MODULE ReplicatedAnswersProofs -----------------------
(***************************************************************************)
(* What clients are told: proofs that the answers of the cluster are true  *)
(* and that no call is committed twice, and that the reads of a node go    *)
(* forward.  The invariant follows every call: it sits in at most one      *)
(* place, in the committed log or in what one leader has appended, and     *)
(* only a call that was handed to raft sits anywhere.                      *)
(***************************************************************************)
EXTENDS ReplicatedStoreProofs

USE DEF Terms

\* Calls that raft has not seen, and will not see if they are refused.
Outside(r) == call[r] \in {"idle", "checked", "refused"}

OnceInLog == \A i, j \in 1 .. Len(log) : log[i] = log[j] => i = j

OnceInPend ==
  \A t, u \in Terms : \A i \in 1 .. Len(pend[t]), j \in 1 .. Len(pend[u]) :
    pend[t][i] = pend[u][j] => t = u /\ i = j

LogOrPend ==
  \A t \in Terms : \A i \in 1 .. Len(pend[t]), j \in 1 .. Len(log) : pend[t][i] # log[j]

LogKnowsCall == \A j \in 1 .. Len(log) : ~Outside(log[j])

PendKnowsCall == \A t \in Terms : \A i \in 1 .. Len(pend[t]) : ~Outside(pend[t][i])

OkIsCommitted == \A r \in Requests : call[r] = "ok" => \E j \in 1 .. Len(log) : log[j] = r

OnceInv == /\ OnceInLog /\ OnceInPend /\ LogOrPend
           /\ LogKnowsCall /\ PendKnowsCall /\ OkIsCommitted

LEMMA InitOnceInv == Init => OnceInv
BY DEF Init, RaftInit, OnceInv, OnceInLog, OnceInPend, LogOrPend, LogKnowsCall,
       PendKnowsCall, OkIsCommitted

\* Nothing enters the log or a pending sequence, and no call becomes ok or an
\* outsider.
LEMMA QuietOnce ==
  ASSUME StoreInv, OnceInv, UNCHANGED <<log, pend>>, call' \in [Requests -> Calls],
         \A r \in Requests : /\ call'[r] = "ok" => \/ call[r] = "ok"
                                                  \/ \E j \in 1 .. Len(log) : log[j] = r
                             /\ call'[r] \in {"idle", "checked", "refused"} => Outside(r)
  PROVE  OnceInv'
<1>1. \A t \in Terms : \A i \in 1 .. Len(pend[t]) : pend[t][i] \in Requests
  BY DEF StoreInv, TypeOK, RaftTypeOK
<1>2. \A j \in 1 .. Len(log) : log[j] \in Requests
  BY DEF StoreInv, TypeOK, RaftTypeOK
<1>3. OnceInLog' /\ OnceInPend' /\ LogOrPend'
  BY DEF OnceInv, OnceInLog, OnceInPend, LogOrPend
<1>4. LogKnowsCall' /\ PendKnowsCall'
  BY <1>1, <1>2 DEF OnceInv, LogKnowsCall, PendKnowsCall, Outside
<1>5. OkIsCommitted'
  BY DEF OnceInv, OkIsCommitted
<1>6. QED
  BY <1>3, <1>4, <1>5 DEF OnceInv

LEMMA HandlersKeepOnce ==
  ASSUME StoreInv, OnceInv, NEW r \in Requests,
         \/ \E n \in Nodes, c \in ClientCommands : Receive(r, n, c)
         \/ EnqueueTimeout(r) \/ WriteTimeout(r)
  PROVE  OnceInv'
<1>1. UNCHANGED <<log, pend>>
  BY DEF Receive, EnqueueTimeout, WriteTimeout, raftVars
<1>2. call' \in [Requests -> Calls] /\ \A s \in Requests : s # r => call'[s] = call[s]
  BY DEF StoreInv, TypeOK, Receive, EnqueueTimeout, WriteTimeout, Calls, Answers
<1>3. call'[r] # "ok" /\ (call'[r] \in {"idle", "checked", "refused"} => Outside(r))
  BY DEF StoreInv, TypeOK, Receive, EnqueueTimeout, WriteTimeout, Outside
<1>4. QED
  BY <1>1, <1>2, <1>3, QuietOnce DEF Outside

LEMMA ProposeKeepsOnce ==
  ASSUME StoreInv, OnceInv, NEW r \in Requests, Propose(r)
  PROVE  OnceInv'
<1>1. /\ call[r] = "checked" /\ call \in [Requests -> Calls]
      /\ call' \in [Requests -> Calls] /\ call'[r] \in {"waiting", "error"}
      /\ \A s \in Requests : s # r => call'[s] = call[s]
  BY DEF StoreInv, TypeOK, Propose, Calls, Answers
<1>2. CASE UNCHANGED raftVars
  BY <1>1, <1>2, QuietOnce DEF Outside, raftVars
<1>3. CASE Appended(node[r], r)
  <2> DEFINE t0 == leads[node[r]]
  <2>1. t0 \in Terms
    BY <1>3, MaxTermAssumption DEF StoreInv, TypeOK, RaftTypeOK, Propose, Appended, IsLeader
  <2>2. /\ pend[t0] \in Seq(Requests) /\ log' = log /\ log \in Seq(Requests)
        /\ pend' = [pend EXCEPT ![t0] = Append(pend[t0], r)]
        /\ pend \in [Terms -> Seq(Requests)]
    BY <1>3, <2>1 DEF StoreInv, TypeOK, RaftTypeOK, Appended
  <2> HIDE DEF t0
  <2>3. \A t \in Terms : \A i \in 1 .. Len(pend'[t]) :
          \/ i \in 1 .. Len(pend[t]) /\ pend'[t][i] = pend[t][i]
          \/ t = t0 /\ i = Len(pend[t0]) + 1 /\ pend'[t][i] = r
    BY <2>1, <2>2
  <2>4. \A t \in Terms : \A i \in 1 .. Len(pend[t]) : pend[t][i] # r
    BY <1>1 DEF OnceInv, PendKnowsCall, Outside
  <2>5. \A j \in 1 .. Len(log) : log[j] # r /\ log[j] \in Requests
    BY <1>1, <2>2 DEF OnceInv, LogKnowsCall, Outside
  <2>6. \A t \in Terms : \A i \in 1 .. Len(pend[t]) : pend[t][i] \in Requests
    BY <2>2
  <2>7. OnceInPend'
    BY <2>1, <2>2, <2>3, <2>4 DEF OnceInv, OnceInPend
  <2>8. LogOrPend' /\ OnceInLog'
    BY <2>2, <2>3, <2>5 DEF OnceInv, LogOrPend, OnceInLog
  <2>9. LogKnowsCall' /\ PendKnowsCall'
    BY <1>1, <2>2, <2>3, <2>4, <2>5, <2>6 DEF OnceInv, LogKnowsCall, PendKnowsCall, Outside
  <2>10. OkIsCommitted'
    BY <1>1, <2>2 DEF OnceInv, OkIsCommitted
  <2>11. QED
    BY <2>7, <2>8, <2>9, <2>10 DEF OnceInv
<1>4. QED
  BY <1>2, <1>3 DEF Propose

\* The head of a pending sequence moves to the end of the log.
LEMMA CommitKeepsOnce ==
  ASSUME StoreInv, OnceInv, NEW t0 \in Terms, pend[t0] # <<>>,
         log' = Append(log, Head(pend[t0])),
         pend' = [pend EXCEPT ![t0] = Tail(pend[t0])], call' = call
  PROVE  OnceInv'
<1> DEFINE r == Head(pend[t0])
<1>1. /\ pend \in [Terms -> Seq(Requests)] /\ pend[t0] \in Seq(Requests)
      /\ log \in Seq(Requests) /\ Len(pend[t0]) \in Nat /\ Len(pend[t0]) >= 1
      /\ r = pend[t0][1] /\ r \in Requests
  <2>1. /\ pend \in [Terms -> Seq(Requests)] /\ log \in Seq(Requests)
        /\ pend[t0] \in Seq(Requests)
    BY DEF StoreInv, TypeOK, RaftTypeOK
  <2>2. Len(pend[t0]) \in Nat /\ Len(pend[t0]) >= 1 /\ r = pend[t0][1]
    BY <2>1
  <2>3. QED
    BY <2>1, <2>2
<1>2. /\ Len(log') = Len(log) + 1 /\ log'[Len(log) + 1] = r /\ Len(log) \in Nat
      /\ \A j \in 1 .. Len(log) : log'[j] = log[j]
  BY <1>1
<1> HIDE DEF r
<1>0. \A t \in Terms : pend'[t] = IF t = t0 THEN Tail(pend[t0]) ELSE pend[t]
  BY <1>1
<1>3. \A t \in Terms : \A i \in 1 .. Len(pend'[t]) :
        \/ t # t0 /\ pend'[t] = pend[t] /\ i \in 1 .. Len(pend[t])
        \/ t = t0 /\ i + 1 \in 1 .. Len(pend[t]) /\ pend'[t][i] = pend[t][i + 1]
           /\ i + 1 # 1
  BY <1>0, <1>1
<1>4. \A t \in Terms : \A i \in 1 .. Len(pend'[t]) : pend'[t][i] # r
  BY <1>1, <1>3 DEF OnceInv, OnceInPend
<1>5. \A j \in 1 .. Len(log) : log[j] # r
  BY <1>1 DEF OnceInv, LogOrPend
<1>6. \A t \in Terms : \A i \in 1 .. Len(pend'[t]) :
        \E k \in 1 .. Len(pend[t]) : pend'[t][i] = pend[t][k]
  BY <1>3
<1>7. OnceInPend'
  <2>1. SUFFICES ASSUME NEW t \in Terms, NEW u \in Terms,
                        NEW i \in 1 .. Len(pend'[t]), NEW j \in 1 .. Len(pend'[u]),
                        pend'[t][i] = pend'[u][j]
                 PROVE  t = u /\ i = j
    BY DEF OnceInPend
  <2>2. PICK k \in 1 .. Len(pend[t]) :
          pend'[t][i] = pend[t][k] /\ k = (IF t = t0 THEN i + 1 ELSE i)
    BY <1>3
  <2>3. PICK l \in 1 .. Len(pend[u]) :
          pend'[u][j] = pend[u][l] /\ l = (IF u = t0 THEN j + 1 ELSE j)
    BY <1>3
  <2>4. t = u /\ k = l
    BY <2>1, <2>2, <2>3 DEF OnceInv, OnceInPend
  <2>5. QED
    BY <2>2, <2>3, <2>4
<1>8. LogOrPend' /\ OnceInLog'
  <2>1. \A j \in 1 .. Len(log') :
          \/ j \in 1 .. Len(log) /\ log'[j] = log[j] /\ log'[j] # r
          \/ j = Len(log) + 1 /\ log'[j] = r
    BY <1>2, <1>5
  <2>2. OnceInLog'
    BY <1>2, <2>1 DEF OnceInv, OnceInLog
  <2>3. \A t \in Terms : \A i \in 1 .. Len(pend'[t]) :
          \A j \in 1 .. Len(log) : pend'[t][i] # log[j]
    <3>1. TAKE t \in Terms
    <3>2. TAKE i \in 1 .. Len(pend'[t])
    <3>3. PICK k \in 1 .. Len(pend[t]) : pend'[t][i] = pend[t][k]
      BY <1>6
    <3>4. \A j \in 1 .. Len(log) : pend[t][k] # log[j]
      BY DEF OnceInv, LogOrPend
    <3>5. QED
      BY <3>3, <3>4
  <2>4. LogOrPend'
    <3>1. SUFFICES ASSUME NEW t \in Terms, NEW i \in 1 .. Len(pend'[t]),
                          NEW j \in 1 .. Len(log')
                   PROVE  pend'[t][i] # log'[j]
      BY DEF LogOrPend
    <3>2. pend'[t][i] # r
      BY <1>4
    <3>3. QED
      BY <2>1, <2>3, <3>2
  <2>5. QED
    BY <2>2, <2>4
<1>9. LogKnowsCall' /\ PendKnowsCall'
  BY <1>1, <1>2, <1>6 DEF OnceInv, LogKnowsCall, PendKnowsCall, Outside
<1>10. OkIsCommitted'
  BY <1>2 DEF OnceInv, OkIsCommitted
<1>11. QED
  BY <1>7, <1>8, <1>9, <1>10 DEF OnceInv

\* A new leader drops what older terms left behind.
LEMMA EstablishKeepsOnce ==
  ASSUME StoreInv, OnceInv, NEW n \in Nodes, Establish(n)
  PROVE  OnceInv'
<1>1. log' = log /\ call' = call /\ pend' = [t \in Terms |-> IF t < maxTerm THEN <<>> ELSE pend[t]]
  BY DEF Establish, Established, callVars
<1>2. \A t \in Terms : \A i \in 1 .. Len(pend'[t]) :
        pend'[t] = pend[t] /\ i \in 1 .. Len(pend[t])
  BY <1>1
<1>3. OnceInPend' /\ LogOrPend' /\ OnceInLog'
  BY <1>1, <1>2 DEF OnceInv, OnceInPend, LogOrPend, OnceInLog
<1>4. LogKnowsCall' /\ PendKnowsCall' /\ OkIsCommitted'
  BY <1>1, <1>2 DEF OnceInv, LogKnowsCall, PendKnowsCall, OkIsCommitted, Outside
<1>5. QED
  BY <1>3, <1>4 DEF OnceInv

LEMMA RaftKeepsOnce ==
  ASSUME StoreInv, OnceInv, NEW n \in Nodes, RaftStep(n)
  PROVE  OnceInv'
<1>1. CASE Elect(n) \/ Learn(n)
  BY <1>1, QuietOnce
     DEF StoreInv, TypeOK, Elect, Elected, Learn, Learned, callVars, Outside
<1>2. CASE Inherit(n)
  BY <1>2, CommitKeepsOnce DEF Inherit, Inherited, callVars
<1>3. CASE Commit(n)
  <2>1. maxTerm \in Terms
    BY <1>3, MaxTermAssumption
       DEF StoreInv, TypeOK, RaftTypeOK, Commit, Committed, Current, IsLeader
  <2>2. QED
    BY <1>3, <2>1, CommitKeepsOnce DEF Commit, Committed, callVars
<1>4. CASE StepDown(n)
  <2>1. call' \in [Requests -> Calls]
        /\ \A r \in Requests : call'[r] = call[r] \/ call'[r] = "error"
    BY <1>4 DEF StoreInv, TypeOK, StepDown, Calls, Answers
  <2>2. QED
    BY <1>4, <2>1, QuietOnce DEF StepDown, SteppedDown, Outside
<1>5. QED
  BY <1>1, <1>2, <1>3, <1>4, EstablishKeepsOnce DEF RaftStep

LEMMA FSMKeepsOnce ==
  ASSUME StoreInv, OnceInv, NEW n \in Nodes, FSMStep(n)
  PROVE  OnceInv'
<1>1. CASE ApplyNext(n)
  <2> DEFINE r == log[applied[n] + 1]
  <2>1. applied[n] + 1 \in 1 .. Len(log) /\ r \in Requests
    BY <1>1 DEF StoreInv, TypeOK, RaftTypeOK, ApplyNext
  <2> HIDE DEF r
  <2>2. call' = [call EXCEPT ![r] = IF node[r] = n /\ call[r] = "waiting" THEN "ok" ELSE call[r]]
        /\ UNCHANGED <<log, pend>>
    BY <1>1 DEF ApplyNext, raftVars, r
  <2>3. call' \in [Requests -> Calls]
        /\ \A s \in Requests : call'[s] = call[s] \/ (s = r /\ call'[s] = "ok")
    BY <2>1, <2>2 DEF StoreInv, TypeOK, Calls, Answers
  <2>4. \E j \in 1 .. Len(log) : log[j] = r
    BY <2>1 DEF r
  <2>5. QED
    BY <2>2, <2>3, <2>4, QuietOnce DEF Outside
<1>2. CASE ~ApplyNext(n)
  <2>1. UNCHANGED <<call, log, pend>>
    BY <1>2 DEF FSMStep, TakeSnapshot, Persist, PersistFails, InstallSnapshot,
                Loaded, raftVars, callVars
  <2>2. QED
    BY <2>1, QuietOnce DEF StoreInv, TypeOK, Outside
<1>3. QED
  BY <1>1, <1>2

LEMMA ProcessKeepsOnce ==
  ASSUME StoreInv, OnceInv, NEW n \in Nodes, Crash(n) \/ Restart(n)
  PROVE  OnceInv'
<1>1. UNCHANGED <<log, pend>>
  BY DEF Crash, Crashed, Restart, Loaded
<1>2. call' \in [Requests -> Calls]
      /\ \A r \in Requests : call'[r] = call[r] \/ call'[r] = "lost"
  BY DEF StoreInv, TypeOK, Crash, Restart, callVars, Calls, Answers
<1>3. QED
  BY <1>1, <1>2, QuietOnce DEF Outside

LEMMA NextKeepsOnce == StoreInv /\ OnceInv /\ [Next]_vars => OnceInv'
<1> SUFFICES ASSUME StoreInv, OnceInv, [Next]_vars
             PROVE  OnceInv'
  OBVIOUS
<1>1. CASE \E r \in Requests : CallStep(r)
  BY <1>1, HandlersKeepOnce, ProposeKeepsOnce DEF CallStep
<1>2. CASE \E n \in Nodes : RaftStep(n) \/ FSMStep(n) \/ Crash(n) \/ Restart(n)
  BY <1>2, RaftKeepsOnce, FSMKeepsOnce, ProcessKeepsOnce
<1>3. CASE UNCHANGED vars
  BY <1>3, QuietOnce DEF StoreInv, TypeOK, vars, raftVars, callVars, Outside
<1>4. QED
  BY <1>1, <1>2, <1>3 DEF Next

(***************************************************************************)
(* 200 and 201 mean that the call is in the committed log, 412 that it     *)
(* never will be, and no call is committed twice: with any number of       *)
(* leaders, crashes and calls in flight.                                   *)
(***************************************************************************)
THEOREM AnswersAlwaysHonest == Spec => []AnswersAreHonest
<1>1. OnceInv => AnswersAreHonest
  BY DEF OnceInv, OnceInLog, OkIsCommitted, LogKnowsCall, PendKnowsCall, Outside,
         AnswersAreHonest, Executed
<1>2. QED
  BY <1>1, InitOnceInv, NextKeepsOnce, StoreInvariant, PTL DEF Spec

----------------------------------------------------------------------------
(***************************************************************************)
(* While a node runs its reads never go back in time, because a snapshot   *)
(* is only installed beyond everything the node knew to be committed.      *)
(***************************************************************************)
THEOREM ReadsAlwaysGoForward == Spec => ReadsGoForward
<1>1. ASSUME StoreInv, [Next]_vars, NEW n \in up \cap up'
      PROVE  applied'[n] >= applied[n]
  <2>1. n \in Nodes /\ applied \in [Nodes -> Nat] /\ applied[n] \in Nat
    BY <1>1 DEF StoreInv, TypeOK, RaftTypeOK
  <2>2. CASE UNCHANGED applied
    BY <2>1, <2>2
  <2>3. ASSUME NEW m \in Nodes, ApplyNext(m)
        PROVE  applied'[n] >= applied[n]
    BY <2>1, <2>3 DEF ApplyNext
  <2>4. ASSUME NEW m \in Nodes, InstallSnapshot(m)
        PROVE  applied'[n] >= applied[n]
    <3>1. PICK l \in Nodes : disk[l].index > known[m] /\ Restore(m, disk[l])
      BY <2>4 DEF InstallSnapshot
    <3>2. disk[l].index \in Nat /\ known[m] \in Nat /\ applied[m] <= known[m]
          /\ applied[m] \in Nat
      BY <1>1 DEF StoreInv, TypeOK, RaftTypeOK, ReplicasFollowLog, Snapshots
    <3>3. QED
      BY <2>1, <3>1, <3>2 DEF Restore
  <2>5. ASSUME NEW m \in Nodes, Crash(m) \/ Restart(m)
        PROVE  applied'[n] >= applied[n]
    BY <1>1, <2>1, <2>5 DEF Crash, Crashed, Restart, Restore
  <2>6. QED
    BY <1>1, <2>2, <2>3, <2>4, <2>5
       DEF Next, CallStep, Receive, Propose, EnqueueTimeout, WriteTimeout, RaftStep,
           Elect, Inherit, Establish, Commit, Learn, StepDown, FSMStep, TakeSnapshot,
           Persist, PersistFails, vars, fsmVars
<1>2. StoreInv /\ [Next]_vars => [\A n \in up \cap up' : applied'[n] >= applied[n]]_vars
  BY <1>1
<1>3. QED
  BY <1>2, StoreInvariant, PTL DEF Spec, ReadsGoForward
=============================================================================
