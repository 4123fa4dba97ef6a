-------------------------- MODULE MembershipProofs --------------------------
(***************************************************************************)
(* Theorems about Membership, for any number of processes, attempts,       *)
(* elections, stops and deletions, and wherever redirects lead: its types, *)
(* that whatever serves after founding or joining the cluster is a member, *)
(* and that members leave by a DELETE only.                                *)
(***************************************************************************)
EXTENDS Membership, TLAPS

\* Members by the committed configuration, and those a DELETE may have taken out.
Safe == conf \cup condemned

(***************************************************************************)
(* What raft keeps: whoever may still bring a configuration into force has *)
(* every member that no DELETE has named.                                  *)
(***************************************************************************)
RaftInv ==
  /\ newest # None => newest \in rivals
  /\ ready => newest # None /\ rivals = {newest}
  /\ \A p \in rivals : IsLeader(p) /\ known[p] \in drafts \cup {conf}
  /\ \A d \in drafts : d # {} /\ conf \subseteq d \cup condemned

(***************************************************************************)
(* What an AddVoter that is under way, or has succeeded, says of the       *)
(* configurations.                                                         *)
(***************************************************************************)
CallInv ==
  /\ \A c \in calls : c.stage = "appended" => IsLeader(c.at)
  /\ \A c, d \in calls : c.stage = "appended" /\ d.stage = "appended" /\ c.at = d.at => c = d
  /\ \A c \in calls : c.stage = "appended" /\ c.op = "add" /\ c.at \in rivals =>
                        c.id \in known[c.at]
  /\ \A c \in calls : c.stage = "done" => c.id \in Safe

(***************************************************************************)
(* Until somebody founds the cluster nobody serves or leads, and all that  *)
(* a process can be told, by one that was started alone, is that there is  *)
(* no leader.                                                              *)
(***************************************************************************)
Untouched ==
  /\ \A c \in calls : c.stage \in {"redirect", "failed"}
  /\ \A p \in Procs : proc[p] # "serving"

\* Before the bootstrap node has run there is nothing; then it is a member.
FoundedInv ==
  /\ known[Boot] # {} => conf # {} /\ Boot \in Safe
  /\ known[Boot] = {} =>
       /\ Untouched /\ drafts = {} /\ conf = {}
       /\ \A p \in Procs : ~IsLeader(p) /\ known[p] = {}

Inv == TypeOK /\ RaftInv /\ CallInv /\ FoundedInv /\ ServingNodesAreMembers

----------------------------------------------------------------------------
(* Lemmas about the helpers.                                               *)

\* A call that changes its stage keeps the rest.
LEMMA CallChange ==
  ASSUME TypeOK, NEW c \in calls, NEW s \in Stages, Becomes(c, s) \/ Finish(c, s)
  PROVE  /\ calls' \subseteq Calls
         /\ \A d \in calls' : \/ d \in calls \ {c}
                              \/ /\ d.stage = s
                                 /\ d.op = c.op /\ d.id = c.id /\ d.at = c.at
<1>1. c \in Calls /\ calls \subseteq Calls
  BY DEF TypeOK
<1> DEFINE e == [c EXCEPT !.stage = s]
<1>2. e \in Calls /\ e.stage = s /\ e.op = c.op /\ e.id = c.id /\ e.at = c.at
  BY <1>1 DEF Calls
<1>3. calls' \subseteq (calls \ {c}) \cup {e}
  BY DEF Becomes, Finish
<1> HIDE DEF e
<1> QED BY <1>1, <1>2, <1>3

\* What the end of process p leaves of the calls.
LEMMA GoneCalls ==
  ASSUME TypeOK, NEW p \in Procs, Gone(p)
  PROVE  /\ calls' \subseteq Calls
         /\ \A d \in calls' : \E c \in calls :
              /\ d.op = c.op /\ d.id = c.id /\ d.at = c.at
              /\ d.stage = IF c.at = p THEN "failed" ELSE c.stage
              /\ d = [c EXCEPT !.stage = d.stage, !.live = c.live /\ c.id # p]
<1> SUFFICES ASSUME NEW d \in calls'
             PROVE  /\ d \in Calls
                    /\ \E c \in calls :
                         /\ d.op = c.op /\ d.id = c.id /\ d.at = c.at
                         /\ d.stage = IF c.at = p THEN "failed" ELSE c.stage
                         /\ d = [c EXCEPT !.stage = d.stage, !.live = c.live /\ c.id # p]
  OBVIOUS
<1>1. PICK c \in calls : d = [c EXCEPT !.stage = IF c.at = p THEN "failed" ELSE c.stage,
                                       !.live = c.live /\ c.id # p]
  BY DEF Gone
<1>2. c \in Calls
  BY DEF TypeOK
<1>3. /\ d.op = c.op /\ d.id = c.id /\ d.at = c.at
      /\ d.stage = IF c.at = p THEN "failed" ELSE c.stage
  BY <1>1, <1>2 DEF Calls
<1>4. d \in Calls
  <2> DEFINE s == IF c.at = p THEN "failed" ELSE c.stage
             l == c.live /\ c.id # p
  <2>1. s \in Stages /\ l \in BOOLEAN
    BY <1>2 DEF Calls, Stages, Answered
  <2>2. d = [c EXCEPT !.stage = s, !.live = l]
    BY <1>1
  <2> HIDE DEF s, l
  <2> QED BY <1>2, <2>1, <2>2 DEF Calls
<1> QED BY <1>1, <1>3, <1>4

\* GetLeader names processes or nobody.
LEMMA GetLeaderType == TypeOK => \A p \in Procs : GetLeader(p) \subseteq Procs \cup {None}
  BY DEF TypeOK, GetLeader, Without, Configs

----------------------------------------------------------------------------
(* Types.                                                                  *)

LEMMA InitTypes == Init => TypeOK
<1> SUFFICES ASSUME Init PROVE TypeOK
  OBVIOUS
<1> USE BootAssumption, TriesAssumption DEF Init
<1>1. /\ proc \in [Procs -> Places] /\ target \in [Procs -> Procs \cup {None}]
      /\ tries \in [Procs -> 0 .. MaxTries - 1]
  BY DEF Places
<1>2. /\ calls \subseteq Calls /\ conf \in Configs /\ drafts \subseteq Configs
      /\ known \in [Procs -> Configs] /\ condemned \subseteq Procs
  BY DEF Configs
<1>3. /\ role \in [Procs -> {"follower", "leader", "halted"}]
      /\ hint \in [Procs -> Procs \cup {None}]
  OBVIOUS
<1> QED BY <1>1, <1>2, <1>3 DEF TypeOK

LEMMA GoneTypes ==
  ASSUME TypeOK, NEW p \in Procs, Gone(p), stops' \in Nat, deletes' \in Nat
  PROVE  TypeOK'
<1>1. calls' \subseteq Calls
  BY GoneCalls
<1>2. /\ proc' \in [Procs -> Places] /\ target' \in [Procs -> Procs \cup {None}]
      /\ tries' \in [Procs -> 0 .. MaxTries - 1]
  <2>1. 0 \in 0 .. MaxTries - 1 /\ "off" \in Places
    BY TriesAssumption DEF Places
  <2> QED BY <2>1, BootAssumption DEF TypeOK, Gone
<1>3. /\ role' \in [Procs -> {"follower", "leader", "halted"}]
      /\ hint' \in [Procs -> Procs \cup {None}]
      /\ newest' \in Procs \cup {None} /\ rivals' \subseteq Procs
  BY DEF TypeOK, Gone
<1>4. ready' \in BOOLEAN
  BY Zenon DEF TypeOK, Gone
<1> QED BY <1>1, <1>2, <1>3, <1>4 DEF TypeOK, Gone

LEMMA RejectedTypes ==
  ASSUME TypeOK, NEW p \in Procs, Rejected(p), UNCHANGED <<stops, deletes>>
  PROVE  TypeOK'
<1>1. CASE Gone(p)
  BY <1>1, GoneTypes DEF TypeOK
<1>2. CASE ~Gone(p)
  <2>1. /\ tries[p] + 1 # MaxTries /\ tries' = [tries EXCEPT ![p] = @ + 1]
        /\ calls' \subseteq calls
        /\ UNCHANGED <<proc, target, raftVars, condemned>>
    BY <1>2 DEF Rejected
  <2>2. tries' \in [Procs -> 0 .. MaxTries - 1]
    <3>1. tries[p] \in 0 .. MaxTries - 1 /\ tries[p] + 1 \in 0 .. MaxTries - 1
      BY <2>1, TriesAssumption DEF TypeOK
    <3> QED BY <2>1, <3>1 DEF TypeOK
  <2> QED BY <2>1, <2>2 DEF TypeOK, raftVars
<1> QED BY <1>1, <1>2

LEMMA ProcTypes ==
  ASSUME TypeOK, NEW p \in Procs, ProcStep(p)
  PROVE  TypeOK'
<1>1. CASE Call(p)
  <2>1. CASE Rejected(p)
    BY <1>1, <2>1, RejectedTypes DEF Call
  <2>2. CASE ~Rejected(p)
    <3> DEFINE m == target[p]
               s == IF IsLeader(m) THEN "checked" ELSE "redirect"
    <3>1. PICK leader \in IF IsLeader(m) THEN {None} ELSE GetLeader(m) :
            m # None /\ calls' = calls \cup {[op |-> "add", id |-> p, at |-> m, stage |-> s,
                                  leader |-> leader, live |-> TRUE]}
      BY <1>1, <2>2 DEF Call
    <3>2. m \in Procs /\ leader \in Procs \cup {None} /\ s \in Stages
      BY <3>1, GetLeaderType DEF TypeOK, Stages, Answered
    <3> HIDE DEF m, s
    <3>3. calls' \subseteq Calls
      <4>1. [op |-> "add", id |-> p, at |-> m, stage |-> s, leader |-> leader,
             live |-> TRUE] \in Calls
        BY <3>2 DEF Calls
      <4> QED BY <3>1, <4>1 DEF TypeOK
    <3>4. UNCHANGED <<procVars, raftVars, condemned, stops, deletes>>
      BY <1>1, <2>2 DEF Call
    <3> QED BY <3>3, <3>4 DEF TypeOK, procVars, raftVars
  <2> QED BY <2>1, <2>2
<1>2. CASE Accepted(p)
  <2>1. /\ proc' \in [Procs -> Places] /\ target' \in [Procs -> Procs \cup {None}]
        /\ tries' \in [Procs -> 0 .. MaxTries - 1]
    <3>1. 0 \in 0 .. MaxTries - 1 /\ "joining" \in Places /\ "serving" \in Places
      BY TriesAssumption DEF Places
    <3> QED BY <1>2, <3>1, BootAssumption DEF TypeOK, Accepted
  <2> QED BY <1>2, <2>1 DEF TypeOK, Accepted, raftVars
<1>3. CASE Failed(p)
  BY <1>3, RejectedTypes DEF Failed
<1>4. CASE Redirected(p)
  <2>1. CASE Rejected(p)
    BY <1>4, <2>1, RejectedTypes DEF Redirected
  <2>2. CASE ~Rejected(p)
    <3>1. PICK c \in Pending(p) : /\ c.leader # None /\ HttpOf[p][c.leader] # NotAPort
                                  /\ target' = [target EXCEPT ![p] = HttpOf[p][c.leader]]
                                  /\ calls' = calls \ Pending(p)
                                  /\ UNCHANGED <<proc, tries, raftVars, condemned>>
      BY <1>4, <2>2 DEF Redirected
    <3>2. HttpOf[p][c.leader] \in Procs \cup {None}
      <4>1. c.leader \in Procs
        BY <3>1 DEF TypeOK, Pending, Calls
      <4> QED BY <3>1, <4>1, HttpAssumption
    <3> QED BY <1>4, <3>1, <3>2 DEF TypeOK, Redirected, raftVars
  <2> QED BY <2>1, <2>2
<1> QED BY <1>1, <1>2, <1>3, <1>4 DEF ProcStep

\* The configuration that is adopted was in the log of its leader.
LEMMA AdoptedTypes ==
  ASSUME TypeOK, NEW p \in Procs, NEW Q, Adopted(p, Q)
  PROVE  /\ conf' \in Configs /\ drafts' \subseteq Configs
         /\ known' \in [Procs -> Configs] /\ condemned' \subseteq Procs
  BY DEF TypeOK, Adopted

LEMMA CallStepTypes ==
  ASSUME TypeOK, NEW c \in calls, CallStep(c) \/ TooLate(c)
  PROVE  TypeOK'
<1>1. c \in Calls /\ c.at \in Procs /\ c.id \in Procs
  BY DEF TypeOK, Calls
<1>2. \A s \in Stages : Becomes(c, s) \/ Finish(c, s) => calls' \subseteq Calls
  BY CallChange
<1>3. {"failed", "noting", "queued", "appended", "done"} \subseteq Stages
  BY DEF Stages, Answered
<1>4. CASE CheckAgain(c)
  BY <1>2, <1>3, <1>4 DEF CheckAgain, TypeOK, procVars, raftVars
<1>5. CASE Noted(c)
  BY <1>2, <1>3, <1>5 DEF Noted, TypeOK, procVars, raftVars
<1>6. CASE Refuse(c)
  BY <1>2, <1>3, <1>6 DEF Refuse, TypeOK, procVars, raftVars
<1>7. CASE TooLate(c)
  BY <1>2, <1>3, <1>7 DEF TooLate, TypeOK, procVars, raftVars
<1>8. CASE Propose(c)
  <2> DEFINE next == IF c.op = "add" THEN With(known[c.at], c.id) ELSE Without(known[c.at], c.id)
  <2>1. next \in Configs
    BY <1>1 DEF TypeOK, With, Without, Configs
  <2>2. calls' \subseteq Calls
    BY <1>2, <1>3, <1>8 DEF Propose
  <2>3. /\ known' = known \/ known' = [known EXCEPT ![c.at] = next]
        /\ drafts' \subseteq drafts \cup {next}
        /\ condemned' \subseteq condemned \cup {c.id}
    BY <1>8 DEF Propose
  <2> HIDE DEF next
  <2>4. known' \in [Procs -> Configs] /\ drafts' \subseteq Configs /\ condemned' \subseteq Procs
    BY <1>1, <2>1, <2>3 DEF TypeOK
  <2> QED BY <1>8, <2>2, <2>4 DEF Propose, TypeOK, procVars
<1>9. CASE Commit(c)
  <2>1. calls' \subseteq Calls
    BY <1>2, <1>3, <1>9 DEF Commit
  <2>2. PICK Q \in Quorums(c.at) : Adopted(c.at, Q)
    BY <1>9 DEF Commit
  <2>3. /\ role' \in [Procs -> {"follower", "leader", "halted"}]
        /\ newest' \in Procs \cup {None} /\ rivals' \subseteq Procs
        /\ hint' \in [Procs -> Procs \cup {None}]
    BY <1>9 DEF Commit, TypeOK
  <2>4. ready' \in BOOLEAN
    BY <1>9 DEF Commit, TypeOK
  <2>5. /\ conf' \in Configs /\ drafts' \subseteq Configs
        /\ known' \in [Procs -> Configs] /\ condemned' \subseteq Procs
    BY <1>1, <2>2, AdoptedTypes
  <2>6. UNCHANGED <<procVars, elections, stops, deletes>>
    BY <1>9 DEF Commit
  <2> QED BY <2>1, <2>3, <2>4, <2>5, <2>6 DEF TypeOK, procVars
<1> QED BY <1>4, <1>5, <1>6, <1>7, <1>8, <1>9 DEF CallStep

LEMMA StepTypes ==
  ASSUME TypeOK, [Next]_vars
  PROVE  TypeOK'
<1>1. CASE StartBoot
  <2>1. "serving" \in Places /\ {Boot} \in Configs
    BY BootAssumption DEF Places, Configs
  <2>2. proc' \in [Procs -> Places] /\ known' \in [Procs -> Configs] /\ conf' \in Configs
    BY <1>1, <2>1 DEF StartBoot, TypeOK
  <2> QED BY <1>1, <2>2 DEF StartBoot, TypeOK
<1>2. ASSUME NEW p \in Procs, NEW q \in Procs, Start(p, q)
      PROVE  TypeOK'
  <2>1. "opening" \in Places
    BY DEF Places
  <2>2. proc' \in [Procs -> Places] /\ target' \in [Procs -> Procs \cup {None}]
    BY <1>2, <2>1 DEF Start, TypeOK
  <2> QED BY <1>2, <2>2 DEF Start, TypeOK, raftVars
<1>12. ASSUME NEW p \in Procs, StartAlone(p)
       PROVE  TypeOK'
  <2>1. "alone" \in Places
    BY DEF Places
  <2>2. proc' \in [Procs -> Places]
    BY <1>12, <2>1 DEF StartAlone, TypeOK
  <2> QED BY <1>12, <2>2 DEF StartAlone, TypeOK, raftVars
<1>3. ASSUME NEW p \in Procs, NEW q \in Procs, DeleteServer(p, q)
      PROVE  TypeOK'
  <2>1. [op |-> "remove", id |-> q, at |-> p, stage |-> "checked", leader |-> None,
         live |-> FALSE] \in Calls
    BY DEF Calls, Stages
  <2>2. deletes' = deletes + 1 /\ calls' \subseteq Calls
    BY <1>3, <2>1 DEF DeleteServer, TypeOK
  <2>3. UNCHANGED <<procVars, raftVars, stops, condemned>>
    BY <1>3 DEF DeleteServer
  <2> QED BY <2>2, <2>3 DEF TypeOK, procVars, raftVars
<1>4. ASSUME NEW p \in Procs, NEW q \in Procs, Learn(p, q)
      PROVE  TypeOK'
  <2>1. known' \in [Procs -> Configs] /\ hint' \in [Procs -> Procs \cup {None}]
    BY <1>4 DEF Learn, TypeOK
  <2> QED BY <1>4, <2>1 DEF Learn, TypeOK, procVars
<1>5. ASSUME NEW p \in Procs, Stop(p)
      PROVE  TypeOK'
  <2>1. stops' \in Nat /\ deletes' \in Nat
    BY <1>5 DEF Stop, TypeOK
  <2> QED BY <1>5, <2>1, GoneTypes DEF Stop
<1>6. ASSUME NEW p \in Procs, MapRace(p)
      PROVE  TypeOK'
  BY <1>6, GoneTypes DEF MapRace, TypeOK
<1>7. ASSUME NEW p \in Procs, Elect(p)
      PROVE  TypeOK'
  <2>1. /\ role' \in [Procs -> {"follower", "leader", "halted"}]
        /\ hint' \in [Procs -> Procs \cup {None}] /\ rivals' \subseteq Procs
    BY <1>7 DEF Elect, TypeOK
  <2>2. newest' = p /\ ready' = FALSE /\ elections' = elections + 1
    BY <1>7 DEF Elect
  <2>3. UNCHANGED <<procVars, calls, conf, drafts, known, stops, deletes, condemned>>
    BY <1>7 DEF Elect
  <2>4. newest' \in Procs \cup {None} /\ ready' \in BOOLEAN
    BY <2>2
  <2>5. elections' \in Nat
    BY <2>2 DEF TypeOK
  <2> QED BY <2>1, <2>3, <2>4, <2>5 DEF TypeOK, procVars
<1>8. ASSUME NEW p \in Procs, Establish(p)
      PROVE  TypeOK'
  <2>1. PICK Q \in Quorums(p) : Adopted(p, Q)
    BY <1>8 DEF Establish
  <2>2. /\ conf' \in Configs /\ drafts' \subseteq Configs
        /\ known' \in [Procs -> Configs] /\ condemned' \subseteq Procs
    BY <2>1, AdoptedTypes
  <2> QED BY <1>8, <2>2 DEF Establish, TypeOK, procVars
<1>9. ASSUME NEW p \in Procs, Forget(p)
      PROVE  TypeOK'
  <2>1. hint' \in [Procs -> Procs \cup {None}]
    BY <1>9 DEF Forget, TypeOK
  <2> QED BY <1>9, <2>1 DEF Forget, TypeOK, procVars
<1>10. ASSUME NEW p \in Procs, StepDown(p)
       PROVE  TypeOK'
  <2>1. /\ role' \in [Procs -> {"follower", "leader", "halted"}]
        /\ hint' \in [Procs -> Procs \cup {None}] /\ newest' \in Procs \cup {None}
    BY <1>10 DEF StepDown, TypeOK
  <2>2. ready' \in BOOLEAN /\ rivals' \subseteq Procs
    BY <1>10 DEF StepDown, TypeOK
  <2>3. \A c \in Calls : [c EXCEPT !.stage = "failed"] \in Calls
    BY DEF Calls, Stages, Answered
  <2>4. calls' \subseteq Calls
    BY <1>10, <2>3 DEF StepDown, TypeOK
  <2> QED BY <1>10, <2>1, <2>2, <2>4 DEF StepDown, TypeOK, procVars
<1>11. CASE UNCHANGED vars
  BY <1>11 DEF vars, procVars, raftVars, TypeOK
<1> QED
  BY <1>1, <1>2, <1>3, <1>4, <1>5, <1>6, <1>7, <1>8, <1>9, <1>10, <1>11, <1>12,
     ProcTypes, CallStepTypes DEF Next

----------------------------------------------------------------------------
(* The invariant.                                                          *)

LEMMA InitInv == Init => Inv
<1> SUFFICES ASSUME Init PROVE Inv
  OBVIOUS
<1>1. TypeOK
  BY InitTypes
<1>2. RaftInv /\ CallInv
  BY DEF Init, RaftInv, CallInv
<1>3. FoundedInv /\ ServingNodesAreMembers
  BY BootAssumption DEF Init, FoundedInv, Untouched, ServingNodesAreMembers, IsLeader
<1> QED BY <1>1, <1>2, <1>3 DEF Inv

(***************************************************************************)
(* A step of processes and handlers that leaves raft alone.                *)
(***************************************************************************)
Quiet ==
  /\ UNCHANGED <<raftVars, condemned>>
  /\ \A c \in calls' : c.stage \in {"appended", "done"} => c \in calls
  /\ \A p \in Procs : proc'[p] = "serving" => proc[p] = "serving" \/ p \in Safe
  /\ Untouched /\ (\A p \in Procs : ~IsLeader(p)) => Untouched'

LEMMA QuietInv ==
  ASSUME Inv, Quiet, TypeOK'
  PROVE  Inv'
<1>1. UNCHANGED <<role, newest, ready, rivals, conf, drafts, known, condemned, Safe>>
  BY DEF Quiet, raftVars, Safe
<1>2. RaftInv'
  BY <1>1 DEF Inv, RaftInv, IsLeader
<1>3. CallInv'
  BY <1>1 DEF Inv, CallInv, Quiet, IsLeader
<1>4. FoundedInv'
  BY <1>1 DEF Inv, FoundedInv, Quiet, IsLeader
<1>5. ServingNodesAreMembers'
  BY <1>1 DEF Inv, ServingNodesAreMembers, Quiet, Safe
<1> QED BY <1>2, <1>3, <1>4, <1>5 DEF Inv

\* The end of a process takes a leader away and no configuration.
LEMMA GoneInv ==
  ASSUME Inv, TypeOK', NEW p \in Procs, Gone(p)
  PROVE  Inv'
<1> USE DEF Inv
<1>1. /\ role' = [role EXCEPT ![p] = "follower"] /\ rivals' = rivals \ {p}
      /\ newest' = IF newest = p THEN None ELSE newest
      /\ ready' = (ready /\ newest # p)
      /\ UNCHANGED <<conf, drafts, known, condemned>>
  BY DEF Gone
<1>2. \A q \in Procs : IsLeader(q)' <=> IsLeader(q) /\ q # p
  BY <1>1 DEF TypeOK, IsLeader
<1>3. RaftInv'
  <2>1. newest' # None => newest' \in rivals'
    BY <1>1 DEF RaftInv
  <2>2. ready' => newest' # None /\ rivals' = {newest'}
    BY <1>1 DEF RaftInv
  <2>3. \A q \in rivals' : IsLeader(q)' /\ known'[q] \in drafts' \cup {conf'}
    BY <1>1, <1>2 DEF RaftInv, TypeOK
  <2> QED BY <1>1, <2>1, <2>2, <2>3 DEF RaftInv
<1>4. CallInv'
  <2> DEFINE Left(c) == [c EXCEPT !.stage = c.stage, !.live = c.live /\ c.id # p]
  <2>1. ASSUME NEW d \in calls', d.stage \in {"appended", "done"}
        PROVE  \E c \in calls :
                 /\ d.op = c.op /\ d.id = c.id /\ d.at = c.at /\ d.stage = c.stage
                 /\ c.at # p
                 /\ d = Left(c)
    <3>1. PICK c \in calls :
            /\ d.op = c.op /\ d.id = c.id /\ d.at = c.at
            /\ d.stage = IF c.at = p THEN "failed" ELSE c.stage
            /\ d = [c EXCEPT !.stage = d.stage, !.live = c.live /\ c.id # p]
      BY GoneCalls
    <3>2. c.at # p /\ d.stage = c.stage
      BY <2>1, <3>1
    <3> QED BY <3>1, <3>2
  <2> HIDE DEF Left
  <2>2. \A d \in calls' : d.at \in Procs
    BY DEF TypeOK, Calls
  <2>3. ASSUME NEW d \in calls', d.stage = "appended"
        PROVE  IsLeader(d.at)'
    <3>1. PICK c \in calls : d.at = c.at /\ c.stage = "appended" /\ c.at # p
      BY <2>1, <2>3
    <3> QED BY <1>2, <2>2, <3>1 DEF CallInv
  <2>4. ASSUME NEW d \in calls', NEW e \in calls',
               d.stage = "appended", e.stage = "appended", d.at = e.at
        PROVE  d = e
    <3>1. PICK c \in calls : /\ d.at = c.at /\ c.stage = "appended"
                             /\ d = Left(c)
      BY <2>1, <2>4
    <3>2. PICK b \in calls : /\ e.at = b.at /\ b.stage = "appended"
                             /\ e = Left(b)
      BY <2>1, <2>4
    <3>3. c = b
      BY <2>4, <3>1, <3>2 DEF CallInv
    <3> QED BY <3>1, <3>2, <3>3
  <2>5. ASSUME NEW d \in calls', d.stage = "appended", d.op = "add", d.at \in rivals'
        PROVE  d.id \in known'[d.at]
    <3>1. PICK c \in calls : /\ d.op = c.op /\ d.id = c.id /\ d.at = c.at
                             /\ c.stage = "appended"
      BY <2>1, <2>5
    <3> QED BY <1>1, <2>5, <3>1 DEF CallInv
  <2>6. ASSUME NEW d \in calls', d.stage = "done"
        PROVE  d.id \in Safe'
    <3>1. PICK c \in calls : d.id = c.id /\ c.stage = "done"
      BY <2>1, <2>6
    <3> QED BY <1>1, <3>1 DEF CallInv, Safe
  <2> QED BY <2>3, <2>4, <2>5, <2>6 DEF CallInv
<1>5. \A q \in Procs : proc'[q] = "serving" => proc[q] = "serving"
  BY DEF Gone, TypeOK
<1>6. ServingNodesAreMembers'
  BY <1>1, <1>5 DEF ServingNodesAreMembers
<1>7. FoundedInv'
  <2>1. Untouched => Untouched'
    <3>1. \A d \in calls' : \E c \in calls : d.stage \in {c.stage, "failed"}
      BY GoneCalls
    <3> QED BY <1>5, <3>1 DEF Untouched
  <2> QED BY <1>1, <1>2, <2>1 DEF FoundedInv, Safe
<1> QED BY <1>3, <1>4, <1>6, <1>7

LEMMA ProcInv ==
  ASSUME Inv, TypeOK', NEW p \in Procs, ProcStep(p)
  PROVE  Inv'
<1> USE DEF Inv
<1>1. CASE Gone(p)
  BY <1>1, GoneInv
<1>2. CASE Call(p) /\ ~Gone(p)
  <2>1. UNCHANGED <<proc, raftVars, condemned>>
    BY <1>2 DEF Call, Rejected, procVars
  <2>2. \A c \in calls' : c.stage \in {"appended", "done"} => c \in calls
    BY <1>2 DEF Call, Rejected
  <2>3. Untouched /\ (\A q \in Procs : ~IsLeader(q)) => Untouched'
    BY <1>2, <2>1 DEF Call, Rejected, TypeOK, Untouched
  <2>4. Quiet
    BY <2>1, <2>2, <2>3 DEF Quiet
  <2> QED BY <2>4, QuietInv
<1>3. CASE Accepted(p)
  <2>1. PICK c \in calls : c.id = p /\ c.stage = "done"
    BY <1>3 DEF Accepted, Pending
  <2>2. p \in Safe
    BY <2>1 DEF CallInv
  <2>3. UNCHANGED <<raftVars, condemned>> /\ calls' \subseteq calls
    BY <1>3 DEF Accepted
  <2>4. \A q \in Procs : proc'[q] = "serving" => proc[q] = "serving" \/ q \in Safe
    BY <1>3, <2>2 DEF Accepted, TypeOK
  <2>5. ~Untouched
    BY <2>1 DEF Untouched
  <2>6. Quiet
    BY <2>1, <2>3, <2>4, <2>5 DEF Quiet
  <2> QED BY <2>6, QuietInv
<1>4. CASE (Failed(p) \/ Redirected(p)) /\ ~Gone(p)
  <2>1. UNCHANGED <<proc, raftVars, condemned>> /\ calls' \subseteq calls
    BY <1>4 DEF Failed, Redirected, Rejected
  <2>2. Quiet
    BY <2>1 DEF Quiet, Untouched
  <2> QED BY <2>2, QuietInv
<1> QED BY <1>1, <1>2, <1>3, <1>4 DEF ProcStep

\* A committed configuration has every member no DELETE has named.
LEMMA AdoptedSafe ==
  ASSUME Inv, TypeOK', NEW p \in Procs, newest = p, NEW Q, Adopted(p, Q)
  PROVE  /\ conf' = known[p] /\ known'[p] = known[p] /\ known[p] # {} /\ drafts' = {}
         /\ Safe \subseteq Safe' /\ known[p] \subseteq Safe'
         /\ known[Boot] # {} /\ known'[Boot] # {}
<1> USE DEF Inv
<1>1. p \in rivals /\ IsLeader(p) /\ known[p] \in drafts \cup {conf}
  BY BootAssumption DEF RaftInv
<1>2. known[Boot] # {}
  BY <1>1 DEF FoundedInv
<1>3. known[p] # {} /\ conf \subseteq known[p] \cup condemned
  BY <1>1, <1>2 DEF RaftInv, FoundedInv
<1>4. conf' = known[p] /\ drafts' = {} /\ condemned' = condemned \ known[p]
  BY DEF Adopted
<1>5. \A q \in Procs : known'[q] = known[p] \/ known'[q] = known[q]
  BY DEF Adopted
<1> QED BY <1>2, <1>3, <1>4, <1>5, BootAssumption DEF Safe

LEMMA ServingStays ==
  ASSUME Inv, Safe \subseteq Safe', proc' = proc
  PROVE  ServingNodesAreMembers'
  BY DEF Inv, ServingNodesAreMembers, Safe

LEMMA EstablishInv ==
  ASSUME Inv, TypeOK', NEW p \in Procs, Establish(p)
  PROVE  Inv'
<1> USE DEF Inv
<1>1. PICK Q \in Quorums(p) : newest = p /\ Adopted(p, Q)
  BY DEF Establish
<1>2. /\ conf' = known[p] /\ known'[p] = known[p] /\ known[p] # {} /\ drafts' = {}
      /\ Safe \subseteq Safe' /\ known[p] \subseteq Safe'
      /\ known[Boot] # {} /\ known'[Boot] # {}
  BY <1>1, AdoptedSafe
<1>3. rivals' = {p} /\ UNCHANGED <<procVars, calls, role, newest>>
  BY DEF Establish
<1>4. p \in rivals /\ IsLeader(p)
  BY <1>1, BootAssumption DEF RaftInv
<1>5. RaftInv'
  BY <1>1, <1>2, <1>3, <1>4, BootAssumption DEF RaftInv, IsLeader
<1>6. CallInv'
  BY <1>2, <1>3, <1>4 DEF CallInv, IsLeader
<1>7. FoundedInv'
  BY <1>2 DEF FoundedInv
<1>8. ServingNodesAreMembers'
  BY <1>2, <1>3, ServingStays DEF procVars
<1> QED BY <1>5, <1>6, <1>7, <1>8

LEMMA ProposeInv ==
  ASSUME Inv, TypeOK', NEW c \in calls, Propose(c)
  PROVE  Inv'
<1> USE DEF Inv
<1> DEFINE p == c.at
           next == IF c.op = "add" THEN With(known[p], c.id) ELSE Without(known[p], c.id)
<1>1. p \in Procs /\ c.id \in Procs /\ IsLeader(p)
      /\ \A d \in calls : d.at = p => d.stage # "appended"
  BY DEF Propose, Stable, TypeOK, Calls
<1>2. CASE next = {}
  <2>1. Finish(c, "failed") /\ UNCHANGED <<proc, raftVars, condemned>>
    BY <1>2 DEF Propose, procVars, raftVars
  <2>2. \A d \in calls' : d \in calls \/ d.stage = "failed"
    BY <2>1, CallChange DEF Stages, Answered
  <2>3. ~Untouched
    BY DEF Propose, Untouched
  <2>4. Quiet
    BY <2>1, <2>2, <2>3 DEF Quiet
  <2> QED BY <2>4, QuietInv
<1>3. CASE next # {}
  <2>1. /\ Becomes(c, "appended")
        /\ known' = [known EXCEPT ![p] = next]
        /\ drafts' = IF p \in rivals THEN drafts \cup {next} ELSE drafts
        /\ condemned' = IF c.op = "remove" THEN condemned \cup {c.id} ELSE condemned
        /\ UNCHANGED <<procVars, role, newest, ready, rivals, conf>>
    BY <1>3 DEF Propose
  <2>2. known[Boot] # {}
    BY <1>1 DEF FoundedInv
  <2>3. known'[p] = next /\ \A q \in Procs : q # p => known'[q] = known[q]
    BY <1>1, <2>1 DEF TypeOK
  <2>4. Safe \subseteq Safe' /\ condemned \subseteq condemned'
    BY <2>1 DEF Safe
  <2>5. known[p] \subseteq next \cup condemned'
    <3>1. c.op \in {"add", "remove"}
      BY DEF TypeOK, Calls
    <3> QED BY <2>1, <3>1 DEF With, Without
  <2>6. c.op = "add" => c.id \in next
    BY DEF With
  <2> HIDE DEF next
  <2>7. RaftInv'
    <3>1. p \in rivals => conf \subseteq next \cup condemned'
      BY <2>4, <2>5 DEF RaftInv
    <3>2. \A d \in drafts' : d # {} /\ conf' \subseteq d \cup condemned'
      BY <1>3, <2>1, <2>4, <3>1 DEF RaftInv
    <3>3. \A q \in rivals' : IsLeader(q)' /\ known'[q] \in drafts' \cup {conf'}
      <4> SUFFICES ASSUME NEW q \in rivals
                   PROVE  IsLeader(q)' /\ known'[q] \in drafts' \cup {conf'}
        BY <2>1
      <4>1. q \in Procs /\ IsLeader(q)'
        BY <2>1 DEF RaftInv, TypeOK, IsLeader
      <4>2. CASE q = p
        BY <2>1, <2>3, <4>1, <4>2
      <4>3. CASE q # p
        BY <2>1, <2>3, <4>1, <4>3 DEF RaftInv
      <4> QED BY <4>1, <4>2, <4>3
    <3> QED BY <2>1, <3>2, <3>3 DEF RaftInv
  <2>8. CallInv'
    <3>1. \A d \in calls' : \/ d \in calls \ {c}
                            \/ /\ d.stage = "appended" /\ d.op = c.op /\ d.id = c.id
                               /\ d.at = p /\ d = [c EXCEPT !.stage = "appended"]
      BY <2>1, CallChange DEF Becomes, Stages
    <3>2. \A d \in calls' : d.at \in Procs
      BY DEF TypeOK, Calls
    <3>3. \A d \in calls' : d.stage = "appended" => IsLeader(d.at)'
      BY <1>1, <2>1, <3>1 DEF CallInv, IsLeader
    <3>4. \A d, e \in calls' : d.stage = "appended" /\ e.stage = "appended" /\ d.at = e.at => d = e
      BY <1>1, <3>1 DEF CallInv
    <3>5. \A d \in calls' : d.stage = "appended" /\ d.op = "add" /\ d.at \in rivals' =>
                              d.id \in known'[d.at]
      BY <1>1, <2>1, <2>3, <2>6, <3>1, <3>2 DEF CallInv
    <3>6. \A d \in calls' : d.stage = "done" => d.id \in Safe'
      BY <2>4, <3>1 DEF CallInv
    <3> QED BY <3>3, <3>4, <3>5, <3>6 DEF CallInv
  <2>9. FoundedInv'
    <3>1. known'[Boot] # {}
      BY <1>3, <2>2, <2>3, BootAssumption
    <3> QED BY <2>1, <2>2, <2>4, <3>1 DEF FoundedInv
  <2>10. ServingNodesAreMembers'
    BY <2>1, <2>4, ServingStays DEF procVars
  <2> QED BY <2>7, <2>8, <2>9, <2>10
<1> QED BY <1>2, <1>3

LEMMA CommitInv ==
  ASSUME Inv, TypeOK', NEW c \in calls, Commit(c)
  PROVE  Inv'
<1> USE DEF Inv
<1> DEFINE p == c.at
<1>1. /\ p \in Procs /\ c.stage = "appended" /\ newest = p /\ ready
      /\ UNCHANGED procVars
  BY DEF Commit, TypeOK, Calls
<1>2. PICK Q \in Quorums(p) : Adopted(p, Q)
  BY DEF Commit
<1>3. /\ conf' = known[p] /\ known'[p] = known[p] /\ known[p] # {} /\ drafts' = {}
      /\ Safe \subseteq Safe' /\ known[p] \subseteq Safe'
      /\ known[Boot] # {} /\ known'[Boot] # {}
  BY <1>1, <1>2, AdoptedSafe
<1>4. rivals = {p} /\ IsLeader(p)
  BY <1>1 DEF RaftInv
<1>5. \/ UNCHANGED <<role, newest, ready, rivals>>
      \/ /\ role' = [role EXCEPT ![p] = "halted"]
         /\ newest' = None /\ ~ready' /\ rivals' = {}
  BY <1>4 DEF Commit
<1>6. \A q \in Procs : IsLeader(q) => IsLeader(q)' \/ q = p
  BY <1>5 DEF IsLeader, TypeOK
<1>7. RaftInv'
  BY <1>1, <1>3, <1>4, <1>5 DEF RaftInv, IsLeader
<1>8. \A d \in calls' : \/ d \in calls \ {c}
                        \/ /\ d.stage \in {"done", "noting"} /\ d.id = c.id
                           /\ d.stage = "done" => c.op = "add"
  <2>1. (c.op = "add" /\ Finish(c, "done")) \/ Becomes(c, "noting")
    BY DEF Commit
  <2> QED BY <2>1, CallChange DEF Stages, Answered
<1>9. CallInv'
  <2>1. c.op = "add" => c.id \in Safe'
    BY <1>1, <1>3, <1>4 DEF CallInv
  <2>2. \A d \in calls' : d.stage = "appended" => d \in calls /\ d.at # p
    BY <1>1, <1>8 DEF CallInv
  <2>3. \A d \in calls' : d.at \in Procs
    BY DEF TypeOK, Calls
  <2>4. \A d \in calls' : d.stage = "appended" => IsLeader(d.at)'
    BY <1>6, <2>2, <2>3 DEF CallInv
  <2>5. \A d, e \in calls' : d.stage = "appended" /\ e.stage = "appended" /\ d.at = e.at => d = e
    BY <2>2 DEF CallInv
  <2>6. \A d \in calls' : d.stage = "appended" => d.at \notin rivals'
    BY <1>4, <1>5, <2>2
  <2>7. \A d \in calls' : d.stage = "done" => d.id \in Safe'
    BY <1>3, <1>8, <2>1 DEF CallInv
  <2> QED BY <2>4, <2>5, <2>6, <2>7 DEF CallInv
<1>10. FoundedInv'
  BY <1>3 DEF FoundedInv
<1>11. ServingNodesAreMembers'
  BY <1>1, <1>3, ServingStays DEF procVars
<1> QED BY <1>7, <1>9, <1>10, <1>11

\* The other steps of calls touch nothing but the call.
LEMMA CallStepInv ==
  ASSUME Inv, TypeOK', NEW c \in calls, CallStep(c) \/ TooLate(c)
  PROVE  Inv'
<1>1. CASE CheckAgain(c) \/ Noted(c) \/ Refuse(c) \/ TooLate(c)
  <2>1. UNCHANGED <<proc, raftVars, condemned>>
    BY <1>1 DEF CheckAgain, Noted, Refuse, TooLate, procVars
  <2>2. \A d \in calls' : d \in calls \/ d.stage \in {"failed", "noting", "queued"}
    <3>1. \/ \E s \in {"failed", "noting", "queued"} : Becomes(c, s) \/ Finish(c, s)
          \/ calls' = calls \ {c}
      BY <1>1 DEF CheckAgain, Noted, Refuse, TooLate
    <3>2. {"failed", "noting", "queued"} \subseteq Stages
      BY DEF Stages, Answered
    <3> QED BY <3>1, <3>2, CallChange DEF Inv
  <2>3. ~Untouched
    BY <1>1 DEF CheckAgain, Noted, Refuse, TooLate, Untouched
  <2>4. Quiet
    BY <2>1, <2>2, <2>3 DEF Quiet
  <2> QED BY <2>4, QuietInv
<1> QED BY <1>1, ProposeInv, CommitInv DEF CallStep

LEMMA ElectInv ==
  ASSUME Inv, TypeOK', NEW p \in Procs, Elect(p)
  PROVE  Inv'
<1> USE DEF Inv
<1>1. /\ ~IsLeader(p) /\ known[p] # {} /\ known[p] \in drafts \cup {conf}
      /\ role' = [role EXCEPT ![p] = "leader"]
      /\ newest' = p /\ ~ready' /\ rivals' = rivals \cup {p}
      /\ UNCHANGED <<procVars, calls, conf, drafts, known, condemned>>
  BY DEF Elect
<1>2. \A q \in Procs : IsLeader(q)' <=> IsLeader(q) \/ q = p
  BY <1>1 DEF TypeOK, IsLeader
<1>3. RaftInv'
  BY <1>1, <1>2 DEF RaftInv, TypeOK
<1>4. CallInv'
  <2>1. \A d \in calls : d.stage = "appended" => IsLeader(d.at) /\ d.at # p /\ d.at \in Procs
    BY <1>1 DEF CallInv, TypeOK, Calls
  <2> QED BY <1>1, <1>2, <2>1 DEF CallInv, Safe
<1>5. FoundedInv'
  BY <1>1 DEF FoundedInv, Safe
<1>6. ServingNodesAreMembers'
  BY <1>1 DEF ServingNodesAreMembers, procVars
<1> QED BY <1>3, <1>4, <1>5, <1>6

LEMMA LearnInv ==
  ASSUME Inv, TypeOK', NEW p \in Procs, NEW q \in Procs, Learn(p, q)
  PROVE  Inv'
<1> USE DEF Inv
<1>1. /\ newest = p /\ ~IsLeader(q) /\ known' = [known EXCEPT ![q] = known[p]]
      /\ UNCHANGED <<procVars, calls, role, newest, ready, rivals, conf, drafts, condemned>>
  BY DEF Learn
<1>2. p \in rivals /\ IsLeader(p) /\ known[p] \in drafts \cup {conf}
  BY <1>1, BootAssumption DEF RaftInv
<1>3. known[Boot] # {}
  BY <1>2 DEF FoundedInv
<1>4. known[p] # {}
  BY <1>2, <1>3 DEF FoundedInv, RaftInv
<1>5. \A r \in Procs : known'[r] = IF r = q THEN known[p] ELSE known[r]
  BY <1>1 DEF TypeOK
<1>6. q \notin rivals /\ rivals \subseteq Procs
  BY <1>1 DEF RaftInv, TypeOK
<1>7. RaftInv'
  BY <1>1, <1>5, <1>6 DEF RaftInv, IsLeader
<1>8. CallInv'
  BY <1>1, <1>5, <1>6 DEF CallInv, IsLeader, Safe
<1>9. FoundedInv'
  BY <1>1, <1>3, <1>4, <1>5, BootAssumption DEF FoundedInv, Safe
<1>10. ServingNodesAreMembers'
  BY <1>1 DEF ServingNodesAreMembers, procVars
<1> QED BY <1>7, <1>8, <1>9, <1>10

LEMMA StepDownInv ==
  ASSUME Inv, TypeOK', NEW p \in Procs, StepDown(p)
  PROVE  Inv'
<1> USE DEF Inv
<1>1. /\ role' = [role EXCEPT ![p] = "follower"] /\ rivals' = rivals \ {p}
      /\ newest' = IF newest = p THEN None ELSE newest
      /\ ready' = (ready /\ newest # p)
      /\ UNCHANGED <<procVars, conf, drafts, known, condemned>>
  BY DEF StepDown
<1>2. \A q \in Procs : IsLeader(q)' <=> IsLeader(q) /\ q # p
  BY <1>1 DEF TypeOK, IsLeader
<1>3. RaftInv'
  <2>1. \A q \in rivals' : q # p /\ IsLeader(q)' /\ known'[q] \in drafts' \cup {conf'}
    BY <1>1, <1>2 DEF RaftInv, TypeOK
  <2>2. /\ newest' # None => newest' \in rivals'
        /\ ready' => newest' # None /\ rivals' = {newest'}
    BY <1>1 DEF RaftInv
  <2>3. \A d \in drafts' : d # {} /\ conf' \subseteq d \cup condemned'
    BY <1>1 DEF RaftInv
  <2> QED BY <2>1, <2>2, <2>3 DEF RaftInv
<1>4. known[Boot] # {}
  BY DEF StepDown, FoundedInv
<1>5. \A d \in calls' : \/ d \in calls /\ (d.at = p => d.stage # "appended")
                        \/ d.stage = "failed"
  BY DEF StepDown, TypeOK, Calls
<1>6. CallInv'
  <2>1. \A d \in calls' : d.at \in Procs
    BY DEF TypeOK, Calls
  <2> QED BY <1>1, <1>2, <1>5, <2>1 DEF CallInv, Safe
<1>7. FoundedInv'
  BY <1>1, <1>4 DEF FoundedInv, Safe
<1>8. ServingNodesAreMembers'
  BY <1>1 DEF ServingNodesAreMembers, procVars
<1> QED BY <1>3, <1>6, <1>7, <1>8

LEMMA StartBootInv ==
  ASSUME Inv, TypeOK', StartBoot
  PROVE  Inv'
<1> USE DEF Inv
<1>1. /\ proc' = [proc EXCEPT ![Boot] = "serving"]
      /\ UNCHANGED <<calls, role, newest, ready, rivals, drafts, condemned>>
  BY DEF StartBoot
<1>2. CASE known[Boot] # {}
  <2>1. UNCHANGED <<known, conf>>
    BY <1>2 DEF StartBoot
  <2>2. RaftInv' /\ CallInv' /\ FoundedInv'
    BY <1>1, <1>2, <2>1 DEF RaftInv, CallInv, FoundedInv, IsLeader, Safe
  <2>3. ServingNodesAreMembers'
    BY <1>1, <1>2, <2>1 DEF ServingNodesAreMembers, FoundedInv, Safe, TypeOK
  <2> QED BY <2>2, <2>3
<1>3. CASE known[Boot] = {}
  <2>1. known' = [known EXCEPT ![Boot] = {Boot}] /\ conf' = {Boot}
    BY <1>3 DEF StartBoot
  <2>2. /\ drafts = {} /\ \A c \in calls : c.stage \in {"redirect", "failed"}
        /\ \A p \in Procs : proc[p] # "serving" /\ ~IsLeader(p)
    BY <1>3 DEF FoundedInv, Untouched
  <2>3. rivals = {} /\ newest = None /\ ~ready
    BY <2>2 DEF RaftInv, TypeOK
  <2>4. RaftInv' /\ CallInv'
    BY <1>1, <2>2, <2>3 DEF RaftInv, CallInv
  <2>5. known'[Boot] # {}
    BY <2>1, BootAssumption DEF TypeOK
  <2>6. FoundedInv'
    BY <2>1, <2>5 DEF FoundedInv, Safe
  <2>7. ServingNodesAreMembers'
    BY <1>1, <2>1, <2>2 DEF ServingNodesAreMembers, TypeOK
  <2> QED BY <2>4, <2>6, <2>7
<1> QED BY <1>2, <1>3

LEMMA StepInv == Inv /\ [Next]_vars => Inv'
<1> SUFFICES ASSUME Inv, [Next]_vars PROVE Inv'
  OBVIOUS
<1>1. TypeOK'
  BY StepTypes DEF Inv
<1>2. ASSUME NEW p \in Procs, NEW q \in Procs,
             Start(p, q) \/ StartAlone(p) \/ DeleteServer(p, q)
      PROVE  Inv'
  <2>1. UNCHANGED <<raftVars, condemned>>
    BY <1>2 DEF Start, StartAlone, DeleteServer
  <2>2. \A c \in calls' : c.stage \in {"appended", "done"} => c \in calls
    BY <1>2 DEF Start, StartAlone, DeleteServer
  <2>3. \A r \in Procs : proc'[r] = "serving" => proc[r] = "serving"
    BY <1>2 DEF Start, StartAlone, DeleteServer, Inv, TypeOK, procVars
  <2>4. calls' = calls \/ IsLeader(p)
    BY <1>2 DEF Start, StartAlone, DeleteServer
  <2>5. Quiet
    BY <2>1, <2>2, <2>3, <2>4 DEF Quiet, Untouched
  <2> QED BY <1>1, <2>5, QuietInv
<1>3. ASSUME NEW p \in Procs, Stop(p) \/ MapRace(p)
      PROVE  Inv'
  BY <1>1, <1>3, GoneInv DEF Stop, MapRace
<1>4. ASSUME NEW p \in Procs, Forget(p)
      PROVE  Inv'
  <2>1. UNCHANGED <<proc, calls, role, newest, ready, rivals, conf, drafts, known, condemned>>
    BY <1>4 DEF Forget, procVars
  <2>2. RaftInv' /\ CallInv'
    BY <2>1 DEF Inv, RaftInv, CallInv, IsLeader, Safe
  <2>3. FoundedInv' /\ ServingNodesAreMembers'
    BY <2>1 DEF Inv, FoundedInv, Untouched, ServingNodesAreMembers, IsLeader, Safe
  <2> QED BY <1>1, <2>2, <2>3 DEF Inv
<1>5. CASE UNCHANGED vars
  <2>1. Quiet
    BY <1>5 DEF vars, procVars, Quiet, Untouched
  <2> QED BY <1>1, <2>1, QuietInv
<1> QED
  BY <1>1, <1>2, <1>3, <1>4, <1>5, StartBootInv, LearnInv, ProcInv, ElectInv, EstablishInv,
     StepDownInv, CallStepInv DEF Next

LEMMA Invariance == Spec => []Inv
BY InitInv, StepInv, PTL DEF Spec

----------------------------------------------------------------------------
\* The model of joining and leaving never leaves its types: no process tries more
\* often than the join loop allows.
THEOREM MembershipTypeCorrect == Spec => []TypeOK
<1>1. Inv => TypeOK
  BY DEF Inv
<1> QED BY Invariance, <1>1, PTL

\* Whatever founded or joined the cluster and serves HTTP was committed as a member
\* and stays one until a DELETE names it: for any number of processes that join,
\* crash, restart and are deleted at once, whatever flags the others are started
\* with, wherever redirects lead, and under any sequence of leaders.
THEOREM ServingNodesStayMembers == Spec => []ServingNodesAreMembers
<1>1. Inv => ServingNodesAreMembers
  BY DEF Inv
<1> QED BY Invariance, <1>1, PTL

(***************************************************************************)
(* A member stays in the committed configuration until a DELETE names it,  *)
(* for any number of leaders whose changes are dropped or come back: what  *)
(* a leader brings into force has every other member (RaftInv), and the    *)
(* bootstrap node founds a cluster only if there is none (FoundedInv).     *)
(***************************************************************************)
THEOREM MembersLeaveOnlyByDelete == Spec => MembersLeaveByDelete
<1>1. ASSUME Inv, [Next]_vars
      PROVE  conf \subseteq conf' \cup condemned
  <2>1. ASSUME NEW p \in Procs, newest = p, NEW Q, Adopted(p, Q)
        PROVE  conf \subseteq conf' \cup condemned
    BY <1>1, <2>1, BootAssumption DEF Inv, RaftInv, Adopted
  <2>2. CASE StartBoot
    BY <1>1, <2>2 DEF StartBoot, Inv, FoundedInv
  <2>3. CASE \E p \in Procs : Establish(p)
    BY <2>1, <2>3 DEF Establish
  <2>4. ASSUME NEW c \in calls, Commit(c)
        PROVE  conf \subseteq conf' \cup condemned
    BY <1>1, <2>1, <2>4 DEF Commit, Inv, TypeOK, Calls
  <2>5. ASSUME NEW p \in Procs, NEW q \in Procs,
               Start(p, q) \/ StartAlone(p) \/ DeleteServer(p, q) \/ Learn(p, q)
        PROVE  UNCHANGED conf
    BY <2>5 DEF Start, StartAlone, DeleteServer, Learn, raftVars
  <2>6. ASSUME NEW p \in Procs, Gone(p)
        PROVE  UNCHANGED conf
    BY <2>6 DEF Gone, raftVars
  <2>7. ASSUME NEW p \in Procs, Rejected(p)
        PROVE  UNCHANGED conf
    BY <2>6, <2>7 DEF Rejected, raftVars
  <2>8. ASSUME NEW p \in Procs, ProcStep(p)
        PROVE  UNCHANGED conf
    <3>1. CASE Call(p)
      BY <2>7, <3>1 DEF Call, raftVars
    <3>2. CASE Accepted(p)
      BY <3>2 DEF Accepted, raftVars
    <3>3. CASE Failed(p)
      BY <2>7, <3>3 DEF Failed
    <3>4. CASE Redirected(p)
      BY <2>7, <3>4 DEF Redirected, raftVars
    <3> QED BY <2>8, <3>1, <3>2, <3>3, <3>4 DEF ProcStep
  <2>9. ASSUME NEW p \in Procs, Stop(p) \/ MapRace(p)
        PROVE  UNCHANGED conf
    BY <2>6, <2>9 DEF Stop, MapRace
  <2>10. ASSUME NEW p \in Procs, Elect(p) \/ Forget(p) \/ StepDown(p)
         PROVE  UNCHANGED conf
    BY <2>10 DEF Elect, Forget, StepDown
  <2>11. ASSUME NEW c \in calls,
                CheckAgain(c) \/ Noted(c) \/ Propose(c) \/ Refuse(c) \/ TooLate(c)
         PROVE  UNCHANGED conf
    BY <2>11 DEF CheckAgain, Noted, Propose, Refuse, TooLate, raftVars
  <2>12. CASE UNCHANGED vars
    BY <2>12 DEF vars, raftVars
  <2> QED BY <1>1, <2>2, <2>3, <2>4, <2>5, <2>8, <2>9, <2>10, <2>11, <2>12 DEF Next, CallStep
<1>2. Inv /\ [Next]_vars => [conf \subseteq conf' \cup condemned]_vars
  BY <1>1
<1> QED BY <1>2, Invariance, PTL DEF Spec, MembersLeaveByDelete
=============================================================================
