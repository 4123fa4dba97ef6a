----------------------------- MODULE Membership -----------------------------
(***************************************************************************)
(* How processes become members of a Raft3D cluster and stop being it:     *)
(* NewRaftNode and joinCluster (raftnode/node.go), the join loop of main,  *)
(* the handlers of POST /join and DELETE /cluster/servers (main.go), and   *)
(* AddServer and RemoveServer behind them.  A process started with -join   *)
(* asks twice: once inside NewRaftNode, where any answer but 200 ends the  *)
(* process, and again in main, with retries and redirects, before it opens *)
(* its own HTTP port.  Its raft node runs, and votes, all the while.  A    *)
(* process started with neither flag asks nobody and opens its port.       *)
(*                                                                         *)
(* hashicorp/raft is external.  Of its log only the configurations matter: *)
(* `conf' is the last committed one, `drafts' are those that may be in     *)
(* some log without being committed, and a node that wins an election has  *)
(* one or the other.                                                       *)
(***************************************************************************)
EXTENDS Naturals, FiniteSets

CONSTANTS
  Procs,        \* processes, and the node ids they are started with
  Boot,         \* the one that is started with -bootstrap
  None,         \* no process
  NotAPort,     \* a raft address whose port strconv.Atoi does not take
  HttpOf,       \* HttpOf[p][q]: whom p reaches at q's raft port + 1080, None if nobody
  MaxTries,     \* maxRetries of the join loop
  MaxElections, \* bound: elections won
  MaxStops,     \* bound: processes stopped from outside
  MaxDeletes    \* bound: calls of DELETE /cluster/servers

ASSUME BootAssumption  == Boot \in Procs /\ None \notin Procs
ASSUME HttpAssumption  == /\ HttpOf \in [Procs -> [Procs -> Procs \cup {None, NotAPort}]]
                          /\ NotAPort \notin Procs \cup {None}
ASSUME TriesAssumption == MaxTries \in Nat \ {0}

VARIABLES
  proc,      \* proc[p]: where process p is, see Places
  target,    \* target[p]: joinAddr, the process it asks, None if nobody is there
  tries,     \* tries[p]: i of the join loop
  calls,     \* the membership calls in progress, see Calls
  role,      \* role[p]: what raft.State() says; "halted" is raft.Shutdown
  newest,    \* external: the leader of the newest term, None if it is gone
  ready,     \* external: the newest term has committed an entry
  rivals,    \* external: leaders that no later leader has committed past
  elections, \* elections won so far
  conf,      \* external: the committed configuration
  drafts,    \* external: uncommitted ones that a later leader may bring
  known,     \* known[p]: the latest configuration in p's log
  hint,      \* hint[p]: raft.Leader() where p serves, None if it is not known
  stops, deletes,
  condemned  \* history: ids removed by a DELETE, or about to be

procVars == <<proc, target, tries>>
raftVars == <<role, newest, ready, rivals, elections, conf, drafts, known, hint>>
vars     == <<procVars, calls, raftVars, stops, deletes, condemned>>

(***************************************************************************)
(* off       not running                                                   *)
(* opening   in NewRaftNode, inside joinCluster                            *)
(* joining   in the join loop of main                                      *)
(* serving   the HTTP server listens, after -bootstrap or a join           *)
(* alone     the HTTP server listens; it was started with neither flag     *)
(***************************************************************************)
Places == {"off", "opening", "joining", "serving", "alone"}

(***************************************************************************)
(* checked   the handler has seen IsLeader()                               *)
(* noting    in the write of joinTimes, which has no lock                  *)
(* queued    in raft.AddVoter or raft.RemoveServer                         *)
(* appended  the leader has put the new configuration in its log           *)
(* done, failed, redirect: 200, 500 or a broken connection, 307            *)
(***************************************************************************)
Answered == {"done", "failed", "redirect"}
Stages   == {"checked", "noting", "queued", "appended"} \cup Answered

\* id: the server to add or remove; at: the node asked; leader: the address in
\* a redirect; live: the process that asked still waits for the answer.
Calls == [op : {"add", "remove"}, id : Procs, at : Procs, stage : Stages,
          leader : Procs \cup {None}, live : BOOLEAN]

Configs == SUBSET Procs

TypeOK ==
  /\ proc \in [Procs -> Places]
  /\ target \in [Procs -> Procs \cup {None}]
  /\ tries \in [Procs -> 0 .. MaxTries - 1]
  /\ calls \subseteq Calls
  /\ role \in [Procs -> {"follower", "leader", "halted"}]
  /\ newest \in Procs \cup {None}
  /\ ready \in BOOLEAN
  /\ rivals \subseteq Procs
  /\ elections \in Nat /\ stops \in Nat /\ deletes \in Nat
  /\ conf \in Configs
  /\ drafts \subseteq Configs
  /\ known \in [Procs -> Configs]
  /\ hint \in [Procs -> Procs \cup {None}]
  /\ condemned \subseteq Procs

Init ==
  /\ proc = [p \in Procs |-> "off"]
  /\ target = [p \in Procs |-> Boot]
  /\ tries = [p \in Procs |-> 0]
  /\ calls = {}
  /\ role = [p \in Procs |-> "follower"]
  /\ newest = None /\ ready = FALSE /\ rivals = {} /\ elections = 0
  /\ conf = {} /\ drafts = {}
  /\ known = [p \in Procs |-> {}]
  /\ hint = [p \in Procs |-> None]
  /\ stops = 0 /\ deletes = 0
  /\ condemned = {}

----------------------------------------------------------------------------
\* raft.AddVoter and raft.RemoveServer on a configuration.
With(c, p)    == c \cup {p}
Without(c, p) == c \ {p}

RaftRuns(p) == proc[p] # "off" /\ role[p] # "halted"

Majority(Q, c) == 2 * Cardinality(Q \cap c) > Cardinality(c)

HasQuorum(c) == Majority({p \in Procs : RaftRuns(p)}, c)

IsLeader(p) == role[p] = "leader"

Listens(p) == proc[p] \in {"serving", "alone"}

(***************************************************************************)
(* The leader raft knows, else the first other server of the configuration *)
(* - "the redirect process will eventually find the leader".  Which one is *)
(* first is left open: what GetLeader may return.                          *)
(***************************************************************************)
GetLeader(p) ==
  LET others == Without(known[p], p)
  IN  IF hint[p] # None THEN {hint[p]} ELSE IF others # {} THEN others ELSE {None}

\* The process of p ends: its handlers break off, its own call goes on.
Gone(p) ==
  /\ proc' = [proc EXCEPT ![p] = "off"]
  /\ target' = [target EXCEPT ![p] = Boot]
  /\ tries' = [tries EXCEPT ![p] = 0]
  /\ LET kept == {c \in calls : /\ c.at = p => c.live /\ c.id # p
                                /\ c.stage \in Answered => c.id # p}
     IN  calls' = {[c EXCEPT !.stage = IF c.at = p THEN "failed" ELSE c.stage,
                             !.live = c.live /\ c.id # p] : c \in kept}
  /\ role' = [role EXCEPT ![p] = "follower"]
  /\ hint' = [hint EXCEPT ![p] = None]
  /\ newest' = IF newest = p THEN None ELSE newest
  /\ ready' = (ready /\ newest # p)
  /\ rivals' = rivals \ {p}
  /\ UNCHANGED <<elections, conf, drafts, known, condemned>>

----------------------------------------------------------------------------
(* Processes.                                                              *)

\* Mutant: every start with -bootstrap makes a new cluster (RecoverCluster).
BootAgain ==
  /\ proc[Boot] = "off"
  /\ proc' = [proc EXCEPT ![Boot] = "serving"]
  /\ known' = [known EXCEPT ![Boot] = {Boot}]
  /\ conf' = {Boot}
  /\ UNCHANGED <<target, tries, calls, role, newest, ready, rivals, elections, drafts, hint,
                 stops, deletes, condemned>>

\* NewRaftNode with bootstrap: BootstrapCluster does nothing if there is a
\* configuration already; main does not join.
StartBoot ==
  /\ proc[Boot] = "off"
  /\ proc' = [proc EXCEPT ![Boot] = "serving"]
  /\ IF known[Boot] = {}
     THEN /\ known' = [known EXCEPT ![Boot] = {Boot}]
          /\ conf' = {Boot}
     ELSE UNCHANGED <<known, conf>>
  /\ UNCHANGED <<target, tries, calls, role, newest, ready, rivals, elections, drafts, hint,
                 stops, deletes, condemned>>

\* NewRaftNode with a join address, up to joinCluster.
Start(p, contact) ==
  /\ p # contact /\ proc[p] = "off"
  /\ proc' = [proc EXCEPT ![p] = "opening"]
  /\ target' = [target EXCEPT ![p] = contact]
  /\ UNCHANGED <<tries, calls, raftVars, stops, deletes, condemned>>

\* NewRaftNode with neither -bootstrap nor a join address: a new process has no
\* configuration, one that was a member has the one in its log; main does not join.
StartAlone(p) ==
  /\ proc[p] = "off"
  /\ proc' = [proc EXCEPT ![p] = "alone"]
  /\ UNCHANGED <<target, tries, calls, raftVars, stops, deletes, condemned>>

Stop(p) ==
  /\ proc[p] # "off" /\ stops < MaxStops
  /\ stops' = stops + 1
  /\ Gone(p)
  /\ UNCHANGED deletes

\* The calls of process p that it waits for: none or one.
Pending(p) == {c \in calls : c.op = "add" /\ c.id = p /\ c.live}

\* Mutant: one attempt too many.
RejectedLate(p) ==
  IF proc[p] = "opening" \/ tries[p] = MaxTries
  THEN Gone(p)
  ELSE /\ tries' = [tries EXCEPT ![p] = @ + 1]
       /\ calls' = calls \ Pending(p)
       /\ UNCHANGED <<proc, target, raftVars, condemned>>

\* An attempt of p that did not succeed: fatal in NewRaftNode, counted in main.
Rejected(p) ==
  IF proc[p] = "opening" \/ tries[p] + 1 = MaxTries
  THEN Gone(p)
  ELSE /\ tries' = [tries EXCEPT ![p] = @ + 1]
       /\ calls' = calls \ Pending(p)
       /\ UNCHANGED <<proc, target, raftVars, condemned>>

\* http.Post to the join address, and the IsLeader() of the handler there.
Call(p) ==
  /\ proc[p] \in {"opening", "joining"} /\ Pending(p) = {}
  /\ LET m     == target[p]
         leads == IsLeader(m)
     IN  IF m # None /\ Listens(m)
         THEN /\ \E leader \in IF leads THEN {None} ELSE GetLeader(m) :
                   calls' = calls \cup {[op |-> "add", id |-> p, at |-> m,
                                         stage |-> IF leads THEN "checked" ELSE "redirect",
                                         leader |-> leader, live |-> TRUE]}
              /\ UNCHANGED <<procVars, raftVars, condemned>>
         ELSE Rejected(p)
  /\ UNCHANGED <<stops, deletes>>

\* Mutant: the status code of the answer is not looked at.
AcceptedUnread(p) ==
  /\ \E c \in Pending(p) : c.stage \in {"done", "failed"}
  /\ proc' = [proc EXCEPT ![p] = IF @ = "opening" THEN "joining" ELSE "serving"]
  /\ target' = [target EXCEPT ![p] = IF proc[p] = "opening" THEN @ ELSE Boot]
  /\ tries' = [tries EXCEPT ![p] = 0]
  /\ calls' = calls \ Pending(p)
  /\ UNCHANGED <<raftVars, stops, deletes, condemned>>

\* 200: NewRaftNode returns, and main joins again; then main serves.
Accepted(p) ==
  /\ \E c \in Pending(p) : c.stage = "done"
  /\ proc' = [proc EXCEPT ![p] = IF @ = "opening" THEN "joining" ELSE "serving"]
  /\ target' = [target EXCEPT ![p] = IF proc[p] = "opening" THEN @ ELSE Boot]
  /\ tries' = [tries EXCEPT ![p] = 0]
  /\ calls' = calls \ Pending(p)
  /\ UNCHANGED <<raftVars, stops, deletes, condemned>>

Failed(p) ==
  /\ \E c \in Pending(p) : c.stage = "failed"
  /\ Rejected(p)
  /\ UNCHANGED <<stops, deletes>>

\* Mutant: the loop asks the same node again.
RedirectedInVain(p) ==
  /\ \E c \in Pending(p) :
       /\ c.stage = "redirect"
       /\ IF proc[p] = "joining" /\ c.leader # None
          THEN /\ calls' = calls \ Pending(p)
               /\ UNCHANGED <<procVars, raftVars, condemned>>
          ELSE Rejected(p)
  /\ UNCHANGED <<stops, deletes>>

(***************************************************************************)
(* 307: NewRaftNode gives up.  main makes an HTTP address of the raft      *)
(* address in the answer, asks there, whoever that is, and does not count  *)
(* the attempt; it does if there is no address in it or no port.           *)
(***************************************************************************)
Redirected(p) ==
  /\ \E c \in Pending(p) :
       /\ c.stage = "redirect"
       /\ IF proc[p] = "joining" /\ c.leader # None /\ HttpOf[p][c.leader] # NotAPort
          THEN /\ target' = [target EXCEPT ![p] = HttpOf[p][c.leader]]
               /\ calls' = calls \ Pending(p)
               /\ UNCHANGED <<proc, tries, raftVars, condemned>>
          ELSE Rejected(p)
  /\ UNCHANGED <<stops, deletes>>

----------------------------------------------------------------------------
(* Handlers.  Step replaces a call by what it has become.                  *)

Becomes(c, stage) == calls' = (calls \ {c}) \cup {[c EXCEPT !.stage = stage]}

\* Nobody reads the answer to a DELETE, or to a process that is gone.
Finish(c, stage) ==
  IF c.op = "add" /\ c.live THEN Becomes(c, stage) ELSE calls' = calls \ {c}

\* The handler of DELETE; asked at another node it only answers.
DeleteServer(p, q) ==
  /\ Listens(p) /\ IsLeader(p) /\ deletes < MaxDeletes
  /\ deletes' = deletes + 1
  /\ calls' = calls \cup {[op |-> "remove", id |-> q, at |-> p,
                           stage |-> "checked", leader |-> None, live |-> FALSE]}
  /\ UNCHANGED <<procVars, raftVars, stops, condemned>>

\* AddServer and RemoveServer look at State() again.  AddServer writes its
\* unlocked map before it calls raft.
CheckAgain(c) ==
  /\ c.stage = "checked"
  /\ IF ~IsLeader(c.at) THEN Finish(c, "failed")
     ELSE Becomes(c, IF c.op = "add" THEN "noting" ELSE "queued")
  /\ UNCHANGED <<procVars, raftVars, stops, deletes, condemned>>

\* The map is written: by AddServer before, by RemoveServer after the call of raft.
Noted(c) ==
  /\ c.stage = "noting"
  /\ IF c.op = "add" THEN Becomes(c, "queued") ELSE calls' = calls \ {c}
  /\ UNCHANGED <<procVars, raftVars, stops, deletes, condemned>>

\* Two goroutines write the map at once: Go may end the process.
MapRace(p) ==
  /\ Cardinality({c \in calls : c.at = p /\ c.stage = "noting"}) > 1
  /\ Gone(p)
  /\ UNCHANGED <<stops, deletes>>

----------------------------------------------------------------------------
(* Raft.                                                                   *)

\* A leader takes one change at a time, once its term has committed an entry.
Stable(p) == /\ IsLeader(p) /\ (newest = p => ready)
             /\ \A c \in calls : c.at = p => c.stage # "appended"

Propose(c) ==
  /\ c.stage = "queued" /\ Stable(c.at)
  /\ LET p    == c.at
         next == IF c.op = "add" THEN With(known[p], c.id) ELSE Without(known[p], c.id)
     IN  IF next = {}
         THEN /\ Finish(c, "failed")
              /\ UNCHANGED <<drafts, known, condemned>>
         ELSE /\ Becomes(c, "appended")
              /\ known' = [known EXCEPT ![p] = next]
              /\ drafts' = IF p \in rivals THEN drafts \cup {next} ELSE drafts
              /\ condemned' = IF c.op = "remove" THEN condemned \cup {c.id} ELSE condemned
  /\ UNCHANGED <<procVars, role, newest, ready, rivals, elections, conf, hint,
                 stops, deletes>>

\* ErrNotLeader or ErrRaftShutdown.
Refuse(c) ==
  /\ c.stage = "queued" /\ ~IsLeader(c.at)
  /\ Finish(c, "failed")
  /\ UNCHANGED <<procVars, raftVars, stops, deletes, condemned>>

\* The configuration of leader p is committed: a majority Q of it has it.
Adopted(p, Q) ==
  /\ Majority(Q, known[p])
  /\ conf' = known[p]
  /\ drafts' = {}
  /\ known' = [q \in Procs |-> IF q \in Q THEN known[p] ELSE known[q]]
  /\ condemned' = condemned \ known[p]

Quorums(p) == SUBSET {q \in known[p] : RaftRuns(q)}

\* The first entry of the term.
Establish(p) ==
  /\ newest = p /\ ~ready
  /\ \E Q \in Quorums(p) : Adopted(p, Q)
  /\ ready' = TRUE /\ rivals' = {p}
  /\ UNCHANGED <<procVars, calls, role, newest, elections, hint, stops, deletes>>

\* The future of c resolves.  A leader that removed itself shuts raft down.
Commit(c) ==
  LET p == c.at
  IN  /\ c.stage = "appended" /\ newest = p /\ ready
      /\ \E Q \in Quorums(p) : Adopted(p, Q)
      /\ IF c.op = "add" THEN Finish(c, "done") ELSE Becomes(c, "noting")
      /\ IF p \in known[p]
         THEN UNCHANGED <<role, newest, ready, rivals, hint>>
         ELSE /\ role' = [role EXCEPT ![p] = "halted"]
              /\ newest' = None /\ ready' = FALSE /\ rivals' = rivals \ {p}
              /\ hint' = [hint EXCEPT ![p] = None]
      /\ UNCHANGED <<procVars, elections, stops, deletes>>

\* The answer came after the WriteTimeout of the server: it is not delivered.
TooLate(c) ==
  /\ c.stage = "done"
  /\ Becomes(c, "failed")
  /\ UNCHANGED <<procVars, raftVars, stops, deletes, condemned>>

Elect(p) ==
  /\ RaftRuns(p) /\ ~IsLeader(p) /\ elections < MaxElections
  /\ p \in known[p] /\ known[p] \in drafts \cup {conf}
  /\ HasQuorum(known[p])
  /\ role' = [role EXCEPT ![p] = "leader"]
  /\ hint' = [hint EXCEPT ![p] = p]
  /\ newest' = p /\ ready' = FALSE /\ rivals' = rivals \cup {p}
  /\ elections' = elections + 1
  /\ UNCHANGED <<procVars, calls, conf, drafts, known, stops, deletes, condemned>>

\* A heartbeat of the newest leader, with the entries that q lacks.
Learn(p, q) ==
  /\ newest = p /\ p # q /\ q \in known[p]
  /\ RaftRuns(q) /\ ~IsLeader(q)
  /\ known' = [known EXCEPT ![q] = known[p]]
  /\ hint' = [hint EXCEPT ![q] = IF Listens(q) THEN p ELSE None]
  /\ UNCHANGED <<procVars, calls, role, newest, ready, rivals, elections, conf, drafts,
                 stops, deletes, condemned>>

\* No heartbeat came in time: the leader it knew is not in office any more.
Forget(q) ==
  /\ hint[q] # None /\ hint[q] # newest /\ ~IsLeader(q)
  /\ hint' = [hint EXCEPT ![q] = None]
  /\ UNCHANGED <<procVars, calls, role, newest, ready, rivals, elections, conf, drafts,
                 known, stops, deletes, condemned>>

\* ErrLeadershipLost for the change in progress.
StepDown(p) ==
  /\ IsLeader(p)
  /\ role' = [role EXCEPT ![p] = "follower"]
  /\ hint' = [hint EXCEPT ![p] = None]
  /\ newest' = IF newest = p THEN None ELSE newest
  /\ ready' = (ready /\ newest # p)
  /\ rivals' = rivals \ {p}
  /\ LET lost == {c \in calls : c.at = p /\ c.stage = "appended"}
     IN  calls' = (calls \ lost) \cup
                    {[c EXCEPT !.stage = "failed"] : c \in {d \in lost : d.live}}
  /\ UNCHANGED <<procVars, elections, conf, drafts, known, stops, deletes, condemned>>

----------------------------------------------------------------------------
ProcStep(p) == Call(p) \/ Accepted(p) \/ Failed(p) \/ Redirected(p)

CallStep(c) == CheckAgain(c) \/ Noted(c) \/ Propose(c) \/ Refuse(c) \/ Commit(c)

Next ==
  \/ StartBoot
  \/ \E p \in Procs :
       \/ \E q \in Procs : Start(p, q) \/ DeleteServer(p, q) \/ Learn(p, q)
       \/ StartAlone(p) \/ Stop(p) \/ ProcStep(p) \/ MapRace(p)
       \/ Elect(p) \/ Establish(p) \/ Forget(p) \/ StepDown(p)
  \/ \E c \in calls : CallStep(c) \/ TooLate(c)

Spec == Init /\ [][Next]_vars

(***************************************************************************)
(* Processes and handlers run, and the callers that wait to send on a Go   *)
(* channel are served in turn.  A leader with a quorum commits and sends   *)
(* heartbeats; one that is not the newest steps down, by its lease or at   *)
(* the newer term.  Nothing is assumed of elections, operators or races.   *)
(***************************************************************************)
Fairness ==
  \A p \in Procs :
    /\ WF_vars(ProcStep(p))
    /\ WF_vars(\E c \in calls : c.id = p /\ c.op = "add" /\ CallStep(c))
    /\ SF_vars(\E c \in calls : c.id = p /\ c.op = "add" /\ Propose(c))
    /\ WF_vars(newest # p /\ StepDown(p))
    /\ WF_vars(Establish(p))
    /\ \A q \in Procs : WF_vars(Learn(p, q))

FairSpec == Spec /\ Fairness

----------------------------------------------------------------------------
(***************************************************************************)
(* A process that founds the cluster or joins it opens its HTTP port only  *)
(* when the cluster has committed it as a member, and stays one until a    *)
(* DELETE names it - through changes of leader, changes that are dropped   *)
(* with their leader and committed by the next, calls that outlive the     *)
(* process that made them, and restarts.  A process started with neither   *)
(* flag (place "alone") serves without being asked and may be no member.   *)
(***************************************************************************)
ServingNodesAreMembers ==
  \A p \in Procs : proc[p] = "serving" => p \in conf \cup condemned

(***************************************************************************)
(* A member leaves the committed configuration only after a DELETE has     *)
(* named it: not because the bootstrap node starts again, nor because a    *)
(* leader with an older configuration, or with one that was dropped and    *)
(* came back, brings its own into force.                                   *)
(***************************************************************************)
MembersLeaveByDelete == [][conf \subseteq conf' \cup condemned]_vars

(***************************************************************************)
(* A leader that has a quorum, and nobody listens who cannot hear of it    *)
(* and might name another.                                                 *)
(***************************************************************************)
Settled ==
  /\ newest # None /\ ready /\ Listens(newest) /\ HasQuorum(known[newest])
  /\ \A q \in Procs : Listens(q) =>
       \/ q \in known[newest] /\ RaftRuns(q)
       \/ Without(known[q], q) = {} /\ hint[q] = None

\* The leader's raft address leads p to the leader's HTTP port, or to none at all.
PortsFollowPattern(p) ==
  LET m == HttpOf[p][newest]
  IN  m = newest \/ m \notin Procs \/ ~Listens(m)

(***************************************************************************)
(* The join loop ends, although redirects are not counted: once the        *)
(* cluster has settled on a leader whose HTTP port follows the pattern, no *)
(* process asks for ever - whoever it asks first, whatever old leaders and *)
(* guesses its redirects have named, and although they name ports nobody   *)
(* listens at.                                                             *)
(***************************************************************************)
JoinEnds ==
  \A p \in Procs : <>[](Settled /\ PortsFollowPattern(p)) => []<>(proc[p] # "joining")
=============================================================================
