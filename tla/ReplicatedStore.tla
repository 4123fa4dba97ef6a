-------------------------- MODULE ReplicatedStore --------------------------
(***************************************************************************)
(* The write path of a Raft3D cluster: HTTP handler (api/endpoint_api.go), *)
(* Store (store/store.go), RaftNode (raftnode/node.go) and the PrinterFSM  *)
(* that every node feeds from the committed log, with its snapshots        *)
(* (fsm/fsm.go).  A call is one POST; the client picks any node.           *)
(***************************************************************************)
EXTENDS RaftContract, PrinterCommands

CONSTANT ClientCommands   \* what clients ask for

ASSUME ClientCommandsAssumption == ClientCommands \subseteq Commands

VARIABLES
  call,     \* call[r]: where the call of r is, see Calls
  cmd,      \* cmd[r]: its command
  node,     \* node[r]: the node it was sent to
  before,   \* history: the calls that had returned when r was sent
  fsm,      \* fsm[n]: the three maps of n
  applied,  \* applied[n]: number of committed calls fsm[n] has seen
  snap,     \* snap[n]: the PrinterSnapshot being persisted, None if none
  disk,     \* disk[n]: the newest snapshot in the snapshot store of n
  states    \* history: states[i + 1] is EmptyDB after i committed calls

callVars  == <<call, cmd, node, before>>
fsmVars   == <<fsm, applied, snap, disk>>
vars      == <<raftVars, callVars, fsmVars, states>>

(***************************************************************************)
(* idle      not sent                                                      *)
(* checked   passed the leader check of RaftNode, not yet in raft.Apply    *)
(* waiting   in future.Error()                                             *)
(* ok        answered 200 or 201                                           *)
(* refused   answered 412, "not the leader"                                *)
(* error     answered 500                                                  *)
(* lost      the connection broke                                          *)
(***************************************************************************)
Answers == {"ok", "refused", "error", "lost"}
Calls   == {"idle", "checked", "waiting"} \cup Answers

Snapshots == [index : Nat, db : DB]

TypeOK ==
  /\ RaftTypeOK
  /\ call \in [Requests -> Calls]
  /\ cmd \in [Requests -> ClientCommands \cup {None}]
  /\ node \in [Requests -> Nodes \cup {None}]
  /\ before \in [Requests -> SUBSET Requests]
  /\ \A r \in Requests :
       call[r] # "idle" => cmd[r] \in ClientCommands /\ node[r] \in Nodes
  /\ fsm \in [Nodes -> DB]
  /\ applied \in [Nodes -> Nat]
  /\ snap \in [Nodes -> Snapshots \cup {None}]
  /\ disk \in [Nodes -> Snapshots]
  /\ states \in Seq(DB)

Init ==
  /\ RaftInit
  /\ call = [r \in Requests |-> "idle"]
  /\ cmd = [r \in Requests |-> None]
  /\ node = [r \in Requests |-> None]
  /\ before = [r \in Requests |-> {}]
  /\ fsm = [n \in Nodes |-> EmptyDB]
  /\ applied = [n \in Nodes |-> 0]
  /\ snap = [n \in Nodes |-> None]
  /\ disk = [n \in Nodes |-> [index |-> 0, db |-> EmptyDB]]
  /\ states = <<EmptyDB>>

----------------------------------------------------------------------------
(* The handlers.                                                           *)

\* The handler and RaftNode.AddX up to the check of State().
Receive(r, n, c) ==
  /\ n \in up /\ call[r] = "idle"
  /\ call' = [call EXCEPT ![r] = IF IsLeader(n) THEN "checked" ELSE "refused"]
  /\ cmd' = [cmd EXCEPT ![r] = c]
  /\ node' = [node EXCEPT ![r] = n]
  /\ before' = [before EXCEPT ![r] = {s \in Requests : call[s] \in Answers}]
  /\ UNCHANGED <<raftVars, fsmVars, states>>

\* Mutant: AddX returns without waiting for the future.
ProposeWithoutWaiting(r) ==
  /\ call[r] = "checked"
  /\ \/ /\ Appended(node[r], r)
        /\ call' = [call EXCEPT ![r] = "ok"]
     \/ /\ ~IsLeader(node[r])
        /\ call' = [call EXCEPT ![r] = "error"]
        /\ UNCHANGED raftVars
  /\ UNCHANGED <<cmd, node, before, fsmVars, states>>

\* Mutant: a failed command is handed to raft again after the answer.
ProposeAgain(r) ==
  /\ call[r] \in {"checked", "error"}
  /\ \/ /\ Appended(node[r], r)
        /\ call' = [call EXCEPT ![r] = IF @ = "checked" THEN "waiting" ELSE @]
     \/ /\ ~IsLeader(node[r])
        /\ call' = [call EXCEPT ![r] = "error"]
        /\ UNCHANGED raftVars
  /\ UNCHANGED <<cmd, node, before, fsmVars, states>>

\* Mutant: the handler waits until its node leads again.
ProposeWhenLeader(r) ==
  /\ call[r] = "checked"
  /\ Appended(node[r], r)
  /\ call' = [call EXCEPT ![r] = "waiting"]
  /\ UNCHANGED <<cmd, node, before, fsmVars, states>>

\* Mutant: raft takes the command although the node does not lead any more.
ProposeAnywhere(r) ==
  /\ call[r] = "checked"
  /\ Appended(node[r], r) \/ (~IsLeader(node[r]) /\ UNCHANGED raftVars)
  /\ call' = [call EXCEPT ![r] = "waiting"]
  /\ UNCHANGED <<cmd, node, before, fsmVars, states>>

(***************************************************************************)
(* raft.Apply.  The role may have changed since the check: then the future *)
(* fails with raft's own ErrNotLeader, whose text is not the one the       *)
(* handler looks for, and the client gets a 500.                           *)
(***************************************************************************)
Propose(r) ==
  /\ call[r] = "checked"
  /\ \/ /\ Appended(node[r], r)
        /\ call' = [call EXCEPT ![r] = "waiting"]
     \/ /\ ~IsLeader(node[r])
        /\ call' = [call EXCEPT ![r] = "error"]
        /\ UNCHANGED raftVars
  /\ UNCHANGED <<cmd, node, before, fsmVars, states>>

\* raft.Apply could not enqueue the command within its ten seconds.
EnqueueTimeout(r) ==
  /\ call[r] = "checked"
  /\ call' = [call EXCEPT ![r] = "error"]
  /\ UNCHANGED <<raftVars, cmd, node, before, fsmVars, states>>

\* The server's WriteTimeout passes before the future resolves: the handler
\* goes on, but its answer can no longer be written and the client gives up.
WriteTimeout(r) ==
  /\ call[r] = "waiting"
  /\ call' = [call EXCEPT ![r] = "lost"]
  /\ UNCHANGED <<raftVars, cmd, node, before, fsmVars, states>>

----------------------------------------------------------------------------
(* Raft, as far as the rest of the code notices.                           *)

\* The history of database states follows the committed log.
Record == states' = Append(states, ApplyCommand(states[Len(states)], cmd[log'[Len(log')]]))

Elect(n)     == Elected(n)     /\ UNCHANGED <<callVars, fsmVars, states>>
Inherit(n)   == (\E t \in Terms : Inherited(n, t)) /\ Record /\ UNCHANGED <<callVars, fsmVars>>
Establish(n) == Established(n) /\ UNCHANGED <<callVars, fsmVars, states>>
Commit(n)    == Committed(n)   /\ Record /\ UNCHANGED <<callVars, fsmVars>>
Learn(n)     == Learned(n)     /\ UNCHANGED <<callVars, fsmVars, states>>

\* The calls at n that are in the given stages.
CallsAt(n, stages) == {r \in Requests : node[r] = n /\ call[r] \in stages}

\* Futures that are not committed fail with ErrLeadershipLost.
StepDown(n) ==
  /\ SteppedDown(n)
  /\ LET failed == CallsAt(n, {"waiting"}) \ KnownCalls(n)
     IN  call' = [r \in Requests |-> IF r \in failed THEN "error" ELSE call[r]]
  /\ UNCHANGED <<cmd, node, before, fsmVars, states>>

----------------------------------------------------------------------------
(* The FSM of a node.                                                      *)

\* Mutant: the apply loop stops at a command that the FSM rejects.
ApplyNextUnlessRejected(n) ==
  /\ n \in up /\ applied[n] < known[n]
  /\ LET r == log[applied[n] + 1]
     IN  /\ CommandResult(fsm[n], cmd[r]) = "nil"
         /\ fsm' = [fsm EXCEPT ![n] = ApplyCommand(@, cmd[r])]
         /\ call' = [call EXCEPT ![r] =
                       IF node[r] = n /\ @ = "waiting" THEN "ok" ELSE @]
  /\ applied' = [applied EXCEPT ![n] = @ + 1]
  /\ UNCHANGED <<raftVars, cmd, node, before, snap, disk, states>>

(***************************************************************************)
(* FSM.Apply of the next committed call.  If its future is at this node,   *)
(* the future resolves without error whatever Apply returned: RaftNode     *)
(* looks at future.Error() and never at future.Response().                 *)
(***************************************************************************)
ApplyNext(n) ==
  /\ n \in up /\ applied[n] < known[n]
  /\ LET r == log[applied[n] + 1]
     IN  /\ fsm' = [fsm EXCEPT ![n] = ApplyCommand(@, cmd[r])]
         /\ call' = [call EXCEPT ![r] =
                       IF node[r] = n /\ @ = "waiting" THEN "ok" ELSE @]
  /\ applied' = [applied EXCEPT ![n] = @ + 1]
  /\ UNCHANGED <<raftVars, cmd, node, before, snap, disk, states>>

\* FSM.Snapshot copies the maps between two calls of Apply.
TakeSnapshot(n) ==
  /\ n \in up /\ snap[n] = None
  /\ applied[n] > disk[n].index
  /\ snap' = [snap EXCEPT ![n] = [index |-> applied[n], db |-> fsm[n]]]
  /\ UNCHANGED <<raftVars, callVars, fsm, applied, disk, states>>

\* Mutant: Snapshot hands out the live maps instead of copies of them.
PersistLiveMaps(n) ==
  /\ n \in up /\ snap[n] # None
  /\ disk' = [disk EXCEPT ![n] = IF snap[n].index > @.index
                                 THEN [index |-> snap[n].index, db |-> fsm[n]] ELSE @]
  /\ snap' = [snap EXCEPT ![n] = None]
  /\ UNCHANGED <<raftVars, callVars, fsm, applied, states>>

\* Persist writes the copy while Apply goes on; the store lists the snapshot
\* with the highest index first.
Persist(n) ==
  /\ n \in up /\ snap[n] # None
  /\ disk' = [disk EXCEPT ![n] = IF snap[n].index > @.index THEN snap[n] ELSE @]
  /\ snap' = [snap EXCEPT ![n] = None]
  /\ UNCHANGED <<raftVars, callVars, fsm, applied, states>>

\* sink.Cancel(), or a sink that does not close.
PersistFails(n) ==
  /\ n \in up /\ snap[n] # None
  /\ snap' = [snap EXCEPT ![n] = None]
  /\ UNCHANGED <<raftVars, callVars, fsm, applied, disk, states>>

\* Mutant: Restore forgets the third map.
RestoreWithoutJobs(n, s) ==
  /\ fsm' = [fsm EXCEPT ![n] = [s.db EXCEPT !.printJobs = fsm[n].printJobs]]
  /\ applied' = [applied EXCEPT ![n] = s.index]

\* FSM.Restore replaces the three maps.
Restore(n, s) ==
  /\ fsm' = [fsm EXCEPT ![n] = s.db]
  /\ applied' = [applied EXCEPT ![n] = s.index]

\* Mutant: the follower does not compare the snapshot with what it has.
InstallAnySnapshot(n) ==
  /\ n \in up /\ ~IsLeader(n) /\ applied[n] = known[n]
  /\ \E m \in Nodes :
       /\ Current(m)
       /\ Restore(n, disk[m])
       /\ disk' = [disk EXCEPT ![n] = disk[m]]
       /\ Loaded(n, disk[m].index)
  /\ UNCHANGED <<up, callVars, snap, states>>

\* A follower that is too far behind gets the leader's newest snapshot; raft
\* hands it to the FSM after everything the follower knew to be committed.
InstallSnapshot(n) ==
  /\ n \in up /\ ~IsLeader(n) /\ applied[n] = known[n]
  /\ \E m \in Nodes :
       /\ Current(m) /\ disk[m].index > known[n]
       /\ Restore(n, disk[m])
       /\ disk' = [disk EXCEPT ![n] = disk[m]]
       /\ Loaded(n, disk[m].index)
  /\ UNCHANGED <<up, callVars, snap, states>>

----------------------------------------------------------------------------
(* Processes.                                                              *)

Crash(n) ==
  /\ Crashed(n)
  /\ LET broken == CallsAt(n, {"checked", "waiting"})
     IN  call' = [r \in Requests |-> IF r \in broken THEN "lost" ELSE call[r]]
  /\ fsm' = [fsm EXCEPT ![n] = EmptyDB]
  /\ applied' = [applied EXCEPT ![n] = 0]
  /\ snap' = [snap EXCEPT ![n] = None]
  /\ UNCHANGED <<cmd, node, before, disk, states>>

\* NewRaftNode: an empty FSM, into which raft restores the newest snapshot.
\* The log behind it is applied only once a leader commits something.
Restart(n) ==
  /\ n \notin up
  /\ up' = up \cup {n}
  /\ Restore(n, disk[n])
  /\ Loaded(n, disk[n].index)
  /\ UNCHANGED <<callVars, snap, disk, states>>

----------------------------------------------------------------------------
RaftStep(n) == Elect(n) \/ Inherit(n) \/ Establish(n) \/ Commit(n) \/ Learn(n) \/ StepDown(n)

FSMStep(n) == ApplyNext(n) \/ TakeSnapshot(n) \/ Persist(n) \/ PersistFails(n) \/ InstallSnapshot(n)

CallStep(r) ==
  \/ \E n \in Nodes, c \in ClientCommands : Receive(r, n, c)
  \/ Propose(r) \/ EnqueueTimeout(r) \/ WriteTimeout(r)

Next ==
  \/ \E r \in Requests : CallStep(r)
  \/ \E n \in Nodes : RaftStep(n) \/ FSMStep(n) \/ Crash(n) \/ Restart(n)

Spec == Init /\ [][Next]_vars

(***************************************************************************)
(* Handlers run, the FSM goroutine runs, a leader that reaches a quorum    *)
(* replicates, one that cannot (or that hears of a newer term) steps down. *)
(* Nothing is assumed of elections, restarts, snapshots or clients.        *)
(***************************************************************************)
Fairness ==
  /\ \A r \in Requests : WF_vars(Propose(r))
  /\ \A n \in Nodes :
       /\ WF_vars(ApplyNext(n))
       /\ WF_vars(Establish(n))
       /\ WF_vars(Commit(n))
       /\ WF_vars(Learn(n))
       /\ WF_vars(MustStepDown(n) /\ StepDown(n))

FairSpec == Spec /\ Fairness

----------------------------------------------------------------------------
(***************************************************************************)
(* Every node holds exactly what the first applied[n] committed calls make *)
(* of an empty database: no call is skipped, repeated or reordered by      *)
(* crashes, restarts, restored snapshots or changes of leader.             *)
(***************************************************************************)
ReplicasFollowLog ==
  \A n \in Nodes :
    /\ applied[n] <= known[n]
    /\ applied[n] < Len(states)
    /\ fsm[n] = states[applied[n] + 1]

\* A snapshot holds the database of its index.
Follows(s) == s.index < Len(states) /\ s.db = states[s.index + 1]

(***************************************************************************)
(* A snapshot is the database at its index although Apply goes on while it *)
(* is written, and a node that restarts from it or receives it misses      *)
(* nothing and repeats nothing.                                            *)
(***************************************************************************)
SnapshotsFollowLog ==
  \A n \in Nodes : Follows(disk[n]) /\ (snap[n] # None => Follows(snap[n]))

(***************************************************************************)
(* GETs at one node never go back in time while it runs: neither a change  *)
(* of leader nor an installed snapshot undoes what a client has seen there. *)
(***************************************************************************)
ReadsGoForward == [][\A n \in up \cap up' : applied'[n] >= applied[n]]_vars

Executed == {log[i] : i \in 1 .. Len(log)}

(***************************************************************************)
(* What an answer tells the client is true and stays true: 200 and 201     *)
(* mean that the call is in the committed log, 412 that it never will be;  *)
(* and no call is committed twice, whatever happened to its leader.        *)
(***************************************************************************)
AnswersAreHonest ==
  /\ \A r \in Requests :
       /\ call[r] = "ok" => r \in Executed
       /\ call[r] = "refused" =>
            r \notin Executed /\ \A t \in Terms : \A i \in 1 .. Len(pend[t]) : pend[t][i] # r
  /\ \A i, j \in 1 .. Len(log) : log[i] = log[j] => i = j

(***************************************************************************)
(* A handler that waits has something to wait for: its process runs, and   *)
(* its node still leads or will apply the call next time it can, because   *)
(* it knows that the call is committed and has not gone past it.  So no    *)
(* depose, crash or installed snapshot leaves a future that nothing will   *)
(* ever resolve.                                                           *)
(***************************************************************************)
NoCallIsForgotten ==
  \A r \in Requests : call[r] = "waiting" =>
    LET n == node[r]
    IN  /\ n \in up
        /\ IsLeader(n) \/ \E i \in (applied[n] + 1) .. known[n] : log[i] = r

----------------------------------------------------------------------------
(* The cluster implements one PrinterFSM.                                  *)

Outcome(stage) ==
  CASE stage \in {"checked", "waiting"} -> "open"
    [] stage \in {"error", "lost"}      -> "unknown"
    [] OTHER                            -> stage

Service == INSTANCE PrinterService
  WITH db       <- states[Len(states)],
       call     <- [r \in Requests |-> Outcome(call[r])],
       executed <- Executed

(***************************************************************************)
(* Clients cannot tell the cluster from a single PrinterFSM whose failed   *)
(* calls have an unknown outcome: writes are atomic, happen at most once   *)
(* and between request and answer, and a call that failed never takes      *)
(* effect behind the back of a later call that succeeded.                  *)
(***************************************************************************)
ImplementsService == Service!Spec

----------------------------------------------------------------------------
(***************************************************************************)
(* No handler hangs: a call that reached a node is answered or its         *)
(* connection breaks, also when its leader is deposed or loses its quorum. *)
(***************************************************************************)
EveryCallReturns ==
  \A r \in Requests : call[r] \in {"checked", "waiting"} ~> call[r] \in Answers

\* Node n runs and some leader with a quorum does too.
Stable(n) == n \in up /\ HasQuorum /\ \E m \in Nodes : Current(m)

(***************************************************************************)
(* Once a leader stays in office, every node that stays up applies every   *)
(* committed call, also one that crashed, restarted from an old snapshot   *)
(* or led an older term.                                                   *)
(***************************************************************************)
ReplicasCatchUp ==
  \A n \in Nodes : <>[]Stable(n) => <>[](applied[n] = Len(log))
=============================================================================
