----------------------------- MODULE StoreClaims -----------------------------
(***************************************************************************)
(* What docs.md says of the request path and the code does not do.  Each   *)
(* property has a run in which TLC finds a behaviour that breaks it.       *)
(***************************************************************************)
EXTENDS ReplicatedStore

(***************************************************************************)
(* "FSM Application: Command executed on state machine / Response: Result  *)
(* returned to client" (docs.md:466-467).  RaftNode returns future.Error() *)
(* and drops future.Response(): an update that the FSM rejects - an        *)
(* unknown job, a transition that is not allowed, the spelling "Canceled"  *)
(* of problem_stmt.md - is answered 200.                                   *)
(***************************************************************************)
OkMeansApplied ==
  \A r \in Requests :
    call[r] = "ok" =>
      \E i \in 1 .. Len(log) : log[i] = r /\ CommandResult(states[i], cmd[r]) = "nil"
=============================================================================
