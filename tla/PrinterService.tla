--------------------------- MODULE PrinterService ---------------------------
(***************************************************************************)
(* What the cluster promises to the clients that write to it, with no node *)
(* in sight: one PrinterFSM and calls to it.                               *)
(*   - A call that is answered with success has executed, exactly once,    *)
(*     between its request and its answer.                                 *)
(*   - A call that is refused ("not the leader", 412) never executes.      *)
(*   - A call that fails in any other way (500, broken connection) may     *)
(*     have executed or may execute later, at most once - but never after  *)
(*     a call that was sent after the failure and succeeded.               *)
(* ReplicatedStore implements this specification.                          *)
(***************************************************************************)
EXTENDS PrinterCommands

CONSTANTS Requests,        \* the calls clients make
          ClientCommands   \* what they ask for, a subset of Commands

VARIABLES
  db,        \* the state of the one FSM
  call,      \* call[r]: "idle", "open", "ok", "refused" or "unknown"
  cmd,       \* cmd[r]: the command of call r, None before it is made
  before,    \* before[r]: the calls that had returned when r was made
  executed   \* the calls that took effect

serviceVars == <<db, call, cmd, before, executed>>

Returned == {r \in Requests : call[r] \in {"ok", "refused", "unknown"}}

Init ==
  /\ db = EmptyDB
  /\ call = [r \in Requests |-> "idle"]
  /\ cmd = [r \in Requests |-> None]
  /\ before = [r \in Requests |-> {}]
  /\ executed = {}

Invoke(r, c, answer) ==
  /\ call[r] = "idle"
  /\ call' = [call EXCEPT ![r] = answer]
  /\ cmd' = [cmd EXCEPT ![r] = c]
  /\ before' = [before EXCEPT ![r] = Returned]
  /\ UNCHANGED <<db, executed>>

Request == \E r \in Requests, c \in ClientCommands :
             \E answer \in {"open", "refused"} : Invoke(r, c, answer)

\* A call that nobody waits for any more has missed its chance once a later
\* call succeeded.
Overtaken(r) == \E s \in Requests : r \in before[s] /\ call[s] = "ok"

Execute(r) ==
  /\ call[r] \in {"open", "unknown"}
  /\ r \notin executed
  /\ ~Overtaken(r)
  /\ db' = ApplyCommand(db, cmd[r])
  /\ executed' = executed \cup {r}
  /\ UNCHANGED <<call, cmd, before>>

Succeed(r) ==
  /\ call[r] = "open"
  /\ r \in executed
  /\ call' = [call EXCEPT ![r] = "ok"]
  /\ UNCHANGED <<db, cmd, before, executed>>

\* A node that fails or loses its leadership fails all its calls at once.
Fail(S) ==
  /\ \A r \in S : call[r] = "open"
  /\ call' = [r \in Requests |-> IF r \in S THEN "unknown" ELSE call[r]]
  /\ UNCHANGED <<db, cmd, before, executed>>

Next ==
  \/ Request
  \/ \E r \in Requests : Execute(r) \/ Succeed(r)
  \/ \E S \in SUBSET Requests : Fail(S)

Spec == Init /\ [][Next]_serviceVars
=============================================================================
