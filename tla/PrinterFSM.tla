----------------------------- MODULE PrinterFSM -----------------------------
(***************************************************************************)
(* One PrinterFSM (fsm/fsm.go): the state machine that Raft drives through *)
(* Apply.  Every apply method runs under the write lock, so one command is *)
(* one step.  This is also the abstract specification of the whole         *)
(* cluster: ReplicatedStore, with its nodes, leaders, crashes and          *)
(* snapshots, implements a single PrinterFSM (see PrinterService).         *)
(***************************************************************************)
EXTENDS PrinterCommands

VARIABLE db   \* the maps f.printers, f.filaments and f.printJobs

Init == db = EmptyDB

\* Apply dispatches on the command type; the four cases of its switch.
Execute(c) == db' = ApplyCommand(db, c)

AddPrinter           == \E c \in PrinterCommands  : Execute(c)
AddFilament          == \E c \in FilamentCommands : Execute(c)
AddPrintJob          == \E c \in JobCommands      : Execute(c)
UpdatePrintJobStatus == \E c \in UpdateCommands   : Execute(c)

Next == AddPrinter \/ AddFilament \/ AddPrintJob \/ UpdatePrintJobStatus

Spec == Init /\ [][Next]_db
----------------------------------------------------------------------------
\* The three maps hold what their Go types allow.
TypeOK == db \in DB

(***************************************************************************)
(* With non-negative weights on every request, no filament ever shows a    *)
(* negative remainder: a print heavier than the roll empties it (the       *)
(* "safety check" of applyUpdatePrintJobStatus) and nothing wraps around.  *)
(***************************************************************************)
NoOverdraft == \A f \in Filaments : db.filaments[f] # None => db.filaments[f] >= 0

(***************************************************************************)
(* A status update whose outcome the client never learned can be sent      *)
(* again: applied twice in a row it does what it does once, so no retry    *)
(* charges a filament twice.                                               *)
(***************************************************************************)
RetriedUpdateIsHarmless ==
  \A c \in UpdateCommands :
    ApplyCommand(ApplyCommand(db, c), c) = ApplyCommand(db, c)

\* Job j goes from Running to Done in this step.
Finishes(j) ==
  /\ db.printJobs[j] # None /\ db'.printJobs[j] # None
  /\ db.printJobs[j].status = "Running" /\ db'.printJobs[j].status = "Done"

(***************************************************************************)
(* Filament is consumed by finished prints and by nothing else: unless a   *)
(* client posts filaments or jobs, a remainder changes only in the step in *)
(* which a job on that roll finishes, a job finishes only on a roll that   *)
(* exists, and no step finishes two jobs.                                  *)
(***************************************************************************)
OnlyFinishedPrintsConsume ==
  [][\/ /\ \A f \in Filaments :
             db'.filaments[f] # db.filaments[f] =>
               \E j \in Jobs : Finishes(j) /\ db.printJobs[j].filament = f
        /\ \A j \in Jobs :
             Finishes(j) => /\ db.filaments[db.printJobs[j].filament] # None
                            /\ \A k \in Jobs : Finishes(k) => k = j
     \/ AddFilament \/ AddPrintJob]_db
============================================================================
