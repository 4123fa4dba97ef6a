-------------------------- MODULE PrinterCommands --------------------------
(***************************************************************************)
(* The deterministic part of the printer state machine (fsm/fsm.go): the   *)
(* records it stores, the commands the HTTP handlers let through, and what *)
(* one command does to the three maps.  It has no variables: PrinterFSM    *)
(* runs it once, ReplicatedStore runs it on every node.                    *)
(*                                                                         *)
(* A Go map is a total function whose value is None at an absent key.      *)
(* Fields that no code looks at (company, model, type, colour, file path,  *)
(* total weight) are folded into one opaque value or left out.             *)
(***************************************************************************)
EXTENDS Integers

CONSTANTS
  Printers, Filaments, Jobs,  \* the identifiers clients use
  Details,                    \* printer payloads (company and model)
  Weights,                    \* the gram values clients send
  IntHalf,                    \* Go ints run from -IntHalf to IntHalf - 1
  None                        \* "key not in the map"

GoInt == -IntHalf .. (IntHalf - 1)

ASSUME IntHalfAssumption == IntHalf \in Nat \ {0}
ASSUME WeightsAssumption == Weights \subseteq GoInt

(***************************************************************************)
(* "Failed" stands for every status string that the FSM does not know; the *)
(* empty status is what a POST without a status field carries.             *)
(***************************************************************************)
Unset      == ""
Statuses   == {"Queued", "Running", "Done", "Cancelled", "Failed"}
Terminal   == {"Done", "Cancelled"}
PrintJob   == [printer : Printers, filament : Filaments,
               weight : GoInt, status : Statuses]

ASSUME NoneAssumption == None \notin Details \cup Int \cup PrintJob

DB == [printers  : [Printers -> Details \cup {None}],
       filaments : [Filaments -> GoInt \cup {None}],
       printJobs : [Jobs -> PrintJob \cup {None}]]

EmptyDB == [printers  |-> [p \in Printers |-> None],
            filaments |-> [f \in Filaments |-> None],
            printJobs |-> [j \in Jobs |-> None]]

(***************************************************************************)
(* What a handler accepts: the identifiers must be non-empty (they are     *)
(* members of the sets above), everything else is taken as it comes -      *)
(* weights of either sign, any status, references to absent records.       *)
(***************************************************************************)
PrinterCommands  == [type : {"add_printer"}, id : Printers, details : Details]
FilamentCommands == [type : {"add_filament"}, id : Filaments, remaining : Weights]
JobCommands      == [type : {"add_print_job"}, id : Jobs, printer : Printers,
                     filament : Filaments, weight : Weights,
                     status : Statuses \cup {Unset}]
UpdateCommands   == [type : {"update_print_job_status"}, id : Jobs, status : Statuses]

Commands == PrinterCommands \cup FilamentCommands \cup JobCommands \cup UpdateCommands

----------------------------------------------------------------------------
ApplyAddPrinter(db, c) == [db EXCEPT !.printers[c.id] = c.details]

ApplyAddFilament(db, c) == [db EXCEPT !.filaments[c.id] = c.remaining]

\* Mutant: the "if not set" default is lost.
AddPrintJobWithoutDefault(db, c) ==
  [db EXCEPT !.printJobs[c.id] =
     [printer |-> c.printer, filament |-> c.filament, weight |-> c.weight,
      status |-> c.status]]

ApplyAddPrintJob(db, c) ==
  [db EXCEPT !.printJobs[c.id] =
     [printer |-> c.printer, filament |-> c.filament, weight |-> c.weight,
      status |-> IF c.status = Unset THEN "Queued" ELSE c.status]]

\* Mutant: a finished job can be started again.
ReprintTransition(current, next) ==
  \/ current = "Queued"  /\ next \in {"Running", "Cancelled"}
  \/ current = "Running" /\ next \in {"Done", "Cancelled"}
  \/ current = "Done"    /\ next = "Running"

ValidTransition(current, next) ==
  \/ current = "Queued"  /\ next \in {"Running", "Cancelled"}
  \/ current = "Running" /\ next \in {"Done", "Cancelled"}

\* Go's int subtraction wraps around.
Wrap(x) == ((x + IntHalf) % (2 * IntHalf)) - IntHalf

\* Mutant: the branch the code calls "Safety check" is gone.
DeductUnchecked(remaining, weight) == Wrap(remaining - weight)

\* What is left of a filament after a print of the given weight.
Deduct(remaining, weight) ==
  IF remaining >= weight THEN Wrap(remaining - weight) ELSE 0

\* The step that takes the weight of the job off its filament.
Charges(job, status) == status = "Done" /\ job.status = "Running"

\* The three error returns of the update, in the order the code tests them.
UpdateResult(db, c) ==
  LET job == db.printJobs[c.id]
  IN  IF job = None THEN "job not found"
      ELSE IF ~ValidTransition(job.status, c.status) THEN "invalid transition"
      ELSE IF Charges(job, c.status) /\ db.filaments[job.filament] = None
           THEN "filament not found"
      ELSE "nil"

\* Mutant: the changed copy of the job is never stored back in the map.
UpdateLosesStatus(db, c) ==
  LET job == db.printJobs[c.id]
  IN  IF UpdateResult(db, c) # "nil" \/ ~Charges(job, c.status) THEN db
      ELSE [db EXCEPT !.filaments[job.filament] = Deduct(@, job.weight)]

\* Mutant: the filament is charged when the print starts.
UpdateChargesAtStart(db, c) ==
  LET job == db.printJobs[c.id]
  IN  IF UpdateResult(db, c) # "nil" THEN db
      ELSE [db EXCEPT
              !.filaments[job.filament] =
                 IF c.status = "Running" /\ @ # None THEN Deduct(@, job.weight) ELSE @,
              !.printJobs[c.id].status = c.status]

ApplyUpdatePrintJobStatus(db, c) ==
  LET job == db.printJobs[c.id]
      f   == job.filament
      rest == IF Charges(job, c.status) THEN Deduct(db.filaments[f], job.weight)
              ELSE db.filaments[f]
  IN  IF UpdateResult(db, c) # "nil" THEN db
      ELSE [db EXCEPT !.filaments = [db.filaments EXCEPT ![f] = rest],
                      !.printJobs = [db.printJobs EXCEPT
                                       ![c.id] = [job EXCEPT !.status = c.status]]]

ApplyCommand(db, c) ==
  CASE c.type = "add_printer"             -> ApplyAddPrinter(db, c)
    [] c.type = "add_filament"            -> ApplyAddFilament(db, c)
    [] c.type = "add_print_job"           -> ApplyAddPrintJob(db, c)
    [] c.type = "update_print_job_status" -> ApplyUpdatePrintJobStatus(db, c)

\* The value Apply returns to Raft, which keeps it in the future's response.
Results == {"nil", "job not found", "invalid transition", "filament not found"}

CommandResult(db, c) ==
  IF c.type = "update_print_job_status" THEN UpdateResult(db, c) ELSE "nil"
============================================================================
