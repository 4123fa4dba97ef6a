----------------------- MODULE PrinterCommandsLemmas -----------------------
(***************************************************************************)
(* Facts about the operators of PrinterCommands, for every value of the    *)
(* constants.  They are proved once here and used by the proofs about one  *)
(* FSM (PrinterFSMProofs) and about the cluster (ReplicatedStoreProofs).   *)
(***************************************************************************)
EXTENDS PrinterCommands, TLAPS

\* Go's subtraction stays within an int.
LEMMA WrapType == \A x \in Int : Wrap(x) \in GoInt
BY IntHalfAssumption DEF Wrap, GoInt

\* A result that fits is not changed.
LEMMA WrapFits == \A x \in GoInt : Wrap(x) = x
BY IntHalfAssumption DEF Wrap, GoInt

\* What is left of a filament is an int, and between nothing and what was
\* there when no weight is negative.
LEMMA DeductType ==
  ASSUME NEW x \in GoInt, NEW w \in GoInt
  PROVE  Deduct(x, w) \in GoInt
BY IntHalfAssumption, WrapType DEF Deduct, GoInt

LEMMA DeductBounds ==
  ASSUME NEW x \in GoInt, NEW w \in GoInt, x >= 0, w >= 0
  PROVE  Deduct(x, w) >= 0 /\ Deduct(x, w) <= x
BY IntHalfAssumption, WrapFits DEF Deduct, GoInt

LEMMA EmptyDBType == EmptyDB \in DB
BY DEF EmptyDB, DB

\* The update keeps the database well typed: the one method that reads what
\* it writes.
LEMMA UpdateType ==
  ASSUME NEW d \in DB, NEW c \in UpdateCommands
  PROVE  ApplyUpdatePrintJobStatus(d, c) \in DB
<1> DEFINE job == d.printJobs[c.id]
           f   == job.filament
<1>1. CASE UpdateResult(d, c) # "nil"
  BY <1>1 DEF ApplyUpdatePrintJobStatus
<1>2. CASE UpdateResult(d, c) = "nil"
  <2>1. c.id \in Jobs /\ c.status \in Statuses
    BY DEF UpdateCommands
  <2>2. job \in PrintJob
    BY <1>2, <2>1 DEF UpdateResult, DB
  <2>3. f \in Filaments /\ job.weight \in GoInt
    BY <2>2 DEF PrintJob
  <2>4. Charges(job, c.status) => d.filaments[f] \in GoInt
    BY <1>2, <2>2, <2>3 DEF UpdateResult, DB
  <2> DEFINE rest == IF Charges(job, c.status) THEN Deduct(d.filaments[f], job.weight)
                     ELSE d.filaments[f]
  <2>5. rest \in GoInt \cup {None}
    BY <2>3, <2>4, DeductType DEF DB
  <2>6. [job EXCEPT !.status = c.status] \in PrintJob
    BY <2>1, <2>2 DEF PrintJob
  <2>7. ApplyUpdatePrintJobStatus(d, c)
          = [d EXCEPT !.filaments = [d.filaments EXCEPT ![f] = rest],
                      !.printJobs = [d.printJobs EXCEPT ![c.id] = [job EXCEPT !.status = c.status]]]
    BY <1>2 DEF ApplyUpdatePrintJobStatus
  <2> DEFINE fs == [d.filaments EXCEPT ![f] = rest]
             js == [d.printJobs EXCEPT ![c.id] = [job EXCEPT !.status = c.status]]
  <2>8. fs \in [Filaments -> GoInt \cup {None}]
    BY <2>5 DEF DB
  <2>9. js \in [Jobs -> PrintJob \cup {None}]
    BY <2>6 DEF DB
  <2> HIDE DEF fs, js
  <2>10. [d EXCEPT !.filaments = fs, !.printJobs = js] \in DB
    BY <2>8, <2>9 DEF DB
  <2>11. QED
    BY <2>7, <2>10 DEF fs, js
<1>3. QED
  BY <1>1, <1>2

\* What a status update that is not rejected changes: the status of its job
\* and, when the job finishes, the filament of the job.
LEMMA UpdateEffect ==
  ASSUME NEW d \in DB, NEW c \in UpdateCommands, UpdateResult(d, c) = "nil",
         NEW e, e = ApplyUpdatePrintJobStatus(d, c)
  PROVE  LET job == d.printJobs[c.id]
             f   == job.filament
         IN  /\ c.id \in Jobs /\ job \in PrintJob /\ f \in Filaments
             /\ ValidTransition(job.status, c.status)
             /\ Charges(job, c.status) => d.filaments[f] \in GoInt
             /\ e.filaments = [d.filaments EXCEPT ![f] =
                                 IF Charges(job, c.status) THEN Deduct(d.filaments[f], job.weight)
                                 ELSE d.filaments[f]]
             /\ e.printJobs = [d.printJobs EXCEPT ![c.id] = [job EXCEPT !.status = c.status]]
<1> DEFINE job == d.printJobs[c.id]
           f   == job.filament
<1>1. c.id \in Jobs
  BY DEF UpdateCommands
<1>2. job \in PrintJob /\ ValidTransition(job.status, c.status)
  BY <1>1 DEF UpdateResult, DB
<1>3. f \in Filaments
  BY <1>2 DEF PrintJob
<1>4. Charges(job, c.status) => d.filaments[f] \in GoInt
  BY <1>2, <1>3 DEF UpdateResult, DB
<1> DEFINE fs == [d.filaments EXCEPT ![f] = IF Charges(job, c.status)
                                            THEN Deduct(d.filaments[f], job.weight)
                                            ELSE d.filaments[f]]
           js == [d.printJobs EXCEPT ![c.id] = [job EXCEPT !.status = c.status]]
<1>5. e = [d EXCEPT !.filaments = fs, !.printJobs = js]
  BY DEF ApplyUpdatePrintJobStatus
<1> HIDE DEF fs, js
<1>6. e.filaments = fs /\ e.printJobs = js
  BY <1>5 DEF DB
<1>7. QED
  BY <1>1, <1>2, <1>3, <1>4, <1>6 DEF fs, js

\* No status may follow itself, so an update that was applied is rejected when
\* it comes again.
LEMMA UpdateIsIdempotent ==
  ASSUME NEW d \in DB, NEW c \in UpdateCommands
  PROVE  ApplyCommand(ApplyCommand(d, c), c) = ApplyCommand(d, c)
<1> DEFINE e == ApplyUpdatePrintJobStatus(d, c)
<1>1. \A x : ApplyCommand(x, c) = ApplyUpdatePrintJobStatus(x, c)
  BY DEF UpdateCommands, ApplyCommand
<1>2. UpdateResult(e, c) # "nil" \/ UpdateResult(d, c) # "nil"
  <2> SUFFICES ASSUME UpdateResult(d, c) = "nil"
               PROVE  UpdateResult(e, c) # "nil"
    OBVIOUS
  <2> HIDE DEF e
  <2>1. c.id \in Jobs /\ d.printJobs[c.id] \in PrintJob
        /\ e.printJobs = [d.printJobs EXCEPT ![c.id] =
                            [d.printJobs[c.id] EXCEPT !.status = c.status]]
    BY ZenonT(60), UpdateEffect DEF e
  <2>2. e.printJobs[c.id].status = c.status
    BY <2>1 DEF DB, PrintJob
  <2>3. ~ValidTransition(c.status, c.status)
    BY DEF ValidTransition
  <2>4. QED
    BY <2>2, <2>3 DEF UpdateResult
<1>3. QED
  BY <1>1, <1>2 DEF ApplyUpdatePrintJobStatus

\* Every command maps a well-typed database to a well-typed database.
LEMMA ApplyCommandType ==
  ASSUME NEW d \in DB, NEW c \in Commands
  PROVE  ApplyCommand(d, c) \in DB
<1>1. CASE c \in PrinterCommands
  BY <1>1 DEF PrinterCommands, ApplyCommand, ApplyAddPrinter, DB
<1>2. CASE c \in FilamentCommands
  BY <1>2, WeightsAssumption DEF FilamentCommands, ApplyCommand, ApplyAddFilament, DB
<1>3. CASE c \in JobCommands
  <2> DEFINE job == [printer |-> c.printer, filament |-> c.filament, weight |-> c.weight,
                     status |-> IF c.status = Unset THEN "Queued" ELSE c.status]
  <2>1. c.type = "add_print_job" /\ c.id \in Jobs
    BY <1>3 DEF JobCommands
  <2>2. job \in PrintJob
    BY <1>3, WeightsAssumption DEF JobCommands, PrintJob, Statuses, Unset
  <2>3. ApplyCommand(d, c) = [d EXCEPT !.printJobs = [d.printJobs EXCEPT ![c.id] = job]]
    BY <2>1 DEF ApplyCommand, ApplyAddPrintJob, DB
  <2>4. QED
    BY <2>1, <2>2, <2>3 DEF DB
<1>4. CASE c \in UpdateCommands
  <2>1. ApplyCommand(d, c) = ApplyUpdatePrintJobStatus(d, c)
    BY <1>4 DEF UpdateCommands, ApplyCommand
  <2>2. QED
    BY <1>4, <2>1, UpdateType
<1>5. QED
  BY <1>1, <1>2, <1>3, <1>4 DEF Commands

\* The filaments and jobs after a POST, as functions.
LEMMA PostEffect ==
  ASSUME NEW d \in DB, NEW e
  PROVE  /\ \A c \in PrinterCommands : e = ApplyCommand(d, c) =>
              e.filaments = d.filaments /\ e.printJobs = d.printJobs
         /\ \A c \in FilamentCommands : e = ApplyCommand(d, c) =>
              /\ e.filaments = [d.filaments EXCEPT ![c.id] = c.remaining]
              /\ e.printJobs = d.printJobs
         /\ \A c \in JobCommands : e = ApplyCommand(d, c) =>
              /\ e.filaments = d.filaments
              /\ e.printJobs = [d.printJobs EXCEPT ![c.id] =
                   [printer |-> c.printer, filament |-> c.filament, weight |-> c.weight,
                    status |-> IF c.status = Unset THEN "Queued" ELSE c.status]]
<1>1. ASSUME NEW c \in PrinterCommands, e = ApplyCommand(d, c)
      PROVE  e.filaments = d.filaments /\ e.printJobs = d.printJobs
  BY <1>1 DEF PrinterCommands, ApplyCommand, ApplyAddPrinter, DB
<1>2. ASSUME NEW c \in FilamentCommands, e = ApplyCommand(d, c)
      PROVE  /\ e.filaments = [d.filaments EXCEPT ![c.id] = c.remaining]
             /\ e.printJobs = d.printJobs
  BY <1>2 DEF FilamentCommands, ApplyCommand, ApplyAddFilament, DB
<1>3. ASSUME NEW c \in JobCommands, e = ApplyCommand(d, c)
      PROVE  /\ e.filaments = d.filaments
             /\ e.printJobs = [d.printJobs EXCEPT ![c.id] =
                  [printer |-> c.printer, filament |-> c.filament, weight |-> c.weight,
                   status |-> IF c.status = Unset THEN "Queued" ELSE c.status]]
  BY <1>3 DEF JobCommands, ApplyCommand, ApplyAddPrintJob, DB
<1>4. QED
  BY <1>1, <1>2, <1>3

----------------------------------------------------------------------------
(* Non-negative weights.                                                   *)

\* No filament is in debt and no job would put one there.  A negative
\* remainder would need a job of negative weight, so both go together.
Solvent(d) ==
  /\ \A f \in Filaments : d.filaments[f] # None => d.filaments[f] >= 0
  /\ \A j \in Jobs : d.printJobs[j] # None => d.printJobs[j].weight >= 0

LEMMA EmptyDBSolvent == Solvent(EmptyDB)
BY DEF Solvent, EmptyDB

\* The "safety check" of applyUpdatePrintJobStatus is enough.
LEMMA UpdateKeepsSolvent ==
  ASSUME NEW d \in DB, Solvent(d), NEW c \in UpdateCommands
  PROVE  Solvent(ApplyUpdatePrintJobStatus(d, c))
<1>1. PICK e : e = ApplyUpdatePrintJobStatus(d, c)
  OBVIOUS
<1>2. CASE UpdateResult(d, c) # "nil"
  BY <1>2 DEF ApplyUpdatePrintJobStatus
<1>3. CASE UpdateResult(d, c) = "nil"
  <2> DEFINE job == d.printJobs[c.id]
             f   == job.filament
             rest == IF Charges(job, c.status) THEN Deduct(d.filaments[f], job.weight)
                     ELSE d.filaments[f]
  <2>1. /\ c.id \in Jobs /\ job \in PrintJob /\ f \in Filaments
        /\ Charges(job, c.status) => d.filaments[f] \in GoInt
        /\ e.filaments = [d.filaments EXCEPT ![f] = rest]
        /\ e.printJobs = [d.printJobs EXCEPT ![c.id] = [job EXCEPT !.status = c.status]]
    BY ZenonT(60), <1>1, <1>3, UpdateEffect
  <2>2. job # None /\ job.weight \in GoInt /\ job.weight >= 0
    BY <2>1, NoneAssumption DEF Solvent, PrintJob
  <2>3. rest # None => rest >= 0
    <3>1. CASE Charges(job, c.status)
      <4>1. d.filaments[f] \in GoInt /\ d.filaments[f] # None
        BY <2>1, <3>1, NoneAssumption DEF GoInt
      <4>2. QED
        BY <2>1, <2>2, <3>1, <4>1, DeductBounds DEF Solvent
    <3>2. CASE ~Charges(job, c.status)
      BY <2>1, <3>2 DEF Solvent
    <3>3. QED
      BY <3>1, <3>2
  <2>4. [job EXCEPT !.status = c.status].weight = job.weight
    BY <2>1 DEF PrintJob
  <2> HIDE DEF rest, job, f
  <2>5. \A g \in Filaments : e.filaments[g] # None => e.filaments[g] >= 0
    BY <2>1, <2>3 DEF Solvent, DB
  <2>6. \A j \in Jobs : e.printJobs[j] # None => e.printJobs[j].weight >= 0
    BY <2>1, <2>2, <2>4 DEF Solvent, DB
  <2>7. QED
    BY <1>1, <2>5, <2>6 DEF Solvent
<1>4. QED
  BY <1>2, <1>3

LEMMA ApplyCommandKeepsSolvent ==
  ASSUME Weights \subseteq Nat, NEW d \in DB, Solvent(d), NEW c \in Commands
  PROVE  Solvent(ApplyCommand(d, c))
<1>1. PICK e : e = ApplyCommand(d, c)
  OBVIOUS
<1>2. CASE c \in PrinterCommands
  <2>1. e.filaments = d.filaments /\ e.printJobs = d.printJobs
    BY <1>1, <1>2, PostEffect
  <2>2. QED
    BY <1>1, <2>1 DEF Solvent
<1>3. CASE c \in FilamentCommands
  <2>1. c.id \in Filaments /\ c.remaining \in Nat
    BY <1>3 DEF FilamentCommands
  <2>2. /\ e.filaments = [d.filaments EXCEPT ![c.id] = c.remaining]
        /\ e.printJobs = d.printJobs
    BY <1>1, <1>3, PostEffect
  <2>3. QED
    BY <1>1, <2>1, <2>2 DEF Solvent, DB
<1>4. CASE c \in JobCommands
  <2> DEFINE job == [printer |-> c.printer, filament |-> c.filament, weight |-> c.weight,
                     status |-> IF c.status = Unset THEN "Queued" ELSE c.status]
  <2>1. c.id \in Jobs /\ job.weight \in Nat
    BY <1>4 DEF JobCommands
  <2>2. /\ e.filaments = d.filaments
        /\ e.printJobs = [d.printJobs EXCEPT ![c.id] = job]
    BY <1>1, <1>4, PostEffect
  <2> HIDE DEF job
  <2>3. QED
    BY <1>1, <2>1, <2>2 DEF Solvent, DB
<1>5. CASE c \in UpdateCommands
  <2>1. ApplyCommand(d, c) = ApplyUpdatePrintJobStatus(d, c)
    BY <1>5 DEF UpdateCommands, ApplyCommand
  <2>2. QED
    BY <1>5, <2>1, UpdateKeepsSolvent
<1>6. QED
  BY <1>2, <1>3, <1>4, <1>5 DEF Commands
=============================================================================
