--------------------------- MODULE PrinterLedger ---------------------------
(***************************************************************************)
(* PrinterFSM with a ledger of what clients posted.  Every POST is an      *)
(* upsert, so clients can break the books: `spoilt' collects the rolls for *)
(* which they did.  For all others the status rules have to add up,        *)
(* whatever happens to other rolls and however often a POST is repeated.   *)
(* Weights are taken to be non-negative, as in NoOverdraft.                *)
(***************************************************************************)
EXTENDS PrinterFSM, FiniteSetsExt

VARIABLES
  posted,   \* history: the remainder each roll was last posted with
  spoilt    \* history: rolls with a Done job that some POST added or took away

ledgerVars == <<db, posted, spoilt>>

LedgerInit ==
  /\ Init
  /\ posted = [f \in Filaments |-> None]
  /\ spoilt = {}

DoneOn(f) == {j \in Jobs : /\ db.printJobs[j] # None
                           /\ db.printJobs[j].filament = f
                           /\ db.printJobs[j].status = "Done"}

PostPrinter == AddPrinter /\ UNCHANGED <<posted, spoilt>>

\* Posting a roll again forgets the prints it was charged for.
PostFilament ==
  \E c \in FilamentCommands :
    /\ Execute(c)
    /\ posted' = [posted EXCEPT ![c.id] = c.remaining]
    /\ spoilt' = IF DoneOn(c.id) = {} THEN spoilt ELSE spoilt \cup {c.id}

\* A job posted as Done was never charged; one posted again after it was Done
\* no longer shows what it was charged for.
PostJob ==
  \E c \in JobCommands :
    /\ Execute(c)
    /\ spoilt' = spoilt
         \cup {f \in Filaments : c.id \in DoneOn(f)}
         \cup (IF c.status = "Done" THEN {c.filament} ELSE {})
    /\ UNCHANGED posted

UpdateJob == UpdatePrintJobStatus /\ UNCHANGED <<posted, spoilt>>

LedgerNext == PostPrinter \/ PostFilament \/ PostJob \/ UpdateJob

LedgerSpec == LedgerInit /\ [][LedgerNext]_ledgerVars

\* The grams of a set of jobs.
TotalWeight(jobs, S) == MapThenSumSet(LAMBDA j : jobs[j].weight, S)

Balanced(f) ==
  posted[f] # None =>
    db.filaments[f] = Max({0, posted[f] - TotalWeight(db.printJobs, DoneOn(f))})

(***************************************************************************)
(* Whatever the interleaving of jobs, repeated POSTs, refused updates and  *)
(* cancellations, a roll holds what it was posted with less the weight of  *)
(* every job Done on it, or nothing when that is more than it held - until *)
(* a POST replaces a job that is Done, posts one as Done, or replaces a    *)
(* roll that has such jobs.                                                *)
(***************************************************************************)
FilamentLedger == \A f \in Filaments \ spoilt : Balanced(f)
============================================================================
