---------------------------- MODULE PrinterLocks ----------------------------
(***************************************************************************)
(* The goroutines of one node that share its PrinterFSM (fsm/fsm.go): the  *)
(* one of raft, which applies commands one after the other, and the HTTP   *)
(* handlers of GETs, which copy the maps.  They meet in f.mu, a            *)
(* sync.RWMutex; here every access to a map under it is a step of its own. *)
(* Every GET goes through RaftNode.GetState, which copies all three maps   *)
(* one after the other and keeps no lock in between; Store drops the two   *)
(* that were not asked for.  Snapshot and Restore run on the FSM goroutine *)
(* too, between two commands, and add nothing here.                        *)
(***************************************************************************)
EXTENDS PrinterCommands

CONSTANTS Readers,        \* goroutines that serve GETs
          NodeCommands    \* the commands this node is given to apply

ASSUME NodeCommandsAssumption == NodeCommands \subseteq Commands

Maps == {"printers", "filaments", "printJobs"}

\* What a getter returns, by the map that it copies.
Table == [printers  |-> [Printers -> Details \cup {None}],
          filaments |-> [Filaments -> GoInt \cup {None}],
          printJobs |-> [Jobs -> PrintJob \cup {None}]]

ASSUME NoneIsNoMap   == None \notin Maps \cup Commands
ASSUME NoneIsNoTable == \A m \in Maps : None \notin Table[m]

VARIABLES
  db,      \* the three maps
  mu,      \* f.mu: the writer's claim, who holds a read lock, who waits for one
  apply,   \* the FSM goroutine: where it is in Apply, and with what command
  get      \* get[r]: where handler r is in GetState, see Gets

vars == <<db, mu, apply, get>>

(***************************************************************************)
(* idle     no request                                                     *)
(* rlock    about to call f.mu.RLock()                                     *)
(* blocked  in RLock, behind a writer                                      *)
(* copying  in the loop over the entries of the map                        *)
(* done     GetState has returned                                          *)
(***************************************************************************)
Places == {"idle", "rlock", "blocked", "copying", "done"}
Keys   == [printers |-> Printers, filaments |-> Filaments, printJobs |-> Jobs]
AllKeys == Printers \cup Filaments \cup Jobs

\* want: the map the handler serves; map: the one being copied; left: keys
\* not copied yet; copy: the copy of the wanted map.
Gets == [at : Places, want : Maps, map : Maps, left : SUBSET AllKeys,
         copy : UNION {Table[m] : m \in Maps}]

NoGet == [at |-> "idle", want |-> "printers", map |-> "printers",
          left |-> {}, copy |-> EmptyDB.printers]

TypeOK ==
  /\ db \in DB
  /\ mu \in [writer : {"none", "pending", "held"},
             readers : SUBSET Readers, waiting : SUBSET Readers]
  /\ apply \in [at : {"idle", "lock", "write", "store", "unlock"},
                cmd : NodeCommands \cup {None}]
  /\ apply.at # "idle" => apply.cmd \in NodeCommands
  /\ get \in [Readers -> Gets]

Init ==
  /\ db = EmptyDB
  /\ mu = [writer |-> "none", readers |-> {}, waiting |-> {}]
  /\ apply = [at |-> "idle", cmd |-> None]
  /\ get = [r \in Readers |-> NoGet]

----------------------------------------------------------------------------
(* The FSM goroutine.                                                      *)

\* Apply is called; its f.mu.Lock() keeps new readers out from now on.
Apply(c) ==
  /\ apply.at = "idle"
  /\ apply' = [at |-> "lock", cmd |-> c]
  /\ mu' = [mu EXCEPT !.writer = "pending"]
  /\ UNCHANGED <<db, get>>

\* Lock returns when the last reader has left.
Lock ==
  /\ apply.at = "lock" /\ mu.readers = {}
  /\ apply' = [apply EXCEPT !.at = "write"]
  /\ mu' = [mu EXCEPT !.writer = "held"]
  /\ UNCHANGED <<db, get>>

IsUpdate(c) == c.type = "update_print_job_status"

ChargesNow(c) == IsUpdate(c) /\ Charges(db.printJobs[c.id], c.status)

\* One of the error returns of the update.
Reject ==
  /\ apply.at = "write" /\ CommandResult(db, apply.cmd) # "nil"
  /\ apply' = [apply EXCEPT !.at = "unlock"]
  /\ UNCHANGED <<db, mu, get>>

\* f.filaments[...] = filament, before the status of the job changes.
Charge ==
  /\ apply.at = "write" /\ CommandResult(db, apply.cmd) = "nil" /\ ChargesNow(apply.cmd)
  /\ LET job == db.printJobs[apply.cmd.id]
     IN  db' = [db EXCEPT !.filaments[job.filament] = Deduct(@, job.weight)]
  /\ apply' = [apply EXCEPT !.at = "store"]
  /\ UNCHANGED <<mu, get>>

\* The write of f.printJobs[jobID] that ends an update that charged.
StoreStatus(d, c) == [d EXCEPT !.printJobs[c.id].status = c.status]

\* The only map write of a command that does not charge, or the last one.
Store ==
  /\ \/ /\ apply.at = "write"
        /\ CommandResult(db, apply.cmd) = "nil" /\ ~ChargesNow(apply.cmd)
        /\ db' = ApplyCommand(db, apply.cmd)
     \/ /\ apply.at = "store"
        /\ db' = StoreStatus(db, apply.cmd)
  /\ apply' = [apply EXCEPT !.at = "unlock"]
  /\ UNCHANGED <<mu, get>>

\* The deferred Unlock: all readers that waited are let in.
Unlock ==
  /\ apply.at = "unlock"
  /\ apply' = [at |-> "idle", cmd |-> None]
  /\ mu' = [writer |-> "none", readers |-> mu.waiting, waiting |-> {}]
  /\ UNCHANGED <<db, get>>

----------------------------------------------------------------------------
(* The handlers.                                                           *)

Serve(r, m) ==
  /\ get[r].at = "idle"
  /\ get' = [get EXCEPT ![r] = [NoGet EXCEPT !.at = "rlock", !.want = m, !.copy = EmptyDB[m]]]
  /\ UNCHANGED <<db, mu, apply>>

GetPrinters(r)  == Serve(r, "printers")
GetFilaments(r) == Serve(r, "filaments")
GetPrintJobs(r) == Serve(r, "printJobs")

\* Mutant: the getter takes no lock.
NoRLock(r) ==
  /\ get[r].at = "rlock"
  /\ get' = [get EXCEPT ![r].at = "copying", ![r].left = Keys[get[r].map]]
  /\ UNCHANGED <<db, mu, apply>>

\* Mutant: the getter tries again until it meets no writer (TryRLock).
PollRLock(r) ==
  /\ get[r].at = "rlock" /\ mu.writer = "none"
  /\ mu' = [mu EXCEPT !.readers = @ \cup {r}]
  /\ get' = [get EXCEPT ![r].at = "copying", ![r].left = Keys[get[r].map]]
  /\ UNCHANGED <<db, apply>>

RLock(r) ==
  /\ get[r].at = "rlock"
  /\ \/ /\ mu.writer = "none"
        /\ mu' = [mu EXCEPT !.readers = @ \cup {r}]
        /\ get' = [get EXCEPT ![r].at = "copying", ![r].left = Keys[get[r].map]]
     \/ /\ mu.writer # "none"
        /\ mu' = [mu EXCEPT !.waiting = @ \cup {r}]
        /\ get' = [get EXCEPT ![r].at = "blocked"]
  /\ UNCHANGED <<db, apply>>

\* RLock returns.
Wake(r) ==
  /\ get[r].at = "blocked" /\ r \notin mu.waiting
  /\ get' = [get EXCEPT ![r].at = "copying", ![r].left = Keys[get[r].map]]
  /\ UNCHANGED <<db, mu, apply>>

\* result[k] = v, in the order in which the range meets the keys.
CopyEntry(r, k) ==
  /\ get[r].at = "copying" /\ k \in get[r].left
  /\ get' = [get EXCEPT
               ![r].left = @ \ {k},
               ![r].copy = IF get[r].map = get[r].want
                           THEN [@ EXCEPT ![k] = db[get[r].want][k]] ELSE @]
  /\ UNCHANGED <<db, mu, apply>>

\* GetState calls the three getters in this order.
NextMap == [printers |-> "filaments", filaments |-> "printJobs", printJobs |-> "printers"]

Copied(r) ==
  /\ get[r].at = "copying" /\ get[r].left = {}
  /\ get' = [get EXCEPT ![r].at = IF get[r].map = "printJobs" THEN "done" ELSE "rlock",
                        ![r].map = NextMap[@]]
  /\ UNCHANGED <<db, apply>>

\* Mutant: the read lock is given back after the first entry.
RUnlockEarly(r) ==
  \/ /\ Copied(r)
     /\ mu' = [mu EXCEPT !.readers = @ \ {r}]
  \/ /\ get[r].at = "copying" /\ r \in mu.readers /\ get[r].left # Keys[get[r].map]
     /\ mu' = [mu EXCEPT !.readers = @ \ {r}]
     /\ UNCHANGED <<db, apply, get>>

\* Mutant: GetState gives its read lock back only after the last map.
RUnlockLast(r) ==
  /\ Copied(r)
  /\ mu' = IF get[r].map = "printJobs" THEN [mu EXCEPT !.readers = @ \ {r}] ELSE mu

\* The deferred RUnlock of a getter.
RUnlock(r) ==
  /\ Copied(r)
  /\ mu' = [mu EXCEPT !.readers = @ \ {r}]

\* The handler encodes the map it was asked for.
Encode(r) ==
  /\ get[r].at = "done"
  /\ get' = [get EXCEPT ![r] = NoGet]
  /\ UNCHANGED <<db, mu, apply>>

----------------------------------------------------------------------------
ApplyStep == Lock \/ Reject \/ Charge \/ Store \/ Unlock

GetStep(r) == RLock(r) \/ Wake(r) \/ (\E k \in AllKeys : CopyEntry(r, k)) \/ RUnlock(r) \/ Encode(r)

Next ==
  \/ \E c \in NodeCommands : Apply(c)
  \/ ApplyStep
  \/ \E r \in Readers : GetPrinters(r) \/ GetFilaments(r) \/ GetPrintJobs(r) \/ GetStep(r)

Spec == Init /\ [][Next]_vars

\* Goroutines that can go on do.
Fairness == WF_vars(ApplyStep) /\ \A r \in Readers : WF_vars(GetStep(r))

FairSpec == Spec /\ Fairness

----------------------------------------------------------------------------
(***************************************************************************)
(* No handler is in a loop over a map while the FSM goroutine may write    *)
(* one: Go ends the process when a map is written during an iteration.     *)
(***************************************************************************)
NoMapRace ==
  apply.at \in {"write", "store"} => \A r \in Readers : get[r].at # "copying"

\* Handler r waits for nobody: it is not in RLock, or has been let in.
RunsNow(r) == get[r].at \notin {"idle", "blocked"} \/ (get[r].at = "blocked" /\ r \notin mu.waiting)

(***************************************************************************)
(* Nobody waits in a circle: a handler waits only for a command, a command *)
(* waits only for handlers that hold a read lock, and those wait for       *)
(* nobody.  GetState takes three read locks one after the other; one taken *)
(* inside another would deadlock with a command that comes between them.   *)
(***************************************************************************)
NoLockCycle ==
  /\ apply.at = "lock" => \A r \in mu.readers : RunsNow(r)
  /\ \A r \in Readers : get[r].at # "idle" /\ ~RunsNow(r) => apply.at # "idle"

\* The maps as they are once the command that is half done is done.
Settled == IF apply.at = "store" THEN StoreStatus(db, apply.cmd) ELSE db

\* The wanted map has been copied, or is being copied.
Rank == [printers |-> 1, filaments |-> 2, printJobs |-> 3]

PartlyCopied(g) ==
  [k \in Keys[g.want] |-> IF k \in g.left THEN db[g.want][k] ELSE g.copy[k]]

Seen(r) ==
  LET g == get[r]
  IN  IF g.at = "done" \/ Rank[g.map] > Rank[g.want] THEN g.copy
      ELSE IF g.at = "copying" /\ g.map = g.want THEN PartlyCopied(g)
      ELSE None

Atomic == INSTANCE PrinterReads
  WITH db  <- Settled,
       get <- [r \in Readers |->
                 IF get[r].at = "idle" THEN [map |-> None, seen |-> None]
                 ELSE [map |-> get[r].want, seen |-> Seen(r)]]

(***************************************************************************)
(* A GET answers with the whole map as it was at one instant, although it  *)
(* is copied entry by entry between commands; no GET sees a job that is    *)
(* half updated.                                                           *)
(***************************************************************************)
ReadsAreAtomic == Atomic!ReadSpec

(***************************************************************************)
(* Every GET is answered and every command is applied, however many come:  *)
(* readers that keep arriving do not hold up raft, commands that keep      *)
(* arriving do not hold up readers, and no two wait for each other.        *)
(***************************************************************************)
NobodyStarves ==
  /\ \A r \in Readers : get[r].at # "idle" ~> get[r].at = "idle"
  /\ apply.at # "idle" ~> apply.at = "idle"
=============================================================================
