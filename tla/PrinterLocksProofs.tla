------------------------- MODULE PrinterLocksProofs -------------------------
(***************************************************************************)
(* Proofs about PrinterLocks, for any number of concurrent GETs, any       *)
(* identifiers and any commands: no map is written while a handler loops   *)
(* over one, nobody waits in a circle, and every GET is atomic.            *)
(***************************************************************************)
EXTENDS PrinterLocks, PrinterCommandsLemmas

----------------------------------------------------------------------------
(* The invariant.                                                          *)

(***************************************************************************)
(* What sync.RWMutex and the two sides of it know of each other: the       *)
(* writer's claim is the place of the FSM goroutine, a handler in its loop *)
(* holds a read lock, one that was let in after it waited holds one too,   *)
(* and nobody holds one while the writer does.                             *)
(***************************************************************************)
LockInv ==
  /\ apply.at = "idle" <=> mu.writer = "none"
  /\ apply.at = "lock" <=> mu.writer = "pending"
  /\ mu.writer = "held" => mu.readers = {}
  /\ \A r \in Readers :
       /\ get[r].at = "copying" => r \in mu.readers
       /\ get[r].at = "blocked" => r \in mu.readers \cup mu.waiting
       /\ r \in mu.waiting => get[r].at = "blocked"

\* Between the two writes of an update its job is there.
HalfInv ==
  apply.at = "store" => /\ IsUpdate(apply.cmd) /\ apply.cmd \in UpdateCommands
                        /\ db.printJobs[apply.cmd.id] \in PrintJob

\* A handler copies into a table of the kind that it was asked for.
CopyInv == \A r \in Readers : get[r].copy \in Table[get[r].want]

Inv == TypeOK /\ LockInv /\ HalfInv /\ CopyInv

LEMMA InvIsRaceFree == Inv => NoMapRace
BY DEF Inv, TypeOK, LockInv, NoMapRace

LEMMA InitInv == Init => Inv
<1> SUFFICES ASSUME Init PROVE Inv
  OBVIOUS
<1> USE DEF Init
<1>1. NoGet \in Gets
  BY EmptyDBType DEF NoGet, Gets, Places, Maps, DB, EmptyDB, Table
<1>2. TypeOK
  BY <1>1, EmptyDBType DEF TypeOK
<1>3. LockInv /\ HalfInv
  BY DEF LockInv, HalfInv, NoGet
<1>4. CopyInv
  BY EmptyDBType DEF CopyInv, NoGet, EmptyDB, Table
<1> QED BY <1>2, <1>3, <1>4 DEF Inv

----------------------------------------------------------------------------
(* The FSM goroutine keeps it.                                             *)

LEMMA UpdatesAreUpdates ==
  ASSUME NEW c \in NodeCommands, IsUpdate(c)
  PROVE  c \in UpdateCommands /\ c.id \in Jobs /\ c.status \in Statuses
BY NodeCommandsAssumption
   DEF IsUpdate, Commands, PrinterCommands, FilamentCommands, JobCommands, UpdateCommands

\* What the first write of a finishing update does.
LEMMA ChargeEffect ==
  ASSUME Inv, Charge
  PROVE  LET c   == apply.cmd
             job == db.printJobs[c.id]
         IN  /\ c \in NodeCommands /\ c \in UpdateCommands /\ c.id \in Jobs /\ c.status \in Statuses
             /\ job \in PrintJob /\ job.filament \in Filaments
             /\ UpdateResult(db, c) = "nil" /\ Charges(job, c.status)
             /\ Deduct(db.filaments[job.filament], job.weight) \in GoInt
             /\ db' = [db EXCEPT !.filaments =
                         [db.filaments EXCEPT ![job.filament] =
                            Deduct(db.filaments[job.filament], job.weight)]]
<1> DEFINE c == apply.cmd
           job == db.printJobs[c.id]
<1>1. c \in NodeCommands /\ IsUpdate(c)
  BY DEF Charge, ChargesNow, Inv, TypeOK
<1>2. c \in UpdateCommands /\ c.id \in Jobs /\ c.status \in Statuses
  BY <1>1, UpdatesAreUpdates
<1>3. UpdateResult(db, c) = "nil" /\ Charges(job, c.status)
  BY <1>1 DEF Charge, ChargesNow, CommandResult, IsUpdate
<1>4. job \in PrintJob /\ db.filaments[job.filament] # None
  BY <1>2, <1>3 DEF UpdateResult, Inv, TypeOK, DB
<1>5. job.filament \in Filaments /\ job.weight \in GoInt
  BY <1>4 DEF PrintJob
<1>6. db.filaments[job.filament] \in GoInt
  BY <1>4, <1>5 DEF Inv, TypeOK, DB
<1>7. Deduct(db.filaments[job.filament], job.weight) \in GoInt
  BY <1>5, <1>6, DeductType
<1>8. db' = [db EXCEPT !.filaments =
               [db.filaments EXCEPT ![job.filament] =
                  Deduct(db.filaments[job.filament], job.weight)]]
  BY DEF Charge, Inv, TypeOK, DB
<1> QED BY <1>1, <1>2, <1>3, <1>4, <1>5, <1>7, <1>8

\* The second write keeps the maps well typed.
LEMMA StoreStatusType ==
  ASSUME NEW d \in DB, NEW c \in UpdateCommands, d.printJobs[c.id] \in PrintJob
  PROVE  StoreStatus(d, c) \in DB
<1>1. c.id \in Jobs /\ c.status \in Statuses
  BY DEF UpdateCommands
<1>2. [d.printJobs[c.id] EXCEPT !.status = c.status] \in PrintJob
  BY <1>1 DEF PrintJob
<1>3. StoreStatus(d, c) = [d EXCEPT !.printJobs = [d.printJobs EXCEPT
                             ![c.id] = [d.printJobs[c.id] EXCEPT !.status = c.status]]]
  BY <1>1 DEF StoreStatus, DB
<1> DEFINE js == [d.printJobs EXCEPT ![c.id] = [d.printJobs[c.id] EXCEPT !.status = c.status]]
<1>4. js \in [Jobs -> PrintJob \cup {None}]
  BY <1>2 DEF DB
<1> HIDE DEF js
<1>5. [d EXCEPT !.printJobs = js] \in DB
  BY <1>4 DEF DB
<1> QED BY <1>3, <1>5 DEF js

LEMMA ApplyStepInv ==
  ASSUME Inv, ApplyStep \/ \E c \in NodeCommands : Apply(c)
  PROVE  Inv'
<1> USE DEF Inv
<1>1. ASSUME NEW c \in NodeCommands, Apply(c) PROVE Inv'
  <2>1. apply' = [at |-> "lock", cmd |-> c] /\ mu' = [mu EXCEPT !.writer = "pending"]
        /\ UNCHANGED <<db, get>> /\ apply.at = "idle"
    BY <1>1 DEF Apply
  <2>2. mu'.writer = "pending" /\ UNCHANGED <<mu.readers, mu.waiting>>
    BY <2>1 DEF TypeOK
  <2>3. TypeOK' BY <2>1 DEF TypeOK
  <2>4. LockInv' BY <2>1, <2>2 DEF LockInv
  <2>5. HalfInv' /\ CopyInv' BY <2>1 DEF HalfInv, CopyInv
  <2> QED BY <2>3, <2>4, <2>5
<1>2. CASE Lock
  <2>1. apply' = [apply EXCEPT !.at = "write"] /\ mu' = [mu EXCEPT !.writer = "held"]
        /\ UNCHANGED <<db, get>> /\ apply.at = "lock" /\ mu.readers = {}
    BY <1>2 DEF Lock
  <2>2. mu'.writer = "held" /\ UNCHANGED <<mu.readers, mu.waiting>>
        /\ apply'.at = "write" /\ apply'.cmd = apply.cmd
    BY <2>1 DEF TypeOK
  <2>3. TypeOK' BY <2>1 DEF TypeOK
  <2>4. LockInv' BY <2>1, <2>2 DEF LockInv
  <2>5. HalfInv' /\ CopyInv' BY <2>1, <2>2 DEF HalfInv, CopyInv
  <2> QED BY <2>3, <2>4, <2>5
<1>3. CASE Reject
  <2>1. apply' = [apply EXCEPT !.at = "unlock"] /\ UNCHANGED <<db, mu, get>> /\ apply.at = "write"
    BY <1>3 DEF Reject
  <2>2. apply'.at = "unlock" /\ apply'.cmd = apply.cmd
    BY <2>1 DEF TypeOK
  <2>3. TypeOK' BY <2>1 DEF TypeOK
  <2>4. LockInv' BY <2>1, <2>2 DEF LockInv
  <2>5. HalfInv' /\ CopyInv' BY <2>1, <2>2 DEF HalfInv, CopyInv
  <2> QED BY <2>3, <2>4, <2>5
<1>4. CASE Charge
  <2>1. apply' = [apply EXCEPT !.at = "store"] /\ UNCHANGED <<mu, get>> /\ apply.at = "write"
    BY <1>4 DEF Charge
  <2>2. apply'.at = "store" /\ apply'.cmd = apply.cmd
    BY <2>1 DEF TypeOK
  <2> DEFINE c == apply.cmd
             job == db.printJobs[c.id]
             fs == [db.filaments EXCEPT ![job.filament] =
                      Deduct(db.filaments[job.filament], job.weight)]
  <2>3. /\ c \in UpdateCommands /\ IsUpdate(c) /\ job \in PrintJob /\ job.filament \in Filaments
        /\ Deduct(db.filaments[job.filament], job.weight) \in GoInt
        /\ db' = [db EXCEPT !.filaments = fs]
    BY <1>4, ChargeEffect DEF Charge, ChargesNow
  <2>4. fs \in [Filaments -> GoInt \cup {None}]
    BY <2>3 DEF TypeOK, DB
  <2> HIDE DEF fs
  <2>5. db' \in DB /\ db'.printJobs = db.printJobs
    BY <2>3, <2>4 DEF TypeOK, DB
  <2>6. TypeOK' BY <2>1, <2>5 DEF TypeOK
  <2>7. LockInv' BY <2>1, <2>2 DEF LockInv
  <2>8. HalfInv' BY <2>2, <2>3, <2>5 DEF HalfInv
  <2>9. CopyInv' BY <2>1 DEF CopyInv
  <2> QED BY <2>6, <2>7, <2>8, <2>9
<1>5. CASE Store
  <2>1. apply' = [apply EXCEPT !.at = "unlock"] /\ UNCHANGED <<mu, get>>
        /\ apply.at \in {"write", "store"}
    BY <1>5 DEF Store
  <2>2. apply'.at = "unlock" /\ apply'.cmd = apply.cmd
    BY <2>1 DEF TypeOK
  <2>3. db' \in DB
    <3>1. apply.cmd \in Commands
      BY <2>1, NodeCommandsAssumption DEF TypeOK
    <3> QED BY <1>5, <3>1, ApplyCommandType, StoreStatusType DEF Store, TypeOK, HalfInv
  <2>4. TypeOK' BY <2>1, <2>3 DEF TypeOK
  <2>5. LockInv' BY <2>1, <2>2 DEF LockInv
  <2>6. HalfInv' /\ CopyInv' BY <2>1, <2>2 DEF HalfInv, CopyInv
  <2> QED BY <2>4, <2>5, <2>6
<1>6. CASE Unlock
  <2>1. /\ apply' = [at |-> "idle", cmd |-> None]
        /\ mu' = [writer |-> "none", readers |-> mu.waiting, waiting |-> {}]
        /\ UNCHANGED <<db, get>> /\ apply.at = "unlock"
    BY <1>6 DEF Unlock
  <2>2. mu.readers = {}
    BY <2>1 DEF TypeOK, LockInv
  <2>3. TypeOK' BY <2>1 DEF TypeOK
  <2>4. LockInv' BY <2>1, <2>2 DEF LockInv
  <2>5. HalfInv' /\ CopyInv' BY <2>1 DEF HalfInv, CopyInv
  <2> QED BY <2>3, <2>4, <2>5
<1> QED BY <1>1, <1>2, <1>3, <1>4, <1>5, <1>6 DEF ApplyStep

----------------------------------------------------------------------------
(* The handlers keep it.                                                   *)

\* A step of handler r that leaves the maps and the FSM goroutine alone.
LEMMA HandlerInv ==
  ASSUME Inv, NEW r \in Readers, NEW g \in Gets, get' = [get EXCEPT ![r] = g],
         UNCHANGED <<db, apply>>,
         g.copy \in Table[g.want],
         mu'.writer = mu.writer,
         mu' \in [writer : {"none", "pending", "held"},
                 readers : SUBSET Readers, waiting : SUBSET Readers],
         mu'.readers \ {r} = mu.readers \ {r}, mu'.waiting \ {r} = mu.waiting \ {r},
         mu.writer = "held" => r \notin mu'.readers,
         g.at = "copying" => r \in mu'.readers,
         g.at = "blocked" => r \in mu'.readers \cup mu'.waiting,
         r \in mu'.waiting => g.at = "blocked"
  PROVE  Inv'
<1> USE DEF Inv
<1>1. /\ get'[r] = g
      /\ \A q \in Readers \ {r} : /\ get'[q] = get[q]
                                  /\ q \in mu'.readers <=> q \in mu.readers
                                  /\ q \in mu'.waiting <=> q \in mu.waiting
  BY DEF TypeOK
<1>2. TypeOK' BY DEF TypeOK
<1>3. LockInv'
  <2>1. mu'.writer = "held" => mu'.readers = {}
    BY <1>1 DEF LockInv, TypeOK
  <2>2. ASSUME NEW q \in Readers
        PROVE  /\ get'[q].at = "copying" => q \in mu'.readers
               /\ get'[q].at = "blocked" => q \in mu'.readers \cup mu'.waiting
               /\ q \in mu'.waiting => get'[q].at = "blocked"
    BY <1>1 DEF LockInv
  <2> QED BY <2>1, <2>2 DEF LockInv
<1>4. HalfInv' BY DEF HalfInv
<1>5. CopyInv' BY <1>1 DEF CopyInv
<1> QED BY <1>2, <1>3, <1>4, <1>5

LEMMA ServeInv ==
  ASSUME Inv, NEW r \in Readers, NEW m \in Maps, Serve(r, m)
  PROVE  Inv'
<1> DEFINE g == [NoGet EXCEPT !.at = "rlock", !.want = m, !.copy = EmptyDB[m]]
<1>1. /\ g \in [at : {"rlock"}, want : {m}, map : {"printers"}, left : {{}}, copy : {EmptyDB[m]}]
      /\ g.at = "rlock" /\ g.want = m /\ g.copy = EmptyDB[m]
  BY DEF NoGet
<1>2. EmptyDB[m] \in Table[m]
  BY EmptyDBType DEF Maps, EmptyDB, Table
<1>3. g \in Gets /\ g.at = "rlock" /\ g.copy \in Table[g.want]
  BY <1>1, <1>2 DEF Gets, Places, Maps
<1>4. get' = [get EXCEPT ![r] = g] /\ UNCHANGED <<db, mu, apply>> /\ r \notin mu.waiting
  BY DEF Serve, Inv, LockInv
<1> HIDE DEF g
<1>5. mu.writer = "held" => r \notin mu.readers
  BY DEF Inv, LockInv
<1> QED BY <1>3, <1>4, <1>5, HandlerInv DEF Inv, TypeOK

\* Where the loops over a map begin.
LEMMA BeginsCopying ==
  ASSUME Inv, NEW r \in Readers
  PROVE  LET g == [[get[r] EXCEPT !.at = "copying"] EXCEPT !.left = Keys[get[r].map]]
         IN  /\ g \in Gets /\ g.at = "copying" /\ g.left = Keys[get[r].map]
             /\ g.want = get[r].want /\ g.map = get[r].map /\ g.copy = get[r].copy
             /\ [get EXCEPT ![r].at = "copying", ![r].left = Keys[get[r].map]]
                   = [get EXCEPT ![r] = g]
<1>1. get \in [Readers -> Gets]
  BY DEF Inv, TypeOK
<1>2. get[r] \in Gets
  BY <1>1
<1>3. Keys[get[r].map] \in SUBSET AllKeys
  BY <1>2 DEF Gets, Maps, Keys, AllKeys
<1> DEFINE h == [get[r] EXCEPT !.at = "copying"]
           g == [h EXCEPT !.left = Keys[get[r].map]]
<1>4. h \in Gets /\ h.at = "copying"
      /\ h.want = get[r].want /\ h.map = get[r].map /\ h.copy = get[r].copy
  BY <1>2 DEF Gets, Places
<1>5. [get EXCEPT ![r].at = "copying", ![r].left = Keys[get[r].map]] = [get EXCEPT ![r] = g]
  BY <1>1, <1>2
<1> HIDE DEF h
<1>6. g \in Gets /\ g.at = "copying" /\ g.left = Keys[get[r].map]
      /\ g.want = get[r].want /\ g.map = get[r].map /\ g.copy = get[r].copy
  BY <1>3, <1>4 DEF Gets
<1> QED BY <1>5, <1>6 DEF h

LEMMA GetStepInv ==
  ASSUME Inv, NEW r \in Readers, GetStep(r)
  PROVE  Inv'
<1>1. /\ get \in [Readers -> Gets] /\ get[r] \in Gets /\ get[r].copy \in Table[get[r].want]
      /\ mu \in [writer : {"none", "pending", "held"},
                 readers : SUBSET Readers, waiting : SUBSET Readers]
      /\ mu.writer = "held" => mu.readers = {}
      /\ get[r].at = "copying" => r \in mu.readers
      /\ get[r].at = "blocked" => r \in mu.readers \cup mu.waiting
      /\ r \in mu.waiting => get[r].at = "blocked"
  BY DEF Inv, TypeOK, LockInv, CopyInv
<1> DEFINE begin == [[get[r] EXCEPT !.at = "copying"] EXCEPT !.left = Keys[get[r].map]]
<1>2. /\ begin \in Gets /\ begin.at = "copying" /\ begin.copy \in Table[begin.want]
      /\ [get EXCEPT ![r].at = "copying", ![r].left = Keys[get[r].map]]
            = [get EXCEPT ![r] = begin]
  BY <1>1, BeginsCopying
<1> HIDE DEF begin
<1>3. CASE RLock(r)
  <2>1. CASE mu.writer = "none"
    <3>1. /\ mu' = [mu EXCEPT !.readers = mu.readers \cup {r}]
          /\ get' = [get EXCEPT ![r] = begin] /\ UNCHANGED <<db, apply>> /\ get[r].at = "rlock"
      BY <1>2, <1>3, <2>1 DEF RLock
    <3> QED BY <1>1, <1>2, <2>1, <3>1, HandlerInv
  <2>2. CASE mu.writer # "none"
    <3> DEFINE g == [get[r] EXCEPT !.at = "blocked"]
    <3>1. /\ mu' = [mu EXCEPT !.waiting = mu.waiting \cup {r}]
          /\ get' = [get EXCEPT ![r] = g] /\ UNCHANGED <<db, apply>> /\ get[r].at = "rlock"
      BY <1>3, <2>2 DEF RLock
    <3>2. g \in Gets /\ g.at = "blocked" /\ g.copy \in Table[g.want]
      BY <1>1 DEF Gets, Places
    <3> HIDE DEF g
    <3> QED BY <1>1, <3>1, <3>2, HandlerInv
  <2> QED BY <2>1, <2>2
<1>4. CASE Wake(r)
  <2>1. /\ get' = [get EXCEPT ![r] = begin] /\ UNCHANGED <<db, mu, apply>>
        /\ r \notin mu.waiting /\ r \in mu.readers
    BY <1>1, <1>2, <1>4 DEF Wake
  <2> QED BY <1>1, <1>2, <2>1, HandlerInv
<1>5. ASSUME NEW k \in AllKeys, CopyEntry(r, k) PROVE Inv'
  <2> DEFINE copy == IF get[r].map = get[r].want
                     THEN [get[r].copy EXCEPT ![k] = db[get[r].want][k]] ELSE get[r].copy
             g == [[get[r] EXCEPT !.left = get[r].left \ {k}] EXCEPT !.copy = copy]
  <2>1. copy \in Table[get[r].want]
    BY <1>1 DEF Inv, TypeOK, DB, Gets, Maps, Table
  <2>2. get' = [get EXCEPT ![r] = g] /\ UNCHANGED <<db, mu, apply>> /\ get[r].at = "copying"
    BY <1>1, <1>5 DEF CopyEntry
  <2> HIDE DEF copy
  <2> DEFINE h == [get[r] EXCEPT !.left = get[r].left \ {k}]
  <2>3. /\ h \in Gets /\ h.at = "copying" /\ h.want = get[r].want
        /\ get[r].want \in Maps
    BY <1>1, <2>2 DEF Gets
  <2>4. g = [h EXCEPT !.copy = copy]
    OBVIOUS
  <2> HIDE DEF h
  <2>5. copy \in UNION {Table[m] : m \in Maps}
    BY <2>1, <2>3
  <2>6. g \in Gets /\ g.at = "copying" /\ g.copy \in Table[g.want]
    BY <2>1, <2>3, <2>4, <2>5 DEF Gets
  <2> HIDE DEF g
  <2> QED BY <1>1, <2>2, <2>6, HandlerInv
<1>6. CASE RUnlock(r)
  <2> DEFINE place == IF get[r].map = "printJobs" THEN "done" ELSE "rlock"
             g == [[get[r] EXCEPT !.at = place] EXCEPT !.map = NextMap[get[r].map]]
  <2>1. /\ get' = [get EXCEPT ![r] = g] /\ UNCHANGED <<db, apply>>
        /\ mu' = [mu EXCEPT !.readers = mu.readers \ {r}] /\ get[r].at = "copying"
    BY <1>1, <1>6 DEF RUnlock, Copied
  <2> DEFINE h == [get[r] EXCEPT !.at = place]
  <2>3. NextMap[get[r].map] \in Maps /\ place \in {"done", "rlock"}
    BY <1>1 DEF Gets, Maps, NextMap
  <2> HIDE DEF place
  <2>4. h \in Gets /\ h.at \in {"done", "rlock"} /\ h.copy \in Table[h.want]
    BY <1>1, <2>3 DEF Gets, Places
  <2>5. g = [h EXCEPT !.map = NextMap[get[r].map]]
    OBVIOUS
  <2> HIDE DEF h
  <2>6. g \in Gets /\ g.at \in {"done", "rlock"} /\ g.copy \in Table[g.want]
    BY <2>3, <2>4, <2>5 DEF Gets
  <2> HIDE DEF g
  <2> QED BY <1>1, <2>1, <2>6, HandlerInv
<1>7. CASE Encode(r)
  <2>1. NoGet \in Gets /\ NoGet.at = "idle" /\ NoGet.copy \in Table[NoGet.want]
    BY EmptyDBType DEF NoGet, Gets, Places, Maps, DB, EmptyDB, Table
  <2>2. get' = [get EXCEPT ![r] = NoGet] /\ UNCHANGED <<db, mu, apply>> /\ get[r].at = "done"
    BY <1>7 DEF Encode
  <2> QED BY <1>1, <2>1, <2>2, HandlerInv
<1> QED BY <1>3, <1>4, <1>5, <1>6, <1>7 DEF GetStep

LEMMA StepInv == Inv /\ [Next]_vars => Inv'
<1> SUFFICES ASSUME Inv, [Next]_vars PROVE Inv'
  OBVIOUS
<1>1. ASSUME NEW c \in NodeCommands, Apply(c) PROVE Inv'
  BY <1>1, ApplyStepInv
<1>2. CASE ApplyStep
  BY <1>2, ApplyStepInv
<1>3. ASSUME NEW r \in Readers, GetPrinters(r) \/ GetFilaments(r) \/ GetPrintJobs(r)
      PROVE  Inv'
  BY <1>3, ServeInv DEF GetPrinters, GetFilaments, GetPrintJobs, Maps
<1>4. ASSUME NEW r \in Readers, GetStep(r) PROVE Inv'
  BY <1>4, GetStepInv
<1>5. CASE UNCHANGED vars
  BY <1>5 DEF vars, Inv, TypeOK, LockInv, HalfInv, CopyInv
<1> QED BY <1>1, <1>2, <1>3, <1>4, <1>5 DEF Next

LEMMA Invariance == Spec => []Inv
<1> QED BY InitInv, StepInv, PTL DEF Spec

(***************************************************************************)
(* The maps, the mutex and all handlers keep their types.                  *)
(***************************************************************************)
THEOREM LocksTypeCorrect == Spec => []TypeOK
<1>1. Inv => TypeOK BY DEF Inv
<1> QED BY <1>1, Invariance, PTL

(***************************************************************************)
(* With any number of GETs at a time, no map is written while one of them  *)
(* loops over a map (fsm.go 159-190 against 71-157).                       *)
(***************************************************************************)
THEOREM NeverAMapRace == Spec => []NoMapRace
<1> QED BY InvIsRaceFree, Invariance, PTL

----------------------------------------------------------------------------
(* Nobody waits in a circle.                                               *)

(***************************************************************************)
(* Who holds a read lock is in its loop or about to enter it, and nobody   *)
(* waits for a lock that no writer claims.                                 *)
(***************************************************************************)
HoldersRun ==
  /\ \A r \in mu.readers : get[r].at = "copying" \/ (get[r].at = "blocked" /\ r \notin mu.waiting)
  /\ mu.waiting # {} => mu.writer # "none"

LEMMA WriterKeepsHolders ==
  ASSUME Inv, HoldersRun, ApplyStep \/ \E c \in NodeCommands : Apply(c)
  PROVE  HoldersRun'
<1>1. CASE Unlock
  BY <1>1 DEF Unlock, HoldersRun, Inv, TypeOK, LockInv
<1>2. CASE \E c \in NodeCommands : Apply(c)
  BY <1>2 DEF Apply, HoldersRun, Inv, TypeOK
<1>3. CASE Lock \/ Reject \/ Charge \/ Store
  BY <1>3 DEF Lock, Reject, Charge, Store, HoldersRun, Inv, TypeOK
<1> QED BY <1>1, <1>2, <1>3 DEF ApplyStep

LEMMA HandlerKeepsHolders ==
  ASSUME Inv, HoldersRun, NEW r \in Readers,
         \/ GetPrinters(r) \/ GetFilaments(r) \/ GetPrintJobs(r) \/ GetStep(r)
  PROVE  HoldersRun'
<1>1. /\ mu.readers \subseteq Readers /\ mu.waiting \subseteq Readers
      /\ mu \in [writer : {"none", "pending", "held"},
                 readers : SUBSET Readers, waiting : SUBSET Readers]
      /\ get \in [Readers -> Gets] /\ get[r] \in Gets
  BY DEF Inv, TypeOK
<1>2. \A q \in Readers : q # r => get'[q] = get[q]
  BY <1>1 DEF GetPrinters, GetFilaments, GetPrintJobs, Serve, GetStep, RLock, Wake,
              CopyEntry, RUnlock, Copied, Encode
<1>3. CASE GetPrinters(r) \/ GetFilaments(r) \/ GetPrintJobs(r) \/ Encode(r)
  BY <1>1, <1>2, <1>3 DEF GetPrinters, GetFilaments, GetPrintJobs, Serve, Encode, HoldersRun
<1>4. CASE RLock(r)
  BY <1>1, <1>2, <1>4 DEF RLock, HoldersRun, Gets
<1>5. CASE Wake(r) \/ \E k \in AllKeys : CopyEntry(r, k)
  <2>1. DOMAIN get[r] = {"at", "want", "map", "left", "copy"}
    BY <1>1 DEF Gets
  <2>2. get'[r].at = "copying" /\ mu' = mu
    <3>1. CASE Wake(r)
      BY <1>1, <2>1, <3>1 DEF Wake, Gets
    <3>2. ASSUME NEW k \in AllKeys, CopyEntry(r, k)
          PROVE  get'[r].at = "copying" /\ mu' = mu
      BY <1>1, <2>1, <3>2 DEF CopyEntry, Gets
    <3> QED BY <1>5, <3>1, <3>2
  <2> QED BY <1>1, <1>2, <2>2 DEF HoldersRun
<1>6. CASE RUnlock(r)
  BY <1>1, <1>2, <1>6 DEF RUnlock, Copied, HoldersRun
<1> QED BY <1>3, <1>4, <1>5, <1>6 DEF GetStep

(***************************************************************************)
(* Waiting for f.mu never goes round in a circle, with any number of GETs  *)
(* at a time: getters release their lock before the next one takes it, and *)
(* a command that ends lets in everybody who waited for it.                *)
(***************************************************************************)
THEOREM NeverALockCycle == Spec => []NoLockCycle
<1>1. Init => HoldersRun
  BY DEF Init, HoldersRun
<1>2. Inv /\ HoldersRun /\ [Next]_vars => HoldersRun'
  <2> SUFFICES ASSUME Inv, HoldersRun, [Next]_vars
               PROVE  HoldersRun'
    OBVIOUS
  <2>1. CASE UNCHANGED vars
    BY <2>1 DEF vars, HoldersRun
  <2> QED BY <2>1, WriterKeepsHolders, HandlerKeepsHolders DEF Next
<1>3. Inv /\ HoldersRun => NoLockCycle
  BY DEF Inv, TypeOK, LockInv, HoldersRun, NoLockCycle, RunsNow
<1> QED BY <1>1, <1>2, <1>3, Invariance, PTL DEF Spec

----------------------------------------------------------------------------
(* Every GET is atomic: the step simulation of PrinterReads.               *)

\* The values that the refinement mapping gives to PrinterReads.
Abs(r) == IF get[r].at = "idle" THEN [map |-> None, seen |-> None]
          ELSE [map |-> get[r].want, seen |-> Seen(r)]

AbsGet == [r \in Readers |-> Abs(r)]

\* Both modules extend PrinterCommands with the same constants.
LEMMA SameCommands ==
  /\ \A d, c : Atomic!ApplyCommand(d, c) = ApplyCommand(d, c)
  /\ Atomic!EmptyDB = EmptyDB
  /\ Atomic!Maps = Maps
<1>1. Atomic!EmptyDB = EmptyDB /\ Atomic!Maps = Maps
  BY DEF Atomic!EmptyDB, EmptyDB, Atomic!Maps, Maps
<1>2. \A d, c : Atomic!ApplyCommand(d, c) = ApplyCommand(d, c)
  BY DEF Atomic!ApplyCommand, ApplyCommand, Atomic!ApplyAddPrinter, ApplyAddPrinter,
         Atomic!ApplyAddFilament, ApplyAddFilament, Atomic!ApplyAddPrintJob, ApplyAddPrintJob,
         Atomic!ApplyUpdatePrintJobStatus, ApplyUpdatePrintJobStatus,
         Atomic!UpdateResult, UpdateResult, Atomic!ValidTransition, ValidTransition,
         Atomic!Charges, Charges, Atomic!Deduct, Deduct, Atomic!Wrap, Wrap,
         Atomic!Unset, Unset
<1> QED BY <1>1, <1>2

\* The steps of PrinterReads, in terms of the mapping.
LEMMA AtomicWrite ==
  ASSUME NEW c \in NodeCommands, Settled' = ApplyCommand(Settled, c), AbsGet' = AbsGet
  PROVE  Atomic!ReadNext
BY SameCommands DEF Atomic!ReadNext, Atomic!Write, Atomic!Execute, AbsGet, Abs

LEMMA AtomicRequest ==
  ASSUME NEW r \in Readers, NEW m \in Maps, AbsGet[r] = [map |-> None, seen |-> None],
         AbsGet' = [AbsGet EXCEPT ![r] = [map |-> m, seen |-> None]], Settled' = Settled
  PROVE  Atomic!ReadNext
BY SameCommands DEF Atomic!ReadNext, Atomic!Request, Atomic!NoGet, AbsGet, Abs

LEMMA AtomicSee ==
  ASSUME NEW r \in Readers, AbsGet[r].map # None, AbsGet[r].seen = None,
         AbsGet' = [AbsGet EXCEPT ![r].seen = Settled[AbsGet[r].map]], Settled' = Settled
  PROVE  Atomic!ReadNext
BY DEF Atomic!ReadNext, Atomic!See, AbsGet, Abs

LEMMA AtomicAnswer ==
  ASSUME NEW r \in Readers, AbsGet[r].seen # None,
         AbsGet' = [AbsGet EXCEPT ![r] = [map |-> None, seen |-> None]], Settled' = Settled
  PROVE  Atomic!ReadNext
BY DEF Atomic!ReadNext, Atomic!Answer, Atomic!NoGet, AbsGet, Abs

LEMMA AtomicStutter ==
  ASSUME AbsGet' = AbsGet, Settled' = Settled
  PROVE  UNCHANGED Atomic!readVars
BY DEF Atomic!readVars, AbsGet, Abs

LEMMA AtomicInit == Init => Atomic!ReadInit
BY SameCommands DEF Init, Atomic!ReadInit, Atomic!Init, Atomic!NoGet, NoGet, Settled
\* A step of the FSM goroutine changes no read: no handler is in a loop while
\* it writes.
LEMMA WriterFrame ==
  ASSUME get' = get,
         db' = db \/ \A r \in Readers : get[r].at # "copying"
  PROVE  AbsGet' = AbsGet
<1>1. ASSUME NEW r \in Readers PROVE Abs(r)' = Abs(r)
  BY DEF Abs, Seen, PartlyCopied
<1> QED BY <1>1 DEF AbsGet

\* Its first write and its second together are what Apply does.
LEMMA ChargeThenStore ==
  ASSUME Inv, Charge
  PROVE  StoreStatus(db', apply.cmd) = ApplyCommand(db, apply.cmd)
<1> DEFINE c == apply.cmd
           job == db.printJobs[c.id]
           fs == [db.filaments EXCEPT ![job.filament] =
                    Deduct(db.filaments[job.filament], job.weight)]
           js == [db.printJobs EXCEPT ![c.id] = [job EXCEPT !.status = c.status]]
<1>1. /\ c \in UpdateCommands /\ c.id \in Jobs
      /\ UpdateResult(db, c) = "nil" /\ Charges(job, c.status)
      /\ db' = [db EXCEPT !.filaments = fs] /\ db \in DB
  BY ChargeEffect DEF Inv, TypeOK
<1>2. ApplyCommand(db, c) = [db EXCEPT !.filaments = fs, !.printJobs = js]
  <2>1. ApplyCommand(db, c) = ApplyUpdatePrintJobStatus(db, c)
    BY <1>1 DEF UpdateCommands, ApplyCommand
  <2> QED BY <1>1, <2>1 DEF ApplyUpdatePrintJobStatus
<1> HIDE DEF fs
<1>3. db'.printJobs = db.printJobs
  BY <1>1 DEF DB
<1>4. StoreStatus(db', c) = [db' EXCEPT !.printJobs = js]
  BY <1>1, <1>3 DEF StoreStatus, DB
<1> HIDE DEF js
<1> QED BY <1>1, <1>2, <1>4 DEF DB

LEMMA WriterSimulation ==
  ASSUME Inv, ApplyStep \/ \E c \in NodeCommands : Apply(c)
  PROVE  [Atomic!ReadNext]_Atomic!readVars
<1>1. NoMapRace
  BY InvIsRaceFree
<1>2. CASE Charge
  <2>1. /\ Settled = db /\ Settled' = StoreStatus(db', apply.cmd)
        /\ apply.cmd \in NodeCommands /\ get' = get
    BY <1>2 DEF Charge, Settled, Inv, TypeOK
  <2>2. AbsGet' = AbsGet
    BY <1>1, <1>2, WriterFrame DEF Charge, NoMapRace
  <2>3. Settled' = ApplyCommand(Settled, apply.cmd)
    BY <1>2, <2>1, ChargeThenStore
  <2> QED BY <2>1, <2>2, <2>3, AtomicWrite
<1>3. CASE Store
  <2>1. AbsGet' = AbsGet
    BY <1>1, <1>3, WriterFrame DEF Store, NoMapRace
  <2>2. CASE apply.at = "write"
    <3>1. /\ Settled = db /\ Settled' = db' /\ db' = ApplyCommand(db, apply.cmd)
          /\ apply.cmd \in NodeCommands
      BY <1>3, <2>2 DEF Store, Settled, Inv, TypeOK
    <3> QED BY <2>1, <3>1, AtomicWrite
  <2>3. CASE apply.at = "store"
    <3>1. Settled' = Settled
      BY <1>3, <2>3 DEF Store, Settled, Inv, TypeOK
    <3> QED BY <2>1, <3>1, AtomicStutter
  <2> QED BY <1>3, <2>2, <2>3 DEF Store
<1>4. CASE Lock \/ Reject \/ Unlock \/ \E c \in NodeCommands : Apply(c)
  <2>1. /\ db' = db /\ get' = get
        /\ apply.at # "store" /\ apply'.at # "store"
    BY <1>4 DEF Lock, Reject, Unlock, Apply, Inv, TypeOK
  <2>2. Settled' = Settled
    BY <2>1 DEF Settled
  <2> QED BY <2>1, <2>2, WriterFrame, AtomicStutter
<1> QED BY <1>2, <1>3, <1>4 DEF ApplyStep

\* A step of handler r changes its own read at most.
LEMMA HandlerFrame ==
  ASSUME Inv, NEW r \in Readers, NEW g, get' = [get EXCEPT ![r] = g], UNCHANGED <<db, apply>>
  PROVE  /\ get'[r] = g
         /\ Settled' = Settled
         /\ AbsGet' = [AbsGet EXCEPT ![r] = Abs(r)']
<1>1. /\ get'[r] = g
      /\ \A q \in Readers \ {r} : get'[q] = get[q]
  BY DEF Inv, TypeOK
<1>2. ASSUME NEW q \in Readers \ {r} PROVE Abs(q)' = Abs(q)
  BY <1>1 DEF Abs, Seen, PartlyCopied
<1>3. AbsGet' = [AbsGet EXCEPT ![r] = Abs(r)']
  BY <1>2 DEF AbsGet
<1>4. Settled' = Settled
  BY DEF Settled
<1> QED BY <1>1, <1>3, <1>4

LEMMA ServeSimulation ==
  ASSUME Inv, NEW r \in Readers, NEW m \in Maps, Serve(r, m)
  PROVE  Atomic!ReadNext
<1> DEFINE g == [NoGet EXCEPT !.at = "rlock", !.want = m, !.copy = EmptyDB[m]]
<1>1. g.at = "rlock" /\ g.want = m /\ g.map = "printers"
  BY DEF NoGet
<1>2. get' = [get EXCEPT ![r] = g] /\ UNCHANGED <<db, apply>> /\ get[r].at = "idle"
  BY DEF Serve
<1> HIDE DEF g
<1>3. get'[r] = g /\ Settled' = Settled /\ AbsGet' = [AbsGet EXCEPT ![r] = Abs(r)']
  BY <1>2, HandlerFrame
<1>4. Abs(r)' = [map |-> m, seen |-> None]
  BY <1>1, <1>3 DEF Abs, Seen, Rank, Maps
<1>5. AbsGet[r] = [map |-> None, seen |-> None]
  BY <1>2 DEF AbsGet, Abs
<1> QED BY <1>3, <1>4, <1>5, AtomicRequest

\* The loop over the wanted map begins when no command is half done: this is
\* the moment of the read.
LEMMA BeginSimulation ==
  ASSUME Inv, NEW r \in Readers, apply.at \notin {"write", "store"},
         get[r].at \in {"rlock", "blocked"}, UNCHANGED <<db, apply>>,
         get' = [get EXCEPT ![r].at = "copying", ![r].left = Keys[get[r].map]]
  PROVE  [Atomic!ReadNext]_Atomic!readVars
<1> DEFINE g == [[get[r] EXCEPT !.at = "copying"] EXCEPT !.left = Keys[get[r].map]]
<1>1. /\ g.at = "copying" /\ g.left = Keys[get[r].map]
      /\ g.want = get[r].want /\ g.map = get[r].map /\ g.copy = get[r].copy
      /\ get' = [get EXCEPT ![r] = g]
  BY BeginsCopying
<1> HIDE DEF g
<1>2. get'[r] = g /\ Settled' = Settled /\ AbsGet' = [AbsGet EXCEPT ![r] = Abs(r)']
  BY <1>1, HandlerFrame
<1>3. Settled = db /\ db \in DB /\ get[r].want \in Maps /\ get[r].map \in Maps
  BY DEF Settled, Inv, TypeOK, Gets
<1>4. AbsGet[r] = Abs(r) /\ Abs(r) = [map |-> get[r].want, seen |-> Seen(r)]
  BY DEF AbsGet, Abs
<1>5. Abs(r)' = [map |-> get[r].want, seen |-> Seen(r)']
  BY <1>1, <1>2 DEF Abs
<1>6. CASE get[r].map = get[r].want
  <2>1. Seen(r) = None
    BY <1>3, <1>6 DEF Seen, Rank, Maps
  <2>2. Seen(r)' = [k \in Keys[get[r].want] |-> db[get[r].want][k]]
    <3>1. /\ g.at = "copying" /\ g.at # "done" /\ g.map = g.want /\ ~(Rank[g.map] > Rank[g.want])
          /\ g.want = get[r].want /\ g.left = Keys[get[r].want]
      BY <1>1, <1>3, <1>6 DEF Rank, Maps
    <3>2. Seen(r)' = PartlyCopied(get[r])'
      BY <1>2, <3>1 DEF Seen
    <3>3. \A k \in Keys[g.want] :
             (IF k \in g.left THEN db'[g.want][k] ELSE g.copy[k]) = db[get[r].want][k]
      BY <3>1
    <3> QED BY <1>2, <3>1, <3>2, <3>3 DEF PartlyCopied
  <2>3. [k \in Keys[get[r].want] |-> db[get[r].want][k]] = db[get[r].want]
    BY <1>3 DEF DB, Keys, Maps
  <2>4. AbsGet' = [AbsGet EXCEPT ![r].seen = Settled[AbsGet[r].map]]
    <3> DEFINE v == db[get[r].want]
    <3>1. Abs(r)' = [map |-> get[r].want, seen |-> v]
      BY <1>5, <2>2, <2>3
    <3>2. Settled[AbsGet[r].map] = v
      BY <1>3, <1>4
    <3> HIDE DEF v
    <3>3. [AbsGet[r] EXCEPT !.seen = v] = [map |-> get[r].want, seen |-> v]
      BY <1>4
    <3> QED BY <1>2, <3>1, <3>2, <3>3
  <2>5. AbsGet[r].map # None /\ AbsGet[r].seen = None
    BY <1>3, <1>4, <2>1, NoneIsNoMap
  <2> QED BY <1>2, <2>4, <2>5, AtomicSee
<1>7. CASE get[r].map # get[r].want
  <2>1. Seen(r)' = Seen(r)
    BY <1>1, <1>2, <1>7 DEF Seen, Rank
  <2>2. AbsGet' = AbsGet
    BY <1>2, <1>4, <1>5, <2>1 DEF AbsGet
  <2> QED BY <1>2, <2>2, AtomicStutter
<1> QED BY <1>6, <1>7
\* Copying an entry moves it from what is to be seen to what has been seen.
LEMMA CopySimulation ==
  ASSUME Inv, NEW r \in Readers, NEW k \in AllKeys, CopyEntry(r, k)
  PROVE  UNCHANGED Atomic!readVars
<1> DEFINE copy == IF get[r].map = get[r].want
                   THEN [get[r].copy EXCEPT ![k] = db[get[r].want][k]] ELSE get[r].copy
           g == [[get[r] EXCEPT !.left = get[r].left \ {k}] EXCEPT !.copy = copy]
<1>1. /\ get \in [Readers -> Gets] /\ get[r] \in Gets /\ get[r].at = "copying"
      /\ get[r].copy \in Table[get[r].want] /\ get[r].want \in Maps /\ get[r].map \in Maps
  BY DEF CopyEntry, Inv, TypeOK, CopyInv, Gets
<1>2. get' = [get EXCEPT ![r] = g] /\ UNCHANGED <<db, apply>>
  BY <1>1 DEF CopyEntry
<1> HIDE DEF copy
<1>3. /\ g.at = "copying" /\ g.want = get[r].want /\ g.map = get[r].map
      /\ g.left = get[r].left \ {k} /\ g.copy = copy
  BY <1>1 DEF Gets
<1> HIDE DEF g
<1>4. get'[r] = g /\ Settled' = Settled /\ AbsGet' = [AbsGet EXCEPT ![r] = Abs(r)']
  BY <1>2, HandlerFrame
<1>5. Seen(r)' = Seen(r)
  <2>1. CASE get[r].map = get[r].want
    <3>1. ~(Rank[get[r].map] > Rank[get[r].want])
      BY <1>1, <2>1 DEF Rank, Maps
    <3>2. Seen(r) = PartlyCopied(get[r]) /\ Seen(r)' = PartlyCopied(get[r])'
      BY <1>1, <1>3, <1>4, <2>1, <3>1 DEF Seen
    <3>3. DOMAIN get[r].copy = Keys[get[r].want]
      BY <1>1 DEF Table, Keys, Maps
    <3>4. ASSUME NEW i \in Keys[get[r].want]
          PROVE  (IF i \in g.left THEN db'[g.want][i] ELSE g.copy[i])
                   = (IF i \in get[r].left THEN db[get[r].want][i] ELSE get[r].copy[i])
      <4>1. copy[i] = IF i = k THEN db[get[r].want][i] ELSE get[r].copy[i]
        BY <2>1, <3>3 DEF copy
      <4> QED BY <1>1, <1>2, <1>3, <4>1 DEF CopyEntry
    <3>5. PartlyCopied(get[r])' = PartlyCopied(get[r])
      BY <1>3, <1>4, <3>4 DEF PartlyCopied
    <3> QED BY <3>2, <3>5
  <2>2. CASE get[r].map # get[r].want
    <3>1. copy = get[r].copy
      BY <2>2 DEF copy
    <3> QED BY <1>1, <1>3, <1>4, <2>2, <3>1 DEF Seen
  <2> QED BY <2>1, <2>2
<1>6. Abs(r)' = Abs(r)
  BY <1>1, <1>3, <1>4, <1>5 DEF Abs
<1>7. AbsGet' = AbsGet
  BY <1>4, <1>6 DEF AbsGet
<1> QED BY <1>4, <1>7, AtomicStutter

\* The end of a loop: the table is what was seen of it.
LEMMA UnlockSimulation ==
  ASSUME Inv, NEW r \in Readers, RUnlock(r)
  PROVE  UNCHANGED Atomic!readVars
<1> DEFINE place == IF get[r].map = "printJobs" THEN "done" ELSE "rlock"
           g == [[get[r] EXCEPT !.at = place] EXCEPT !.map = NextMap[get[r].map]]
<1>1. /\ get \in [Readers -> Gets] /\ get[r] \in Gets
      /\ get[r].at = "copying" /\ get[r].left = {}
      /\ get[r].copy \in Table[get[r].want] /\ get[r].want \in Maps /\ get[r].map \in Maps
  BY DEF RUnlock, Copied, Inv, TypeOK, CopyInv, Gets
<1>2. get' = [get EXCEPT ![r] = g] /\ UNCHANGED <<db, apply>>
  BY <1>1 DEF RUnlock, Copied
<1>3. /\ g.at = place /\ g.want = get[r].want /\ g.map = NextMap[get[r].map]
      /\ g.copy = get[r].copy
  BY <1>1 DEF Gets
<1> HIDE DEF g
<1>4. get'[r] = g /\ Settled' = Settled /\ AbsGet' = [AbsGet EXCEPT ![r] = Abs(r)']
  BY <1>2, HandlerFrame
<1>5. PartlyCopied(get[r]) = get[r].copy
  BY <1>1 DEF PartlyCopied, Table, Keys, Maps
<1>6. Seen(r)' = Seen(r)
  BY <1>1, <1>3, <1>4, <1>5 DEF Seen, Rank, NextMap, Maps
<1>7. Abs(r)' = Abs(r)
  BY <1>1, <1>3, <1>4, <1>6 DEF Abs
<1>8. AbsGet' = AbsGet
  BY <1>4, <1>7 DEF AbsGet
<1> QED BY <1>4, <1>8, AtomicStutter

LEMMA EncodeSimulation ==
  ASSUME Inv, NEW r \in Readers, Encode(r)
  PROVE  Atomic!ReadNext
<1>1. /\ get[r].at = "done" /\ get[r].want \in Maps /\ get[r].copy \in Table[get[r].want]
      /\ get' = [get EXCEPT ![r] = NoGet] /\ UNCHANGED <<db, apply>>
  BY DEF Encode, Inv, TypeOK, CopyInv, Gets
<1>2. get'[r] = NoGet /\ Settled' = Settled /\ AbsGet' = [AbsGet EXCEPT ![r] = Abs(r)']
  BY <1>1, HandlerFrame
<1>3. Abs(r)' = [map |-> None, seen |-> None]
  BY <1>2 DEF Abs, NoGet
<1>4. AbsGet[r].seen = get[r].copy
  BY <1>1 DEF AbsGet, Abs, Seen
<1>5. get[r].copy # None
  BY <1>1, NoneIsNoTable
<1> QED BY <1>2, <1>3, <1>4, <1>5, AtomicAnswer

LEMMA HandlerSimulation ==
  ASSUME Inv, NEW r \in Readers, GetStep(r)
  PROVE  [Atomic!ReadNext]_Atomic!readVars
<1>1. CASE RLock(r)
  <2>1. CASE mu.writer = "none"
    BY <1>1, <2>1, BeginSimulation DEF RLock, Inv, LockInv
  <2>2. CASE mu.writer # "none"
    <3> DEFINE g == [get[r] EXCEPT !.at = "blocked"]
    <3>1. /\ g.at = "blocked" /\ g.want = get[r].want /\ g.map = get[r].map
          /\ g.copy = get[r].copy /\ get[r].at = "rlock"
          /\ get' = [get EXCEPT ![r] = g] /\ UNCHANGED <<db, apply>>
      BY <1>1, <2>2 DEF RLock, Inv, TypeOK, Gets
    <3> HIDE DEF g
    <3>2. get'[r] = g /\ Settled' = Settled /\ AbsGet' = [AbsGet EXCEPT ![r] = Abs(r)']
      BY <3>1, HandlerFrame
    <3>3. Abs(r)' = Abs(r)
      BY <3>1, <3>2 DEF Abs, Seen
    <3>4. AbsGet' = AbsGet
      BY <3>2, <3>3 DEF AbsGet
    <3> QED BY <3>2, <3>4, AtomicStutter
  <2> QED BY <2>1, <2>2
<1>2. CASE Wake(r)
  <2>1. apply.at \notin {"write", "store"}
    BY <1>2 DEF Wake, Inv, TypeOK, LockInv
  <2> QED BY <1>2, <2>1, BeginSimulation DEF Wake
<1>3. ASSUME NEW k \in AllKeys, CopyEntry(r, k)
      PROVE  [Atomic!ReadNext]_Atomic!readVars
  BY <1>3, CopySimulation
<1>4. CASE RUnlock(r)
  BY <1>4, UnlockSimulation
<1>5. CASE Encode(r)
  BY <1>5, EncodeSimulation
<1> QED BY <1>1, <1>2, <1>3, <1>4, <1>5 DEF GetStep

(***************************************************************************)
(* Every GET answers with a whole map as it was at one moment between      *)
(* request and answer, for any number of GETs at a time and any commands:  *)
(* the getters, which copy entry by entry under f.mu, implement the reads  *)
(* of PrinterReads (fsm.go 159-190, node.go 291-293).                      *)
(***************************************************************************)
THEOREM EveryReadIsAtomic == Spec => ReadsAreAtomic
<1>1. Inv /\ [Next]_vars => [Atomic!ReadNext]_Atomic!readVars
  <2> SUFFICES ASSUME Inv, [Next]_vars
               PROVE  [Atomic!ReadNext]_Atomic!readVars
    OBVIOUS
  <2>1. CASE ApplyStep \/ \E c \in NodeCommands : Apply(c)
    BY <2>1, WriterSimulation
  <2>2. ASSUME NEW r \in Readers, GetPrinters(r) \/ GetFilaments(r) \/ GetPrintJobs(r)
        PROVE  [Atomic!ReadNext]_Atomic!readVars
    BY <2>2, ServeSimulation DEF GetPrinters, GetFilaments, GetPrintJobs, Maps
  <2>3. ASSUME NEW r \in Readers, GetStep(r)
        PROVE  [Atomic!ReadNext]_Atomic!readVars
    BY <2>3, HandlerSimulation
  <2>4. CASE UNCHANGED vars
    <3>1. AbsGet' = AbsGet /\ Settled' = Settled
      BY <2>4, WriterFrame DEF vars, Settled
    <3> QED BY <3>1, AtomicStutter
  <2> QED BY <2>1, <2>2, <2>3, <2>4 DEF Next
<1> QED BY <1>1, AtomicInit, Invariance, PTL DEF Spec, ReadsAreAtomic, Atomic!ReadSpec
=============================================================================
