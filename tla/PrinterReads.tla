---------------------------- MODULE PrinterReads ----------------------------
(***************************************************************************)
(* What GETs may rely on at one node: a PrinterFSM whose maps are read at  *)
(* one instant.  The answer to GET /printers, /filaments or /print_jobs is *)
(* the whole map as it was at some moment between request and answer, with *)
(* every command applied completely or not at all.  PrinterLocks, with its *)
(* mutex and its loops over map entries, implements this.                  *)
(***************************************************************************)
EXTENDS PrinterFSM

CONSTANTS Readers,        \* goroutines that serve GETs
          NodeCommands    \* the commands this node is given to apply

Maps == {"printers", "filaments", "printJobs"}

VARIABLE get   \* get[r]: the map asked for and what was seen of it

readVars == <<db, get>>

NoGet == [map |-> None, seen |-> None]

ReadInit == Init /\ get = [r \in Readers |-> NoGet]

Request(r, m) ==
  /\ get[r] = NoGet
  /\ get' = [get EXCEPT ![r] = [map |-> m, seen |-> None]]
  /\ UNCHANGED db

See(r) ==
  /\ get[r].map # None /\ get[r].seen = None
  /\ get' = [get EXCEPT ![r].seen = db[get[r].map]]
  /\ UNCHANGED db

Answer(r) ==
  /\ get[r].seen # None
  /\ get' = [get EXCEPT ![r] = NoGet]
  /\ UNCHANGED db

Write == (\E c \in NodeCommands : Execute(c)) /\ UNCHANGED get

ReadNext ==
  \/ Write
  \/ \E r \in Readers : (\E m \in Maps : Request(r, m)) \/ See(r) \/ Answer(r)

ReadSpec == ReadInit /\ [][ReadNext]_readVars
=============================================================================
