# Raft3D in TLA+

Raft3D keeps the inventory of a 3D-printing shop (printers, filament rolls,
print jobs) on a cluster of nodes. Every node is one Go process with an HTTP API
(`net/http`), a `hashicorp/raft` node (v1.7.3) and a finite state machine, the
`PrinterFSM`, that raft feeds from its replicated log. This directory holds TLA+
models of that program, the TLC configurations that check them and the theorems
TLAPS proves about them. `PROJECT.json` maps every definition to the Go lines it
models.

    tlc -workers 2 -config ReplicatedStore.cfg MCReplicatedStore.tla
    tlapm ReplicatedServiceProofs.tla

## 1. Inventory

| component | code | state it keeps | operations |
|---|---|---|---|
| printer state machine | `fsm/fsm.go`, `models/models.go` | the maps `printers`, `filaments`, `printJobs`, under `mu` | `Apply` (four commands), `Snapshot`, `Persist`, `Restore`, three getters |
| write path | `api/endpoint_api.go`, `store/store.go`, `raftnode/node.go` 323-413 | none of its own: a goroutine per call, blocked on a raft future | `POST /printers`, `/filaments`, `/print_jobs`, `POST /print_jobs/{id}/status` |
| read path | the same files, `fsm.go` 159-190, `node.go` 291-293 | the copy a handler is making | `GET` of the three collections, from the local FSM of the node asked |
| raft | external | term, vote, log (BoltDB), snapshots (files), commit index, role, configurations | elections, replication, `Apply` futures, `AddVoter`, `RemoveServer`, FSM callbacks |
| cluster membership | `node.go` 78-289 and 415-439, `main.go` 101-218 and 297-411 | raft's configuration; `joinTimes`; the join address and the attempts of a joining process | `NewRaftNode`, `joinCluster`, the join loop of `main`, `POST /join`, `DELETE /cluster/servers`, `AddServer`, `RemoveServer`, `GetLeader` |
| leadership monitor, statistics | `node.go` 591-721, 257-285 | `observedLeader`, `leaderlessTime`, `stats` with `leaderSince` and `totalLeaderTime` | `monitorLeadership`, `GetLeader`, `collectStats` |
| server health monitor | `node.go` 441-588 | `failureDetector`, `monitorShutdown` | `monitorServerHealth`, `checkServers` and what they call; nothing starts it |
| shutdown | `node.go` 295-321, `main.go` 413-420 | `monitorShutdown` | signal handler, `Shutdown` |
| logger, utilities, scripts | `utils/`, `*.sh` | a log file | formatting, ids, start and kill of processes |

How they interact. A write handler decodes the body, answers 400 if an identifier
is empty, and calls the `Store`, which calls the `RaftNode`. The `RaftNode`
compares `raft.State()` with `raft.Leader`, marshals a command and hands it to
`raft.Apply`, then waits in `future.Error()`. Raft replicates the command; on
every node its FSM goroutine calls `PrinterFSM.Apply` for each committed entry in
order, and `Restore` when the node starts from or is sent a snapshot. On the node
where the call waits, the future resolves after `Apply` has run. A `GET` copies the
three local maps, each under a read lock of its own, and answers with one. The only
call between processes besides raft's own is `POST /join`: a process started with
`-join` makes it twice, once inside `NewRaftNode` and again from `main`, before it
opens its own port. A process started with neither `-bootstrap` nor `-join` makes no call
and opens its port at once.

What is hard here. Two nodes may believe that they lead; the role is read, and may change,
before a command is handed to raft; a deposed leader fails its futures while the entries live on
in other logs; the process may stop anywhere; a snapshot is written while commands go on being
applied, and is restored on a node that has older data or none; the client's connection may time
out before the future resolves, and the client will try again; the FSM rejects commands but the
answer does not say so; a map is copied entry by entry next to the goroutine that writes it. On
the membership side: a call to join may outlive the process that made it, a change of
configuration may be dropped with its leader or be brought into force by the next, the map of
join times has no lock, redirects follow a leader that may be a guess, to a port that is
computed and may be another process's. The monitors poll: whatever happens between two looks
they do not see. Each of these is listed under `hazards` in `PROJECT.json` at the line where it
bites.

What makes each part correct:

- *printer state machine*: commands are total and deterministic; filament is
  consumed once per finished job, by finished jobs only, and never below zero;
  updates can be retried; the remainders add up.
- *write path*: the cluster looks like one `PrinterFSM`; an answer is true; every
  call returns.
- *replicas and snapshots*: every copy of the maps is the committed prefix it
  claims to be; a node never goes back; every node catches up.
- *read path*: a GET is atomic, never races with a write, and neither side starves
  the other.
- *membership*: who serves after founding or joining the cluster is a member; only a DELETE
  ends that; a joining process stops asking.
- *leadership monitor*: the time a node counts as leader is the time it led, up to a
  sampling error; it checks for a leader only when there was none.

## 2. Modules

| module | what it is |
|---|---|
| `PrinterCommands` | the deterministic part of `fsm.go`: records, commands, `ApplyCommand`, `CommandResult` |
| `PrinterFSM` | one FSM executing any sequence of commands; its properties |
| `PrinterLedger` | `PrinterFSM` with a ledger of what clients posted |
| `PrinterReads` | abstract: `PrinterFSM` with GETs that read a map at one instant |
| `PrinterLocks` | the goroutines of one node around `f.mu`; implements `PrinterReads` |
| `PrinterService` | abstract: what clients of the cluster may rely on |
| `RaftContract` | hashicorp/raft's log as the code relies on it (external) |
| `ReplicatedStore` | handlers, `RaftNode`, FSMs, snapshots, crashes, composed with `RaftContract` and `PrinterCommands`; implements `PrinterService` |
| `Membership` | processes, the two joins, `/join`, `DELETE`, raft's configurations |
| `LeaderWatch` | the two polling goroutines of a node |
| `StoreClaims`, `MembershipClaims` | sentences of the documents that the code refutes (one more is in `LeaderWatch`) |
| `MCPrinterFSM`, `MCPrinterLocks`, `MCReplicatedStore`, `MCMembership`, `MCLeaderWatch` | values for TLC, symmetry sets |
| `PrinterCommandsLemmas` | lemmas about the operators of `PrinterCommands` |
| `PrinterFSMProofs`, `PrinterLocksProofs`, `ReplicatedStoreProofs`, `ReplicatedAnswersProofs`, `ReplicatedServiceProofs`, `MembershipProofs`, `LeaderWatchProofs` | theorems |

`PrinterFSM`, `PrinterLocks` and `ReplicatedStore` extend `PrinterCommands`, so that
one `ApplyCommand` serves all three. `ReplicatedStore` extends `RaftContract` and
instantiates `PrinterService` with a refinement mapping; `PrinterLocks` does the same
with `PrinterReads`, which extends `PrinterFSM`. What `PrinterLocks` shows is what lets
`ReplicatedStore` treat `Apply` as one step. `Membership` and `LeaderWatch` stand
alone: they meet the other modules only in raft.

### PrinterCommands, PrinterFSM, PrinterLedger

`db` is the struct of the three maps. A Go map is a function whose value is `None`
at an absent key, so an upsert (`f.printJobs[job.ID] = &job`) is an `EXCEPT`. Of a
printer only an opaque payload is kept, of a filament the remaining weight, of a
job its printer, filament, weight and status: nothing else is ever looked at.
Inputs are what the handlers let through: identifiers are not empty, weights may
have any sign, a job may name records that do not exist and may carry any status
(the handler decodes the whole record; the FSM sets `Queued` only if the field is
empty). `"Failed"` stands for any status string the FSM does not know, among them
the spelling `Canceled` that `problem_stmt.md` uses.

`ApplyCommand` has the four cases of the switch in `Apply`; each apply method holds
the lock throughout, so one command is one step. The update keeps its three error
returns in their order (`UpdateResult`) and the order of its effects: the filament is
looked up, and may be missing, before anything is changed. `Deduct` keeps the
"safety check" and Go's wrap-around for `int` (`Wrap`, modulo `2 * IntHalf`).

`PrinterLedger` restricts nothing: its actions are those of `PrinterFSM` with two
history variables, the weight each roll was last posted with, and the rolls for which a
later POST spoilt the books (it replaced a roll with finished jobs, replaced a finished
job, or posted a job as `Done`). For every other roll the remainder must be what was
posted less the weight of its finished jobs, or zero.

### PrinterLocks and PrinterReads

| action | code |
|---|---|
| `Apply`, `Lock` | an apply method calls `f.mu.Lock()`: new readers are kept out from the call on, and it returns when the last reader has left |
| `Reject`, `Charge`, `Store` | the error returns; `f.filaments[...] = filament`; the last map write of the command |
| `Unlock` | the deferred `Unlock`, which lets in all readers that waited |
| `GetPrinters`, `GetFilaments`, `GetPrintJobs` | a request arrives at one of the three handlers |
| `RLock`, `Wake`, `CopyEntry`, `RUnlock` | a getter: the read lock, the loop one key at a time in any order, the deferred unlock; `GetState` calls the three getters one after the other |
| `Encode` | the handler answers with the one map it was asked for |

`sync.RWMutex` is external and modelled with Go's rule that a pending writer stops new
readers. The mapping to `PrinterReads` shows the maps with the command that is half done
completed (`Settled`): the moment a charged update takes effect is its first write,
because nobody can see the maps between the two. A GET has seen its map from the moment
it starts to copy it (`Seen`); the keys it has not reached are filled in from the maps,
which cannot change while it holds the lock.

### RaftContract

The library is not in the repository, so this module is a contract: the calls
appended in each term and not yet committed (`pend`), the committed log, and the
commit index each node knows. What it allows on purpose:

- several nodes lead at once, in different terms; the older one still accepts calls;
- a new leader takes over a prefix of what each older term left and drops the rest,
  for any prefix (raft: whatever was in the log of the node that won);
- nobody learns of the entries taken over until the leader's own first entry is
  committed, the no-op of its term;
- a follower learns a commit index late or in leaps;
- a leader may step down at any time while terms are left, and has to when it hears
  of a newer term or reaches no quorum (`LeaderLeaseTimeout`, 500 ms, `node.go` 142);
- a crash keeps term, vote and log (BoltDB) and loses the commit index. A node that
  restarts applies its newest snapshot and learns the rest from a leader.

What it rules out is what raft guarantees: two leaders of one term, a committed
entry that changes or vanishes, a commit index that decreases while a node runs.
The set of nodes is fixed here, and no node loses its data directory.

### ReplicatedStore

| action | code |
|---|---|
| `Receive` | handler and `RaftNode.AddX` up to `State() != raft.Leader`, the only check of the role on this path (412) |
| `Propose` | `raft.Apply` accepted, or refused because the role changed meanwhile (`ErrNotLeader`; its text is not the one the handlers compare with, so 500) |
| `EnqueueTimeout` | the 10 s of `raft.Apply(b, 10*time.Second)` |
| `WriteTimeout` | the server's `WriteTimeout` of 30 s closes a connection whose future is open |
| `Elect`, `Inherit`, `Establish`, `Commit`, `Learn` | raft |
| `StepDown` | raft; the futures of the node fail with `ErrLeadershipLost` (500) |
| `ApplyNext` | `PrinterFSM.Apply` of the next entry; a waiting call gets 200 or 201, whatever `Apply` returned |
| `TakeSnapshot`, `Persist`, `PersistFails` | `FSM.Snapshot` and `FSMSnapshot.Persist`, two steps with `Apply` between them |
| `InstallSnapshot` | `FSM.Restore` of a snapshot sent by the leader |
| `Crash`, `Restart` | the process stops (also by `Shutdown`); `NewRaftNode` on the old directory |

`before` and `states` are history variables: the calls that had returned when a
call was sent, and the database after every committed entry. No guard reads them.
`EnqueueTimeout` is possible whenever the call has not been enqueued;
`WriteTimeout` takes only calls that are in raft's hands, because enqueuing takes
at most 10 s of the 30. A client that gives up earlier than the server does is
outside the model: the handler does not notice, and its call may still be handed to raft.

### PrinterService

One `PrinterFSM`, no nodes. A call is open between request and answer. A call that
succeeds executed exactly once while it was open; one that is refused never
executes; one that fails otherwise may have executed, or may execute later, once, but
not after some call that was sent after the failure has succeeded. The last
clause is what lets a client reason about retries: a success acts as a fence for everything
that failed before it. The mapping takes the last element of `states` for the
database and the set of committed calls for `executed`.

### Membership

| action | code |
|---|---|
| `StartBoot` | `NewRaftNode` with `-bootstrap`: `BootstrapCluster` unless there is a configuration already; `main` does not join |
| `Start` | `NewRaftNode` with a join address, up to `joinCluster`; its raft node runs, and votes, from here on |
| `StartAlone` | `NewRaftNode` with neither flag (152-172): no configuration but the one in its log, if it has been a member; `main` skips the join (120) and serves |
| `Call` | `http.Post(.../join)`, and `IsLeader()` and `GetLeader()` in the handler there; a node that does not serve refuses the connection |
| `Accepted`, `Failed`, `Redirected` | the answer, read by `joinCluster` (anything but 200 ends the process) or by the loop of `main` (a failure is counted, a redirect is not, unless it names nobody or its port is no number) |
| `DeleteServer` | the handler of `DELETE /cluster/servers` at a leader |
| `CheckAgain`, `Noted`, `MapRace` | `AddServer` and `RemoveServer`: the role again, the write of `joinTimes` without a lock, and what Go may do about two of them |
| `Propose`, `Refuse`, `Commit`, `TooLate` | the future of `AddVoter` or `RemoveServer`; an answer after the `WriteTimeout` |
| `Stop` | a signal or a crash |
| `Elect`, `Establish`, `Learn`, `Forget`, `StepDown` | raft |

Any process may be started with any of the flags, and with other ones the next time, except
that one process only, `Boot`, is ever started with `-bootstrap`. A process that founded
the cluster or joined it is in place `serving`, one started with neither flag in `alone`;
`Listens` is both.

A redirect carries a raft address, and `main` asks next at the host in it and its port plus
1080 (`main.go` 176-203). `HttpOf[p][q]` is the process that `p` reaches that way when it is
told the raft address of `q`: `q` itself where the ports follow the pattern of the README, but
in general any process, nobody (`None`), or `NotAPort` where `strconv.Atoi` fails (a service
name, an IPv6 address). It depends on `p` too, because a host name need not
mean the same machine everywhere and ports may be forwarded. It is a constant of which nothing is
assumed but its type.

Of raft's log only the configurations matter here: the committed one (`conf`), those
that may be in some log without being committed (`drafts`), and the newest in each
node's own (`known`). A winner of an election has the committed one or a draft, and may
bring that draft into force; a leader takes one change at a time and none before its
term has committed an entry. `rivals` are the leaders that no later leader has
committed past: only what they append may still be committed. `GetLeader` answers with
the leader raft knows or else with *some* other server of the configuration; which one is
first there is left open. `Forget` stands for a heartbeat timeout and is enabled once the
leader a node knew is not in office; `condemned` remembers the ids a DELETE has named
until a committed configuration has them again or not.

### LeaderWatch

| action | code |
|---|---|
| `Look`, `Fallback` | `monitorLeadership` calls `GetLeader`, which asks raft and, if raft knows none, walks the configuration; then everything up to `raft.State()` or the sleep |
| `Verify` | `raft.State()` and `VerifyLeader`; the timer is set again in any case (638-640) |
| `Sample` | a tick of `collectStats`, under `statsMutex` |
| `Untrack` | the end of `RemoveServer` for this node: its entry in `stats` goes |
| `RoleChange`, `ConfigChange`, `Tick` | raft, between any two of these, and time |

A goroutine that is due runs before time goes on. `led`, `dirty`, `seen`, `verified`
and `dark` are history variables; no guard of the code's actions reads them.

## 3. Runs

| run | instance | states | question |
|---|---|---|---|
| `printer_fsm` | 1 printer, 2 rolls, 3 jobs, weights 1 and 3, 3-bit ints | 168 k | any sequence of commands: types, no overdraft, retries, who consumes filament, does the ledger add up? |
| `printer_locks` | 2 handlers, 1 roll, 2 jobs, 5 commands | 698 k | atomic GETs, no map race, no circle of waits, nobody starves |
| `replicated_store` | 3 nodes, 2 calls, 2 terms, no crash | 825 k | competing leaders: refinement of `PrinterService`, true answers, monotone reads |
| `store_crashes` | 2 nodes, 2 calls, 2 terms, 2 crashes | 366 k | crashes, restarts, snapshots: replicas and snapshots follow the log; nobody waits for nothing; refinement |
| `store_liveness` | 3 nodes, 1 call, 2 terms, 2 crashes | 59 k | does every call return, does every node catch up? |
| `membership` | 2 processes, any flags, 2 attempts, 3 elections, 2 stops, 1 DELETE | 382 k | is whoever founded or joined and serves a member, and does only a DELETE take one out? |
| `membership_liveness` | 3 processes, any flags, 2 attempts, 2 elections, ports that follow the pattern, lead elsewhere or are no number | 191 k | does the join loop end? membership again, with two processes that join at once |
| `leader_watch` | interval 1, patience 2, period 3, 9 units of time, 1 peer | 1.68 M | is the counted time right, are the checks earned? |
| `claim_*` | small | | a sentence of the documents that the code refutes, see section 6 |

Bounds. All are constants in the `.cfg` files. Two rolls and three jobs are what it takes for
jobs to compete for one roll while the books of the other are spoilt. Weights reach past the
remainder, and the 3-bit `int` makes an unchecked subtraction visible. In `printer_locks` two
jobs make a mixture of two commands visible in one map, the five commands include an update that
writes two maps and updates that are rejected, and with two handlers one can be in its loop
while the other waits behind the writer. In the store two calls on one job (post it, start it)
have a visible order in the database, which a longer list of commands would not add to, because
`ReplicatedStore` treats a command as data. Two terms give a deposed leader with calls in flight
and a new one that inherits or drops them. Two nodes with two crashes cover a restart of either
or of both, with and without a snapshot; three nodes add a minority leader and a follower that
is behind. Three nodes *and* crashes with two calls did not finish in the time we allow a run;
the theorems of section 5 hold there too. In `membership` three elections let a draft of one
leader be passed over by a second and return with a third; two stops cover a process that is
stopped, comes back and meets its own earlier call. The same run with three processes does not
finish in the time we allow a run; `MembershipProofs` covers it. In `membership_liveness` two
elections give an old leader whose name redirects still carry beside the new one. Its ports are
mixed (`MixedHttp`): the raft port of one process is no number, and where that process looks for
the first it finds the second; the rest follow the pattern. In `leader_watch` nine units hold
three samples and two full rounds of patience, and period, patience and interval are of
different lengths, so that their ticks meet in every order; two peers would add no case, because
only whether an address is "" is ever asked.

Terms are bounded by `MaxTerm`, elections, stops, crashes and deletions by their constants
and time by `MaxTime`; a behaviour of the store or of the membership may therefore stop
without a leader, so those runs do not check for deadlock. The others do (the clock of
`leader_watch` may stop, but raft goes on). Nodes, requests, jobs and rolls are
interchangeable, so safety runs use symmetry; runs with a liveness property do not.

Each property has a mutant in `PROJECT.json`: a plausible bug of the Go code, for
which the same run fails (a second `Apply` after an error, a handler that does not
wait for the future, a snapshot of the live maps, a getter that takes no lock, keeps it
while it takes the next or tries again until it gets it, a handler that waits at a node
that has lost its leadership, a join loop that does not look at the status code or
asks the same node again, a bootstrap node that founds its cluster at every start, a timer
that is not cleared, `leaderSince` that is not reset, ...).

Fairness. All of it is stated next to the specification it belongs to.

- `ReplicatedStore`: weak fairness of `Propose` and `ApplyNext`: goroutines run. Of
  `Establish`, `Commit`, `Learn`: a leader that reaches a quorum replicates and its
  heartbeats carry the commit index. Of `StepDown` where it is forced: the lease
  timeout, or the newer term seen in any exchange. Nothing is assumed of elections,
  restarts, snapshots, timeouts or clients. `EveryCallReturns` thus does not lean on
  the timeouts, and `ReplicasCatchUp` is conditional on a leader that stays.
- `PrinterLocks`: weak fairness of the FSM goroutine and of each handler: a goroutine that
  can go on does. Nothing is assumed of arrivals; that readers cannot hold up the
  writer for ever follows from Go's rule about pending writers.
- `Membership`: weak fairness of the joining process and of the handler of its call. Strong
  fairness of `Propose`: several handlers wait to send on raft's one channel, and Go serves
  senders in the order in which they came, so one that is enabled again and again gets its turn.
  Weak fairness of `Establish` and `Learn`: a leader with a quorum commits and its heartbeats
  arrive; and of `StepDown` for a leader that is not the newest: its lease runs out, or it sees
  the newer term. `JoinEnds` is conditional on a cluster that has settled (`Settled`: a leader
  that listens and has a quorum, and nobody listens who cannot hear of it but names another)
  and whose leader's HTTP port, if the process reaches one at all by redirects, is the one that
  follows the pattern. It still covers followers that have not heard of the leader and guess,
  two that name each other meanwhile, and redirects to ports where nobody listens.
  `RestartSpec` adds, for one claim only, that something restarts what has stopped and that
  elections happen when they can.
- `LeaderWatch` has safety properties only; that due goroutines run before the clock moves is
  a guard of `Tick`.

## 4. What the checks show

- Between competing leaders, crashes, restarts and snapshots the cluster behaves
  like one `PrinterFSM` towards writers, with unknown outcomes for 500 and broken
  connections only. 412 is safe to retry elsewhere: the call never runs.
- A handler never waits for something that cannot happen: its node leads, or it has the
  committed call ahead of it. Two calls of which one returned before the other was sent
  are applied in that order everywhere.
- A status update can be retried at will. An add cannot: it is an upsert and takes a
  running or finished job back to `Queued`. As long as no POST touches what is finished, the
  remainders of the rolls form a ledger.
- A GET is a snapshot of one map between two commands, although it is copied entry by
  entry and the update of a finished job writes two maps. It may be an old snapshot: a node
  that restarts serves old reads until a leader has committed something, but never
  goes back while it runs. No GET and no command wait for each other in a circle.
- A process that founded the cluster or was told to join it is a committed member when it opens
  its port, also if its first call was answered late, was lost with a leader or comes into force
  after the process was restarted. Only a DELETE changes that: neither a bootstrap node that is
  started again with the same flags nor a leader with an older configuration takes a member out.
  A process started with neither flag is a different matter: it serves without having asked
  anybody, a member or not. It answers what an empty or old node can answer, but it makes
  nobody else a member and takes none out.
- The uncounted redirects of the join loop do not keep it going once the cluster has settled,
  provided that the computed HTTP port of the leader is the leader's or nobody's. If it
  is a follower's they can go on for ever (the process asks the follower, which names the leader
  again); the comment at `main.go` 190 states the pattern of ports as an assumption.
- The leader time of a node is off by at most one sampling period for every period in which
  it won or lost leadership; errors do not add up beyond that.
- `VerifyLeader` is called only after a silence longer than the patience and not more often,
  although the timer is carried over several looks. It is called less often than intended:
  section 6.

## 5. Proofs

`tlapm` checks all of them, for every value of the constants; the slowest module takes about a
minute.

`PrinterFSMProofs`, for any sets of printers, filaments, jobs and weights and any
width of `int`:

- `TypeCorrect`, the type invariant. What needs care is the update: the new remainder
  is an `int` again (`DeductType`: `Wrap` is a total function into `GoInt`).
- `NoOverdraftEver`, under `Weights \subseteq Nat`. `NoOverdraft` is not inductive: it
  says nothing of the weights of the jobs stored, and the difference is only
  bounded below if they are not negative. The invariant is `Solvent(db)`, which says
  both; `ApplyCommandKeepsSolvent` in `PrinterCommandsLemmas` is about one command and any
  database, so that the nodes of a cluster can use it too.
- `RetriesAreHarmless`, by cases on the three errors and on whether the update
  charges: after a successful update the transition is no longer valid, after a failed
  one the same error returns (`UpdateIsIdempotent`).
- `OnlyPrintsConsume`, an action property, from the type invariant and `UpdateEffect`.
- `LedgerBalances`, under `Weights \subseteq Nat`: `FilamentLedger` for any number of rolls and
  jobs. It has two halves. The sum of the weights of a set of jobs is a recursive function
  inside a fold of the community modules. What it computes is proved by induction over the
  subsets of a finite set: strict inclusion is well founded there, so a set of subsets that
  contains each one whose strict subsets it contains has them all (`SubsetInduction`; the
  property is a set, because the library's induction theorems take an operator). From
  existence and uniqueness of the recursive function (`RunningSumExists`, `RunningSumUnique`)
  follow the equations of the sum: zero for the empty set, an element at a time in any
  order (`TotalWeightRemove`), and no dependence on anything but the weights
  (`TotalWeightSame`). The other half is the invariant `LedgerInv`. Beside the ledger it needs
  `Solvent`, since a job of negative weight would make `Max` and `Deduct` disagree; that a roll
  is on the books exactly when it is in the map, or a job could finish on a roll whose
  posting nobody noted; and that only finitely many jobs are `Done`, although `Jobs` need not
  be finite. The step that counts is a finishing job (`ChargedBooks`): the two places where the
  balance may stop at zero, the sum and the "safety check", stop together, also when
  an earlier print has already emptied the roll.

`PrinterLocksProofs`, for any number of handlers and any commands: `LocksTypeCorrect`,
`NeverAMapRace`, `NeverALockCycle` and `EveryReadIsAtomic`, the refinement of `PrinterReads`.
The invariant says what the mutex and its users know of each other (`LockInv`: a handler in its
loop is among the readers, there are none while the writer holds the lock), that the job of a
half-done update is there (`HalfInv`), and that a handler copies into a table of the kind it was
asked for (`CopyInv`). `NeverALockCycle` is the part of `NobodyStarves` that needs no fairness:
it adds `HoldersRun`, that whoever holds a read lock is in a loop or about to enter one, and
that nobody is left waiting when no writer claims the lock. The simulation has one lemma per
action. The two that carry it: `Charge` maps to the whole command and `Store` after it to
nothing, because `Settled` is the same before and after; and `CopyEntry` maps to nothing,
because under the lock the entry copied is the entry that `Seen` had filled in already.

`ReplicatedStoreProofs`, for any number of nodes, calls, terms and crashes:

- `StoreTypeCorrect`, `ReplicasAlwaysFollowLog`, `SnapshotsAlwaysFollowLog`, all from
  `StoreInvariant`. The invariant `StoreInv` is the conjunction of the type invariant,
  `ReplicasFollowLog`, `SnapshotsFollowLog` and `HistoryFollowsLog`, which ties the
  history to the log: `Len(states) = Len(log) + 1` and each state is the previous one
  with the log's entry applied. None of the properties is inductive
  alone: `ApplyNext` needs the history to know that applying entry `i + 1` to state `i`
  gives state `i + 1`; `Restart` and `InstallSnapshot` need that the snapshot is the state
  of its index; `Persist` needs it of the copy in memory. The type invariant needs
  `HistoryFollowsLog` too, because `known` is bounded by the log.
- `CommittedCallsAreOneFSM`: the database of the committed calls behaves as `PrinterFSM`
  allows, step by step (`HistoryGrows`). So what `PrinterFSMProofs` proves of one FSM
  holds of the cluster's history.
- `NodesNeverOverdraw`, under `Weights \subseteq Nat`: no FSM of any node and no snapshot is below
  zero. Every database of the history is `Solvent`, and `StoreInv` says that each copy is one
  of them; one would not get there node by node, because `Restart` and `InstallSnapshot`
  take over databases made elsewhere.

`ReplicatedAnswersProofs`, on top of `StoreInv`:

- `AnswersAlwaysHonest`. `AnswersAreHonest` speaks of the log; whether a call can get there
  twice depends on what the leaders hold. `OnceInv` says where a call may be: at most once
  in the log and the `pend` of all terms together (`OnceInLog`, `OnceInPend`, `LogOrPend`),
  nowhere before it was handed to raft or after a 412 (`LogKnowsCall`, `PendKnowsCall`), and
  in the log once it is `ok` (`OkIsCommitted`). `Propose` keeps it because a call that is
  only `checked` is in no list, `Commit` and `Inherit` because they move a call.
- `ReadsAlwaysGoForward`: the only step of a running node that could take `applied` back is
  `InstallSnapshot`; its guard compares with the commit index, which `StoreInv` puts above
  `applied`.

`ReplicatedServiceProofs`, on top of both: `ClusterImplementsService`, the step simulation.
`Inherit` and `Commit` map to `Execute`, `ApplyNext` to `Succeed`, everything that ends calls
with 500 or a broken connection to `Fail`, the rest to a stutter. All that is hard is the guard
`~Overtaken` of `Execute`: no call that was sent after the committed one had returned may have
succeeded. `FenceInv` gets there in steps: what a call finds returned when it is sent has
returned (`BeforeInv`); a leader's queue is in an order in which clients could have sent it
(`QueueInv`); leaders of one term are one, and no term has calls before it has a leader
(`LeadsInv`); a call that waits is known to be committed, or is in the queue of its own node's
term (`WaitingInv`, with `ProcessInv`); and therefore a call that is answered, or can only
be kept from it by a crash, has nothing older left in any queue from which raft may still
commit (`OvertakenInv`). `Commit` makes at most the head of the newest queue certain, and
`QueueInv` says that nothing behind it was over when it was sent; `Establish` makes nothing
certain, because what waits at the new leader is in its own term.

Two consequences have invariants of their own on top of that. `WritesStayInOrder`: a call that
succeeded stands in the log before every call that was sent after it had returned. A call
enters the log at its end, and what had succeeded by then is already in it (`OkIsCommitted`),
answers being final (`AnswersAreFinal`). `NoCallIsEverForgotten`, the part of `EveryCallReturns`
that needs no fairness: `WaitingInv` says that a waiting call is committed as far as its node
knows or that the node leads; `NoneLeftBehind` adds that no node has applied past a call that
waits there. The steps that could break it are those that move `applied` by more than one:
`Restart`, at which nobody can wait (`ProcessInv`), and `InstallSnapshot`, whose guard
`applied[n] = known[n]` leaves no waiting call at a follower.

`MembershipProofs`, for any number of processes, attempts, elections, stops and deletions:
`MembershipTypeCorrect`, `ServingNodesStayMembers`, `MembersLeaveOnlyByDelete`. Processes are
started with any flags, and `HttpOf` is arbitrary: redirects may lead anywhere. Whoever serves
after a join got a 200, so the second rests on what a 200 means (`CallInv`: the id of a finished
call is in the committed configuration or condemned) and on what raft may still bring into force
(`RaftInv`: every draft contains the committed configuration but for condemned ids, and only
rivals append drafts that count). `FoundedInv` covers the time before the bootstrap node has
run: processes started with neither flag may listen by then and be asked, so calls exist, but
all they can become is a redirect to nobody or a failure (`Untouched`), because without a
configuration none of them leads. The third, an action property, follows from the same two:
whatever a leader brings into force contains `conf` but for condemned ids, and the bootstrap
node founds a cluster only where there is none.

`LeaderWatchProofs`, for any periods and any peers: `WatchTypeCorrect`,
`LeaderTimeStaysAccurate`, `ChecksAreAlwaysEarned`. Between two samples the error grows, and only
if the role has changed since the last one: `StatsInv` bounds it by `Allowance`, a full
period for each disturbed period that is over and the elapsed part of the current one. `WatchInv`
says that while the timer runs no look has found an address and nothing was verified.

The proofs assume nothing but the named assumptions of the modules: `MaxTerm` and the periods
positive, `MaxCrashes` a natural number, weights that are `int`s, `None` distinct from data,
commands that the handlers accept, and of `HttpOf` its type (`HttpAssumption`).

`LedgerBalances`, `NoOverdraftEver` and `NodesNeverOverdraw` also assume that clients send no
negative weights; nothing in the code rejects one, so this is a condition on the clients and not
on the constants, and it is a hypothesis of these theorems only.

Model-checked only: the four liveness properties, `EveryCallReturns`, `ReplicasCatchUp`,
`NobodyStarves` and `JoinEnds`, because the prover handles neither fairness nor `ENABLED`. Every
invariant and every other action property or refinement that a run checks is a theorem.
The claims of section 6 are refuted and have nothing to prove.

## 6. Where code and documents disagree

Each has a run with a counterexample.

- `OkMeansApplied`: `RaftNode` never reads `future.Response()`, so an update that the FSM
  rejects is answered 200 (`docs.md` 466-467). The spelling `Canceled` and the lower-case
  names of `problem_stmt.md` 79-83 are rejected in this way.
- `JoinThroughAnyNode`: `-join` "specifies the HTTP address of any existing node"
  (`README.md` 54), but `joinCluster` takes the redirect of a follower for an error and the
  process ends; the loop in `main` that follows redirects is reached only through the leader.
- `StoppedClusterRecovers`: a member restarted with `-join` exits unless a leader accepts it
  again, while its own vote may be needed to elect one ("self-heals without manual
  intervention", `docs.md` 28). Restarting it without `-join` is the manual intervention.
- `LeaderlessNodeActs`: a node that starts without a leader sees no change to "" and never
  starts its timer, and `GetLeader` names some other server when there is no leader (the
  comment at `node.go` 619).

Seen while reading, without a run of its own, because the difference is in plain sight: a second
POST of an id replaces the record and its status, so that a job that is done can be queued,
printed and charged again (`problem_stmt.md` 115); a GET is answered from the maps of whichever
node was asked, which may lack a write that was answered 200 (`docs.md` 35); a client may choose
the status of a job it posts (`problem_stmt.md` 104); nothing checks that a job's printer and
filament exist (102), nor that its weight is covered by what remains of the roll less the jobs
that are queued or running on it (78, 103); a negative weight adds filament (116); writes at a
follower get 412 and nothing calls `HandleNotLeader` (`docs.md` 519); a call that loses its
leader after the check gets 500 where a 412 would be true as well; the timer is set again even
if `VerifyLeader` was not called (`node.go` 638-640); the container of `docs.md` 291 starts
every node with neither `-bootstrap` nor `-join`, so that no cluster forms; the recovery recipe
of `docs.md` 437-443 wipes the log and vote of a member that is still in the configuration;
`utils.ValidTransition` differs from the FSM's and is unused; `monitorServerHealth` is
documented and never started.

## 7. Not modelled

- The server health monitor: nothing starts `monitorServerHealth`, so no behaviour of the
  program contains its code. A model of it would check a program that does not exist.
- `GetNodeStats` and `GetClusterStats`, and the single-record getters of `Store`: no caller.
- Lost or wiped stores (`-clean`, `reset_data.sh`): every model takes raft's stores to survive
  a restart. What happens otherwise depends on raft's logs and votes, which are external.
- Raft's own algorithm. `RaftContract` and the raft half of `Membership` are contracts. In the
  first the nodes are fixed, in the second there are no commands: their composition would
  need a model of the library's log.
- In `Membership`: `-bootstrap` on more than one process, which founds clusters that know nothing
  of each other; a process that is started with a raft address or a data directory it did not have
  before; a comma-separated list of join addresses (`main`
  asks only the first, `NewRaftNode` is given the whole string); the order inside `Shutdown`
  (a stop in the middle of it is a stop); the retries' pauses.
- Delays of the scheduler longer than one unit of time in `LeaderWatch`.
- JSON: encoding is total on these records, and a body that does not decode returns 400
  before anything happens. The logger, the id generator and the scripts decide nothing the
  properties see.
