-------------------------- MODULE PrinterFSMProofs --------------------------
(***************************************************************************)
(* Proofs about one PrinterFSM and about the ledger of its filaments, for  *)
(* every set of identifiers, every set of weights and every width of int.  *)
(***************************************************************************)
EXTENDS PrinterLedger, PrinterCommandsLemmas, FiniteSetTheorems

LEMMA CommandStep == Next => \E c \in Commands : Execute(c)
BY DEF Next, AddPrinter, AddFilament, AddPrintJob, UpdatePrintJobStatus, Commands

(***************************************************************************)
(* No sequence of accepted requests takes the maps out of their types: no  *)
(* status outside the known ones is stored, and no weight leaves int.      *)
(***************************************************************************)
THEOREM TypeCorrect == Spec => []TypeOK
<1>1. Init => TypeOK
  BY EmptyDBType DEF Init, TypeOK
<1>2. TypeOK /\ [Next]_db => TypeOK'
  BY CommandStep, ApplyCommandType DEF TypeOK, Execute
<1>3. QED
  BY <1>1, <1>2, PTL DEF Spec

----------------------------------------------------------------------------
LEMMA SolventStep ==
  ASSUME Weights \subseteq Nat, TypeOK, Solvent(db), [Next]_db
  PROVE  Solvent(db')
BY CommandStep, ApplyCommandKeepsSolvent DEF TypeOK, Execute

(***************************************************************************)
(* With non-negative weights on every request no filament ever shows a     *)
(* negative remainder, whatever the jobs weigh and in whatever order they  *)
(* finish: the "safety check" of applyUpdatePrintJobStatus is enough.      *)
(***************************************************************************)
THEOREM NoOverdraftEver ==
  ASSUME Weights \subseteq Nat
  PROVE  Spec => []NoOverdraft
<1>1. Init => TypeOK /\ Solvent(db)
  BY EmptyDBType, EmptyDBSolvent DEF Init, TypeOK
<1>2. TypeOK /\ Solvent(db) /\ [Next]_db => (TypeOK /\ Solvent(db))'
  BY CommandStep, ApplyCommandType, SolventStep DEF TypeOK, Execute
<1>3. Solvent(db) => NoOverdraft
  BY DEF Solvent, NoOverdraft
<1>4. QED
  BY <1>1, <1>2, <1>3, PTL DEF Spec

----------------------------------------------------------------------------
(***************************************************************************)
(* A client that repeats a status update because it never saw the answer   *)
(* changes nothing: no filament is charged twice for one print.            *)
(***************************************************************************)
THEOREM RetriesAreHarmless == Spec => []RetriedUpdateIsHarmless
<1>1. TypeOK => RetriedUpdateIsHarmless
  BY UpdateIsIdempotent DEF TypeOK, RetriedUpdateIsHarmless
<1>2. QED
  BY <1>1, TypeCorrect, PTL

----------------------------------------------------------------------------
(***************************************************************************)
(* Filament is consumed by finished prints and by nothing else: the action *)
(* property of the runs, for every database and every command.             *)
(***************************************************************************)
LEMMA UpdateChargesFinishedJob ==
  ASSUME TypeOK, NEW c \in UpdateCommands, Execute(c)
  PROVE  /\ \A f \in Filaments :
              db'.filaments[f] # db.filaments[f] =>
                \E j \in Jobs : Finishes(j) /\ db.printJobs[j].filament = f
         /\ \A j \in Jobs :
              Finishes(j) => /\ db.filaments[db.printJobs[j].filament] # None
                             /\ \A k \in Jobs : Finishes(k) => k = j
<1>1. db \in DB /\ db' = ApplyUpdatePrintJobStatus(db, c)
  BY DEF TypeOK, Execute, UpdateCommands, ApplyCommand
<1>2. CASE UpdateResult(db, c) # "nil"
  BY <1>1, <1>2 DEF ApplyUpdatePrintJobStatus, Finishes
<1>3. CASE UpdateResult(db, c) = "nil"
  <2> DEFINE job == db.printJobs[c.id]
             rest == IF Charges(job, c.status) THEN Deduct(db.filaments[job.filament], job.weight)
                     ELSE db.filaments[job.filament]
  <2>1. /\ c.id \in Jobs /\ job \in PrintJob /\ job.filament \in Filaments
        /\ Charges(job, c.status) => db.filaments[job.filament] \in GoInt
        /\ db'.filaments = [db.filaments EXCEPT ![job.filament] = rest]
        /\ db'.printJobs = [db.printJobs EXCEPT ![c.id] = [job EXCEPT !.status = c.status]]
    BY ZenonT(60), <1>1, <1>3, UpdateEffect
  <2>2. db'.printJobs[c.id].status = c.status /\ job # None /\ db'.printJobs[c.id] # None
    <3>1. [job EXCEPT !.status = c.status] \in PrintJob
      BY <2>1 DEF PrintJob, UpdateCommands
    <3>2. QED
      BY <1>1, <2>1, <3>1, NoneAssumption DEF DB, PrintJob
  <2>3. \A k \in Jobs : k # c.id => ~Finishes(k)
    BY <1>1, <2>1 DEF Finishes, DB
  <2>4. Finishes(c.id) <=> Charges(job, c.status)
    BY <2>2 DEF Finishes, Charges
  <2>5. Charges(job, c.status) => db.filaments[job.filament] # None
    BY <2>1, NoneAssumption DEF GoInt
  <2>6. \A f \in Filaments : db'.filaments[f] # db.filaments[f]
                               => f = job.filament /\ Charges(job, c.status)
    BY <1>1, <2>1 DEF DB
  <2>7. QED
    BY <2>1, <2>3, <2>4, <2>5, <2>6
<1>4. QED
  BY <1>2, <1>3

THEOREM OnlyPrintsConsume == Spec => OnlyFinishedPrintsConsume
<1> DEFINE A == \/ /\ \A f \in Filaments :
                        db'.filaments[f] # db.filaments[f] =>
                          \E j \in Jobs : Finishes(j) /\ db.printJobs[j].filament = f
                   /\ \A j \in Jobs :
                        Finishes(j) => /\ db.filaments[db.printJobs[j].filament] # None
                                       /\ \A k \in Jobs : Finishes(k) => k = j
                \/ AddFilament \/ AddPrintJob
<1>1. TypeOK /\ [Next]_db => [A]_db
  <2> SUFFICES ASSUME TypeOK, Next
               PROVE  A
    OBVIOUS
  <2>1. CASE AddPrinter
    <3>1. db'.filaments = db.filaments /\ db'.printJobs = db.printJobs
      BY <2>1 DEF AddPrinter, Execute, PrinterCommands, ApplyCommand, ApplyAddPrinter,
                  TypeOK, DB
    <3>2. \A j \in Jobs : ~Finishes(j)
      BY <3>1 DEF Finishes
    <3>3. QED
      BY <3>1, <3>2
  <2>2. CASE UpdatePrintJobStatus
    BY <2>2, UpdateChargesFinishedJob DEF UpdatePrintJobStatus
  <2>3. QED
    BY <2>1, <2>2 DEF Next
<1>2. QED
  BY <1>1, TypeCorrect, PTL DEF Spec, OnlyFinishedPrintsConsume
----------------------------------------------------------------------------
(***************************************************************************)
(* Sums of weights.  MapThenSumSet is a recursive function over the        *)
(* subsets of its set, and what it computes is proved by induction over    *)
(* these: strict inclusion is well founded on the subsets of a finite set, *)
(* so a set of subsets that holds each one whose strict subsets it holds   *)
(* holds them all.                                                         *)
(***************************************************************************)
LEMMA StrictSubsetsWellFounded ==
  ASSUME NEW S, IsFiniteSet(S)
  PROVE  IsWellFoundedOn(StrictSubsetOrdering(S), SUBSET S)
BY FS_FiniteSubsetsOfFinite, FS_StrictSubsetOrderingWellFounded, Zenon

\* Induction over the subsets of a finite set, with the property as a set.
LEMMA SubsetInduction ==
  ASSUME NEW S, IsFiniteSet(S), NEW Good,
         \A T \in SUBSET S : (\A U \in SUBSET T : U # T => U \in Good) => T \in Good
  PROVE  S \in Good
<1> DEFINE Bad == {T \in SUBSET S : T \notin Good}
<1> SUFFICES ASSUME Bad # {} PROVE FALSE
  OBVIOUS
<1>1. IsWellFoundedOn(StrictSubsetOrdering(S), SUBSET S)
  BY StrictSubsetsWellFounded
<1>2. Bad \subseteq SUBSET S
  OBVIOUS
<1>3. PICK T \in Bad : \A U \in Bad : <<U, T>> \notin StrictSubsetOrdering(S)
  <2> HIDE DEF Bad
  <2> QED
    BY <1>1, <1>2, WFMin
<1>4. QED
  BY <1>3 DEF StrictSubsetOrdering

\* The recursive function inside the fold of the community modules.
First(S) == CHOOSE x \in S : TRUE

IsRunningSum(jobs, S, g) ==
  g = [T \in SUBSET S |-> IF T = {} THEN 0 ELSE jobs[First(T)].weight + g[T \ {First(T)}]]

RunningSum(jobs, S) == CHOOSE g : IsRunningSum(jobs, S, g)

LEMMA RunningSumStep ==
  ASSUME NEW jobs, NEW S, NEW g, IsRunningSum(jobs, S, g), NEW T \in SUBSET S
  PROVE  g[T] = IF T = {} THEN 0 ELSE jobs[First(T)].weight + g[T \ {First(T)}]
BY DEF IsRunningSum

LEMMA RunningSumUnique ==
  ASSUME NEW jobs, NEW S, NEW U \in SUBSET S, IsFiniteSet(U),
         NEW g, IsRunningSum(jobs, S, g), NEW h, IsRunningSum(jobs, U, h)
  PROVE  g[U] = h[U]
<1> DEFINE Good == {T \in SUBSET U : g[T] = h[T]}
<1>1. ASSUME NEW T \in SUBSET U, \A V \in SUBSET T : V # T => V \in Good
      PROVE  T \in Good
  <2> DEFINE R == T \ {First(T)}
  <2>1. T # {} => g[R] = h[R]
    BY <1>1 DEF First
  <2>2. T \in SUBSET S
    BY <1>1
  <2>3. g[T] = IF T = {} THEN 0 ELSE jobs[First(T)].weight + g[R]
    BY <2>2, RunningSumStep
  <2>4. h[T] = IF T = {} THEN 0 ELSE jobs[First(T)].weight + h[R]
    BY <1>1, RunningSumStep
  <2>5. QED
    BY <2>1, <2>3, <2>4
<1>2. U \in Good
  <2> HIDE DEF Good
  <2> QED
    BY <1>1, SubsetInduction
<1>3. QED
  BY <1>2

LEMMA RunningSumExists ==
  ASSUME NEW jobs, NEW S, IsFiniteSet(S)
  PROVE  IsRunningSum(jobs, S, RunningSum(jobs, S))
<1> DEFINE G(U) == RunningSum(jobs, U)
           Good == {T \in SUBSET S : IsRunningSum(jobs, T, G(T))}
<1>1. ASSUME NEW T \in SUBSET S, \A U \in SUBSET T : U # T => U \in Good
      PROVE  T \in Good
  <2> DEFINE Rest(U) == U \ {First(U)}
             top == [U \in SUBSET T |->
                       IF U = {} THEN 0 ELSE jobs[First(U)].weight + G(Rest(U))[Rest(U)]]
  <2>1. ASSUME NEW U \in SUBSET T, U # {}
        PROVE  /\ Rest(U) \in SUBSET T /\ Rest(U) # T
               /\ IsFiniteSet(Rest(U))
               /\ IsRunningSum(jobs, Rest(U), G(Rest(U)))
    <3>1. Rest(U) \in SUBSET T /\ Rest(U) # T
      BY <2>1 DEF First
    <3>2. QED
      BY <1>1, <3>1, FS_Subset
  <2>2. ASSUME NEW U \in SUBSET T, U # {}
        PROVE  top[Rest(U)] = G(Rest(U))[Rest(U)]
    <3> DEFINE V == Rest(U)
               W == Rest(V)
    <3>1. V \in SUBSET T /\ IsRunningSum(jobs, V, G(V))
      BY <2>1, <2>2
    <3>2. V # {} => IsFiniteSet(W) /\ IsRunningSum(jobs, W, G(W))
      BY <2>1, <3>1
    <3>3. V \in SUBSET V /\ W \in SUBSET V
      OBVIOUS
    <3>4. top[V] = IF V = {} THEN 0 ELSE jobs[First(V)].weight + G(W)[W]
      BY <3>1
    <3> HIDE DEF G, top
    <3>5. V # {} => G(V)[W] = G(W)[W]
      BY <3>1, <3>2, <3>3, RunningSumUnique
    <3>6. G(V)[V] = IF V = {} THEN 0 ELSE jobs[First(V)].weight + G(V)[W]
      <4> HIDE DEF V
      <4> QED
        BY <3>1, <3>3, RunningSumStep
    <3>7. QED
      BY <3>4, <3>5, <3>6
  <2>3. ASSUME NEW U \in SUBSET T
        PROVE  top[U] = IF U = {} THEN 0 ELSE jobs[First(U)].weight + top[Rest(U)]
    <3>1. top[U] = IF U = {} THEN 0 ELSE jobs[First(U)].weight + G(Rest(U))[Rest(U)]
      BY <2>3
    <3> HIDE DEF top
    <3>2. QED
      BY <2>2, <2>3, <3>1
  <2>4. top = [U \in SUBSET T |-> top[U]]
    OBVIOUS
  <2> HIDE DEF top
  <2>5. IsRunningSum(jobs, T, top)
    BY <2>3, <2>4 DEF IsRunningSum
  <2>6. QED
    BY <2>5 DEF RunningSum
<1>2. S \in Good
  <2> HIDE DEF Good
  <2> QED
    BY <1>1, SubsetInduction
<1>3. QED
  BY <1>2

\* A sum is the weight of one job more than the sum of the others.
LEMMA TotalWeightEquation ==
  ASSUME NEW jobs, NEW S, IsFiniteSet(S)
  PROVE  TotalWeight(jobs, S) =
           IF S = {} THEN 0
           ELSE jobs[First(S)].weight + TotalWeight(jobs, S \ {First(S)})
<1> DEFINE R == S \ {First(S)}
<1>1. ASSUME NEW T PROVE TotalWeight(jobs, T) = RunningSum(jobs, T)[T]
  BY DEF TotalWeight, MapThenSumSet, MapThenFoldSet, RunningSum, IsRunningSum, First
<1>2. R \in SUBSET S /\ IsFiniteSet(R)
  BY FS_Subset
<1>3. RunningSum(jobs, S)[R] = RunningSum(jobs, R)[R]
  BY <1>2, RunningSumExists, RunningSumUnique
<1>4. RunningSum(jobs, S)[S] = IF S = {} THEN 0 ELSE jobs[First(S)].weight + RunningSum(jobs, S)[R]
  BY RunningSumExists, RunningSumStep
<1>5. TotalWeight(jobs, S) = RunningSum(jobs, S)[S] /\ TotalWeight(jobs, R) = RunningSum(jobs, R)[R]
  BY <1>1
<1>6. QED
  BY <1>3, <1>4, <1>5

\* Weights that are not negative add up to a natural number.
LEMMA TotalWeightType ==
  ASSUME NEW jobs, NEW S, IsFiniteSet(S), \A j \in S : jobs[j].weight \in Nat
  PROVE  TotalWeight(jobs, S) \in Nat
<1> DEFINE Good == {T \in SUBSET S : TotalWeight(jobs, T) \in Nat}
<1>1. ASSUME NEW T \in SUBSET S, \A U \in SUBSET T : U # T => U \in Good
      PROVE  T \in Good
  <2>1. T # {} => First(T) \in S /\ TotalWeight(jobs, T \ {First(T)}) \in Nat
    BY <1>1 DEF First
  <2>2. IsFiniteSet(T)
    BY FS_Subset
  <2>3. QED
    BY <2>1, <2>2, TotalWeightEquation
<1>2. S \in Good
  <2> HIDE DEF Good
  <2> QED
    BY <1>1, SubsetInduction
<1>3. QED
  BY <1>2

\* The order of the jobs does not matter: any of them can be counted first.
LEMMA TotalWeightRemove ==
  ASSUME NEW jobs, NEW S, IsFiniteSet(S), \A j \in S : jobs[j].weight \in Nat, NEW k \in S
  PROVE  TotalWeight(jobs, S) = jobs[k].weight + TotalWeight(jobs, S \ {k})
<1> DEFINE W(T) == TotalWeight(jobs, T)
           Good == {T \in SUBSET S : \A j \in T : W(T) = jobs[j].weight + W(T \ {j})}
<1>1. ASSUME NEW T \in SUBSET S, \A U \in SUBSET T : U # T => U \in Good
      PROVE  T \in Good
  <2> SUFFICES ASSUME NEW j \in T PROVE W(T) = jobs[j].weight + W(T \ {j})
    OBVIOUS
  <2> DEFINE i == First(T)
             R == T \ {i, j}
  <2>1. i \in T
    BY DEF First
  <2>2. \A U \in SUBSET T : IsFiniteSet(U) /\ W(U) \in Nat
    BY FS_Subset, TotalWeightType
  <2>3. W(T) = jobs[i].weight + W(T \ {i})
    BY <2>1, <2>2, TotalWeightEquation
  <2>4. CASE i = j
    BY <2>3, <2>4
  <2>5. CASE i # j
    <3>1. (T \ {i}) \ {j} = R /\ (T \ {j}) \ {i} = R /\ R \in SUBSET T
      OBVIOUS
    <3>2. W(T \ {i}) = jobs[j].weight + W(R)
      BY <1>1, <2>1, <2>5, <3>1
    <3>3. W(T \ {j}) = jobs[i].weight + W(R)
      BY <1>1, <2>1, <2>5, <3>1
    <3>4. W(R) \in Nat /\ jobs[i].weight \in Nat /\ jobs[j].weight \in Nat
      BY <2>1, <2>2, <3>1
    <3> HIDE DEF W, i, R
    <3>5. QED
      BY <2>3, <3>2, <3>3, <3>4
  <2>6. QED
    BY <2>4, <2>5
<1>2. S \in Good
  <2> HIDE DEF Good
  <2> QED
    BY <1>1, SubsetInduction
<1>3. QED
  BY <1>2

\* Only the weights of the jobs that are counted matter.
LEMMA TotalWeightSame ==
  ASSUME NEW jobs, NEW others, NEW S, IsFiniteSet(S),
         \A j \in S : others[j].weight = jobs[j].weight
  PROVE  TotalWeight(others, S) = TotalWeight(jobs, S)
<1> DEFINE Good == {T \in SUBSET S : TotalWeight(others, T) = TotalWeight(jobs, T)}
<1>1. ASSUME NEW T \in SUBSET S, \A U \in SUBSET T : U # T => U \in Good
      PROVE  T \in Good
  <2> DEFINE R == T \ {First(T)}
  <2>1. T # {} => First(T) \in S /\ TotalWeight(others, R) = TotalWeight(jobs, R)
    BY <1>1 DEF First
  <2>2. IsFiniteSet(T)
    BY FS_Subset
  <2>3. QED
    BY <2>1, <2>2, TotalWeightEquation
<1>2. S \in Good
  <2> HIDE DEF Good
  <2> QED
    BY <1>1, SubsetInduction
<1>3. QED
  BY <1>2
----------------------------------------------------------------------------
(***************************************************************************)
(* The inductive invariant of the ledger.  Sums need finite sets, and the  *)
(* set of jobs need not be finite: only finitely many are ever Done.  A    *)
(* roll is on the books exactly when it is in the map, so a job that may   *)
(* finish finishes on a roll that has been posted.                         *)
(***************************************************************************)
LedgerInv ==
  /\ TypeOK /\ Solvent(db)
  /\ posted \in [Filaments -> Nat \cup {None}]
  /\ \A f \in Filaments : posted[f] = None <=> db.filaments[f] = None
  /\ \A f \in Filaments : IsFiniteSet(DoneOn(f))
  /\ FilamentLedger

LEMMA MaxOfZero == \A x \in Int : Max({0, x}) = IF x >= 0 THEN x ELSE 0
BY DEF Max

\* The jobs that count have weights that can be added.
LEMMA DoneWeights ==
  ASSUME TypeOK, Solvent(db), NEW f \in Filaments
  PROVE  \A j \in DoneOn(f) : db.printJobs[j].weight \in Nat
<1> SUFFICES ASSUME NEW j \in DoneOn(f)
             PROVE  db.printJobs[j].weight \in Nat
  OBVIOUS
<1>1. j \in Jobs /\ db.printJobs[j] # None
  BY DEF DoneOn
<1>2. db.printJobs[j] \in PrintJob /\ db.printJobs[j].weight >= 0
  BY <1>1 DEF TypeOK, DB, Solvent
<1>3. QED
  BY <1>2, IntHalfAssumption DEF PrintJob, GoInt

\* The books of a roll stay right when nothing in them changes.
LEMMA SameBooks ==
  ASSUME LedgerInv, NEW f \in Filaments, Balanced(f),
         posted'[f] = posted[f], db'.filaments[f] = db.filaments[f],
         DoneOn(f)' = DoneOn(f),
         \A j \in DoneOn(f) : db'.printJobs[j].weight = db.printJobs[j].weight
  PROVE  Balanced(f)'
<1>1. IsFiniteSet(DoneOn(f))
  BY DEF LedgerInv
<1>2. TotalWeight(db'.printJobs, DoneOn(f)) = TotalWeight(db.printJobs, DoneOn(f))
  BY <1>1, TotalWeightSame
<1>3. QED
  BY <1>2 DEF Balanced

\* One more job on the books: the deduction stops at zero as the balance does.
LEMMA ChargedBooks ==
  ASSUME LedgerInv, NEW f \in Filaments, Balanced(f),
         NEW k \in Jobs, db.printJobs[k] # None,
         k \notin DoneOn(f), DoneOn(f)' = DoneOn(f) \cup {k},
         \A j \in DoneOn(f)' : db'.printJobs[j].weight = db.printJobs[j].weight,
         posted'[f] = posted[f], posted[f] # None,
         db'.filaments[f] = Deduct(db.filaments[f], db.printJobs[k].weight)
  PROVE  Balanced(f)'
<1> DEFINE S == DoneOn(f)
           p == posted[f]
           t == TotalWeight(db.printJobs, S)
           w == db.printJobs[k].weight
           x == db.filaments[f]
<1>1. IsFiniteSet(S) /\ IsFiniteSet(S \cup {k})
  BY FS_AddElement DEF LedgerInv
<1>2. /\ \A j \in S \cup {k} : db'.printJobs[j].weight \in Nat
      /\ \A j \in S : db.printJobs[j].weight \in Nat
      /\ w \in Nat
  <2>1. \A j \in S : db.printJobs[j].weight \in Nat
    BY DoneWeights DEF LedgerInv
  <2>2. w \in Nat
    <3>1. db.printJobs[k] \in PrintJob /\ w >= 0
      BY DEF LedgerInv, TypeOK, DB, Solvent
    <3>2. QED
      BY <3>1, IntHalfAssumption DEF PrintJob, GoInt
  <2>3. QED
    BY <2>1, <2>2
<1>3. TotalWeight(db'.printJobs, S \cup {k}) = w + t
  <2>1. TotalWeight(db'.printJobs, S \cup {k})
          = db'.printJobs[k].weight + TotalWeight(db'.printJobs, (S \cup {k}) \ {k})
    BY <1>1, <1>2, TotalWeightRemove
  <2>2. (S \cup {k}) \ {k} = S
    OBVIOUS
  <2>3. TotalWeight(db'.printJobs, S) = t
    BY <1>1, TotalWeightSame
  <2>4. QED
    BY <2>1, <2>2, <2>3
<1>4. t \in Nat /\ p \in Nat
  BY <1>1, <1>2, TotalWeightType DEF LedgerInv
<1>5. x = IF p - t >= 0 THEN p - t ELSE 0
  BY <1>4, MaxOfZero DEF Balanced
<1>6. x \in GoInt
  BY <1>4, <1>5, NoneAssumption DEF LedgerInv, TypeOK, DB
<1>7. Deduct(x, w) = IF p - (w + t) >= 0 THEN p - (w + t) ELSE 0
  <2>1. CASE x >= w
    <3>1. x - w \in GoInt
      BY <1>2, <1>6, <2>1, IntHalfAssumption DEF GoInt
    <3>2. Deduct(x, w) = x - w
      BY <2>1, <3>1, WrapFits DEF Deduct
    <3> HIDE DEF x, w, p, t
    <3>3. QED
      BY <1>2, <1>4, <1>5, <2>1, <3>2
  <2>2. CASE ~(x >= w)
    <3>1. Deduct(x, w) = 0
      BY <2>2 DEF Deduct
    <3> HIDE DEF x, w, p, t
    <3>2. QED
      BY <1>2, <1>4, <1>5, <2>2, <3>1
  <2>3. QED
    BY <2>1, <2>2
<1>8. Max({0, p - (w + t)}) = IF p - (w + t) >= 0 THEN p - (w + t) ELSE 0
  BY <1>2, <1>4, MaxOfZero
<1>9. db'.filaments[f] = Max({0, p - TotalWeight(db'.printJobs, S \cup {k})})
  BY <1>3, <1>7, <1>8
<1>10. QED
  BY <1>9 DEF Balanced

----------------------------------------------------------------------------
LEMMA PostPrinterKeepsBooks ==
  ASSUME LedgerInv, PostPrinter
  PROVE  /\ \A f \in Filaments : posted'[f] = None <=> db'.filaments[f] = None
         /\ \A f \in Filaments : IsFiniteSet(DoneOn(f)')
         /\ FilamentLedger'
<1>1. db'.filaments = db.filaments /\ db'.printJobs = db.printJobs /\ UNCHANGED <<posted, spoilt>>
  BY PostEffect DEF PostPrinter, AddPrinter, Execute, LedgerInv, TypeOK
<1>2. \A f \in Filaments : DoneOn(f)' = DoneOn(f)
  BY <1>1 DEF DoneOn
<1>3. FilamentLedger'
  BY <1>1, <1>2, SameBooks DEF FilamentLedger, LedgerInv
<1>4. QED
  BY <1>1, <1>2, <1>3 DEF LedgerInv

LEMMA PostFilamentKeepsBooks ==
  ASSUME Weights \subseteq Nat, LedgerInv, PostFilament
  PROVE  /\ posted' \in [Filaments -> Nat \cup {None}]
         /\ \A f \in Filaments : posted'[f] = None <=> db'.filaments[f] = None
         /\ \A f \in Filaments : IsFiniteSet(DoneOn(f)')
         /\ FilamentLedger'
<1>1. PICK c \in FilamentCommands :
        /\ Execute(c)
        /\ posted' = [posted EXCEPT ![c.id] = c.remaining]
        /\ spoilt' = IF DoneOn(c.id) = {} THEN spoilt ELSE spoilt \cup {c.id}
  BY DEF PostFilament
<1>2. c.id \in Filaments /\ c.remaining \in Nat /\ c.remaining # None
  <2>1. c.id \in Filaments /\ c.remaining \in Nat
    BY <1>1 DEF FilamentCommands
  <2>2. QED
    BY <2>1, NoneAssumption
<1>3. /\ db'.filaments = [db.filaments EXCEPT ![c.id] = c.remaining]
      /\ db'.printJobs = db.printJobs
  BY <1>1, PostEffect DEF Execute, LedgerInv, TypeOK
<1>4. \A f \in Filaments : DoneOn(f)' = DoneOn(f)
  BY <1>3 DEF DoneOn
<1>5. ASSUME NEW f \in Filaments, f \notin spoilt'
      PROVE  Balanced(f)'
  <2>1. CASE f = c.id
    <3>1. DoneOn(f)' = {}
      BY <1>1, <1>4, <1>5, <2>1
    <3>2. posted'[f] = c.remaining /\ db'.filaments[f] = c.remaining
      BY <1>1, <1>2, <1>3, <2>1 DEF LedgerInv, TypeOK, DB
    <3>3. TotalWeight(db'.printJobs, {}) = 0
      BY TotalWeightEquation, FS_EmptySet
    <3>4. Max({0, c.remaining - 0}) = c.remaining
      BY <1>2, MaxOfZero
    <3>5. QED
      BY <3>1, <3>2, <3>3, <3>4 DEF Balanced
  <2>2. CASE f # c.id
    <3>1. posted'[f] = posted[f] /\ db'.filaments[f] = db.filaments[f]
      BY <1>1, <1>3, <2>2 DEF LedgerInv, TypeOK, DB
    <3>2. f \notin spoilt
      BY <1>1, <1>5
    <3>3. QED
      BY <1>3, <1>4, <3>1, <3>2, SameBooks DEF FilamentLedger, LedgerInv
  <2>3. QED
    BY <2>1, <2>2
<1>6. FilamentLedger'
  BY <1>5 DEF FilamentLedger
<1>7. \A f \in Filaments : posted'[f] = None <=> db'.filaments[f] = None
  BY <1>1, <1>2, <1>3 DEF LedgerInv, TypeOK, DB
<1>8. posted' \in [Filaments -> Nat \cup {None}]
  BY <1>1, <1>2 DEF LedgerInv
<1>9. QED
  BY <1>4, <1>6, <1>7, <1>8 DEF LedgerInv

LEMMA PostJobKeepsBooks ==
  ASSUME LedgerInv, PostJob
  PROVE  /\ \A f \in Filaments : posted'[f] = None <=> db'.filaments[f] = None
         /\ \A f \in Filaments : IsFiniteSet(DoneOn(f)')
         /\ FilamentLedger'
<1>1. PICK c \in JobCommands :
        /\ Execute(c)
        /\ spoilt' = spoilt
             \cup {f \in Filaments : c.id \in DoneOn(f)}
             \cup (IF c.status = "Done" THEN {c.filament} ELSE {})
        /\ UNCHANGED posted
  BY DEF PostJob
<1> DEFINE job == [printer |-> c.printer, filament |-> c.filament, weight |-> c.weight,
                   status |-> IF c.status = Unset THEN "Queued" ELSE c.status]
<1>2. c.id \in Jobs /\ c.filament \in Filaments
      /\ db'.filaments = db.filaments /\ db'.printJobs = [db.printJobs EXCEPT ![c.id] = job]
  BY <1>1, PostEffect DEF Execute, LedgerInv, TypeOK, JobCommands
<1>3. job.filament = c.filament /\ (job.status = "Done" <=> c.status = "Done")
  BY DEF Unset
<1> HIDE DEF job
<1>4. /\ db'.printJobs[c.id] = job
      /\ \A j \in Jobs : j # c.id => db'.printJobs[j] = db.printJobs[j]
  BY <1>2 DEF LedgerInv, TypeOK, DB
<1>5. ASSUME NEW f \in Filaments
      PROVE  IsFiniteSet(DoneOn(f)')
  <2>1. DoneOn(f)' \subseteq DoneOn(f) \cup {c.id}
    BY <1>4 DEF DoneOn
  <2>2. IsFiniteSet(DoneOn(f) \cup {c.id})
    BY FS_AddElement DEF LedgerInv
  <2>3. QED
    BY <2>1, <2>2, FS_Subset
<1>6. ASSUME NEW f \in Filaments, f \notin spoilt'
      PROVE  Balanced(f)'
  <2>1. f \notin spoilt /\ c.id \notin DoneOn(f) /\ ~(job.status = "Done" /\ job.filament = f)
    BY <1>1, <1>3, <1>6
  <2>2. DoneOn(f)' = DoneOn(f)
    BY <1>4, <2>1 DEF DoneOn
  <2>3. \A j \in DoneOn(f) : db'.printJobs[j].weight = db.printJobs[j].weight
    BY <1>4, <2>1 DEF DoneOn
  <2>4. QED
    BY <1>1, <1>2, <2>1, <2>2, <2>3, SameBooks DEF FilamentLedger, LedgerInv
<1>7. QED
  BY <1>1, <1>2, <1>5, <1>6 DEF FilamentLedger, LedgerInv

LEMMA UpdateJobKeepsBooks ==
  ASSUME LedgerInv, UpdateJob
  PROVE  /\ \A f \in Filaments : posted'[f] = None <=> db'.filaments[f] = None
         /\ \A f \in Filaments : IsFiniteSet(DoneOn(f)')
         /\ FilamentLedger'
<1>1. PICK c \in UpdateCommands : Execute(c)
  BY DEF UpdateJob, UpdatePrintJobStatus
<1>2. db \in DB /\ db' = ApplyUpdatePrintJobStatus(db, c) /\ UNCHANGED <<posted, spoilt>>
  BY <1>1 DEF LedgerInv, TypeOK, Execute, UpdateCommands, ApplyCommand, UpdateJob
<1>3. CASE UpdateResult(db, c) # "nil"
  <2>1. db' = db
    BY <1>2, <1>3 DEF ApplyUpdatePrintJobStatus
  <2>2. \A f \in Filaments : DoneOn(f)' = DoneOn(f)
    BY <2>1 DEF DoneOn
  <2>3. QED
    BY <1>2, <2>1, <2>2, SameBooks DEF FilamentLedger, LedgerInv
<1>4. CASE UpdateResult(db, c) = "nil"
  <2> DEFINE job  == db.printJobs[c.id]
             roll == job.filament
             next == [job EXCEPT !.status = c.status]
             done == Charges(job, c.status)
             rest == IF done THEN Deduct(db.filaments[roll], job.weight) ELSE db.filaments[roll]
  <2>1. /\ c.id \in Jobs /\ job \in PrintJob /\ roll \in Filaments
        /\ ValidTransition(job.status, c.status)
        /\ done => db.filaments[roll] \in GoInt
        /\ db'.filaments = [db.filaments EXCEPT ![roll] = rest]
        /\ db'.printJobs = [db.printJobs EXCEPT ![c.id] = next]
    BY ZenonT(60), <1>2, <1>4, UpdateEffect
  <2>2. /\ job # None /\ next # None
        /\ next.weight = job.weight /\ next.filament = roll /\ next.status = c.status
    BY <2>1, NoneAssumption DEF PrintJob, UpdateCommands
  <2>3. job.status # "Done" /\ (next.status = "Done" <=> done)
    BY <2>1, <2>2 DEF ValidTransition, Charges
  <2>4. done => rest \in GoInt /\ rest # None /\ db.filaments[roll] # None
    BY <2>1, DeductType, NoneAssumption DEF GoInt, PrintJob
  <2> HIDE DEF next
  <2>5. /\ db'.printJobs[c.id] = next
        /\ \A j \in Jobs : j # c.id => db'.printJobs[j] = db.printJobs[j]
        /\ \A j \in Jobs : db'.printJobs[j].weight = db.printJobs[j].weight
    BY <1>2, <2>1, <2>2 DEF DB
  <2>6. db'.filaments[roll] = rest /\ \A f \in Filaments : f # roll => db'.filaments[f] = db.filaments[f]
    BY <1>2, <2>1 DEF DB
  <2> HIDE DEF roll, done, rest, job
  <2>7. ASSUME NEW f \in Filaments
        PROVE  /\ c.id \notin DoneOn(f)
               /\ DoneOn(f)' = IF done /\ f = roll THEN DoneOn(f) \cup {c.id} ELSE DoneOn(f)
    <3>1. c.id \notin DoneOn(f)
      BY <2>3 DEF DoneOn, job
    <3>2. \A j \in Jobs : j # c.id => (j \in DoneOn(f)' <=> j \in DoneOn(f))
      BY <2>5 DEF DoneOn
    <3>3. c.id \in DoneOn(f)' <=> done /\ f = roll
      BY <2>1, <2>2, <2>3, <2>5 DEF DoneOn
    <3>4. DoneOn(f) \subseteq Jobs /\ DoneOn(f)' \subseteq Jobs
      BY DEF DoneOn
    <3>5. QED
      BY <2>1, <3>1, <3>2, <3>3, <3>4
  <2>8. \A f \in Filaments : IsFiniteSet(DoneOn(f)')
    BY <2>7, FS_AddElement DEF LedgerInv
  <2>9. \A f \in Filaments : posted'[f] = None <=> db'.filaments[f] = None
    BY <1>2, <2>4, <2>6 DEF LedgerInv, rest
  <2>10. ASSUME NEW f \in Filaments, f \notin spoilt'
         PROVE  Balanced(f)'
    <3>1. Balanced(f) /\ posted'[f] = posted[f]
      BY <1>2, <2>10 DEF LedgerInv, FilamentLedger
    <3>2. DoneOn(f) \subseteq Jobs /\ DoneOn(f)' \subseteq Jobs
      BY DEF DoneOn
    <3>3. CASE done /\ f = roll
      <4>1. posted[f] # None
        BY <2>4, <3>3 DEF LedgerInv
      <4>2. db'.filaments[f] = Deduct(db.filaments[f], db.printJobs[c.id].weight)
        BY <2>6, <3>3 DEF rest, job
      <4>3. db.printJobs[c.id] # None
        BY <2>2 DEF job
      <4>4. QED
        BY <2>1, <2>5, <2>7, <3>1, <3>2, <3>3, <4>1, <4>2, <4>3, ChargedBooks
    <3>4. CASE ~(done /\ f = roll)
      <4>1. db'.filaments[f] = db.filaments[f]
        BY <2>6, <3>4 DEF rest
      <4>2. QED
        BY <2>5, <2>7, <3>1, <3>2, <3>4, <4>1, SameBooks
    <3>5. QED
      BY <3>3, <3>4
  <2>11. QED
    BY <2>8, <2>9, <2>10 DEF FilamentLedger
<1>5. QED
  BY <1>3, <1>4

(***************************************************************************)
(* The books of every roll that no client spoilt balance, for any number   *)
(* of rolls and jobs, any non-negative weights and any width of int: the   *)
(* wrap-around of Deduct never shows, no print is charged twice, none is   *)
(* left out, and the deduction stops at zero exactly when the balance does.*)
(***************************************************************************)
THEOREM LedgerBalances ==
  ASSUME Weights \subseteq Nat
  PROVE  LedgerSpec => []FilamentLedger
<1>1. LedgerInit => LedgerInv
  <2> SUFFICES ASSUME LedgerInit
               PROVE  LedgerInv
    OBVIOUS
  <2>1. TypeOK /\ Solvent(db)
    BY EmptyDBType, EmptyDBSolvent DEF LedgerInit, Init, TypeOK
  <2>2. \A f \in Filaments : DoneOn(f) = {} /\ posted[f] = None /\ db.filaments[f] = None
    BY DEF LedgerInit, Init, EmptyDB, DoneOn
  <2>3. posted \in [Filaments -> Nat \cup {None}]
    BY DEF LedgerInit
  <2>4. QED
    BY <2>1, <2>2, <2>3, FS_EmptySet DEF LedgerInv, FilamentLedger, Balanced
<1>2. LedgerInv /\ [LedgerNext]_ledgerVars => LedgerInv'
  <2> SUFFICES ASSUME LedgerInv, [LedgerNext]_ledgerVars
               PROVE  LedgerInv'
    OBVIOUS
  <2>1. CASE LedgerNext
    <3>1. TypeOK' /\ Solvent(db')
      <4>1. Next
        BY <2>1 DEF LedgerNext, PostPrinter, PostFilament, PostJob, UpdateJob, Next, AddFilament, AddPrintJob
      <4>2. QED
        BY <4>1, CommandStep, ApplyCommandType, SolventStep DEF LedgerInv, TypeOK, Execute
    <3>2. CASE PostFilament
      BY <3>1, <3>2, PostFilamentKeepsBooks DEF LedgerInv
    <3>3. CASE PostPrinter
      BY <3>1, <3>3, PostPrinterKeepsBooks DEF LedgerInv, PostPrinter
    <3>4. CASE PostJob
      BY <3>1, <3>4, PostJobKeepsBooks DEF LedgerInv, PostJob
    <3>5. CASE UpdateJob
      BY <3>1, <3>5, UpdateJobKeepsBooks DEF LedgerInv, UpdateJob
    <3>6. QED
      BY <2>1, <3>2, <3>3, <3>4, <3>5 DEF LedgerNext
  <2>2. CASE UNCHANGED ledgerVars
    BY <2>2 DEF ledgerVars, LedgerInv, TypeOK, Solvent, FilamentLedger, Balanced, DoneOn
  <2>3. QED
    BY <2>1, <2>2
<1>3. LedgerInv => FilamentLedger
  BY DEF LedgerInv
<1>4. QED
  BY <1>1, <1>2, <1>3, PTL DEF LedgerSpec
=============================================================================
