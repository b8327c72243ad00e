--------------------------- MODULE DispatcherProofs ---------------------------
(***************************************************************************)
(* Theorems about Dispatcher, for every size of the table, every configured *)
(* concurrency and every set of arguments.  The inductive invariant is      *)
(* Inductive; each of its parts has a lemma saying that a step preserves    *)
(* it, and the properties follow from it.  The last part is about           *)
(* BatchRunner, a process that runs Dispatcher: every theorem about         *)
(* Dispatcher holds of it, and its report shows only verdicts.              *)
(***************************************************************************)
EXTENDS BatchRunner, FiniteSetTheorems, TLAPS

-------------------------------------------------------------------------------
(* Types. *)

(* NewDispatcher's default makes the channel's capacity positive. *)
LEMMA CapacityPositive == MaxConcurrency \in Nat /\ MaxConcurrency > 0
BY DispatcherAssumption DEF MaxConcurrency

(* Goroutines are counted over a finite set of rows. *)
LEMMA RowsFinite == IsFiniteSet(Rows) /\ Rows \subseteq Nat
BY FS_Interval, DispatcherAssumption DEF Rows

(* The rows a map of control points w has at a point of P. *)
At(w, P) == {j \in Rows : w[j] \in P}

(* When only row i changes its control point, the number of rows at a point  *)
(* of P changes by what its old point and its new one contribute to it.      *)
LEMMA MoveCounts ==
  ASSUME NEW P, NEW i \in Rows, NEW w, NEW v,
         \A j \in Rows : j # i => v[j] = w[j]
  PROVE  /\ Cardinality(At(w, P)) \in Nat
         /\ Cardinality(At(v, P)) \in Nat
         /\ (w[i] \in P <=> v[i] \in P) => At(v, P) = At(w, P)
         /\ w[i] \notin P /\ v[i] \in P =>
               Cardinality(At(v, P)) = Cardinality(At(w, P)) + 1
         /\ w[i] \in P /\ v[i] \notin P =>
               Cardinality(At(v, P)) = Cardinality(At(w, P)) - 1
<1> DEFINE S == At(w, P)
           T == At(v, P)
<1>1. /\ IsFiniteSet(S) /\ IsFiniteSet(T)
      /\ Cardinality(S) \in Nat /\ Cardinality(T) \in Nat
  BY RowsFinite, FS_Subset, FS_CardinalityType DEF At
<1>2. (w[i] \in P <=> v[i] \in P) => T = S
  BY DEF At
<1>3. w[i] \notin P /\ v[i] \in P => T = S \cup {i} /\ i \notin S
  BY DEF At
<1>4. w[i] \in P /\ v[i] \notin P => T = S \ {i} /\ i \in S
  BY DEF At
<1> HIDE DEF S, T
<1>5. w[i] \notin P /\ v[i] \in P => Cardinality(T) = Cardinality(S) + 1
  BY <1>1, <1>3, FS_AddElement
<1>6. w[i] \in P /\ v[i] \notin P => Cardinality(T) = Cardinality(S) - 1
  BY <1>1, <1>4, FS_RemoveElement
<1> QED BY <1>1, <1>2, <1>5, <1>6 DEF S, T

(* What one step of a row's goroutine does to the three counted sets.        *)
LEMMA AdvanceCounts ==
  ASSUME TypeOK, NEW i \in Rows, NEW from, NEW to, Advance(i, from, to)
  PROVE  /\ Cardinality(Holding) \in Nat /\ Cardinality(Holding)' \in Nat
         /\ Cardinality(Live) \in Nat /\ Cardinality(Live)' \in Nat
         /\ Cardinality(Counted) \in Nat /\ Cardinality(Counted)' \in Nat
         /\ (from \in HoldingPoints <=> to \in HoldingPoints) => Holding' = Holding
         /\ from \in HoldingPoints /\ to \notin HoldingPoints =>
               Cardinality(Holding)' = Cardinality(Holding) - 1
         /\ (from \in LivePoints <=> to \in LivePoints) => Live' = Live
         /\ from \in LivePoints /\ to \notin LivePoints =>
               Cardinality(Live)' = Cardinality(Live) - 1
         /\ (from \in CountedPoints <=> to \in CountedPoints) => Counted' = Counted
         /\ from \notin CountedPoints /\ to \in CountedPoints =>
               Cardinality(Counted)' = Cardinality(Counted) + 1
<1>1. /\ worker[i] = from /\ worker'[i] = to
      /\ \A j \in Rows : j # i => worker'[j] = worker[j]
  BY DEF Advance, TypeOK
<1>2. /\ Holding = At(worker, HoldingPoints) /\ Holding' = At(worker', HoldingPoints)
      /\ Live = At(worker, LivePoints) /\ Live' = At(worker', LivePoints)
      /\ Counted = At(worker, CountedPoints) /\ Counted' = At(worker', CountedPoints)
  BY DEF Holding, Live, Counted, At
<1>3. /\ Cardinality(Holding) \in Nat /\ Cardinality(Holding)' \in Nat
      /\ (from \in HoldingPoints <=> to \in HoldingPoints) => Holding' = Holding
      /\ from \in HoldingPoints /\ to \notin HoldingPoints =>
            Cardinality(Holding)' = Cardinality(Holding) - 1
  BY <1>1, <1>2, MoveCounts
<1>4. /\ Cardinality(Live) \in Nat /\ Cardinality(Live)' \in Nat
      /\ (from \in LivePoints <=> to \in LivePoints) => Live' = Live
      /\ from \in LivePoints /\ to \notin LivePoints =>
            Cardinality(Live)' = Cardinality(Live) - 1
  BY <1>1, <1>2, MoveCounts
<1>5. /\ Cardinality(Counted) \in Nat /\ Cardinality(Counted)' \in Nat
      /\ (from \in CountedPoints <=> to \in CountedPoints) => Counted' = Counted
      /\ from \notin CountedPoints /\ to \in CountedPoints =>
            Cardinality(Counted)' = Cardinality(Counted) + 1
  BY ZenonT(60), <1>1, <1>2, MoveCounts
<1> QED BY <1>3, <1>4, <1>5

(* Every step of SearchBatch's goroutines, and a crash and a restart, keeps  *)
(* the types of the counters, the job and the rows.                          *)
LEMMA TypeStep == TypeOK /\ [Next]_vars => TypeOK'
<1> SUFFICES ASSUME TypeOK, [Next]_vars PROVE TypeOK'
  OBVIOUS
<1> USE DispatcherAssumption
<1>1. CASE CallerStep
  <2>1. CASE SlicePanics
    BY <2>1 DEF SlicePanics, TypeOK, Up, syncVars, countVars, itemVars, saveVars
  <2>2. CASE CreateJob
    BY <2>2 DEF CreateJob, TypeOK, Up, syncVars, countVars, itemVars, ClampStart,
                ClampEnd, Written, JobRecord
  <2>3. CASE Launch
    BY <2>3 DEF Launch, TypeOK, Up, countVars, itemVars, saveVars, Rows,
                WorkerPoints, LivePoints, HoldingPoints
  <2>4. CASE ReturnJob
    BY <2>4 DEF ReturnJob, TypeOK, Up, syncVars, countVars, itemVars, saveVars
  <2> QED BY <1>1, <2>1, <2>2, <2>3, <2>4 DEF CallerStep
<1>2. ASSUME NEW i \in Rows, WorkerStep(i) PROVE TypeOK'
  <2> USE <1>2 DEF TypeOK, Advance, Up, WorkerPoints, LivePoints, HoldingPoints,
                   callVars, syncVars, countVars, itemVars, saveVars
  <2>1. CASE BeginSearch(i) BY <2>1 DEF BeginSearch, ItemStatus
  <2>2. CASE EndSearch(i) BY <2>2 DEF EndSearch, ItemStatus
  <2>3. CASE ValidateItem(i) BY <2>3 DEF ValidateItem, ItemStatus, Settled
  <2>4. CASE CountCompleted(i) BY <2>4 DEF CountCompleted
  <2>5. CASE PersistItem(i) BY <2>5 DEF PersistItem, Written
  <2>6. CASE LoadCounter(i) BY <2>6 DEF LoadCounter
  <2>7. CASE StoreProgress(i) BY <2>7 DEF StoreProgress, JobRecord
  <2>8. CASE ReadJob(i) BY <2>8 DEF ReadJob
  <2>9. CASE ReplaceRow(i) BY <2>9 DEF ReplaceRow, Written
  <2>10. CASE Release(i) BY <2>10 DEF Release
  <2>11. CASE WgDone(i) BY <2>11 DEF WgDone
  <2> QED BY <2>1, <2>2, <2>3, <2>4, <2>5, <2>6, <2>7, <2>8, <2>9, <2>10, <2>11
          DEF WorkerStep
<1>3. CASE FinalizerStep
  BY <1>3 DEF FinalizerStep, MarkCompleted, FinalCounts, FinalSave, TypeOK, Up, Written,
              JobRecord, callVars, syncVars, countVars, itemVars, saveVars
<1>4. CASE CancelCtx
  BY <1>4 DEF CancelCtx, TypeOK, Up, callVars, syncVars, countVars, itemVars, saveVars
<1>5. CASE Crash \/ Restart \/ OtherStarts
  BY <1>5 DEF Crash, Restart, OtherStarts, Up, TypeOK, Written, JobRecord, callVars, syncVars, countVars,
              itemVars, saveVars
<1>6. CASE Over \/ UNCHANGED vars
  BY <1>6 DEF Over, TypeOK, vars, callVars, syncVars, countVars, itemVars, saveVars
<1> QED BY <1>1, <1>2, <1>3, <1>4, <1>5, <1>6 DEF Next

-------------------------------------------------------------------------------
(* The parts of the invariant. *)

(* Nothing but the caller's loop and the rows' goroutines moves a control    *)
(* point of worker; every other step keeps the counters too.                 *)
LEMMA OtherSteps ==
  ASSUME [Next]_vars,
         ~Launch, \A i \in Rows : ~WorkerStep(i)
  PROVE  worker' = worker /\ UNCHANGED <<sem, wg, completed, seen, snap, status, itemRow>>
BY DEF Next, CallerStep, SlicePanics, CreateJob, ReturnJob, FinalizerStep, MarkCompleted,
       FinalCounts, FinalSave, CancelCtx, Crash, Restart, OtherStarts, Over, Up, vars, callVars,
       syncVars, countVars, itemVars, saveVars

(* Launch starts the goroutine of one more row. *)
LEMMA LaunchCounts ==
  ASSUME TypeOK, LaunchedInOrder, Launch
  PROVE  /\ next \in Rows /\ worker[next] = "none"
         /\ Cardinality(Holding) \in Nat
         /\ Cardinality(Holding)' = Cardinality(Holding) + 1
         /\ Cardinality(Live) \in Nat
         /\ Cardinality(Live)' = Cardinality(Live) + 1
         /\ Counted' = Counted
<1>1. next \in Rows /\ worker[next] = "none"
  BY DispatcherAssumption DEF TypeOK, LaunchedInOrder, Launch, Rows
<1>2. /\ worker'[next] = "spawned"
      /\ \A j \in Rows : j # next => worker'[j] = worker[j]
  BY <1>1 DEF Launch, TypeOK
<1>3. /\ Holding = At(worker, HoldingPoints) /\ Holding' = At(worker', HoldingPoints)
      /\ Live = At(worker, LivePoints) /\ Live' = At(worker', LivePoints)
      /\ Counted = At(worker, CountedPoints) /\ Counted' = At(worker', CountedPoints)
  BY DEF Holding, Live, Counted, At
<1>4. /\ "none" \notin HoldingPoints /\ "spawned" \in HoldingPoints
      /\ "none" \notin LivePoints /\ "spawned" \in LivePoints
      /\ "none" \notin CountedPoints /\ "spawned" \notin CountedPoints
  BY DEF HoldingPoints, LivePoints, CountedPoints
<1>5. Cardinality(Holding) \in Nat /\ Cardinality(Holding)' = Cardinality(Holding) + 1
  BY <1>1, <1>2, <1>3, <1>4, MoveCounts
<1>6. Cardinality(Live) \in Nat /\ Cardinality(Live)' = Cardinality(Live) + 1
  BY <1>1, <1>2, <1>3, <1>4, MoveCounts
<1>7. Counted' = Counted
  BY <1>1, <1>2, <1>3, <1>4, MoveCounts
<1> QED BY <1>1, <1>5, <1>6, <1>7

(* The tokens, the WaitGroup and the counter go on counting the goroutines:  *)
(* a send, an Add, a receive, a Done or an atomic Add each go with the one   *)
(* control point that changes what they count.                               *)
LEMMA CountersStep ==
  TypeOK /\ LaunchedInOrder /\ CountersCount /\ [Next]_vars => CountersCount'
<1> SUFFICES ASSUME TypeOK, LaunchedInOrder, CountersCount, [Next]_vars
             PROVE  CountersCount'
  OBVIOUS
<1> USE CapacityPositive
<1>1. CASE Launch
  BY <1>1, LaunchCounts DEF Launch, CountersCount, MaxConcurrency, countVars
<1>2. ASSUME NEW i \in Rows, WorkerStep(i) PROVE CountersCount'
  <2> DEFINE Quiet == \/ BeginSearch(i) \/ EndSearch(i) \/ ValidateItem(i)
                      \/ PersistItem(i) \/ LoadCounter(i) \/ StoreProgress(i)
                      \/ ReadJob(i) \/ ReplaceRow(i)
  <2>1. CASE Quiet
    <3>1. PICK from \in WorkerPoints, to \in WorkerPoints :
            /\ Advance(i, from, to)
            /\ from \in HoldingPoints /\ to \in HoldingPoints
            /\ from \in LivePoints /\ to \in LivePoints
            /\ from \in CountedPoints <=> to \in CountedPoints
      BY <2>1 DEF BeginSearch, EndSearch, ValidateItem, PersistItem, LoadCounter,
                  StoreProgress, ReadJob, ReplaceRow, HoldingPoints, LivePoints,
                  CountedPoints, WorkerPoints
    <3>2. Holding' = Holding /\ Live' = Live /\ Counted' = Counted
      BY <3>1, AdvanceCounts
    <3>3. UNCHANGED <<sem, wg, completed>>
      BY <2>1 DEF BeginSearch, EndSearch, ValidateItem, PersistItem, LoadCounter,
                  StoreProgress, ReadJob, ReplaceRow, syncVars, countVars
    <3> QED BY <3>2, <3>3 DEF CountersCount
  <2>2. CASE CountCompleted(i)
    <3>1. Advance(i, "settled", "counted") BY <2>2 DEF CountCompleted
    <3>2. /\ Holding' = Holding /\ Live' = Live
          /\ Cardinality(Counted)' = Cardinality(Counted) + 1
      BY <3>1, AdvanceCounts DEF HoldingPoints, LivePoints, CountedPoints
    <3> QED BY <2>2, <3>2 DEF CountCompleted, CountersCount, syncVars
  <2>3. CASE Release(i)
    <3>1. Advance(i, "saved", "released") BY <2>3 DEF Release
    <3>2. /\ Cardinality(Holding) \in Nat /\ Live' = Live /\ Counted' = Counted
          /\ Cardinality(Holding)' = Cardinality(Holding) - 1
      BY <3>1, AdvanceCounts DEF HoldingPoints, LivePoints, CountedPoints
    <3> QED BY <2>3, <3>2 DEF Release, CountersCount, countVars
  <2>4. CASE WgDone(i)
    <3>1. Advance(i, "released", "done") BY <2>4 DEF WgDone
    <3>2. /\ Holding' = Holding /\ Counted' = Counted
          /\ Cardinality(Live)' = Cardinality(Live) - 1
      BY <3>1, AdvanceCounts DEF HoldingPoints, LivePoints, CountedPoints
    <3> QED BY <2>4, <3>2 DEF WgDone, CountersCount, countVars
  <2> QED BY <1>2, <2>1, <2>2, <2>3, <2>4 DEF WorkerStep
<1>3. CASE ~Launch /\ \A i \in Rows : ~WorkerStep(i)
  BY <1>3, OtherSteps DEF CountersCount, MaxConcurrency, Holding, Live, Counted
<1> QED BY <1>1, <1>2, <1>3

(* The loop starts one goroutine per row, in order, and the finalizer last.  *)
LEMMA LaunchStep ==
  TypeOK /\ LaunchedInOrder /\ [Next]_vars => LaunchedInOrder'
<1> SUFFICES ASSUME TypeOK, LaunchedInOrder, [Next]_vars PROVE LaunchedInOrder'
  OBVIOUS
<1> USE DispatcherAssumption
<1>1. CASE CallerStep
  <2>1. CASE SlicePanics
    BY <2>1 DEF SlicePanics, LaunchedInOrder, saveVars
  <2>2. CASE CreateJob
    BY <2>2 DEF CreateJob, LaunchedInOrder, TypeOK, Rows, ClampStart
  <2>3. CASE Launch
    BY <2>3 DEF Launch, LaunchedInOrder, TypeOK, Rows, saveVars
  <2>4. CASE ReturnJob
    BY <2>4 DEF ReturnJob, LaunchedInOrder, saveVars
  <2> QED BY <1>1, <2>1, <2>2, <2>3, <2>4 DEF CallerStep
<1>2. ASSUME NEW i \in Rows, WorkerStep(i) PROVE LaunchedInOrder'
  <2>1. UNCHANGED <<callVars, finalizer>>
    BY <1>2 DEF WorkerStep, BeginSearch, EndSearch, ValidateItem, CountCompleted, PersistItem,
                LoadCounter, StoreProgress, ReadJob, ReplaceRow, Release, WgDone
  <2>2. /\ worker[i] # "none" /\ worker'[i] # "none"
        /\ \A j \in Rows : j # i => worker'[j] = worker[j]
    BY <1>2 DEF WorkerStep, BeginSearch, EndSearch, ValidateItem, CountCompleted, PersistItem,
                LoadCounter, StoreProgress, ReadJob, ReplaceRow, Release, WgDone, Advance,
                TypeOK
  <2>3. caller \in {"launching", "returned"}
    BY <2>2, <1>2 DEF LaunchedInOrder, TypeOK, Rows
  <2> QED BY <2>1, <2>2, <2>3 DEF LaunchedInOrder, callVars
<1>3. CASE FinalizerStep
  <2>1. finalizer # "none" /\ finalizer' # "none" /\ worker' = worker /\ UNCHANGED callVars
    BY <1>3 DEF FinalizerStep, MarkCompleted, FinalCounts, FinalSave
  <2>2. caller = "returned" /\ caller' = "returned"
    BY <2>1 DEF LaunchedInOrder, callVars
  <2> QED BY <2>1, <2>2 DEF LaunchedInOrder, callVars
<1>4. CASE CancelCtx
  BY <1>4 DEF CancelCtx, LaunchedInOrder, callVars, saveVars
<1>5. CASE Crash \/ Restart \/ OtherStarts
  BY <1>5 DEF Crash, Restart, OtherStarts, Up, LaunchedInOrder, Written, callVars, saveVars
<1>6. CASE Over \/ UNCHANGED vars
  BY <1>6 DEF Over, LaunchedInOrder, vars, callVars, saveVars
<1> QED BY <1>1, <1>2, <1>3, <1>4, <1>5, <1>6 DEF Next

(* As long as a row's goroutine is live the finalizer is at wg.Wait or not   *)
(* yet started, and the shared job is "running".                             *)
LEMMA LiveHoldsBack ==
  ASSUME TypeOK, CountersCount, LaunchedInOrder, JobRunsWithWorkers,
         NEW i \in Rows, worker[i] \in LivePoints
  PROVE  finalizer \in {"none", "waiting"} /\ job.status = "running"
<1>1. IsFiniteSet(Live) /\ Live # {}
  BY RowsFinite, FS_Subset DEF Live
<1>2. wg # 0
  BY <1>1, FS_EmptySet DEF CountersCount
<1>3. finalizer \in {"none", "waiting"}
  BY <1>2 DEF TypeOK, JobRunsWithWorkers
<1>4. worker[i] # "none"
  BY DEF LivePoints, HoldingPoints
<1>5. caller \in {"launching", "returned"}
  BY <1>4, DispatcherAssumption DEF TypeOK, LaunchedInOrder, Rows
<1>6. caller = "launching" \/ finalizer = "waiting"
  BY <1>3, <1>5 DEF LaunchedInOrder
<1> QED BY <1>3, <1>6 DEF JobRunsWithWorkers

(* What the finalizer writes to the shared job no worker can save, and no    *)
(* worker changes the job once it is written.                                *)
LEMMA JobStep ==
  /\ TypeOK /\ CountersCount /\ LaunchedInOrder /\ JobRunsWithWorkers
  /\ [Next]_vars
  => JobRunsWithWorkers'
<1> SUFFICES ASSUME TypeOK, CountersCount, LaunchedInOrder, JobRunsWithWorkers, [Next]_vars
             PROVE  JobRunsWithWorkers'
  OBVIOUS
<1>1. CASE CallerStep
  <2>1. CASE SlicePanics
    BY <2>1 DEF SlicePanics, JobRunsWithWorkers, LaunchedInOrder, saveVars, syncVars, countVars
  <2>2. CASE CreateJob
    <3>1. finalizer = "none" /\ finalizer' = "none" /\ job'.status = "running"
      BY <2>2 DEF CreateJob, LaunchedInOrder, TypeOK
    <3> QED BY <2>2, <3>1 DEF CreateJob, JobRunsWithWorkers
  <2>3. CASE Launch
    <3>1. finalizer = "none" /\ finalizer' = "none"
      BY <2>3 DEF Launch, LaunchedInOrder, TypeOK
    <3>2. \A j \in Rows : worker'[j] = "saving" => worker[j] = "saving"
      BY <2>3 DEF Launch, TypeOK
    <3> QED BY <2>3, <3>1, <3>2 DEF Launch, JobRunsWithWorkers, saveVars
  <2>4. CASE ReturnJob
    BY <2>4 DEF ReturnJob, JobRunsWithWorkers, saveVars
  <2> QED BY <1>1, <2>1, <2>2, <2>3, <2>4 DEF CallerStep
<1>2. ASSUME NEW i \in Rows, WorkerStep(i) PROVE JobRunsWithWorkers'
  <2>1. worker[i] \in LivePoints
    BY <1>2 DEF WorkerStep, BeginSearch, EndSearch, ValidateItem, CountCompleted, PersistItem,
                LoadCounter, StoreProgress, ReadJob, ReplaceRow, Release, WgDone, Advance,
                LivePoints, HoldingPoints
  <2>2. finalizer \in {"none", "waiting"} /\ job.status = "running"
    BY <2>1, LiveHoldsBack
  <2>3. UNCHANGED <<caller, finalizer>>
    BY <1>2 DEF WorkerStep, BeginSearch, EndSearch, ValidateItem, CountCompleted, PersistItem,
                LoadCounter, StoreProgress, ReadJob, ReplaceRow, Release, WgDone, callVars
  <2>4. job'.status = "running"
    BY <1>2, <2>2 DEF WorkerStep, BeginSearch, EndSearch, ValidateItem, CountCompleted,
                PersistItem, LoadCounter, StoreProgress, ReadJob, ReplaceRow, Release, WgDone,
                saveVars, TypeOK, JobRecord
  <2>5. ASSUME NEW j \in Rows, worker'[j] = "saving" PROVE snap'[j].status = "running"
    <3>1. CASE ReadJob(i)
      BY <3>1, <2>2, <2>5 DEF ReadJob, Advance, TypeOK, JobRunsWithWorkers
    <3>2. CASE ~ReadJob(i)
      <4>1. snap' = snap /\ worker[j] = "saving"
        BY <1>2, <3>2, <2>5 DEF WorkerStep, BeginSearch, EndSearch, ValidateItem,
                CountCompleted, PersistItem, LoadCounter, StoreProgress, ReplaceRow, Release,
                WgDone, Advance, saveVars, TypeOK
      <4> QED BY <4>1 DEF JobRunsWithWorkers
    <3> QED BY <3>1, <3>2
  <2> QED BY <2>2, <2>3, <2>4, <2>5 DEF JobRunsWithWorkers
<1>3. CASE FinalizerStep
  <2>1. finalizer # "none" /\ caller = "returned" /\ caller' = "returned"
    BY <1>3 DEF FinalizerStep, MarkCompleted, FinalCounts, FinalSave, LaunchedInOrder, callVars
  <2>2. CASE MarkCompleted
    BY <2>1, <2>2 DEF MarkCompleted, JobRunsWithWorkers, TypeOK, JobRecord, syncVars, countVars
  <2>3. CASE FinalCounts
    BY <2>1, <2>3 DEF FinalCounts, JobRunsWithWorkers, TypeOK, JobRecord, syncVars, countVars
  <2>4. CASE FinalSave
    BY <2>1, <2>4 DEF FinalSave, JobRunsWithWorkers, syncVars, countVars
  <2> QED BY <1>3, <2>2, <2>3, <2>4 DEF FinalizerStep
<1>4. CASE CancelCtx
  BY <1>4 DEF CancelCtx, JobRunsWithWorkers, callVars, syncVars, countVars, saveVars
<1>5. CASE Crash \/ Restart \/ OtherStarts
  BY <1>5 DEF Crash, Restart, OtherStarts, Up, JobRunsWithWorkers, callVars, syncVars, countVars, saveVars
<1>6. CASE Over \/ UNCHANGED vars
  BY <1>6 DEF Over, JobRunsWithWorkers, vars, callVars, syncVars, countVars, saveVars
<1> QED BY <1>1, <1>2, <1>3, <1>4, <1>5, <1>6 DEF Next

(* Every copy of the counter was read from it, and it only grows.            *)
LEMMA CopiesStep == TypeOK /\ CopiesLag /\ [Next]_vars => CopiesLag'
<1> SUFFICES ASSUME TypeOK, CopiesLag, [Next]_vars PROVE CopiesLag'
  OBVIOUS
<1> USE DEF CopiesLag
<1>1. CASE CallerStep
  BY <1>1 DEF CallerStep, SlicePanics, CreateJob, Launch, ReturnJob, TypeOK, Written, NoJob,
              JobRecord, countVars, saveVars
<1>2. ASSUME NEW i \in Rows, WorkerStep(i) PROVE CopiesLag'
  <2> USE DEF TypeOK, JobRecord, countVars, saveVars
  <2>1. CASE CountCompleted(i)
    BY <2>1 DEF CountCompleted
  <2>2. CASE LoadCounter(i)
    BY <2>2 DEF LoadCounter
  <2>3. CASE StoreProgress(i)
    BY <2>3 DEF StoreProgress
  <2>4. CASE ReadJob(i)
    BY <2>4 DEF ReadJob
  <2>5. CASE ReplaceRow(i)
    BY <2>5 DEF ReplaceRow, Written
  <2>6. CASE \/ BeginSearch(i) \/ EndSearch(i) \/ ValidateItem(i) \/ PersistItem(i)
             \/ Release(i) \/ WgDone(i)
    BY <2>6 DEF BeginSearch, EndSearch, ValidateItem, PersistItem, Release, WgDone
  <2> QED BY <1>2, <2>1, <2>2, <2>3, <2>4, <2>5, <2>6 DEF WorkerStep
<1>3. CASE FinalizerStep
  BY <1>3 DEF FinalizerStep, MarkCompleted, FinalCounts, FinalSave, TypeOK, JobRecord, Written,
              countVars, saveVars
<1>4. CASE CancelCtx
  BY <1>4 DEF CancelCtx, countVars, saveVars
<1>5. CASE Crash \/ Restart \/ OtherStarts
  BY <1>5 DEF Crash, Restart, OtherStarts, Up, Written, TypeOK, JobRecord, countVars, saveVars
<1>6. CASE Over \/ UNCHANGED vars
  BY <1>6 DEF Over, vars, countVars, saveVars
<1> QED BY <1>1, <1>2, <1>3, <1>4, <1>5, <1>6 DEF Next

(* Only a row's own goroutine touches its item, and in the order search,     *)
(* verdict, UpdateItemStatus.                                                *)
LEMMA VerdictsStep ==
  TypeOK /\ LaunchedInOrder /\ VerdictsKept /\ [Next]_vars => VerdictsKept'
<1> SUFFICES ASSUME TypeOK, LaunchedInOrder, VerdictsKept, [Next]_vars PROVE VerdictsKept'
  OBVIOUS
<1>1. CASE Launch
  BY <1>1, LaunchCounts DEF Launch, VerdictsKept, TypeOK, CountedPoints, itemVars
<1>2. ASSUME NEW i \in Rows, WorkerStep(i) PROVE VerdictsKept'
  <2> USE DEF VerdictsKept, TypeOK, Advance, CountedPoints, itemVars
  <2>1. CASE BeginSearch(i) \/ EndSearch(i)
    BY <2>1 DEF BeginSearch, EndSearch
  <2>2. CASE ValidateItem(i)
    BY <2>2 DEF ValidateItem
  <2>3. CASE CountCompleted(i)
    BY <2>3 DEF CountCompleted
  <2>4. CASE PersistItem(i)
    BY <2>4 DEF PersistItem, Written
  <2>5. CASE LoadCounter(i) \/ StoreProgress(i) \/ ReadJob(i)
    BY <2>5 DEF LoadCounter, StoreProgress, ReadJob
  <2>6. CASE ReplaceRow(i) \/ Release(i) \/ WgDone(i)
    BY <2>6 DEF ReplaceRow, Release, WgDone
  <2> QED BY <1>2, <2>1, <2>2, <2>3, <2>4, <2>5, <2>6 DEF WorkerStep
<1>3. CASE ~Launch /\ \A i \in Rows : ~WorkerStep(i)
  BY <1>3, OtherSteps DEF VerdictsKept
<1> QED BY <1>1, <1>2, <1>3

(* Only the finalizer's SaveJob writes "completed", only a restart "failed". *)
LEMMA RecordStep == Inductive /\ [Next]_vars => RecordHasAuthor'
<1> SUFFICES ASSUME Inductive, [Next]_vars PROVE RecordHasAuthor'
  OBVIOUS
<1> USE DEF Inductive, RecordHasAuthor
<1>1. CASE CallerStep
  <2>1. row.status = "completed" => finalizer = "finished" /\ caller = "returned"
    BY DEF LaunchedInOrder
  <2> QED BY <1>1, <2>1 DEF CallerStep, SlicePanics, CreateJob, Launch, ReturnJob, Up, Written,
              LaunchedInOrder, JobRunsWithWorkers, countVars, saveVars
<1>2. ASSUME NEW i \in Rows, WorkerStep(i) PROVE RecordHasAuthor'
  <2>1. worker[i] \in LivePoints /\ Up /\ UNCHANGED finalizer
    BY <1>2 DEF WorkerStep, BeginSearch, EndSearch, ValidateItem, CountCompleted, PersistItem,
                LoadCounter, StoreProgress, ReadJob, ReplaceRow, Release, WgDone, Advance,
                LivePoints, HoldingPoints
  <2>2. /\ finalizer # "finished" /\ row.status # "completed"
        /\ row.status = "failed" => SecondProcess
    BY <2>1, LiveHoldsBack DEF Up
  <2>3. CASE ReplaceRow(i)
    <3>1. snap[i].status = "running"
      BY <2>3 DEF ReplaceRow, Advance, JobRunsWithWorkers
    <3> QED BY <2>1, <2>2, <2>3, <3>1 DEF ReplaceRow, Written, Up
  <2>4. CASE ~ReplaceRow(i)
    <3>1. row' = row
      BY <1>2, <2>4 DEF WorkerStep, BeginSearch, EndSearch, ValidateItem, CountCompleted,
                PersistItem, LoadCounter, StoreProgress, ReadJob, Release, WgDone, saveVars
    <3> QED BY <2>1, <2>2, <3>1 DEF Up
  <2> QED BY <2>3, <2>4
<1>3. CASE FinalizerStep
  <2>1. CASE MarkCompleted \/ FinalCounts
    BY <2>1 DEF MarkCompleted, FinalCounts, Up, countVars
  <2>2. CASE FinalSave
    BY <2>2 DEF FinalSave, Up, Written, JobRunsWithWorkers, countVars
  <2> QED BY <1>3, <2>1, <2>2 DEF FinalizerStep
<1>4. CASE CancelCtx
  BY <1>4 DEF CancelCtx, Up, countVars, saveVars
<1>5. CASE Crash \/ Restart \/ OtherStarts
  BY <1>5 DEF Crash, Restart, OtherStarts, Up, Written, TypeOK, JobRecord, countVars, saveVars
<1>6. CASE Over \/ UNCHANGED vars
  BY <1>6 DEF Over, vars, countVars, saveVars
<1> QED BY <1>1, <1>2, <1>3, <1>4, <1>5, <1>6 DEF Next

-------------------------------------------------------------------------------
(* The invariant and what follows from it. *)

LEMMA InductiveInit == Init => Inductive
<1> SUFFICES ASSUME Init PROVE Inductive
  OBVIOUS
<1> USE DispatcherAssumption DEF Init
<1>1. TypeOK
  BY DEF TypeOK, Rows, WorkerPoints, LivePoints, HoldingPoints, NoJob, JobRecord, ItemStatus
<1>2. CountersCount
  <2>1. Holding = {} /\ Live = {} /\ Counted = {}
    BY DEF Holding, Live, Counted, LivePoints, HoldingPoints, CountedPoints
  <2> QED BY <2>1, FS_EmptySet, CapacityPositive DEF CountersCount, MaxConcurrency
<1>3. LaunchedInOrder
  BY DEF LaunchedInOrder, NoJob, Rows
<1>4. JobRunsWithWorkers /\ CopiesLag /\ VerdictsKept /\ RecordHasAuthor
  BY DEF JobRunsWithWorkers, CopiesLag, VerdictsKept, RecordHasAuthor, NoJob, CountedPoints
<1> QED BY <1>1, <1>2, <1>3, <1>4 DEF Inductive

(* In every reachable state the counters count goroutines, the job runs as   *)
(* long as a worker can save it and the store's record has a known author.   *)
THEOREM InductiveInvariant == Spec => []Inductive
<1>1. Inductive /\ [Next]_vars => Inductive'
  BY TypeStep, CountersStep, LaunchStep, JobStep, CopiesStep, VerdictsStep, RecordStep
     DEF Inductive
<1> QED BY InductiveInit, <1>1, PTL DEF Spec

(* At most MaxConcurrency rows are searched at once (sem in SearchBatch).    *)
THEOREM PermitsHold == Spec => []PermitsBoundWorkers
<1>1. Inductive => PermitsBoundWorkers
  BY DEF Inductive, CountersCount, PermitsBoundWorkers
<1> QED BY InductiveInvariant, <1>1, PTL

(* When the WaitGroup is at zero after the loop, every row of the batch is   *)
(* done and the counter is the size of the batch.                            *)
LEMMA AllDone ==
  ASSUME Inductive, finalizer \in {"marked", "counted", "finished"}
  PROVE  /\ \A i \in Rows : worker[i] \in {"none", "done"}
         /\ \A i \in Batch : i \in Rows /\ worker[i] = "done"
         /\ completed = Total
<1> USE DEF Inductive
<1>1. Live = {}
  <2>1. IsFiniteSet(Live)
    BY RowsFinite, FS_Subset DEF Live
  <2> QED BY <2>1, FS_EmptySet DEF CountersCount, JobRunsWithWorkers
<1>2. \A i \in Rows : worker[i] \in {"none", "done"}
  BY <1>1 DEF Live, TypeOK, WorkerPoints
<1>3. next = hi
  BY DEF LaunchedInOrder
<1>4. lo \in Nat /\ hi \in Nat /\ lo <= hi /\ hi <= NRows
  BY DispatcherAssumption DEF TypeOK
<1>5. \A i \in Batch : i \in Rows /\ worker[i] = "done"
  BY <1>2, <1>3, <1>4, DispatcherAssumption DEF Batch, Rows, LaunchedInOrder
<1>6. Counted = lo .. hi - 1
  BY <1>2, <1>3, <1>4, <1>5 DEF Counted, CountedPoints, LaunchedInOrder, Batch, Rows
<1>7. Cardinality(lo .. hi - 1) = hi - lo
  <2> DEFINE last == hi - 1
  <2>1. lo \in Int /\ last \in Int
    BY <1>4
  <2>2. Cardinality(lo .. last) = IF lo > last THEN 0 ELSE last - lo + 1
    <3> HIDE DEF last
    <3> QED BY <2>1, FS_Interval, Zenon
  <2> QED BY <1>4, <2>2
<1>8. completed = Total
  BY <1>6, <1>7 DEF CountersCount, Total
<1> QED BY <1>2, <1>5, <1>8

(* A job stored as "completed" counts the whole batch, and every row of it   *)
(* has its verdict, persisted unless a write failed.                         *)
THEOREM CompletedJobsAreSettled == Spec => []CompletedMeansSettled
<1>1. ASSUME Inductive, row.status = "completed"
      PROVE  /\ row.completed = Total
             /\ \A i \in Batch : status[i] \in Settled
             /\ ~StoreFails => \A i \in Batch : itemRow[i] = status[i]
  <2>1. finalizer = "finished" /\ row.completed = completed
    BY <1>1 DEF Inductive, RecordHasAuthor
  <2>2. completed = Total /\ \A i \in Batch : i \in Rows /\ worker[i] = "done"
    BY <1>1, <2>1, AllDone
  <2> QED BY <1>1, <2>1, <2>2 DEF Inductive, VerdictsKept, CountedPoints
<1>2. Inductive => CompletedMeansSettled
  BY <1>1 DEF CompletedMeansSettled
<1> QED BY InductiveInvariant, <1>2, PTL

(* The stored progress never runs ahead of the rows that are done.           *)
THEOREM StoredProgressIsReal == Spec => []RowNeverOverstates
<1>1. Inductive => RowNeverOverstates
  BY DEF Inductive, CopiesLag, CountersCount, RowNeverOverstates
<1> QED BY InductiveInvariant, <1>1, PTL

(* With a store whose writes succeed, no job is "running" after a restart.   *)
THEOREM RestartCleansUp == Spec => []RestartLeavesNoneRunning
<1>1. Inductive => RestartLeavesNoneRunning
  BY DEF Inductive, RecordHasAuthor, RestartLeavesNoneRunning
<1> QED BY InductiveInvariant, <1>1, PTL

(* The record of a completed job is never written again.                     *)
THEOREM CompletedStays == Spec => CompletedIsFinal
<1>1. ASSUME Inductive, [Next]_vars, row.status = "completed" PROVE row' = row
  <2>1. finalizer = "finished" /\ caller = "returned"
    BY <1>1 DEF Inductive, RecordHasAuthor, LaunchedInOrder
  <2>2. \A i \in Rows : worker[i] \in {"none", "done"}
    BY <1>1, <2>1, AllDone
  <2>3. \A i \in Rows : ~ReplaceRow(i)
    BY <2>2 DEF ReplaceRow, Advance
  <2> QED
    BY <1>1, <2>1, <2>3 DEF Next, CallerStep, SlicePanics, CreateJob, Launch, ReturnJob,
       WorkerStep, BeginSearch, EndSearch, ValidateItem, CountCompleted, PersistItem,
       LoadCounter, StoreProgress, ReadJob, Release, WgDone, FinalizerStep, MarkCompleted,
       FinalCounts, FinalSave, CancelCtx, Crash, Restart, OtherStarts, Over, vars, saveVars
<1>2. Inductive /\ [Next]_vars => [row.status = "completed" => row' = row]_row
  BY <1>1
<1> QED BY InductiveInvariant, <1>2, PTL DEF Spec, CompletedIsFinal

-------------------------------------------------------------------------------
(* The refinement. *)

JobVars == <<caller \in {"launching", "returned"}, Batch, Holding, Finished, row.status,
             process = "up">>

(* BatchJob counts with its own copy of the library's operator.              *)
LEMMA SameCardinality == \A S : Job!Cardinality(S) = Cardinality(S)
BY DEF Cardinality, Job!Cardinality

(* Launching row next begins an abstract row. *)
LEMMA LaunchBegins ==
  ASSUME Inductive, Launch
  PROVE  \E r \in Rows : Job!Begin(r)
<1> USE DEF Inductive
<1>1. next \in Rows /\ worker[next] = "none"
  BY LaunchCounts
<1>2. next \in Batch \ (Holding \cup Finished)
  BY <1>1 DEF Holding, Finished, HoldingPoints, Batch, Launch, TypeOK
<1>3. Job!Cardinality(Holding) < MaxConcurrency
  BY SameCardinality DEF Launch, CountersCount
<1>4. Holding' = Holding \cup {next} /\ Finished' = Finished
  BY <1>1 DEF Launch, Holding, Finished, HoldingPoints, TypeOK
<1>5. /\ process = "up" /\ process' = process /\ caller' = caller
      /\ lo' = lo /\ hi' = hi /\ row' = row
  BY DEF Launch, Up, saveVars
<1>6. Batch' = Batch
  BY <1>5 DEF Batch
<1>7. PICK r \in Rows : r = next
  BY <1>1
<1>8. Job!Begin(r)
  BY <1>2, <1>3, <1>4, <1>5, <1>6, <1>7 DEF Job!Begin
<1> QED BY <1>8

(* Giving the token back ends it. *)
LEMMA ReleaseEnds == ASSUME Inductive, NEW i \in Rows, Release(i) PROVE Job!End(i)
<1> USE DEF Inductive
<1>1. worker[i] = "saved" /\ worker' = [worker EXCEPT ![i] = "released"]
  BY DEF Release, Advance
<1>2. i \in Holding /\ Holding' = Holding \ {i} /\ Finished' = Finished \cup {i}
  BY <1>1 DEF Holding, Finished, HoldingPoints, TypeOK
<1>3. /\ process = "up" /\ process' = process
      /\ caller' = caller /\ Batch' = Batch /\ row' = row
  BY DEF Release, Advance, Up, Batch, callVars, saveVars
<1> QED BY <1>2, <1>3 DEF Job!End

(* Every other step of a row's goroutine leaves Holding and Finished alone.  *)
LEMMA InnerStep ==
  ASSUME Inductive, NEW i \in Rows, WorkerStep(i), ~Release(i)
  PROVE  /\ Holding' = Holding /\ Finished' = Finished
         /\ process = "up" /\ process' = process
         /\ caller' = caller /\ Batch' = Batch
<1>1. PICK from \in WorkerPoints, to \in WorkerPoints :
        /\ Advance(i, from, to)
        /\ from \in HoldingPoints <=> to \in HoldingPoints
        /\ from \in {"released", "done"} <=> to \in {"released", "done"}
  BY DEF WorkerStep, BeginSearch, EndSearch, ValidateItem, CountCompleted, PersistItem,
         LoadCounter, StoreProgress, ReadJob, ReplaceRow, WgDone, HoldingPoints, LivePoints,
         WorkerPoints
<1>2. worker[i] = from /\ worker'[i] = to /\ \A j \in Rows : j # i => worker'[j] = worker[j]
  BY <1>1 DEF Advance, Inductive, TypeOK
<1>3. Holding' = Holding /\ Finished' = Finished
  BY <1>1, <1>2 DEF Holding, Finished
<1>4. UNCHANGED callVars
  BY DEF WorkerStep, BeginSearch, EndSearch, ValidateItem, CountCompleted, PersistItem,
         LoadCounter, StoreProgress, ReadJob, ReplaceRow, WgDone
<1> QED BY <1>1, <1>3, <1>4 DEF Advance, Up, callVars, Batch

LEMMA StepRefines == Inductive /\ [Next]_vars => [Job!Next]_JobVars
<1> SUFFICES ASSUME Inductive, [Next]_vars PROVE Job!Next \/ UNCHANGED JobVars
  OBVIOUS
<1>1. CASE CallerStep
  <2>1. CASE SlicePanics
    BY <2>1 DEF SlicePanics, JobVars, Up, Batch, Holding, Finished, saveVars
  <2>2. CASE CreateJob
    <3>1. Holding' = Holding /\ Finished' = Finished /\ process = "up" /\ process' = process
      BY <2>2 DEF CreateJob, Holding, Finished, Up
    <3>2. Batch' \in SUBSET Rows
      <4>1. lo' \in Nat /\ hi' \in Int /\ hi' <= NRows
        BY <2>2, DispatcherAssumption DEF CreateJob, ClampStart, ClampEnd
      <4>2. Batch' = lo' .. hi' - 1
        BY DEF Batch
      <4>3. ASSUME NEW a \in Nat, NEW b \in Int, b <= NRows PROVE a .. b - 1 \subseteq Rows
        BY <4>3, DispatcherAssumption DEF Rows
      <4>4. lo' .. hi' - 1 \subseteq Rows
        BY <4>1, <4>3
      <4> QED BY <4>2, <4>4
    <3>3. row.status = "none" /\ row'.status \in {"none", "running"}
      BY <2>2 DEF CreateJob, Written, Inductive, LaunchedInOrder
    <3>4. caller = "idle" /\ caller' = "launching"
      BY <2>2 DEF CreateJob
    <3> QED BY <3>1, <3>2, <3>3, <3>4 DEF Job!Next, Job!Open
  <2>3. CASE Launch
    BY <2>3, LaunchBegins DEF Job!Next
  <2>4. CASE ReturnJob
    BY <2>4 DEF ReturnJob, JobVars, Up, Batch, Holding, Finished, saveVars
  <2> QED BY <1>1, <2>1, <2>2, <2>3, <2>4 DEF CallerStep
<1>2. ASSUME NEW i \in Rows, WorkerStep(i) PROVE Job!Next \/ UNCHANGED JobVars
  <2>1. CASE Release(i)
    BY <2>1, ReleaseEnds DEF Job!Next
  <2>2. CASE ReplaceRow(i)
    <3>1. /\ Holding' = Holding /\ Finished' = Finished
          /\ process = "up" /\ process' = process
          /\ caller' = caller /\ Batch' = Batch
      BY <1>2, <2>2, InnerStep DEF ReplaceRow, Release, Advance
    <3>2. i \in Holding /\ worker[i] \in LivePoints
      BY <2>2 DEF ReplaceRow, Advance, Holding, HoldingPoints, LivePoints
    <3>3. row.status # "completed"
      BY <3>2, LiveHoldsBack DEF Inductive, RecordHasAuthor
    <3>4. row'.status = row.status \/ row'.status = "running"
      BY <2>2 DEF ReplaceRow, Advance, Written, Inductive, JobRunsWithWorkers
    <3>5. CASE row'.status = row.status
      BY <3>1, <3>5 DEF JobVars
    <3>6. CASE row'.status = "running"
      BY <3>1, <3>2, <3>3, <3>6 DEF Job!Next, Job!Report
    <3> QED BY <3>4, <3>5, <3>6
  <2>3. CASE ~Release(i) /\ ~ReplaceRow(i)
    <3>1. row' = row
      BY <1>2, <2>3 DEF WorkerStep, BeginSearch, EndSearch, ValidateItem, CountCompleted,
                PersistItem, LoadCounter, StoreProgress, ReadJob, WgDone, saveVars
    <3> QED BY <1>2, <2>3, <3>1, InnerStep DEF JobVars
  <2> QED BY <2>1, <2>2, <2>3
<1>3. CASE FinalizerStep
  <2>1. /\ worker' = worker /\ UNCHANGED callVars /\ finalizer # "none"
        /\ process = "up" /\ process' = process
    BY <1>3 DEF FinalizerStep, MarkCompleted, FinalCounts, FinalSave, Up
  <2>2. Holding' = Holding /\ Finished' = Finished /\ Batch' = Batch /\ caller' = caller
    BY <2>1 DEF Holding, Finished, Batch, callVars
  <2>3. CASE row' = row
    BY <2>1, <2>2, <2>3 DEF JobVars
  <2>4. CASE row' # row
    <3>1. finalizer = "counted" /\ row'.status = "completed"
      BY <1>3, <2>4 DEF FinalizerStep, MarkCompleted, FinalCounts, FinalSave, Written,
                        Inductive, JobRunsWithWorkers
    <3>2. Finished = Batch
      <4>1. /\ \A i \in Rows : worker[i] \in {"none", "done"}
            /\ \A i \in Batch : i \in Rows /\ worker[i] = "done"
        BY <3>1, AllDone
      <4>2. \A i \in Rows : worker[i] = "done" => i \in Batch
        BY <3>1, RowsFinite DEF Inductive, LaunchedInOrder, TypeOK, Batch, Rows
      <4> QED BY <4>1, <4>2 DEF Finished
    <3>3. caller = "returned"
      BY <2>1 DEF Inductive, LaunchedInOrder
    <3> QED BY <2>1, <2>2, <3>1, <3>2, <3>3 DEF Job!Next, Job!Complete
  <2> QED BY <2>3, <2>4
<1>4. CASE CancelCtx
  BY <1>4 DEF CancelCtx, JobVars, Up, Batch, Holding, Finished, callVars, saveVars
<1>5. CASE Crash
  BY <1>5 DEF Crash, Job!Next, Job!Die, Batch, Holding, Finished, callVars, saveVars
<1>6. CASE Restart \/ OtherStarts
  <2>1. /\ Holding' = Holding /\ Finished' = Finished /\ Batch' = Batch /\ caller' = caller
        /\ process # "up" \/ SecondProcess
        /\ process = "up" <=> process' = "up"
    BY <1>6 DEF Restart, OtherStarts, Up, Batch, Holding, Finished, callVars
  <2>2. row' = row \/ (row.status = "running" /\ row'.status = "failed")
    BY <1>6 DEF Restart, OtherStarts, Written, Inductive, TypeOK, JobRecord
  <2> QED BY <2>1, <2>2 DEF JobVars, Job!Next, Job!CleanUp
<1>7. CASE Over \/ UNCHANGED vars
  BY <1>7 DEF Over, vars, JobVars, Batch, Holding, Finished, callVars, saveVars
<1> QED BY <1>1, <1>2, <1>3, <1>4, <1>5, <1>6, <1>7 DEF Next

(* A batch of the dispatcher is a BatchJob: every step of its goroutines is  *)
(* a step of the promise or leaves it as it is.                              *)
THEOREM DispatcherImplementsBatchJob == Spec => ImplementsBatchJob
<1>1. Init => Job!Init
  BY DispatcherAssumption
     DEF Init, Job!Init, Batch, Holding, Finished, HoldingPoints, NoJob
<1>2. JobVars = Job!vars
  BY DEF JobVars, Job!vars
<1>3. Inductive /\ [Next]_vars => [Job!Next]_(Job!vars)
  BY StepRefines, <1>2 DEF JobVars, Job!vars
<1> QED BY InductiveInvariant, <1>1, <1>3, PTL DEF Spec, ImplementsBatchJob, Job!Spec

-------------------------------------------------------------------------------
(* The runner. *)

(* main's own steps are invisible to the batch, but for the exit, which the *)
(* batch cannot tell from a crash.                                          *)
LEMMA MainStepIsCrashOrStutter == MainStep => (Crash \/ UNCHANGED vars)
BY DEF MainStep, SeeCompleted, WriteReport, Exit

(* Every behaviour of the runner is one of Dispatcher, fairness included:   *)
(* what Dispatcher's theorems say holds while main polls the job, and after *)
(* it has ended the process under the feet of the finalizer.                *)
THEOREM RunnerIsDispatcher == RunnerSpec => Spec
<1>1. RunnerInit => Init
  BY DEF RunnerInit
<1>2. [RunnerNext]_runnerVars => [Next]_vars
  BY MainStepIsCrashOrStutter DEF RunnerNext, runnerVars, Next
<1> QED BY <1>1, <1>2, PTL DEF RunnerSpec, Spec

-------------------------------------------------------------------------------
(* Once wg.Wait() has returned, the items and the range are left alone.     *)
LEMMA ItemsAtRest ==
  ASSUME Inductive, finalizer \in {"marked", "counted", "finished"}, [Next]_vars
  PROVE  /\ status' = status /\ lo' = lo /\ hi' = hi
         /\ finalizer' \in {"marked", "counted", "finished"}
<1>1. \A i \in Rows : worker[i] \in {"none", "done"}
  BY AllDone
<1>2. caller = "returned"
  BY DEF Inductive, TypeOK, LaunchedInOrder
<1>3. CASE \E i \in Rows : WorkerStep(i)
  <2>1. PICK i \in Rows : WorkerStep(i)
    BY <1>3
  <2>2. worker[i] \notin {"none", "done"}
    BY <2>1 DEF WorkerStep, BeginSearch, EndSearch, ValidateItem, CountCompleted, PersistItem,
         LoadCounter, StoreProgress, ReadJob, ReplaceRow, Release, WgDone, Advance
  <2> QED BY <1>1, <2>2
<1>4. CASE CallerStep
  BY <1>2, <1>4 DEF CallerStep, SlicePanics, CreateJob, Launch, ReturnJob
<1>5. CASE FinalizerStep
  BY <1>5 DEF FinalizerStep, MarkCompleted, FinalCounts, FinalSave, callVars, itemVars
<1>6. CASE CancelCtx \/ Crash \/ Restart \/ OtherStarts \/ Over \/ UNCHANGED vars
  BY <1>6 DEF CancelCtx, Crash, Restart, OtherStarts, Over, vars, callVars, itemVars
<1> QED BY <1>3, <1>4, <1>5, <1>6 DEF Next

LEMMA MainKeepsReport ==
  ASSUME Inductive, RunnerInductive, MainStep
  PROVE  RunnerInductive'
<1>1. CASE SeeCompleted
  <2>1. finalizer \in {"marked", "counted", "finished"}
    BY <1>1 DEF SeeCompleted, Inductive, TypeOK, LaunchedInOrder, JobRunsWithWorkers
  <2> QED BY <1>1, <2>1 DEF SeeCompleted, RunnerInductive, RunnerTypeOK, PastTheLoop,
                            ReportIsSettled, vars
<1>2. CASE WriteReport
  <2>1. finalizer \in {"marked", "counted", "finished"}
    BY <1>2 DEF WriteReport, RunnerInductive, PastTheLoop
  <2>2. \A i \in Batch : i \in Rows /\ worker[i] = "done"
    BY <2>1, AllDone
  <2>3. \A i \in Batch : status[i] \in Settled
    BY <2>2 DEF Inductive, VerdictsKept, CountedPoints
  <2>4. UNCHANGED <<status, lo, hi, finalizer>> /\ report' = status /\ main' = "reported"
    BY <1>2 DEF WriteReport, vars, callVars, itemVars
  <2>5. RunnerTypeOK' /\ PastTheLoop'
    BY <2>1, <2>4 DEF Inductive, TypeOK, RunnerTypeOK, PastTheLoop
  <2>6. ReportIsSettled'
    BY <2>3, <2>4 DEF ReportIsSettled, Batch
  <2> QED BY <2>5, <2>6 DEF RunnerInductive
<1>3. CASE Exit
  <2>1. /\ UNCHANGED <<status, lo, hi, finalizer, report>>
        /\ main = "reported" /\ main' = "exited"
    BY <1>3 DEF Exit, Crash, callVars, itemVars
  <2> QED BY <2>1 DEF RunnerInductive, RunnerTypeOK, PastTheLoop, ReportIsSettled, Batch
<1> QED BY <1>1, <1>2, <1>3 DEF MainStep

LEMMA BatchKeepsReport ==
  ASSUME Inductive, RunnerInductive, [Next]_vars, UNCHANGED mainVars
  PROVE  RunnerInductive'
<1>1. UNCHANGED <<main, report>>
  BY DEF mainVars
<1>2. CASE main = "calling"
  BY <1>1, <1>2 DEF RunnerInductive, RunnerTypeOK, PastTheLoop, ReportIsSettled
<1>3. CASE main # "calling"
  <2>1. /\ UNCHANGED <<status, lo, hi>>
        /\ finalizer' \in {"marked", "counted", "finished"}
    BY <1>3, ItemsAtRest DEF RunnerInductive, PastTheLoop
  <2> QED BY <1>1, <2>1 DEF RunnerInductive, RunnerTypeOK, PastTheLoop, ReportIsSettled, Batch
<1> QED BY <1>2, <1>3

(* main is past its loop only when the WaitGroup has been waited for, and   *)
(* the report it has written is what the items are.                         *)
THEOREM RunnerInvariant == RunnerSpec => []RunnerInductive
<1>1. RunnerInit => RunnerInductive
  BY DEF RunnerInit, RunnerInductive, RunnerTypeOK, PastTheLoop, ReportIsSettled, Unread,
         ItemStatus
<1>2. Inductive /\ RunnerInductive /\ [RunnerNext]_runnerVars => RunnerInductive'
  <2> SUFFICES ASSUME Inductive, RunnerInductive, [RunnerNext]_runnerVars
               PROVE  RunnerInductive'
    OBVIOUS
  <2>1. CASE MainStep
    BY <2>1, MainKeepsReport
  <2>2. CASE Next /\ UNCHANGED mainVars
    BY <2>2, BatchKeepsReport
  <2>3. CASE UNCHANGED runnerVars
    BY <2>3, BatchKeepsReport DEF runnerVars
  <2> QED BY <2>1, <2>2, <2>3 DEF RunnerNext
<1>3. RunnerSpec => []Inductive
  BY RunnerIsDispatcher, InductiveInvariant, PTL
<1> QED BY <1>1, <1>2, <1>3, PTL DEF RunnerSpec

(* The report of cmd/batch shows a verdict for every row, for any table,    *)
(* any concurrency, and whether or not writes to the store succeed.         *)
THEOREM ReportsShowVerdicts == RunnerSpec => []ReportIsSettled
BY RunnerInvariant, PTL DEF RunnerInductive
===============================================================================
