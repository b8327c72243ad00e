------------------------------ MODULE Dispatcher ------------------------------
(***************************************************************************)
(* Dispatcher.SearchBatch (internal/engine/dispatcher.go) and the part of   *)
(* the SQLite store it writes: one call, the worker goroutines it starts    *)
(* behind a buffered channel used as a semaphore, the finalizer goroutine   *)
(* that waits for them, the *JobStatus they all share without a lock, and   *)
(* the rows of the tables jobs and research_items.  The process may crash   *)
(* at any point and a later one may open the same database.                 *)
(*                                                                         *)
(* A worker's SearchItem and ValidateItem are the two steps and the verdict *)
(* that the rest of the batch can see of them; ResearchItem models what     *)
(* they do.  job.InProgress is left out: nothing reads it and jobs has no   *)
(* column for it.  job.Failed is left out: SearchItem returns nil on every  *)
(* path, so the counter it mirrors is never incremented.                    *)
(***************************************************************************)
EXTENDS Integers, FiniteSets

CONSTANTS
  NRows,         \* len(table.Items)
  Configured,    \* the max_concurrency NewDispatcher is given
  StartArgs,     \* values of the caller's startIdx
  EndArgs,       \* values of the caller's endIdx
  StoreFails,    \* may a write to SQLite fail? (its error is dropped)
  SecondProcess, \* may another process open the database meanwhile?
  ReplyCancels   \* does the transport cancel ctx once the handler has replied?

ASSUME DispatcherAssumption ==
  /\ NRows \in Nat
  /\ Configured \in Int
  /\ StartArgs \subseteq Int /\ EndArgs \subseteq Int
  /\ StoreFails \in BOOLEAN /\ SecondProcess \in BOOLEAN /\ ReplyCancels \in BOOLEAN

VARIABLES
  process,    \* "up", "down" after a crash, "restarted" once a later start cleaned up
  caller,     \* control point of the goroutine that called SearchBatch
  lo, hi,     \* the slice table.Items[lo:hi] of this batch
  next,       \* the item the caller's loop is at
  ctx,        \* "live" or "cancelled"
  worker,     \* control point of each item's goroutine
  finalizer,  \* control point of the goroutine that waits for the workers
  sem,        \* number of tokens in the channel sem
  wg,         \* counter of the WaitGroup
  completed,  \* the atomic counter
  seen,       \* the value of completed each worker has loaded
  job,        \* the shared *models.JobStatus
  snap,       \* the job fields a worker's SaveJob has read and not yet written
  status,     \* Status of each item in memory
  cut,        \* has a search ended on a cancelled ctx?
  itemRow,    \* status column of research_items
  row         \* the job's row in jobs

callVars  == <<caller, lo, hi, next>>
syncVars  == <<sem, wg>>
countVars == <<completed, seen>>
itemVars  == <<status, cut, itemRow>>
saveVars  == <<job, snap, row>>
vars == <<process, callVars, ctx, worker, finalizer, syncVars, countVars,
          itemVars, saveVars>>

Rows == 0 .. NRows - 1

(* The rows of this batch, and how many they are (job.Total). *)
Batch == lo .. hi - 1
Total == hi - lo

(* NewDispatcher replaces a non-positive concurrency by its default. *)
MaxConcurrency == IF Configured <= 0 THEN 10 ELSE Configured

ItemStatus == {"pending", "searching", "searched", "validated", "conflict"}
Settled    == {"validated", "conflict"}
JobRecord  == [status : {"none", "running", "completed", "failed"},
               completed : Nat]

(* Control points of a worker, in the order it passes them. *)
HoldingPoints == {"spawned", "searching", "searched", "settled", "counted",
                  "persisted", "loaded", "stored", "saving", "saved"}
LivePoints    == HoldingPoints \cup {"released"}
WorkerPoints  == LivePoints \cup {"none", "done"}
CountedPoints == {"counted", "persisted", "loaded", "stored", "saving",
                  "saved", "released", "done"}

Holding == {i \in Rows : worker[i] \in HoldingPoints}
Live    == {i \in Rows : worker[i] \in LivePoints}
Counted == {i \in Rows : worker[i] \in CountedPoints}

NoJob == [status |-> "none", completed |-> 0]

Init ==
  /\ process = "up" /\ caller = "idle" /\ ctx = "live"
  /\ lo = 0 /\ hi = 0 /\ next = 0
  /\ worker = [i \in Rows |-> "none"]
  /\ finalizer = "none"
  /\ sem = 0 /\ wg = 0 /\ completed = 0
  /\ seen = [i \in Rows |-> 0]
  /\ job = NoJob /\ row = NoJob
  /\ snap = [i \in Rows |-> NoJob]
  /\ status = [i \in Rows |-> "pending"]
  /\ itemRow = status
  /\ cut = "no"

(* What a table may hold after a write whose error the code drops. *)
Written(old, new) == IF StoreFails THEN {old, new} ELSE {new}

(* A step of the process that runs the batch. *)
Up == process = "up" /\ process' = process

-------------------------------------------------------------------------------
(* The calling goroutine: SearchBatch itself. *)

ClampStart(startIdx) == IF startIdx < 0 THEN 0 ELSE startIdx
ClampEnd(endIdx) == IF endIdx <= 0 \/ endIdx > NRows THEN NRows ELSE endIdx

(* A range that ends before it starts panics in the slice expression. *)
SlicePanics ==
  /\ Up
  /\ caller = "idle"
  /\ \E s \in StartArgs, e \in EndArgs : ClampStart(s) > ClampEnd(e)
  /\ caller' = "panicked"
  /\ UNCHANGED <<lo, hi, next, ctx, worker, finalizer, syncVars, countVars,
                 itemVars, saveVars>>

(* The job is built as "running" and saved for the first time. *)
CreateJob ==
  /\ Up
  /\ caller = "idle"
  /\ \E s \in StartArgs, e \in EndArgs :
       /\ ClampStart(s) <= ClampEnd(e)
       /\ lo' = ClampStart(s) /\ hi' = ClampEnd(e) /\ next' = ClampStart(s)
  /\ job' = [status |-> "running", completed |-> 0]
  /\ row' \in Written(row, job')
  /\ caller' = "launching"
  /\ UNCHANGED <<ctx, worker, finalizer, syncVars, countVars, itemVars, snap>>

(* One turn of the loop: wg.Add(1), a send on sem that blocks while the     *)
(* channel is full, and the go statement.  wg is first read by wg.Wait      *)
(* after the loop, so the three are one step.                               *)
LaunchUnbounded ==
  /\ Up
  /\ caller = "launching" /\ next < hi
  /\ wg' = wg + 1 /\ sem' = sem + 1
  /\ worker' = [worker EXCEPT ![next] = "spawned"]
  /\ next' = next + 1
  /\ UNCHANGED <<caller, lo, hi, ctx, finalizer, countVars, itemVars, saveVars>>
Launch ==
  /\ Up
  /\ caller = "launching" /\ next < hi
  /\ sem < MaxConcurrency
  /\ wg' = wg + 1 /\ sem' = sem + 1
  /\ worker' = [worker EXCEPT ![next] = "spawned"]
  /\ next' = next + 1
  /\ UNCHANGED <<caller, lo, hi, ctx, finalizer, countVars, itemVars, saveVars>>

(* After the loop the finalizer is started and the job handed back. *)
ReturnJob ==
  /\ Up
  /\ caller = "launching" /\ next = hi
  /\ finalizer' = "waiting"
  /\ caller' = "returned"
  /\ UNCHANGED <<lo, hi, next, ctx, worker, syncVars, countVars, itemVars, saveVars>>

(* net/http cancels a request's context once its handler has returned. *)
CancelCtx ==
  /\ Up
  /\ ReplyCancels
  /\ caller = "returned" /\ ctx = "live"
  /\ ctx' = "cancelled"
  /\ UNCHANGED <<callVars, worker, finalizer, syncVars, countVars, itemVars, saveVars>>

-------------------------------------------------------------------------------
(* The goroutine of item i. *)

Advance(i, from, to) ==
  /\ Up
  /\ worker[i] = from
  /\ worker' = [worker EXCEPT ![i] = to]

(* SearchItem marks the item and starts the providers' searches ... *)
BeginSearch(i) ==
  /\ Advance(i, "spawned", "searching")
  /\ status' = [status EXCEPT ![i] = "searching"]
  /\ UNCHANGED <<callVars, ctx, finalizer, syncVars, countVars, cut, itemRow, saveVars>>

(* ... and marks it again when all have answered.  Those that were still    *)
(* out when ctx was cancelled have answered with its error.                 *)
EndSearch(i) ==
  /\ Advance(i, "searching", "searched")
  /\ status' = [status EXCEPT ![i] = "searched"]
  /\ cut' \in IF ctx = "live" THEN {cut} ELSE {cut, "yes"}
  /\ UNCHANGED <<callVars, ctx, finalizer, syncVars, countVars, itemRow, saveVars>>

(* ValidateItem leaves a verdict, after at most one round of retries. *)
ValidateItem(i) ==
  /\ Advance(i, "searched", "settled")
  /\ \E verdict \in Settled : status' = [status EXCEPT ![i] = verdict]
  /\ UNCHANGED <<callVars, ctx, finalizer, syncVars, countVars, cut, itemRow, saveVars>>

CountCompleted(i) ==
  /\ Advance(i, "settled", "counted")
  /\ completed' = completed + 1
  /\ UNCHANGED <<callVars, ctx, finalizer, syncVars, seen, itemVars, saveVars>>

(* UpdateItemStatus. *)
PersistNothing(i) ==
  /\ Advance(i, "counted", "persisted")
  /\ UNCHANGED <<callVars, ctx, finalizer, syncVars, countVars, itemVars, saveVars>>
PersistItem(i) ==
  /\ Advance(i, "counted", "persisted")
  /\ itemRow' \in Written(itemRow, [itemRow EXCEPT ![i] = status[i]])
  /\ UNCHANGED <<callVars, ctx, finalizer, syncVars, countVars, status, cut, saveVars>>

(* job.Completed = int(completed.Load()): an atomic load, then a plain      *)
(* store another worker may have overtaken.                                 *)
LoadCounter(i) ==
  /\ Advance(i, "persisted", "loaded")
  /\ seen' = [seen EXCEPT ![i] = completed]
  /\ UNCHANGED <<callVars, ctx, finalizer, syncVars, completed, itemVars, saveVars>>

StoreProgressAhead(i) ==
  /\ Advance(i, "loaded", "stored")
  /\ job' = [job EXCEPT !.completed = seen[i] + 1]
  /\ UNCHANGED <<callVars, ctx, finalizer, syncVars, countVars, itemVars, snap, row>>
StoreProgress(i) ==
  /\ Advance(i, "loaded", "stored")
  /\ job' = [job EXCEPT !.completed = seen[i]]
  /\ UNCHANGED <<callVars, ctx, finalizer, syncVars, countVars, itemVars, snap, row>>

(* SaveJob reads the job's fields into the statement's arguments ... *)
ReadJob(i) ==
  /\ Advance(i, "stored", "saving")
  /\ snap' = [snap EXCEPT ![i] = job]
  /\ UNCHANGED <<callVars, ctx, finalizer, syncVars, countVars, itemVars, job, row>>

(* ... and INSERT OR REPLACE writes them. *)
ReplaceRow(i) ==
  /\ Advance(i, "saving", "saved")
  /\ row' \in Written(row, snap[i])
  /\ UNCHANGED <<callVars, ctx, finalizer, syncVars, countVars, itemVars, job, snap>>

(* The deferred calls run last in, first out: the token, then wg.Done. *)
ReleaseNothing(i) ==
  /\ Advance(i, "saved", "released")
  /\ UNCHANGED <<callVars, ctx, finalizer, syncVars, countVars, itemVars, saveVars>>
Release(i) ==
  /\ Advance(i, "saved", "released")
  /\ sem' = sem - 1
  /\ UNCHANGED <<callVars, ctx, finalizer, wg, countVars, itemVars, saveVars>>

ForgetDone(i) ==
  /\ Advance(i, "released", "done")
  /\ UNCHANGED <<callVars, ctx, finalizer, syncVars, countVars, itemVars, saveVars>>
WgDone(i) ==
  /\ Advance(i, "released", "done")
  /\ wg' = wg - 1
  /\ UNCHANGED <<callVars, ctx, finalizer, sem, countVars, itemVars, saveVars>>

-------------------------------------------------------------------------------
(* The finalizer goroutine. *)

(* wg.Wait() returns and the job is marked in memory ... *)
NoWait ==
  /\ Up
  /\ finalizer = "waiting"
  /\ job' = [job EXCEPT !.status = "completed"]
  /\ finalizer' = "marked"
  /\ UNCHANGED <<callVars, ctx, worker, syncVars, countVars, itemVars, snap, row>>
MarkCompleted ==
  /\ Up
  /\ finalizer = "waiting" /\ wg = 0
  /\ job' = [job EXCEPT !.status = "completed"]
  /\ finalizer' = "marked"
  /\ UNCHANGED <<callVars, ctx, worker, syncVars, countVars, itemVars, snap, row>>

(* ... then its counters are brought up to date ... *)
FinalCounts ==
  /\ Up
  /\ finalizer = "marked"
  /\ job' = [job EXCEPT !.completed = completed]
  /\ finalizer' = "counted"
  /\ UNCHANGED <<callVars, ctx, worker, syncVars, countVars, itemVars, snap, row>>

(* ... and the job is saved for the last time. *)
FinalSave ==
  /\ Up
  /\ finalizer = "counted"
  /\ row' \in Written(row, job)
  /\ finalizer' = "finished"
  /\ UNCHANGED <<callVars, ctx, worker, syncVars, countVars, itemVars, job, snap>>

-------------------------------------------------------------------------------
(* The process, and the next one on the same database. *)

Crash ==
  /\ process = "up"
  /\ process' = "down"
  /\ UNCHANGED <<callVars, ctx, worker, finalizer, syncVars, countVars, itemVars, saveVars>>

(* NewSQLiteStore runs cleanupStaleJobs before anything else uses the store. *)
Restart ==
  /\ process = "down"
  /\ process' = "restarted"
  /\ row' \in IF row.status = "running"
              THEN Written(row, [row EXCEPT !.status = "failed"])
              ELSE {row}
  /\ UNCHANGED <<callVars, ctx, worker, finalizer, syncVars, countVars, itemVars, job, snap>>

(* So does a second process, started on the same file while this one works. *)
FailAnyJob ==
  /\ Up
  /\ SecondProcess
  /\ row.status # "none"
  /\ row' \in Written(row, [row EXCEPT !.status = "failed"])
  /\ UNCHANGED <<callVars, ctx, worker, finalizer, syncVars, countVars, itemVars, job, snap>>
OtherStarts ==
  /\ Up
  /\ SecondProcess
  /\ row.status = "running"
  /\ row' \in Written(row, [row EXCEPT !.status = "failed"])
  /\ UNCHANGED <<callVars, ctx, worker, finalizer, syncVars, countVars, itemVars, job, snap>>

CallerStep == SlicePanics \/ CreateJob \/ Launch \/ ReturnJob
WorkerStep(i) ==
  \/ BeginSearch(i) \/ EndSearch(i) \/ ValidateItem(i)
  \/ CountCompleted(i) \/ PersistItem(i)
  \/ LoadCounter(i) \/ StoreProgress(i) \/ ReadJob(i) \/ ReplaceRow(i)
  \/ Release(i) \/ WgDone(i)
FinalizerStep == MarkCompleted \/ FinalCounts \/ FinalSave

(* The batch is over: nothing of it is left to run. *)
Over ==
  /\ \/ process = "restarted"
     \/ caller = "panicked"
     \/ finalizer = "finished"
  /\ UNCHANGED vars

Next ==
  \/ CallerStep
  \/ \E i \in Rows : WorkerStep(i)
  \/ FinalizerStep
  \/ CancelCtx
  \/ Crash
  \/ Restart
  \/ OtherStarts
  \/ Over

(* Every goroutine that can run is eventually run; a search returns because *)
(* each provider's http.Client has a timeout.  Neither a crash nor a        *)
(* restart nor a second process is ever certain.                            *)
Fairness ==
  /\ WF_vars(CallerStep)
  /\ \A i \in Rows : WF_vars(WorkerStep(i))
  /\ WF_vars(FinalizerStep)

Spec == Init /\ [][Next]_vars /\ Fairness

-------------------------------------------------------------------------------
(* Properties. *)

TypeOK ==
  /\ process \in {"up", "down", "restarted"}
  /\ caller \in {"idle", "panicked", "launching", "returned"}
  /\ lo \in 0 .. NRows /\ hi \in 0 .. NRows /\ next \in lo .. hi
  /\ ctx \in {"live", "cancelled"}
  /\ worker \in [Rows -> WorkerPoints]
  /\ finalizer \in {"none", "waiting", "marked", "counted", "finished"}
  /\ sem \in Int /\ wg \in Int /\ completed \in Nat
  /\ seen \in [Rows -> Nat]
  /\ job \in JobRecord /\ row \in JobRecord
  /\ snap \in [Rows -> JobRecord]
  /\ status \in [Rows -> ItemStatus]
  /\ itemRow \in [Rows -> ItemStatus]
  /\ cut \in {"no", "yes"}

(* The channel holds exactly one token for every row some goroutine is      *)
(* working on, so never more than MaxConcurrency rows are searched at once  *)
(* however the caller's sends and the workers' deferred receives interleave *)
(* (sem <- struct{}{} and defer <-sem in SearchBatch).                      *)
PermitsBoundWorkers ==
  /\ sem = Cardinality(Holding)
  /\ sem <= MaxConcurrency

(* A job the store calls "completed" counts every row of its batch, and     *)
(* each of them is persisted with the verdict it has in memory: wg.Wait()   *)
(* orders the last SaveJob after every worker's UpdateItemStatus and        *)
(* SaveJob.                                                                 *)
CompletedMeansSettled ==
  row.status = "completed" =>
    /\ row.completed = Total
    /\ \A i \in Batch : status[i] \in Settled
    /\ ~StoreFails => \A i \in Batch : itemRow[i] = status[i]

(* The progress a reader of the jobs table sees never runs ahead of the     *)
(* rows that are done, though every worker writes the shared job without a  *)
(* lock and saves fields another worker may have changed since.             *)
RowNeverOverstates ==
  /\ row.completed <= completed
  /\ completed = Cardinality(Counted)

(* The record of a completed job is never written again: neither a worker's *)
(* late INSERT OR REPLACE of an older state nor the clean-up of a later     *)
(* start, or of another process, changes it.                                *)
CompletedIsFinal == [][row.status = "completed" => row' = row]_row

(* After a restart no job is left "running": every row of jobs a crash cut  *)
(* short has been turned into "failed" by cleanupStaleJobs.  It needs a     *)
(* clean-up whose own UPDATE succeeds.                                      *)
RestartLeavesNoneRunning ==
  (process = "restarted" /\ ~StoreFails) => row.status # "running"

(* A search_batch that has created its job ends, when the process lives,    *)
(* with the job "completed" in the store: no goroutine waits for ever on    *)
(* the semaphore or on the WaitGroup, and a clean-up that took the live job *)
(* for a stale one is repaired by the saves that follow it.                 *)
JobTerminates ==
  caller = "launching" ~> (row.status = "completed" \/ process # "up")

(* The batch implements BatchJob: a row is active while its goroutine holds *)
(* a token and finished once it has given it back.                          *)
Finished == {i \in Rows : worker[i] \in {"released", "done"}}
Job == INSTANCE BatchJob WITH
  Rows <- Rows,
  Bound <- MaxConcurrency,
  Shared <- SecondProcess,
  opened <- caller \in {"launching", "returned"},
  chosen <- Batch,
  active <- Holding,
  finished <- Finished,
  record <- row.status,
  alive <- process = "up"
ImplementsBatchJob == Job!Spec

(* The inductive invariant behind the safety properties, in named parts.     *)

(* The counters count goroutines.                                           *)
CountersCount ==
  /\ sem = Cardinality(Holding) /\ sem <= MaxConcurrency
  /\ wg = Cardinality(Live)
  /\ completed = Cardinality(Counted)

(* Goroutines exist for exactly the rows the loop has passed, and the       *)
(* finalizer only after the loop.                                           *)
LaunchedInOrder ==
  /\ \A i \in Rows : worker[i] # "none" <=> (lo <= i /\ i < next)
  /\ caller \in {"idle", "panicked"} => hi = 0 /\ row.status = "none"
  /\ caller = "returned" => next = hi
  /\ caller = "returned" <=> finalizer # "none"

(* The shared job is "running" as long as some goroutine of the batch can   *)
(* save it, and so is what a worker is about to save.                       *)
JobRunsWithWorkers ==
  /\ (caller = "launching" \/ finalizer = "waiting") => job.status = "running"
  /\ finalizer \in {"marked", "counted", "finished"} =>
        wg = 0 /\ job.status = "completed"
  /\ finalizer \in {"counted", "finished"} => job.completed = completed
  /\ \A i \in Rows : worker[i] = "saving" => snap[i].status = "running"

(* No copy of the counter is ahead of it.                                   *)
CopiesLag ==
  /\ job.completed <= completed /\ row.completed <= completed
  /\ \A i \in Rows : seen[i] <= completed /\ snap[i].completed <= completed

(* A goroutine past ValidateItem leaves a verdict, and past                 *)
(* UpdateItemStatus a persisted one.                                        *)
VerdictsKept ==
  \A i \in Rows :
    /\ worker[i] \in CountedPoints \cup {"settled"} => status[i] \in Settled
    /\ (~StoreFails /\ worker[i] \in CountedPoints \ {"counted"}) =>
          itemRow[i] = status[i]

(* Who can have written what the store says of the job.                     *)
RecordHasAuthor ==
  /\ row.status = "completed" =>
        finalizer = "finished" /\ row.completed = completed
  /\ row.status = "failed" => process = "restarted" \/ SecondProcess
  /\ (process = "restarted" /\ ~StoreFails) => row.status # "running"

Inductive ==
  /\ TypeOK
  /\ CountersCount
  /\ LaunchedInOrder
  /\ JobRunsWithWorkers
  /\ CopiesLag
  /\ VerdictsKept
  /\ RecordHasAuthor

(* What the code's comments and the tools' descriptions lead to expect.     *)

(* "Batch search started": no search of the batch is cut short because the  *)
(* request that started it has been answered.                               *)
SearchesOutliveReply == cut = "no"
===============================================================================
