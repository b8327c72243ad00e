------------------------------ MODULE BatchRunner ------------------------------
(***************************************************************************)
(* The command cmd/batch/main.go: its main goroutine calls SearchBatch on   *)
(* the whole table, polls the shared job's Status, reports the rows and     *)
(* exits, which ends every goroutine of Dispatcher wherever it is.          *)
(*                                                                         *)
(* main reads the job and the items without synchronization.  A torn read   *)
(* of the string job.Status is not "running" either, so it counts as seen   *)
(* completed; stores are taken to become visible in program order, as they  *)
(* do on amd64.                                                             *)
(*                                                                         *)
(* Its table is never saved, so UpdateItemStatus finds no row to update,    *)
(* which is what a write that fails leaves: StoreFails stands for both.     *)
(***************************************************************************)
EXTENDS Dispatcher

VARIABLES
  main,     \* control point of the main goroutine
  report    \* the rows whose status the report shows

mainVars   == <<main, report>>
runnerVars == <<vars, mainVars>>

(* What main reports of a row it has not read yet. *)
Unread == [i \in Rows |-> "pending"]

RunnerInit ==
  /\ Init
  /\ main = "calling"
  /\ report = Unread

(* The loop tests job.Status between two sleeps.                            *)
ReportAtOnce ==
  /\ process = "up"
  /\ main = "calling" /\ caller = "returned"
  /\ main' = "waited"
  /\ UNCHANGED <<vars, report>>
SeeCompleted ==
  /\ process = "up"
  /\ main = "calling" /\ caller = "returned"
  /\ job.status # "running"
  /\ main' = "waited"
  /\ UNCHANGED <<vars, report>>

(* The report has one line per row of the table, as it is in memory.        *)
WriteReport ==
  /\ process = "up"
  /\ main = "waited"
  /\ report' = status
  /\ main' = "reported"
  /\ UNCHANGED vars

(* main returns: store.Close(), which lets a statement under way finish and *)
(* refuses the later ones, and the process ends.                            *)
Exit ==
  /\ Crash
  /\ main = "reported"
  /\ main' = "exited"
  /\ UNCHANGED report

MainStep == SeeCompleted \/ WriteReport \/ Exit

RunnerNext ==
  \/ MainStep
  \/ Next /\ UNCHANGED mainVars

RunnerSpec ==
  RunnerInit /\ [][RunnerNext]_runnerVars /\ Fairness /\ WF_runnerVars(MainStep)

-------------------------------------------------------------------------------
(* Properties. *)

RunnerTypeOK ==
  /\ main \in {"calling", "waited", "reported", "exited"}
  /\ report \in [Rows -> ItemStatus]

(* The report shows a verdict for every row of the batch: what main has     *)
(* seen of job.Status orders its reads after every worker's last write to   *)
(* its item, although main itself waits on nothing but that field.          *)
ReportIsSettled ==
  main \in {"reported", "exited"} =>
    /\ \A i \in Batch : report[i] \in Settled
    /\ report = status

(* The runner comes to an end: it exits by itself unless it crashes.        *)
RunnerExits == caller = "launching" ~> process # "up"

(* Past the loop, main has seen the end of every goroutine but the          *)
(* finalizer.                                                               *)
PastTheLoop ==
  main # "calling" => finalizer \in {"marked", "counted", "finished"}

RunnerInductive == RunnerTypeOK /\ PastTheLoop /\ ReportIsSettled
===============================================================================
