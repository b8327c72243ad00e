------------------------------- MODULE BatchJob -------------------------------
(***************************************************************************)
(* What a batch search promises, without its goroutines, its semaphore, its *)
(* WaitGroup and its counters: a set of rows is chosen once, at most Bound  *)
(* of them are worked on at a time, each is worked on once, and the job's   *)
(* record in the store says "completed" only after every chosen row has     *)
(* been finished.  The process may die at any point; a later start of the   *)
(* program then turns a record left "running" into "failed".  A start of    *)
(* another process on the same store does that to a live batch as well,     *)
(* whose own reports then overwrite it.                                     *)
(***************************************************************************)
EXTENDS Integers, FiniteSets

CONSTANTS
  Rows,     \* the rows of the table
  Bound,    \* how many rows may be worked on at a time
  Shared    \* may another process be started on the same store?

VARIABLES
  opened,   \* has a batch been started?
  chosen,   \* the rows of the batch
  active,   \* rows being worked on
  finished, \* rows whose work is over
  record,   \* status of the job in the store, "none" while there is no record
  alive     \* is the process that runs the batch alive?

vars == <<opened, chosen, active, finished, record, alive>>

RecordStatus == {"none", "running", "completed", "failed"}

Init ==
  /\ opened = FALSE
  /\ chosen = {} /\ active = {} /\ finished = {}
  /\ record = "none"
  /\ alive = TRUE

(* The batch is opened on some rows; its record may fail to reach the store. *)
Open ==
  /\ alive /\ ~opened
  /\ opened' = TRUE
  /\ chosen' \in SUBSET Rows
  /\ record' \in {"none", "running"}
  /\ UNCHANGED <<active, finished, alive>>

Begin(r) ==
  /\ alive
  /\ r \in chosen \ (active \cup finished)
  /\ Cardinality(active) < Bound
  /\ active' = active \cup {r}
  /\ UNCHANGED <<opened, chosen, finished, record, alive>>

End(r) ==
  /\ alive
  /\ r \in active
  /\ active' = active \ {r}
  /\ finished' = finished \cup {r}
  /\ UNCHANGED <<opened, chosen, record, alive>>

(* A progress record is written while some row is still being worked on. *)
Report ==
  /\ alive /\ active # {}
  /\ record # "completed"
  /\ record' = "running"
  /\ UNCHANGED <<opened, chosen, active, finished, alive>>

Complete ==
  /\ alive /\ opened
  /\ finished = chosen
  /\ record' = "completed"
  /\ UNCHANGED <<opened, chosen, active, finished, alive>>

Die ==
  /\ alive
  /\ alive' = FALSE
  /\ UNCHANGED <<opened, chosen, active, finished, record>>

(* A later start of the program cleans up what a dead one left behind, and  *)
(* what a live one is still working on.                                     *)
CleanUp ==
  /\ record = "running"
  /\ ~alive \/ Shared
  /\ record' = "failed"
  /\ UNCHANGED <<opened, chosen, active, finished, alive>>

Next ==
  \/ Open
  \/ \E r \in Rows : Begin(r) \/ End(r)
  \/ Report
  \/ Complete
  \/ Die
  \/ CleanUp

Spec == Init /\ [][Next]_vars
===============================================================================
