-------------------------------- MODULE Server --------------------------------
(***************************************************************************)
(* The tools of the MCP server over several tables (internal/tools) and the *)
(* SQLite tables they share: h.Tables in memory, research_tables,           *)
(* research_items and embeddings on disk, over restarts of the process.     *)
(*                                                                         *)
(* A call works on one row: search_batch, validate and voyage_store with    *)
(* several rows are as many calls.  What a search finds and how it is       *)
(* judged is ResearchItem's; here a verdict may be any.  The id of a row    *)
(* is its position ("row_%d"), the id of a table the number of its load     *)
(* (LoadTable takes the clock's nanoseconds, which are taken not to repeat).*)
(* The code keeps no count of the loads: loads is a history the properties  *)
(* refer to (the loads that had returned before each, whether it has        *)
(* returned, and which of its writes failed), and size the length of the    *)
(* data.                                                                    *)
(***************************************************************************)
EXTENDS Integers, Sequences

CONSTANTS
  Callers,      \* goroutines that handle tool calls, workers of batches included
  MaxTables,    \* bound on the number of loads
  MaxRows,      \* bound on the rows of a table
  Sizes,        \* how many rows each load may bring
  MayFail,      \* the writes to SQLite that may fail
  NoRow         \* an absent row of research_items

TableIds == 1 .. MaxTables
RowIds   == 1 .. MaxRows

ItemStatus == {"pending", "searching", "searched", "validated", "conflict", "done"}
ItemRow == [table : TableIds, of : TableIds, status : ItemStatus]

ASSUME ServerAssumption ==
  /\ MaxTables \in Nat /\ MaxRows \in Nat
  /\ Sizes \in [1 .. MaxTables -> SUBSET (0 .. MaxRows)]
  /\ MayFail \subseteq {"table", "item", "update", "embedding"}
  /\ NoRow \notin ItemRow

VARIABLES
  tables,    \* h.Tables: the Status of each item, by table id and row
  call,      \* what each caller is doing
  tableRows, \* the ids in research_tables
  itemRow,   \* research_items by its primary key, which is the row id alone
  embedded,  \* the ids in embeddings, "<table>_<row>"
  loads      \* every load_table that got past its arguments

store == <<tableRows, itemRow, embedded>>
vars  == <<tables, call, store, loads>>

Idle == [at |-> "idle", table |-> 0, row |-> 0, copy |-> "pending"]

Init ==
  /\ tables = <<>>
  /\ call = [c \in Callers |-> Idle]
  /\ tableRows = {} /\ embedded = {}
  /\ itemRow = [r \in RowIds |-> NoRow]
  /\ loads = <<>>

(* What is on disk after a write whose error the code drops. *)
Written(write, old, new) == IF write \in MayFail THEN {old, new} ELSE {new}

Move(c, to) == call' = [call EXCEPT ![c].at = to]
Return(c)   == call' = [call EXCEPT ![c] = Idle]

(* The row the call of c is about, in memory. *)
Status(c) == tables[call[c].table][call[c].row]
SetStatus(c, s) == tables' = [tables EXCEPT ![call[c].table][call[c].row] = s]

-------------------------------------------------------------------------------
(* load_table. *)

Returned == {t \in 1 .. Len(loads) : loads[t].returned}

(* The rows are built and the table is made visible to the other tools. *)
SetTable(c) ==
  /\ call[c].at = "idle" /\ Len(loads) < MaxTables
  /\ LET t == Len(loads) + 1 IN
     \E n \in Sizes[t] :
       /\ tables' = [u \in DOMAIN tables \cup {t} |->
                       IF u = t THEN [r \in 1 .. n |-> "pending"] ELSE tables[u]]
       /\ loads' = Append(loads, [size |-> n, before |-> Returned, returned |-> FALSE, lost |-> {}])
       /\ call' = [call EXCEPT ![c] = [Idle EXCEPT !.at = "table", !.table = t, !.row = 1]]
  /\ UNCHANGED store

(* A write of the load of c may fail, and its error is dropped: 0 stands    *)
(* for the row of the table, and any other number for that item's.          *)
MayLose(c, write, w) ==
  /\ write \in MayFail
  /\ loads' = [loads EXCEPT ![call[c].table].lost = @ \cup {w}]

SkipTable(c) ==
  /\ call[c].at = "table"
  /\ Move(c, "item")
  /\ UNCHANGED <<tables, store, loads>>
SaveTable(c) ==
  /\ call[c].at = "table"
  /\ \/ tableRows' = tableRows \cup {call[c].table} /\ UNCHANGED loads
     \/ MayLose(c, "table", 0) /\ UNCHANGED tableRows
  /\ Move(c, "item")
  /\ UNCHANGED <<tables, itemRow, embedded>>

(* SaveItem reads the item, which a call on the new table may be changing, *)
(* into the statement's arguments ...                                      *)
ReadNewItem(c) ==
  /\ call[c].at = "item"
  /\ call[c].row <= loads[call[c].table].size
  /\ call' = [call EXCEPT ![c].at = "insert", ![c].copy = Status(c)]
  /\ UNCHANGED <<tables, store, loads>>

NewRow(c) == [table |-> call[c].table, of |-> call[c].table, status |-> call[c].copy]
NextRow(c) == call' = [call EXCEPT ![c].at = "item", ![c].row = @ + 1]

(* ... and INSERT OR REPLACE puts it in the place of any row with its id.  *)
InsertOrIgnore(c) ==
  /\ call[c].at = "insert"
  /\ itemRow' = IF itemRow[call[c].row] = NoRow
                THEN [itemRow EXCEPT ![call[c].row] = NewRow(c)]
                ELSE itemRow
  /\ NextRow(c)
  /\ UNCHANGED <<tables, tableRows, embedded, loads>>
SaveItem(c) ==
  /\ call[c].at = "insert"
  /\ \/ itemRow' = [itemRow EXCEPT ![call[c].row] = NewRow(c)] /\ UNCHANGED loads
     \/ MayLose(c, "item", call[c].row) /\ UNCHANGED itemRow
  /\ NextRow(c)
  /\ UNCHANGED <<tables, tableRows, embedded>>

EndOneEarly(c) ==
  /\ call[c].at = "item"
  /\ call[c].row >= loads[call[c].table].size
  /\ loads' = [loads EXCEPT ![call[c].table].returned = TRUE]
  /\ Return(c)
  /\ UNCHANGED <<tables, store>>
EndLoad(c) ==
  /\ call[c].at = "item"
  /\ call[c].row > loads[call[c].table].size
  /\ loads' = [loads EXCEPT ![call[c].table].returned = TRUE]
  /\ Return(c)
  /\ UNCHANGED <<tables, store>>

-------------------------------------------------------------------------------
(* The tools on a row.  getTable and GetItem answer nothing for a table or  *)
(* a row that is not in memory, and the call returns.                       *)

Take(c, to, t, r) == call' = [call EXCEPT ![c] = [Idle EXCEPT !.at = to, !.table = t, !.row = r]]

(* search_row, or a worker of search_batch. *)
SearchRow(c) ==
  /\ call[c].at = "idle"
  /\ \E t \in DOMAIN tables : \E r \in DOMAIN tables[t] :
       /\ tables' = [tables EXCEPT ![t][r] = "searching"]
       /\ Take(c, "searching", t, r)
  /\ UNCHANGED <<store, loads>>

EndSearch(c) ==
  /\ call[c].at = "searching"
  /\ SetStatus(c, "searched")
  /\ Move(c, "judging")
  /\ UNCHANGED <<store, loads>>

(* validate takes the rows that have been searched or are in conflict. *)
Validate(c) ==
  /\ call[c].at = "idle"
  /\ \E t \in DOMAIN tables : \E r \in DOMAIN tables[t] :
       /\ tables[t][r] \in {"searched", "conflict"}
       /\ Take(c, "judging", t, r)
  /\ UNCHANGED <<tables, store, loads>>

ValidateItem(c) ==
  /\ call[c].at = "judging"
  /\ \E verdict \in {"validated", "conflict"} : SetStatus(c, verdict)
  /\ Move(c, "update")
  /\ UNCHANGED <<store, loads>>

(* voyage_store takes the validated rows; its request to Voyage may fail. *)
VoyageStore(c) ==
  /\ call[c].at = "idle"
  /\ \E t \in DOMAIN tables : \E r \in DOMAIN tables[t] :
       /\ tables[t][r] \in {"validated", "done"}
       /\ Take(c, "embedding", t, r)
  /\ UNCHANGED <<tables, store, loads>>

EmbedFails(c) ==
  /\ call[c].at = "embedding"
  /\ Return(c)
  /\ UNCHANGED <<tables, store, loads>>

(* A row whose embedding cannot be saved is passed over. *)
SaveAndGoOn(c) ==
  /\ call[c].at = "embedding"
  /\ embedded' \in Written("embedding", embedded, embedded \cup {<<call[c].table, call[c].row>>})
  /\ Move(c, "marking")
  /\ UNCHANGED <<tables, tableRows, itemRow, loads>>
SaveEmbedding(c) ==
  /\ call[c].at = "embedding"
  /\ \/ /\ embedded' = embedded \cup {<<call[c].table, call[c].row>>}
        /\ Move(c, "marking")
     \/ /\ "embedding" \in MayFail
        /\ Return(c)
        /\ UNCHANGED embedded
  /\ UNCHANGED <<tables, tableRows, itemRow, loads>>

MarkDone(c) ==
  /\ call[c].at = "marking"
  /\ SetStatus(c, "done")
  /\ Move(c, "update")
  /\ UNCHANGED <<store, loads>>

(* UpdateItemStatus, with which each of them ends, reads the item ... *)
ReadItem(c) ==
  /\ call[c].at = "update"
  /\ call' = [call EXCEPT ![c].at = "updating", ![c].copy = Status(c)]
  /\ UNCHANGED <<tables, store, loads>>

(* ... and updates the row with its id, if there is one. *)
Updated(c) ==
  LET r == call[c].row IN
  IF itemRow[r] = NoRow THEN itemRow
  ELSE [itemRow EXCEPT ![r].of = call[c].table, ![r].status = call[c].copy]
UpdateItemStatus(c) ==
  /\ call[c].at = "updating"
  /\ itemRow' \in Written("update", itemRow, Updated(c))
  /\ Return(c)
  /\ UNCHANGED <<tables, tableRows, embedded, loads>>

-------------------------------------------------------------------------------
(* The process dies and a new one opens the database: no table is read back. *)
Restart ==
  /\ tables' = <<>>
  /\ call' = [c \in Callers |-> Idle]
  /\ UNCHANGED <<store, loads>>

Load(c)   == SetTable(c) \/ SaveTable(c) \/ ReadNewItem(c) \/ SaveItem(c) \/ EndLoad(c)
Search(c) == SearchRow(c) \/ EndSearch(c) \/ Validate(c) \/ ValidateItem(c)
Voyage(c) == VoyageStore(c) \/ EmbedFails(c) \/ SaveEmbedding(c) \/ MarkDone(c)
Update(c) == ReadItem(c) \/ UpdateItemStatus(c)

Next ==
  \/ \E c \in Callers : Load(c) \/ Search(c) \/ Voyage(c) \/ Update(c)
  \/ Restart

Spec == Init /\ [][Next]_vars
-------------------------------------------------------------------------------
(* Properties. *)

Points == {"idle", "table", "item", "insert", "searching", "judging",
           "embedding", "marking", "update", "updating"}
LoadPoints == {"table", "item", "insert"}
RowPoints  == Points \ (LoadPoints \cup {"idle"})

CallRecord == [at : Points, table : 0 .. MaxTables, row : Nat, copy : ItemStatus]
LoadRecord == [size : 0 .. MaxRows, before : SUBSET TableIds, returned : BOOLEAN,
               lost : SUBSET (0 .. MaxRows)]

Begun == 1 .. Len(loads)

TypeOK ==
  /\ loads \in Seq(LoadRecord)
  /\ Len(loads) <= MaxTables
  /\ DOMAIN tables \subseteq Begun
  /\ \A t \in DOMAIN tables : tables[t] \in [1 .. loads[t].size -> ItemStatus]
  /\ call \in [Callers -> CallRecord]
  /\ \A c \in Callers : call[c].at # "idle" =>
       call[c].table \in DOMAIN tables /\ call[c].row >= 1
  /\ \A c \in Callers : call[c].at \in RowPoints \cup {"insert"} =>
       call[c].row \in 1 .. loads[call[c].table].size
  /\ tableRows \subseteq Begun
  /\ itemRow \in [RowIds -> ItemRow \cup {NoRow}]
  /\ embedded \subseteq TableIds \X RowIds

(* What LoadItems answers for a table: the rows that name it. *)
LoadItems(t) == {r \in RowIds : itemRow[r] # NoRow /\ itemRow[r].table = t}

(* A row of research_items refers to a table that is not in research_tables *)
(* only where that table's own SaveTable has failed: no overlapping load,   *)
(* no row taken over and no death of the process between two statements of  *)
(* a load leaves one without its table.                                     *)
HasTable(t) == t \in tableRows \/ (t \in Begun /\ 0 \in loads[t].lost)
RowsHaveTables == \A r \in RowIds : itemRow[r] # NoRow => HasTable(itemRow[r].table)

(* What the schema declares (sqlite.go:64): the table of every row exists.  *)
(* LoadTable drops the error of SaveTable and saves the items all the same, *)
(* and SQLite is not asked to enforce the key.                              *)
ForeignKeyHolds == \A r \in RowIds : itemRow[r] # NoRow => itemRow[r].table \in tableRows

(* After a load has returned each of its rows whose SaveItem did not fail   *)
(* (load.go:74 drops the error of one that did) is in research_items, under *)
(* its own table or under one whose load returned no earlier than this one  *)
(* began: neither the calls that work on the rows meanwhile nor a restart   *)
(* loses one, and what was there before is replaced.                        *)
InStore(t, r) == \E u \in Begun \ loads[t].before : r \in LoadItems(u)
LoadsPersist ==
  \A t \in Returned : \A r \in 1 .. loads[t].size : r \in loads[t].lost \/ InStore(t, r)

(* An item is "done", in memory or on disk, only if its embedding is        *)
(* stored, whichever writes fail and whichever table's row its status has   *)
(* been written to.                                                         *)
DoneIsEmbedded ==
  /\ \A t \in DOMAIN tables : \A r \in DOMAIN tables[t] :
       tables[t][r] = "done" => <<t, r>> \in embedded
  /\ \A r \in RowIds :
       itemRow[r] # NoRow /\ itemRow[r].status = "done" => <<itemRow[r].of, r>> \in embedded

(* "UpdateItemStatus updates just the status and results of an item": the   *)
(* row of one table never holds the status of another table's item.         *)
RowsHoldTheirItems ==
  \A r \in RowIds : itemRow[r] # NoRow => itemRow[r].of = itemRow[r].table

(* The inductive invariant, in named parts.                                 *)

(* A load began after those that had returned, and one caller runs it.      *)
LoadsInOrder ==
  /\ \A t \in Begun : loads[t].before \subseteq Returned
  /\ \A c \in Callers : call[c].at \in LoadPoints =>
       /\ ~loads[call[c].table].returned
       /\ \A d \in Callers : call[d].at \in LoadPoints /\ call[d].table = call[c].table => d = c

(* A load has written its table, or failed to, before its first row.        *)
TableBeforeItems ==
  \A c \in Callers : call[c].at \in {"item", "insert"} => HasTable(call[c].table)

(* The rows a load has got past are there already, or their writes failed.  *)
SavedSoFar ==
  \A c \in Callers : call[c].at \in LoadPoints =>
    \A r \in 1 .. call[c].row - 1 :
      r \in loads[call[c].table].lost \/ InStore(call[c].table, r)

EmbeddedBeforeDone ==
  \A c \in Callers :
    \/ call[c].at = "marking"
    \/ call[c].at \in {"insert", "updating"} /\ call[c].copy = "done"
    => <<call[c].table, call[c].row>> \in embedded

Inductive ==
  /\ TypeOK /\ LoadsInOrder /\ TableBeforeItems /\ SavedSoFar /\ EmbeddedBeforeDone
  /\ RowsHaveTables /\ LoadsPersist /\ DoneIsEmbedded
===============================================================================
