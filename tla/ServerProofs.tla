----------------------------- MODULE ServerProofs -----------------------------
(***************************************************************************)
(* Theorems about Server, for any callers, loads and failing writes.        *)
(***************************************************************************)
EXTENDS Server, SequenceTheorems, TLAPS

LEMMA LoadFacts ==
  ASSUME TypeOK
  PROVE  /\ Len(loads) \in 0 .. MaxTables /\ MaxTables \in Nat /\ MaxRows \in Nat
         /\ Begun \subseteq TableIds
         /\ \A t \in Begun : loads[t] \in LoadRecord
         /\ \A t \in Begun : loads[t].size \in Nat /\ 1 .. loads[t].size \subseteq RowIds
<1>1. loads \in Seq(LoadRecord) /\ Len(loads) \in Nat /\ Len(loads) <= MaxTables
  BY DEF TypeOK
<1>2. MaxTables \in Nat /\ MaxRows \in Nat
  BY ServerAssumption
<1>3. \A t \in Begun : loads[t] \in LoadRecord
  BY <1>1 DEF Begun
<1>4. \A t \in Begun : loads[t].size \in 0 .. MaxRows
  BY <1>3 DEF LoadRecord
<1> QED BY <1>1, <1>2, <1>3, <1>4 DEF Begun, TableIds, RowIds

LEMMA InitIsInductive == Init => Inductive
<1> SUFFICES ASSUME Init PROVE Inductive
  OBVIOUS
<1>1. Len(loads) = 0 /\ loads \in Seq(LoadRecord) /\ Begun = {} /\ DOMAIN tables = {}
  BY DEF Init, Begun
<1>2. \A c \in Callers : call[c] = Idle
  BY DEF Init
<1>3. call \in [Callers -> CallRecord]
  BY ServerAssumption DEF Init, Idle, CallRecord, Points, ItemStatus
<1>4. \A r \in RowIds : itemRow[r] = NoRow
  BY DEF Init
<1>5. TypeOK
  BY <1>1, <1>2, <1>3, ServerAssumption DEF TypeOK, Init, Idle, RowPoints, LoadPoints, Points
<1>6. Returned = {}
  BY <1>1 DEF Returned
<1>7. LoadsInOrder /\ TableBeforeItems /\ SavedSoFar /\ EmbeddedBeforeDone
  BY <1>1, <1>2 DEF LoadsInOrder, TableBeforeItems, SavedSoFar, EmbeddedBeforeDone, Idle, LoadPoints
<1>8. RowsHaveTables /\ LoadsPersist /\ DoneIsEmbedded
  BY <1>1, <1>4, <1>6 DEF RowsHaveTables, LoadsPersist, DoneIsEmbedded
<1> QED BY <1>5, <1>7, <1>8 DEF Inductive

-------------------------------------------------------------------------------
(* Steps that write nothing to the store.                                   *)

(* A caller moves, or an item it works on changes, without a write.         *)
LEMMA QuietStep ==
  ASSUME Inductive, NEW c \in Callers,
         tableRows' = tableRows, itemRow' = itemRow, embedded' = embedded, loads' = loads,
         call' \in [Callers -> CallRecord],
         \A d \in Callers : d # c => call'[d] = call[d],
         DOMAIN tables' = DOMAIN tables,
         \A t \in DOMAIN tables : tables'[t] \in [1 .. loads[t].size -> ItemStatus],
         \A t \in DOMAIN tables : \A r \in 1 .. loads[t].size :
            tables'[t][r] = "done" => tables[t][r] = "done" \/ <<t, r>> \in embedded,
         call'[c].at # "idle" => call'[c].table \in DOMAIN tables /\ call'[c].row >= 1,
         call'[c].at \in RowPoints \cup {"insert"} =>
            call'[c].row \in 1 .. loads[call'[c].table].size,
         call'[c].at \in LoadPoints =>
            /\ call[c].at \in LoadPoints
            /\ call'[c].table = call[c].table /\ call'[c].row = call[c].row,
         call'[c].at \in {"item", "insert"} => call[c].at \in {"item", "insert"},
         \/ call'[c].at = "marking"
         \/ call'[c].at \in {"insert", "updating"} /\ call'[c].copy = "done"
         => <<call'[c].table, call'[c].row>> \in embedded
  PROVE  Inductive'
<1> USE DEF Inductive
<1>1. /\ Begun' = Begun /\ Returned' = Returned
      /\ \A u, q : InStore(u, q)' = InStore(u, q)
      /\ \A u : HasTable(u)' = HasTable(u)
  BY DEF Begun, Returned, LoadItems, InStore, HasTable
<1>2. TypeOK'
  <2>1. \A d \in Callers : call'[d].at # "idle" => call'[d].table \in DOMAIN tables' /\ call'[d].row >= 1
    BY DEF TypeOK
  <2>2. \A d \in Callers : call'[d].at \in RowPoints \cup {"insert"} =>
          call'[d].row \in 1 .. loads'[call'[d].table].size
    BY DEF TypeOK
  <2>3. /\ DOMAIN tables' \subseteq Begun'
        /\ \A t \in DOMAIN tables' : tables'[t] \in [1 .. loads'[t].size -> ItemStatus]
    BY <1>1 DEF TypeOK
  <2>4. /\ loads' \in Seq(LoadRecord) /\ Len(loads') <= MaxTables
        /\ tableRows' \subseteq Begun' /\ itemRow' \in [RowIds -> ItemRow \cup {NoRow}]
        /\ embedded' \subseteq TableIds \X RowIds
    BY <1>1 DEF TypeOK
  <2> QED BY <2>1, <2>2, <2>3, <2>4 DEF TypeOK
<1>3. LoadsInOrder'
  <2>1. \A d \in Callers : call'[d].at \in LoadPoints =>
          call[d].at \in LoadPoints /\ call'[d].table = call[d].table
    OBVIOUS
  <2> QED BY <1>1, <2>1 DEF LoadsInOrder
<1>4. TableBeforeItems'
  <2>1. \A d \in Callers : call'[d].at \in {"item", "insert"} =>
          call[d].at \in {"item", "insert"} /\ call'[d].table = call[d].table
    BY DEF LoadPoints
  <2> QED BY <1>1, <2>1 DEF TableBeforeItems
<1>5. SavedSoFar'
  <2>1. \A d \in Callers : call'[d].at \in LoadPoints =>
          call[d].at \in LoadPoints /\ call'[d].table = call[d].table /\ call'[d].row = call[d].row
    OBVIOUS
  <2> QED BY <1>1, <2>1 DEF SavedSoFar
<1>6. EmbeddedBeforeDone'
  BY DEF EmbeddedBeforeDone
<1>7. RowsHaveTables'
  BY <1>1 DEF RowsHaveTables
<1>8. LoadsPersist'
  BY <1>1 DEF LoadsPersist
<1>9. DoneIsEmbedded'
  <2>1. \A t \in DOMAIN tables : DOMAIN tables[t] = 1 .. loads[t].size /\ DOMAIN tables'[t] = 1 .. loads[t].size
    BY DEF TypeOK
  <2> QED BY <2>1 DEF DoneIsEmbedded
<1> QED BY <1>2, <1>3, <1>4, <1>5, <1>6, <1>7, <1>8, <1>9

LEMMA MoveFacts ==
  ASSUME NEW c \in Callers, call \in [Callers -> CallRecord],
         NEW to \in Points, NEW s \in ItemStatus,
         call' = [call EXCEPT ![c].at = to, ![c].copy = s]
  PROVE  /\ call' \in [Callers -> CallRecord]
         /\ \A d \in Callers : d # c => call'[d] = call[d]
         /\ call'[c].at = to /\ call'[c].table = call[c].table
         /\ call'[c].row = call[c].row /\ call'[c].copy = s
  BY DEF CallRecord

LEMMA MoveOnly ==
  ASSUME NEW c \in Callers, call \in [Callers -> CallRecord],
         NEW to \in Points, Move(c, to)
  PROVE  /\ call' \in [Callers -> CallRecord]
         /\ \A d \in Callers : d # c => call'[d] = call[d]
         /\ call'[c].at = to /\ call'[c].table = call[c].table
         /\ call'[c].row = call[c].row /\ call'[c].copy = call[c].copy
  BY DEF CallRecord, Move

LEMMA ReturnFacts ==
  ASSUME NEW c \in Callers, call \in [Callers -> CallRecord], Return(c)
  PROVE  /\ call' \in [Callers -> CallRecord]
         /\ \A d \in Callers : d # c => call'[d] = call[d]
         /\ call'[c].at = "idle"
  BY ServerAssumption DEF CallRecord, Return, Idle, Points, ItemStatus

LEMMA TakeFacts ==
  ASSUME NEW c \in Callers, call \in [Callers -> CallRecord], NEW to \in Points,
         NEW t \in 0 .. MaxTables, NEW r \in Nat, Take(c, to, t, r)
  PROVE  /\ call' \in [Callers -> CallRecord]
         /\ \A d \in Callers : d # c => call'[d] = call[d]
         /\ call'[c].at = to /\ call'[c].table = t /\ call'[c].row = r
  BY DEF CallRecord, Take, Idle, ItemStatus

(* An item of a table in memory takes a status.                             *)
LEMMA SetStatusFacts ==
  ASSUME TypeOK, NEW t \in DOMAIN tables, NEW r \in DOMAIN tables[t], NEW s \in ItemStatus,
         tables' = [tables EXCEPT ![t][r] = s]
  PROVE  /\ DOMAIN tables' = DOMAIN tables
         /\ \A u \in DOMAIN tables : tables'[u] \in [1 .. loads[u].size -> ItemStatus]
         /\ \A u \in DOMAIN tables : \A q \in 1 .. loads[u].size :
              tables'[u][q] = IF u = t /\ q = r THEN s ELSE tables[u][q]
<1>1. \A u \in DOMAIN tables : tables[u] \in [1 .. loads[u].size -> ItemStatus]
  BY DEF TypeOK
<1>2. DOMAIN tables' = DOMAIN tables
  OBVIOUS
<1>3. \A u \in DOMAIN tables : u # t => tables'[u] = tables[u]
  OBVIOUS
<1>4. tables'[t] = [tables[t] EXCEPT ![r] = s]
  OBVIOUS
<1> QED BY <1>1, <1>2, <1>3, <1>4

(* The row a call works on is one of a table in memory.                     *)
LEMMA CallRow ==
  ASSUME TypeOK, NEW c \in Callers, call[c].at \in RowPoints \cup {"insert"}
  PROVE  /\ call[c].table \in DOMAIN tables /\ call[c].table \in Begun
         /\ call[c].table \in TableIds /\ call[c].row \in RowIds
         /\ DOMAIN tables[call[c].table] = 1 .. loads[call[c].table].size
         /\ call[c].row \in DOMAIN tables[call[c].table]
         /\ Status(c) \in ItemStatus
<1>1. call[c].at # "idle"
  BY DEF RowPoints, LoadPoints
<1>2. call[c].table \in DOMAIN tables /\ call[c].row \in 1 .. loads[call[c].table].size
  BY <1>1 DEF TypeOK
<1>3. tables[call[c].table] \in [1 .. loads[call[c].table].size -> ItemStatus]
      /\ call[c].table \in Begun
  BY <1>2 DEF TypeOK
<1> QED BY <1>2, <1>3, LoadFacts DEF Status

LEMMA ReadStep ==
  ASSUME Inductive, NEW c \in Callers, ReadNewItem(c) \/ ReadItem(c)
  PROVE  Inductive'
<1> USE DEF Inductive
<1>1. call \in [Callers -> CallRecord] /\ tables' = tables
  BY DEF TypeOK, ReadNewItem, ReadItem
<1>2. /\ tableRows' = tableRows /\ itemRow' = itemRow /\ embedded' = embedded /\ loads' = loads
  BY DEF ReadNewItem, ReadItem, store
<1>3. \A t \in DOMAIN tables : tables[t] \in [1 .. loads[t].size -> ItemStatus]
  BY DEF TypeOK
<1>4. CASE ReadNewItem(c)
  <2>1. call[c].at = "item" /\ call[c].at # "idle" /\ call[c].row <= loads[call[c].table].size
    BY <1>4 DEF ReadNewItem
  <2>2. call[c].table \in DOMAIN tables /\ call[c].row \in 1 .. loads[call[c].table].size
    <3>1. call[c].table \in DOMAIN tables /\ call[c].table \in Begun /\ call[c].row >= 1
      BY <2>1 DEF TypeOK
    <3>2. call[c].row \in Nat /\ loads[call[c].table].size \in Nat
      BY <1>1, <3>1, LoadFacts DEF CallRecord
    <3> QED BY <2>1, <3>1, <3>2
  <2>3. Status(c) \in ItemStatus
    BY <1>3, <2>2 DEF Status
  <2>4. Status(c) = "done" => <<call[c].table, call[c].row>> \in embedded
    BY <1>3, <2>2 DEF DoneIsEmbedded, Status
  <2>5. /\ call' \in [Callers -> CallRecord]
        /\ \A d \in Callers : d # c => call'[d] = call[d]
        /\ call'[c].at = "insert" /\ call'[c].table = call[c].table
        /\ call'[c].row = call[c].row /\ call'[c].copy = Status(c)
    BY <1>1, <1>4, <2>3, MoveFacts DEF ReadNewItem, Points
  <2> QED BY <1>1, <1>2, <1>3, <2>1, <2>2, <2>4, <2>5, QuietStep DEF LoadPoints, RowPoints
<1>5. CASE ReadItem(c)
  <2>1. call[c].at = "update" /\ call[c].at \in RowPoints
    BY <1>5 DEF ReadItem, RowPoints, LoadPoints, Points
  <2>2. /\ call[c].table \in DOMAIN tables /\ call[c].row \in 1 .. loads[call[c].table].size
        /\ Status(c) \in ItemStatus
    BY <2>1, CallRow
  <2>3. Status(c) = "done" => <<call[c].table, call[c].row>> \in embedded
    BY <1>3, <2>2 DEF DoneIsEmbedded, Status
  <2>4. /\ call' \in [Callers -> CallRecord]
        /\ \A d \in Callers : d # c => call'[d] = call[d]
        /\ call'[c].at = "updating" /\ call'[c].table = call[c].table
        /\ call'[c].row = call[c].row /\ call'[c].copy = Status(c)
    BY <1>1, <1>5, <2>2, MoveFacts DEF ReadItem, Points
  <2> QED BY <1>1, <1>2, <1>3, <2>2, <2>3, <2>4, QuietStep DEF LoadPoints, RowPoints
<1> QED BY <1>4, <1>5

(* search_row, validate and voyage_store take a row.                        *)
LEMMA TakeStep ==
  ASSUME Inductive, NEW c \in Callers, SearchRow(c) \/ Validate(c) \/ VoyageStore(c)
  PROVE  Inductive'
<1> USE DEF Inductive
<1>1. call \in [Callers -> CallRecord]
  BY DEF TypeOK
<1>2. /\ tableRows' = tableRows /\ itemRow' = itemRow /\ embedded' = embedded /\ loads' = loads
  BY DEF SearchRow, Validate, VoyageStore, store
<1>3. \A t \in DOMAIN tables : tables[t] \in [1 .. loads[t].size -> ItemStatus] /\ t \in 0 .. MaxTables
  BY LoadFacts DEF TypeOK, TableIds
<1>4. PICK t \in DOMAIN tables, to \in {"searching", "judging", "embedding"} :
        \E r \in DOMAIN tables[t] :
          /\ Take(c, to, t, r)
          /\ tables' = tables \/ tables' = [tables EXCEPT ![t][r] = "searching"]
  BY DEF SearchRow, Validate, VoyageStore
<1>5. PICK r \in DOMAIN tables[t] :
        /\ Take(c, to, t, r)
        /\ tables' = tables \/ tables' = [tables EXCEPT ![t][r] = "searching"]
  BY <1>4
<1>6. r \in 1 .. loads[t].size /\ r \in Nat /\ r >= 1 /\ t \in 0 .. MaxTables
  <2>1. DOMAIN tables[t] = 1 .. loads[t].size /\ loads[t].size \in Nat
    BY <1>3, LoadFacts DEF TypeOK
  <2> QED BY <1>3, <2>1
<1>7. /\ call' \in [Callers -> CallRecord]
      /\ \A d \in Callers : d # c => call'[d] = call[d]
      /\ call'[c].at = to /\ call'[c].table = t /\ call'[c].row = r
  BY <1>1, <1>5, <1>6, TakeFacts DEF Points
<1>8. /\ DOMAIN tables' = DOMAIN tables
      /\ \A u \in DOMAIN tables : tables'[u] \in [1 .. loads[u].size -> ItemStatus]
      /\ \A u \in DOMAIN tables : \A q \in 1 .. loads[u].size :
           tables'[u][q] = "done" => tables[u][q] = "done"
  <2>1. CASE tables' = tables
    BY <1>3, <2>1
  <2>2. CASE tables' = [tables EXCEPT ![t][r] = "searching"]
    <3>1. "searching" \in ItemStatus
      BY DEF ItemStatus
    <3> QED BY ZenonT(60), <2>2, <3>1, SetStatusFacts
  <2> QED BY <1>5, <2>1, <2>2
<1>9. call'[c].at \notin LoadPoints \cup {"item", "insert", "marking", "updating"}
  BY <1>4, <1>7 DEF LoadPoints
<1>10. /\ call'[c].table \in DOMAIN tables /\ call'[c].row >= 1
       /\ call'[c].row \in 1 .. loads[call'[c].table].size
  BY <1>6, <1>7
<1>11. \A u \in DOMAIN tables : \A q \in 1 .. loads[u].size :
         tables'[u][q] = "done" => tables[u][q] = "done" \/ <<u, q>> \in embedded
  BY <1>8
<1> QED BY <1>2, <1>7, <1>8, <1>9, <1>10, <1>11, QuietStep

(* EndSearch, ValidateItem and MarkDone set the status of the row.          *)
LEMMA StatusStep ==
  ASSUME Inductive, NEW c \in Callers, EndSearch(c) \/ ValidateItem(c) \/ MarkDone(c)
  PROVE  Inductive'
<1> USE DEF Inductive
<1>1. call \in [Callers -> CallRecord]
  BY DEF TypeOK
<1>2. /\ tableRows' = tableRows /\ itemRow' = itemRow /\ embedded' = embedded /\ loads' = loads
  BY DEF EndSearch, ValidateItem, MarkDone, store
<1>3. call[c].at \in {"searching", "judging", "marking"} /\ call[c].at \in RowPoints
  BY DEF EndSearch, ValidateItem, MarkDone, RowPoints, LoadPoints, Points
<1>4. PICK s \in ItemStatus, to \in {"judging", "update"} :
        /\ SetStatus(c, s) /\ Move(c, to)
        /\ s = "done" => call[c].at = "marking"
  BY DEF EndSearch, ValidateItem, MarkDone, ItemStatus
<1>5. /\ call[c].table \in DOMAIN tables /\ call[c].row \in DOMAIN tables[call[c].table]
      /\ call[c].row \in 1 .. loads[call[c].table].size /\ call[c].row >= 1
  <2>1. /\ call[c].table \in DOMAIN tables /\ call[c].row \in DOMAIN tables[call[c].table]
        /\ DOMAIN tables[call[c].table] = 1 .. loads[call[c].table].size
        /\ call[c].row \in RowIds
    BY <1>3, CallRow
  <2> QED BY <2>1, ServerAssumption DEF RowIds
<1>6. /\ call' \in [Callers -> CallRecord]
      /\ \A d \in Callers : d # c => call'[d] = call[d]
      /\ call'[c].at = to /\ call'[c].table = call[c].table /\ call'[c].row = call[c].row
  BY <1>1, <1>4, MoveOnly DEF Points
<1> DEFINE t == call[c].table
          r == call[c].row
<1>7. /\ DOMAIN tables' = DOMAIN tables
      /\ \A u \in DOMAIN tables : tables'[u] \in [1 .. loads[u].size -> ItemStatus]
      /\ \A u \in DOMAIN tables : \A q \in 1 .. loads[u].size :
           tables'[u][q] = IF u = t /\ q = r THEN s ELSE tables[u][q]
  <2>1. tables' = [tables EXCEPT ![t][r] = s]
    BY <1>4 DEF SetStatus
  <2>2. t \in DOMAIN tables /\ r \in DOMAIN tables[t] /\ TypeOK
    BY <1>5
  <2> HIDE DEF t, r, Inductive
  <2> QED BY ZenonT(60), <1>4, <2>1, <2>2, SetStatusFacts
<1>8. s = "done" => <<call[c].table, call[c].row>> \in embedded
  BY <1>4 DEF EmbeddedBeforeDone
<1>9. \A u \in DOMAIN tables : \A q \in 1 .. loads[u].size :
        tables'[u][q] = "done" => tables[u][q] = "done" \/ <<u, q>> \in embedded
  BY <1>7, <1>8
<1> QED BY <1>2, <1>4, <1>5, <1>6, <1>7, <1>9, QuietStep DEF LoadPoints

LEMMA EmbedFailsStep ==
  ASSUME Inductive, NEW c \in Callers, EmbedFails(c)
  PROVE  Inductive'
<1> USE DEF Inductive
<1>1. call \in [Callers -> CallRecord] /\ Return(c) /\ tables' = tables
  BY DEF TypeOK, EmbedFails
<1>2. /\ tableRows' = tableRows /\ itemRow' = itemRow /\ embedded' = embedded /\ loads' = loads
  BY DEF EmbedFails, store
<1>3. \A t \in DOMAIN tables : tables[t] \in [1 .. loads[t].size -> ItemStatus]
  BY DEF TypeOK
<1> QED BY <1>1, <1>2, <1>3, ReturnFacts, QuietStep DEF LoadPoints, RowPoints

-------------------------------------------------------------------------------
(* Steps of a load.                                                         *)

LEMMA SetTableStep ==
  ASSUME Inductive, NEW c \in Callers, SetTable(c)
  PROVE  Inductive'
<1> USE DEF Inductive
<1> DEFINE t == Len(loads) + 1
<1>1. PICK n \in Sizes[t] :
        /\ tables' = [u \in DOMAIN tables \cup {t} |->
                        IF u = t THEN [r \in 1 .. n |-> "pending"] ELSE tables[u]]
        /\ loads' = Append(loads, [size |-> n, before |-> Returned, returned |-> FALSE, lost |-> {}])
        /\ call' = [call EXCEPT ![c] = [Idle EXCEPT !.at = "table", !.table = t, !.row = 1]]
  BY DEF SetTable
<1>2. /\ tableRows' = tableRows /\ itemRow' = itemRow /\ embedded' = embedded
      /\ call[c].at = "idle" /\ Len(loads) < MaxTables
  BY DEF SetTable, store
<1>3. /\ Len(loads) \in Nat /\ t \in TableIds /\ t \notin Begun /\ Begun = 1 .. Len(loads)
      /\ Begun \subseteq TableIds
  BY <1>2, LoadFacts DEF Begun, TableIds
<1>4. n \in 0 .. MaxRows
  BY <1>3, ServerAssumption DEF TableIds
<1>5. Returned \subseteq Begun
  BY DEF Returned, Begun
<1> DEFINE new == [size |-> n, before |-> Returned, returned |-> FALSE, lost |-> {}]
<1>6. new \in LoadRecord
  BY <1>3, <1>4, <1>5 DEF LoadRecord
<1>7. /\ loads' \in Seq(LoadRecord) /\ Len(loads') = t /\ loads'[t] = new
      /\ \A u \in Begun : loads'[u] = loads[u]
  <2>1. loads \in Seq(LoadRecord) /\ loads' = Append(loads, new)
    BY <1>1 DEF TypeOK
  <2> HIDE DEF new
  <2> QED BY <1>3, <1>6, <2>1, AppendProperties
<1>8. Begun' = Begun \cup {t}
  BY <1>3, <1>7 DEF Begun
<1>9. Returned' = Returned
  <2>1. Returned' = {u \in Begun \cup {t} : loads'[u].returned}
    BY <1>8 DEF Returned, Begun
  <2>2. Returned = {u \in Begun : loads[u].returned}
    BY DEF Returned, Begun
  <2>3. ~loads'[t].returned
    BY <1>7
  <2> QED BY <1>3, <1>7, <2>1, <2>2, <2>3
<1>10. \A u \in DOMAIN tables : u \in Begun /\ u # t
  BY <1>3 DEF TypeOK
<1>11. /\ DOMAIN tables' = DOMAIN tables \cup {t}
       /\ tables'[t] = [r \in 1 .. n |-> "pending"]
       /\ \A u \in DOMAIN tables : tables'[u] = tables[u]
  BY <1>1, <1>10
<1>12. /\ call' \in [Callers -> CallRecord]
       /\ \A d \in Callers : d # c => call'[d] = call[d]
       /\ call'[c].at = "table" /\ call'[c].table = t /\ call'[c].row = 1
       /\ call'[c].copy = "pending"
  <2>1. t \in 0 .. MaxTables /\ 1 \in Nat /\ "table" \in Points /\ "pending" \in ItemStatus
    BY <1>3, ServerAssumption DEF TableIds, Points, ItemStatus
  <2>2. call \in [Callers -> CallRecord]
    BY DEF TypeOK
  <2> HIDE DEF t
  <2> QED BY <1>1, <2>1, <2>2 DEF CallRecord, Idle
<1> HIDE DEF t
<1>13. \A d \in Callers : d # c /\ call[d].at # "idle" =>
         call[d].table \in DOMAIN tables /\ call[d].table \in Begun /\ call[d].table # t
  BY <1>10 DEF TypeOK
<1>14. TypeOK'
  <2>1. DOMAIN tables' \subseteq Begun' /\ tableRows' \subseteq Begun'
    BY <1>2, <1>8, <1>10, <1>11 DEF TypeOK
  <2>2. \A u \in DOMAIN tables' : tables'[u] \in [1 .. loads'[u].size -> ItemStatus]
    BY <1>7, <1>10, <1>11 DEF TypeOK, ItemStatus
  <2>3. \A d \in Callers : call'[d].at # "idle" => call'[d].table \in DOMAIN tables' /\ call'[d].row >= 1
    BY <1>11, <1>12 DEF TypeOK
  <2>4. \A d \in Callers : call'[d].at \in RowPoints \cup {"insert"} =>
          call'[d].row \in 1 .. loads'[call'[d].table].size
    BY <1>7, <1>12, <1>13 DEF TypeOK, RowPoints, LoadPoints
  <2>5. Len(loads') <= MaxTables
    BY <1>2, <1>3, <1>7, ServerAssumption DEF TableIds
  <2> QED BY <1>2, <1>7, <1>12, <2>1, <2>2, <2>3, <2>4, <2>5 DEF TypeOK
<1>15. LoadsInOrder'
  <2>1. \A u \in Begun' : loads'[u].before \subseteq Returned'
    BY <1>7, <1>8, <1>9 DEF LoadsInOrder
  <2>2. \A d \in Callers : call'[d].at \in LoadPoints => ~loads'[call'[d].table].returned
    BY <1>7, <1>12, <1>13 DEF LoadsInOrder, LoadPoints
  <2>3. \A d, e \in Callers :
          call'[d].at \in LoadPoints /\ call'[e].at \in LoadPoints /\ call'[e].table = call'[d].table => e = d
    BY <1>12, <1>13 DEF LoadsInOrder, LoadPoints
  <2> QED BY <2>1, <2>2, <2>3 DEF LoadsInOrder
<1>16. \A u : LoadItems(u)' = LoadItems(u)
  BY <1>2 DEF LoadItems
<1>17. TableBeforeItems' /\ RowsHaveTables'
  <2>1. \A u : HasTable(u) => HasTable(u)'
    BY <1>2, <1>3, <1>7, <1>8 DEF HasTable, TypeOK
  <2> QED BY <1>2, <1>12, <2>1 DEF TableBeforeItems, RowsHaveTables
<1>18. SavedSoFar'
  <2>1. ASSUME NEW d \in Callers, call'[d].at \in LoadPoints, NEW r \in 1 .. call'[d].row - 1
        PROVE  (r \in loads[call[d].table].lost \/ InStore(call[d].table, r))'
    <3>1. d # c
      BY <1>12, <2>1
    <3>2. r \in loads[call[d].table].lost \/ InStore(call[d].table, r)
      BY <1>12, <2>1, <3>1 DEF SavedSoFar
    <3>3. call'[d].table = call[d].table /\ loads'[call[d].table] = loads[call[d].table]
      BY <1>7, <1>12, <1>13, <2>1, <3>1 DEF LoadPoints
    <3> QED BY <1>8, <1>16, <3>2, <3>3 DEF InStore
  <2> QED BY <2>1 DEF SavedSoFar
<1>19. EmbeddedBeforeDone'
  BY <1>2, <1>12 DEF EmbeddedBeforeDone
<1>20. LoadsPersist'
  <2>1. ASSUME NEW u \in Returned', NEW r \in 1 .. loads'[u].size
        PROVE  r \in loads'[u].lost \/ InStore(u, r)'
    <3>1. u \in Returned /\ u \in Begun
      BY <1>5, <1>9, <2>1
    <3>2. loads'[u] = loads[u]
      BY <1>7, <3>1
    <3>3. r \in loads[u].lost \/ InStore(u, r)
      BY <2>1, <3>1, <3>2 DEF LoadsPersist
    <3> QED BY <1>8, <1>16, <3>2, <3>3 DEF InStore
  <2> QED BY <2>1 DEF LoadsPersist
<1>21. DoneIsEmbedded'
  BY <1>2, <1>11 DEF DoneIsEmbedded
<1> QED BY <1>14, <1>15, <1>17, <1>18, <1>19, <1>20, <1>21

(* The history changes in what has been lost only, and nothing is taken     *)
(* from it.                                                                 *)
LoadsAsBefore ==
  /\ loads' \in Seq(LoadRecord) /\ Len(loads') = Len(loads)
  /\ \A u \in Begun : /\ loads'[u].size = loads[u].size
                       /\ loads'[u].before = loads[u].before
                       /\ loads'[u].returned = loads[u].returned
                       /\ loads[u].lost \subseteq loads'[u].lost

LEMMA MayLoseStep ==
  ASSUME TypeOK, NEW c \in Callers, call[c].table \in Begun, NEW write, NEW w \in 0 .. MaxRows,
         MayLose(c, write, w)
  PROVE  LoadsAsBefore /\ w \in loads'[call[c].table].lost
<1> DEFINE t == call[c].table
           less == [loads[t] EXCEPT !.lost = @ \cup {w}]
<1>1. loads \in Seq(LoadRecord) /\ loads[t] \in LoadRecord /\ t \in 1 .. Len(loads)
  BY LoadFacts DEF TypeOK, Begun
<1>2. /\ less \in LoadRecord /\ less.size = loads[t].size /\ less.before = loads[t].before
      /\ less.returned = loads[t].returned /\ less.lost = loads[t].lost \cup {w}
  BY <1>1 DEF LoadRecord
<1>3. loads' = [loads EXCEPT ![t] = less]
  BY DEF MayLose
<1> HIDE DEF less, t
<1>4. /\ loads' \in Seq(LoadRecord) /\ Len(loads') = Len(loads)
      /\ loads'[t] = less /\ \A u \in Begun : u # t => loads'[u] = loads[u]
  BY <1>1, <1>2, <1>3, ExceptSeq DEF Begun
<1>5. LoadsAsBefore /\ w \in loads'[t].lost
  BY <1>2, <1>4 DEF LoadsAsBefore
<1> QED BY <1>5 DEF t

(* What this leaves of the parts of the invariant.                          *)
LEMMA LoadsAsBeforeFacts ==
  ASSUME TypeOK, LoadsAsBefore, tableRows \subseteq tableRows'
  PROVE  /\ Begun' = Begun /\ Returned' = Returned
         /\ \A u : HasTable(u) => HasTable(u)'
<1>1. Begun' = Begun
  BY DEF LoadsAsBefore, Begun
<1>2. Returned' = Returned
  BY <1>1 DEF LoadsAsBefore, Begun, Returned
<1> QED BY <1>1, <1>2 DEF LoadsAsBefore, HasTable

LEMMA SaveTableStep ==
  ASSUME Inductive, NEW c \in Callers, SaveTable(c)
  PROVE  Inductive'
<1> USE DEF Inductive
<1>1. /\ tables' = tables /\ itemRow' = itemRow /\ embedded' = embedded
      /\ call[c].at = "table" /\ Move(c, "item")
      /\ \/ tableRows' = tableRows \cup {call[c].table} /\ loads' = loads
         \/ MayLose(c, "table", 0) /\ tableRows' = tableRows
  BY DEF SaveTable
<1>2. call[c].table \in Begun /\ 0 \in 0 .. MaxRows
  BY <1>1, ServerAssumption DEF TypeOK
<1>3. /\ LoadsAsBefore /\ \A u : u = call[c].table => HasTable(u)'
      /\ tableRows \subseteq tableRows' /\ tableRows' \subseteq Begun
  <2>1. CASE tableRows' = tableRows \cup {call[c].table} /\ loads' = loads
    <3>1. LoadsAsBefore
      BY <2>1 DEF LoadsAsBefore, TypeOK
    <3>2. \A u : u = call[c].table => HasTable(u)'
      BY <2>1 DEF HasTable
    <3> QED BY <1>2, <2>1, <3>1, <3>2 DEF TypeOK
  <2>2. CASE MayLose(c, "table", 0) /\ tableRows' = tableRows
    <3>1. LoadsAsBefore /\ 0 \in loads'[call[c].table].lost
      BY <1>2, <2>2, MayLoseStep
    <3>2. \A u : u = call[c].table => HasTable(u)'
      BY <1>2, <2>2, <3>1, LoadsAsBeforeFacts DEF HasTable
    <3> QED BY <2>2, <3>1, <3>2 DEF TypeOK
  <2> QED BY <1>1, <2>1, <2>2
<1>4. /\ call' \in [Callers -> CallRecord]
      /\ \A d \in Callers : d # c => call'[d] = call[d]
      /\ call'[c].at = "item" /\ call'[c].table = call[c].table
      /\ call'[c].row = call[c].row /\ call'[c].copy = call[c].copy
  BY <1>1, MoveOnly DEF TypeOK, Points
<1>5. /\ Begun' = Begun /\ Returned' = Returned /\ \A u : LoadItems(u)' = LoadItems(u)
      /\ \A u : HasTable(u) => HasTable(u)'
  BY <1>1, <1>3, LoadsAsBeforeFacts DEF LoadItems
<1>6. TypeOK'
  <2>1. \A d \in Callers : call'[d].at # "idle" =>
          call[d].at # "idle" /\ call'[d].table = call[d].table /\ call'[d].row = call[d].row
    BY <1>1, <1>4
  <2>2. \A d \in Callers : call'[d].at # "idle" =>
          call'[d].table \in DOMAIN tables' /\ call'[d].row >= 1 /\ call'[d].table \in Begun
    BY <1>1, <2>1 DEF TypeOK
  <2>3. \A d \in Callers : call'[d].at \in RowPoints \cup {"insert"} =>
          call'[d].row \in 1 .. loads'[call'[d].table].size
    <3>1. \A d \in Callers : call'[d].at \in RowPoints \cup {"insert"} =>
            d # c /\ call'[d] = call[d] /\ call'[d].at # "idle"
      BY <1>4 DEF RowPoints, LoadPoints
    <3> QED BY <1>3, <2>2, <3>1 DEF TypeOK, LoadsAsBefore
  <2>4. \A u \in DOMAIN tables' : tables'[u] \in [1 .. loads'[u].size -> ItemStatus]
    BY <1>1, <1>3 DEF TypeOK, LoadsAsBefore
  <2>5. /\ DOMAIN tables' \subseteq Begun' /\ tableRows' \subseteq Begun'
        /\ loads' \in Seq(LoadRecord) /\ Len(loads') <= MaxTables
        /\ itemRow' \in [RowIds -> ItemRow \cup {NoRow}] /\ embedded' \subseteq TableIds \X RowIds
    BY <1>1, <1>3, <1>5 DEF TypeOK, LoadsAsBefore
  <2> QED BY <1>4, <2>2, <2>3, <2>4, <2>5 DEF TypeOK
<1>7. \A d \in Callers : call'[d].at \in LoadPoints =>
        /\ call[d].at \in LoadPoints /\ call'[d].table = call[d].table
        /\ call'[d].row = call[d].row /\ call[d].table \in Begun
  BY <1>1, <1>4 DEF TypeOK, LoadPoints
<1>8. \A u \in Begun : \A q : InStore(u, q) => InStore(u, q)'
  BY <1>3, <1>5 DEF InStore, LoadsAsBefore
<1>9. LoadsInOrder'
  BY <1>3, <1>5, <1>7 DEF LoadsInOrder, LoadsAsBefore
<1>10. SavedSoFar'
  BY <1>3, <1>7, <1>8 DEF SavedSoFar, LoadsAsBefore
<1>11. LoadsPersist'
  <2>1. \A u \in Returned : u \in Begun
    BY DEF Returned, Begun
  <2> QED BY <1>3, <1>5, <1>8, <2>1 DEF LoadsPersist, LoadsAsBefore
<1>12. TableBeforeItems' /\ RowsHaveTables'
  BY <1>1, <1>3, <1>4, <1>5 DEF TableBeforeItems, RowsHaveTables
<1>13. EmbeddedBeforeDone' /\ DoneIsEmbedded'
  BY <1>1, <1>4 DEF EmbeddedBeforeDone, DoneIsEmbedded
<1> QED BY <1>6, <1>9, <1>10, <1>11, <1>12, <1>13

LEMMA SaveItemStep ==
  ASSUME Inductive, NEW c \in Callers, SaveItem(c)
  PROVE  Inductive'
<1> USE DEF Inductive
<1> DEFINE t == call[c].table
           r == call[c].row
<1>1. /\ tables' = tables /\ tableRows' = tableRows /\ embedded' = embedded
      /\ call[c].at = "insert" /\ NextRow(c)
      /\ \/ itemRow' = [itemRow EXCEPT ![r] = NewRow(c)] /\ loads' = loads
         \/ MayLose(c, "item", r) /\ itemRow' = itemRow
  BY DEF SaveItem
<1>2. t \in TableIds /\ t \in Begun /\ r \in RowIds /\ r \in Nat /\ r >= 1 /\ t \in DOMAIN tables
  <2>1. call[c].at \in RowPoints \cup {"insert"}
    BY <1>1
  <2> QED BY <2>1, CallRow, ServerAssumption DEF RowIds
<1>3. call[c].copy \in ItemStatus
  BY DEF TypeOK, CallRecord
<1>4. /\ NewRow(c) \in ItemRow /\ NewRow(c).table = t /\ NewRow(c).of = t
      /\ NewRow(c).status = call[c].copy
  BY <1>2, <1>3 DEF NewRow, ItemRow
<1>5. /\ call' \in [Callers -> CallRecord]
      /\ \A d \in Callers : d # c => call'[d] = call[d]
      /\ call'[c].at = "item" /\ call'[c].table = t /\ call'[c].row = r + 1
  <2>1. call \in [Callers -> CallRecord] /\ call' = [call EXCEPT ![c].at = "item", ![c].row = @ + 1]
    BY <1>1 DEF TypeOK, NextRow
  <2> QED BY <1>2, <2>1 DEF CallRecord, Points
<1>6. /\ itemRow' \in [RowIds -> ItemRow \cup {NoRow}]
      /\ \A q \in RowIds : q # r => itemRow'[q] = itemRow[q]
      /\ itemRow' = itemRow \/ itemRow'[r] = NewRow(c)
  <2>1. itemRow \in [RowIds -> ItemRow \cup {NoRow}]
    BY DEF TypeOK
  <2>2. itemRow' = itemRow \/ itemRow' = [itemRow EXCEPT ![r] = NewRow(c)]
    BY <1>1
  <2> HIDE DEF t, r
  <2> QED BY <1>2, <1>4, <2>1, <2>2
<1>7. /\ LoadsAsBefore
      /\ itemRow'[r] = NewRow(c) \/ (itemRow' = itemRow /\ r \in loads'[t].lost)
  <2>1. CASE itemRow' = [itemRow EXCEPT ![r] = NewRow(c)] /\ loads' = loads
    <3>1. LoadsAsBefore
      BY <2>1 DEF LoadsAsBefore, TypeOK
    <3>2. itemRow'[r] = NewRow(c)
      BY <1>2, <2>1 DEF TypeOK
    <3> QED BY <3>1, <3>2
  <2>2. CASE MayLose(c, "item", r) /\ itemRow' = itemRow
    <3>1. r \in 0 .. MaxRows
      BY <1>2, ServerAssumption DEF RowIds
    <3>2. LoadsAsBefore /\ r \in loads'[t].lost
      BY <1>2, <2>2, <3>1, MayLoseStep
    <3> QED BY <2>2, <3>2
  <2> QED BY <1>1, <2>1, <2>2
<1>8. Begun' = Begun /\ Returned' = Returned /\ \A u : HasTable(u) => HasTable(u)'
  BY <1>1, <1>7, LoadsAsBeforeFacts
<1>9. TypeOK'
  <2>1. \A d \in Callers : call'[d].at # "idle" => call'[d].table \in DOMAIN tables' /\ call'[d].row >= 1
    BY <1>1, <1>2, <1>5 DEF TypeOK
  <2>2. \A d \in Callers : call'[d].at \in RowPoints \cup {"insert"} =>
          call'[d].row \in 1 .. loads'[call'[d].table].size
    <3>1. \A d \in Callers : call'[d].at \in RowPoints \cup {"insert"} =>
            d # c /\ call'[d] = call[d] /\ call'[d].at # "idle" /\ call[d].table \in Begun
      BY <1>5, <2>1 DEF RowPoints, LoadPoints, TypeOK
    <3> QED BY <1>7, <3>1 DEF TypeOK, LoadsAsBefore
  <2>3. \A u \in DOMAIN tables' : tables'[u] \in [1 .. loads'[u].size -> ItemStatus]
    BY <1>1, <1>7 DEF TypeOK, LoadsAsBefore
  <2>4. /\ DOMAIN tables' \subseteq Begun' /\ tableRows' \subseteq Begun'
        /\ loads' \in Seq(LoadRecord) /\ Len(loads') <= MaxTables
        /\ embedded' \subseteq TableIds \X RowIds
    BY <1>1, <1>7, <1>8 DEF TypeOK, LoadsAsBefore
  <2> HIDE DEF t, r
  <2> QED BY <1>5, <1>6, <2>1, <2>2, <2>3, <2>4 DEF TypeOK
<1>10. LoadsInOrder' /\ TableBeforeItems'
  <2>1. \A d \in Callers : call'[d].at \in LoadPoints =>
          call[d].at \in LoadPoints /\ call'[d].table = call[d].table /\ call[d].table \in Begun
    BY <1>1, <1>2, <1>5 DEF LoadPoints, TypeOK
  <2>2. \A d \in Callers : call'[d].at \in {"item", "insert"} =>
          call[d].at \in {"item", "insert"} /\ call'[d].table = call[d].table
    BY <1>1, <1>5
  <2> QED BY <1>7, <1>8, <2>1, <2>2 DEF LoadsInOrder, TableBeforeItems, LoadsAsBefore
<1>11. EmbeddedBeforeDone'
  BY <1>1, <1>5 DEF EmbeddedBeforeDone
<1>12. RowsHaveTables'
  <2>1. HasTable(t)
    BY <1>1 DEF TableBeforeItems
  <2> QED BY <1>4, <1>6, <1>8, <2>1 DEF RowsHaveTables
<1>13. t \notin Returned /\ \A u \in Begun : t \notin loads[u].before
  BY <1>1, <1>2 DEF LoadsInOrder, LoadPoints, Returned
(* A row that was there is there still, or t has taken it over, and t is    *)
(* none of the loads that had returned before another one began.            *)
<1>14. ASSUME NEW w \in Begun, NEW q, InStore(w, q)
       PROVE  InStore(w, q)'
  <2>1. PICK u \in Begun \ loads[w].before : q \in LoadItems(u)
    BY <1>14 DEF InStore
  <2>2. loads'[w].before = loads[w].before
    BY <1>7 DEF LoadsAsBefore
  <2>3. CASE q \in LoadItems(u)'
    BY <1>8, <2>1, <2>2, <2>3 DEF InStore
  <2>4. CASE q \notin LoadItems(u)'
    <3>1. q = r /\ itemRow'[r] = NewRow(c)
      BY <1>6, <2>1, <2>4 DEF LoadItems
    <3>2. \A v : v = t => r \in LoadItems(v)'
      BY <1>2, <1>4, <3>1, ServerAssumption DEF LoadItems
    <3> QED BY <1>2, <1>8, <1>13, <2>2, <3>1, <3>2 DEF InStore
  <2> QED BY <2>3, <2>4
(* The row written is there, unless its write has failed.                   *)
<1>15. \A u, q : u = t /\ q = r => q \in loads'[u].lost \/ InStore(u, q)'
  <2>1. CASE itemRow'[r] = NewRow(c)
    <3>1. \A u : u = t => r \in LoadItems(u)'
      BY <1>2, <1>4, <2>1, ServerAssumption DEF LoadItems
    <3>2. t \notin loads'[t].before
      BY <1>2, <1>13, <1>7 DEF LoadsAsBefore
    <3> QED BY <1>2, <1>8, <3>1, <3>2 DEF InStore
  <2> QED BY <1>7, <2>1
<1>16. SavedSoFar'
  <2>1. ASSUME NEW d \in Callers, call'[d].at \in LoadPoints, NEW q \in 1 .. call'[d].row - 1
        PROVE  (q \in loads[call[d].table].lost \/ InStore(call[d].table, q))'
    <3>1. call[d].at \in LoadPoints /\ call'[d].table = call[d].table /\ call[d].table \in Begun
      BY <1>1, <1>2, <1>5, <2>1 DEF TypeOK, LoadPoints
    <3>2. CASE q \in 1 .. call[d].row - 1
      <4>1. q \in loads[call[d].table].lost \/ InStore(call[d].table, q)
        BY <3>1, <3>2 DEF SavedSoFar
      <4> QED BY <1>14, <1>7, <3>1, <4>1 DEF LoadsAsBefore, InStore
    <3>3. CASE d = c /\ q = r
      BY <1>15, <3>1, <3>3 DEF InStore
    <3> QED BY <1>2, <1>5, <2>1, <3>2, <3>3
  <2> QED BY <2>1 DEF SavedSoFar
<1>17. LoadsPersist'
  <2>1. ASSUME NEW w \in Returned', NEW q \in 1 .. loads'[w].size
        PROVE  q \in loads'[w].lost \/ InStore(w, q)'
    <3>1. w \in Begun /\ w \in Returned
      BY <1>8 DEF Returned, Begun
    <3>2. loads'[w].size = loads[w].size /\ loads[w].lost \subseteq loads'[w].lost
      BY <1>7, <3>1 DEF LoadsAsBefore
    <3>3. q \in loads[w].lost \/ InStore(w, q)
      BY <2>1, <3>1, <3>2 DEF LoadsPersist
    <3> QED BY <1>14, <3>1, <3>2, <3>3
  <2> QED BY <2>1 DEF LoadsPersist
<1>18. DoneIsEmbedded'
  <2>1. call[c].copy = "done" => <<t, r>> \in embedded
    BY <1>1 DEF EmbeddedBeforeDone
  <2>2. \A q \in RowIds : itemRow'[q] # NoRow /\ itemRow'[q].status = "done" =>
          <<itemRow'[q].of, q>> \in embedded
    BY <1>4, <1>6, <2>1 DEF DoneIsEmbedded
  <2> QED BY <1>1, <2>2 DEF DoneIsEmbedded
<1> QED BY <1>9, <1>10, <1>11, <1>12, <1>16, <1>17, <1>18

LEMMA EndLoadStep ==
  ASSUME Inductive, NEW c \in Callers, EndLoad(c)
  PROVE  Inductive'
<1> USE DEF Inductive
<1> DEFINE t == call[c].table
<1>1. /\ tables' = tables /\ tableRows' = tableRows /\ itemRow' = itemRow /\ embedded' = embedded
      /\ call[c].at = "item" /\ call[c].row > loads[t].size /\ Return(c)
      /\ loads' = [loads EXCEPT ![t].returned = TRUE]
  BY DEF EndLoad, store
<1>2. t \in Begun /\ call[c].row \in Nat /\ loads \in Seq(LoadRecord) /\ loads[t] \in LoadRecord
  BY <1>1, LoadFacts DEF TypeOK, CallRecord
<1> DEFINE over == [loads[t] EXCEPT !.returned = TRUE]
<1>3. over \in LoadRecord /\ over.size = loads[t].size /\ over.before = loads[t].before /\ over.returned
      /\ over.lost = loads[t].lost
  BY <1>2 DEF LoadRecord
<1> HIDE DEF over
<1>4. loads' = [loads EXCEPT ![t] = over]
  BY <1>1 DEF over
<1>5. /\ loads' \in Seq(LoadRecord) /\ Len(loads') = Len(loads)
      /\ loads'[t] = over /\ \A u \in Begun : u # t => loads'[u] = loads[u]
  BY <1>2, <1>3, <1>4, ExceptSeq DEF Begun
<1>6. /\ Begun' = Begun
      /\ \A u \in Begun : loads'[u].size = loads[u].size /\ loads'[u].before = loads[u].before
      /\ \A u \in Begun : loads'[u].lost = loads[u].lost
      /\ \A u \in Begun : u # t => loads'[u].returned = loads[u].returned
  BY <1>3, <1>5 DEF Begun
<1>7. Returned' \subseteq Returned \cup {t} /\ Returned \subseteq Returned'
  BY <1>3, <1>5, <1>6 DEF Returned, Begun
<1>8. /\ call' \in [Callers -> CallRecord]
      /\ \A d \in Callers : d # c => call'[d] = call[d]
      /\ call'[c].at = "idle"
  BY <1>1, ReturnFacts DEF TypeOK
<1>9. \A d \in Callers : call'[d].at # "idle" => d # c /\ call[d].table \in Begun
  BY <1>8 DEF TypeOK
<1>10. TypeOK'
  <2>1. \A u \in DOMAIN tables' : tables'[u] \in [1 .. loads'[u].size -> ItemStatus]
    BY <1>1, <1>6 DEF TypeOK
  <2>2. \A d \in Callers : call'[d].at # "idle" => call'[d].table \in DOMAIN tables' /\ call'[d].row >= 1
    BY <1>1, <1>8, <1>9 DEF TypeOK
  <2>3. \A d \in Callers : call'[d].at \in RowPoints \cup {"insert"} =>
          call'[d].row \in 1 .. loads'[call'[d].table].size
    <3>1. \A d \in Callers : call'[d].at \in RowPoints \cup {"insert"} => call'[d].at # "idle"
      BY DEF RowPoints, LoadPoints
    <3> QED BY <1>6, <1>8, <1>9, <3>1 DEF TypeOK
  <2>4. DOMAIN tables' \subseteq Begun' /\ tableRows' \subseteq Begun' /\ Len(loads') <= MaxTables
        /\ itemRow' \in [RowIds -> ItemRow \cup {NoRow}] /\ embedded' \subseteq TableIds \X RowIds
    BY <1>1, <1>5, <1>6 DEF TypeOK
  <2> QED BY <1>5, <1>8, <2>1, <2>2, <2>3, <2>4 DEF TypeOK
<1>11. \A d \in Callers : call'[d].at \in LoadPoints =>
         d # c /\ call'[d] = call[d] /\ call[d].table \in Begun /\ call[d].table # t
  BY <1>1, <1>8, <1>9 DEF LoadsInOrder, LoadPoints
<1>12. LoadsInOrder'
  <2>1. \A u \in Begun' : loads'[u].before \subseteq Returned'
    BY <1>6, <1>7 DEF LoadsInOrder
  <2>2. \A d \in Callers : call'[d].at \in LoadPoints => ~loads'[call'[d].table].returned
    BY <1>5, <1>11 DEF LoadsInOrder
  <2>3. \A d, e \in Callers :
          call'[d].at \in LoadPoints /\ call'[e].at \in LoadPoints /\ call'[e].table = call'[d].table => e = d
    BY <1>11 DEF LoadsInOrder
  <2> QED BY <2>1, <2>2, <2>3 DEF LoadsInOrder
<1>13. TableBeforeItems' /\ RowsHaveTables'
  <2>1. \A u : HasTable(u) => HasTable(u)'
    BY <1>1, <1>6 DEF HasTable
  <2> QED BY <1>1, <1>8, <2>1 DEF TableBeforeItems, RowsHaveTables
<1>14. \A u \in Begun : \A q : InStore(u, q) => InStore(u, q)'
  BY <1>1, <1>6 DEF InStore, LoadItems
<1>15. SavedSoFar'
  BY <1>6, <1>11, <1>14 DEF SavedSoFar
<1>16. EmbeddedBeforeDone' /\ DoneIsEmbedded'
  BY <1>1, <1>8 DEF EmbeddedBeforeDone, DoneIsEmbedded
<1>17. LoadsPersist'
  <2>1. ASSUME NEW w \in Returned', NEW q \in 1 .. loads'[w].size
        PROVE  q \in loads[w].lost \/ InStore(w, q)
    <3>1. w \in Begun /\ q \in 1 .. loads[w].size
      BY <1>2, <1>6, <1>7 DEF Returned, Begun
    <3>2. CASE w \in Returned
      BY <2>1, <3>1, <3>2 DEF LoadsPersist
    <3>3. CASE w = t
      <4>1. q \in 1 .. call[c].row - 1
        BY <1>1, <1>2, <3>1, <3>3, LoadFacts
      <4> QED BY <1>1, <2>1, <3>3, <4>1 DEF SavedSoFar, LoadPoints
    <3> QED BY <1>7, <3>2, <3>3
  <2>2. \A w \in Returned' : w \in Begun
    BY <1>6 DEF Returned, Begun
  <2> QED BY <1>6, <1>14, <2>1, <2>2 DEF LoadsPersist
<1> QED BY <1>10, <1>12, <1>13, <1>15, <1>16, <1>17

-------------------------------------------------------------------------------
(* The other writes.                                                        *)

LEMMA SaveEmbeddingStep ==
  ASSUME Inductive, NEW c \in Callers, SaveEmbedding(c)
  PROVE  Inductive'
<1> USE DEF Inductive
<1>1. /\ tables' = tables /\ tableRows' = tableRows /\ itemRow' = itemRow /\ loads' = loads
      /\ call[c].at = "embedding"
      /\ \/ embedded' = embedded \cup {<<call[c].table, call[c].row>>} /\ Move(c, "marking")
         \/ embedded' = embedded /\ Return(c)
  BY DEF SaveEmbedding
<1>2. call[c].at \in RowPoints
  BY <1>1 DEF RowPoints, LoadPoints, Points
<1>3. call[c].table \in TableIds /\ call[c].row \in RowIds
  BY <1>2, CallRow
<1>4. embedded \subseteq embedded' /\ embedded' \subseteq TableIds \X RowIds
  BY <1>1, <1>3 DEF TypeOK
<1>5. /\ call' \in [Callers -> CallRecord]
      /\ \A d \in Callers : d # c => call'[d] = call[d]
      /\ \/ /\ call'[c].at = "marking"
            /\ call'[c].table = call[c].table /\ call'[c].row = call[c].row
            /\ <<call[c].table, call[c].row>> \in embedded'
         \/ call'[c].at = "idle"
  <2>1. call \in [Callers -> CallRecord] /\ "marking" \in Points
    BY DEF TypeOK, Points
  <2>2. CASE embedded' = embedded \cup {<<call[c].table, call[c].row>>} /\ Move(c, "marking")
    BY <2>1, <2>2, MoveOnly
  <2>3. CASE Return(c)
    BY <2>1, <2>3, ReturnFacts
  <2> QED BY <1>1, <2>2, <2>3
<1>6. /\ Begun' = Begun /\ Returned' = Returned
      /\ \A u, q : InStore(u, q)' = InStore(u, q)
      /\ \A u : HasTable(u)' = HasTable(u)
  BY <1>1 DEF Begun, Returned, LoadItems, InStore, HasTable
<1>7. TypeOK'
  <2>1. \A d \in Callers : call'[d].at # "idle" => call'[d].table \in DOMAIN tables' /\ call'[d].row >= 1
    BY <1>1, <1>5 DEF TypeOK
  <2>2. \A d \in Callers : call'[d].at \in RowPoints \cup {"insert"} =>
          call'[d].row \in 1 .. loads'[call'[d].table].size
    BY <1>1, <1>2, <1>5 DEF TypeOK, RowPoints, LoadPoints
  <2> QED BY <1>1, <1>4, <1>5, <1>6, <2>1, <2>2 DEF TypeOK
<1>8. \A d \in Callers : call'[d].at \in LoadPoints => call'[d] = call[d]
  BY <1>5 DEF LoadPoints
<1>9. LoadsInOrder' /\ SavedSoFar' /\ LoadsPersist'
  BY <1>1, <1>6, <1>8 DEF LoadsInOrder, SavedSoFar, LoadsPersist
<1>10. TableBeforeItems' /\ RowsHaveTables'
  BY <1>1, <1>5, <1>6 DEF TableBeforeItems, RowsHaveTables
<1>11. EmbeddedBeforeDone' /\ DoneIsEmbedded'
  BY <1>1, <1>4, <1>5 DEF EmbeddedBeforeDone, DoneIsEmbedded
<1> QED BY <1>7, <1>9, <1>10, <1>11

LEMMA UpdateStep ==
  ASSUME Inductive, NEW c \in Callers, UpdateItemStatus(c)
  PROVE  Inductive'
<1> USE DEF Inductive
<1> DEFINE t == call[c].table
           r == call[c].row
<1>1. /\ tables' = tables /\ tableRows' = tableRows /\ embedded' = embedded /\ loads' = loads
      /\ call[c].at = "updating" /\ Return(c)
      /\ itemRow' = itemRow \/ itemRow' = Updated(c)
  BY DEF UpdateItemStatus, Written
<1>2. t \in TableIds /\ r \in RowIds /\ call[c].copy \in ItemStatus
  <2>1. call[c].at \in RowPoints
    BY <1>1 DEF RowPoints, LoadPoints, Points
  <2> QED BY <2>1, CallRow DEF TypeOK, CallRecord
<1>3. /\ call' \in [Callers -> CallRecord]
      /\ \A d \in Callers : d # c => call'[d] = call[d]
      /\ call'[c].at = "idle"
  BY <1>1, ReturnFacts DEF TypeOK
<1>4. itemRow \in [RowIds -> ItemRow \cup {NoRow}]
  BY DEF TypeOK
(* The update keeps every row and its table.                                *)
<1>5. /\ itemRow' \in [RowIds -> ItemRow \cup {NoRow}]
      /\ \A q \in RowIds : itemRow'[q] # NoRow <=> itemRow[q] # NoRow
      /\ \A q \in RowIds : itemRow[q] # NoRow => itemRow'[q].table = itemRow[q].table
      /\ \A q \in RowIds : itemRow[q] # NoRow =>
           \/ itemRow'[q].of = itemRow[q].of /\ itemRow'[q].status = itemRow[q].status
           \/ q = r /\ itemRow'[q].of = t /\ itemRow'[q].status = call[c].copy
  <2>1. CASE itemRow' = itemRow
    BY <1>4, <2>1
  <2>2. CASE itemRow[r] # NoRow /\ itemRow' = Updated(c)
    <3> DEFINE new == [itemRow[r] EXCEPT !.of = t, !.status = call[c].copy]
    <3>1. /\ new \in ItemRow /\ new.table = itemRow[r].table
          /\ new.of = t /\ new.status = call[c].copy
      BY <1>2, <1>4, <2>2 DEF ItemRow
    <3>2. new # NoRow
      BY <3>1, ServerAssumption
    <3>3. itemRow' = [itemRow EXCEPT ![r] = new]
      BY <2>2 DEF Updated
    <3> HIDE DEF new, r, t
    <3> QED BY <1>2, <1>4, <2>2, <3>1, <3>2, <3>3
  <2> QED BY <1>1, <2>1, <2>2 DEF Updated
<1>6. /\ Begun' = Begun /\ Returned' = Returned
      /\ \A u, q : InStore(u, q)' = InStore(u, q)
      /\ \A u : HasTable(u)' = HasTable(u)
  BY <1>1, <1>5 DEF Begun, Returned, LoadItems, InStore, HasTable
<1>7. TypeOK'
  <2>1. \A d \in Callers : call'[d].at # "idle" => call'[d] = call[d]
    BY <1>3
  <2>2. \A d \in Callers : call'[d].at \in RowPoints \cup {"insert"} => call'[d] = call[d]
    BY <1>3 DEF RowPoints, LoadPoints
  <2> HIDE DEF t, r
  <2> QED BY <1>1, <1>3, <1>5, <1>6, <2>1, <2>2 DEF TypeOK
<1>8. \A d \in Callers : call'[d].at \in LoadPoints => call'[d] = call[d]
  BY <1>3 DEF LoadPoints
<1>9. LoadsInOrder' /\ SavedSoFar' /\ LoadsPersist'
  BY <1>1, <1>6, <1>8 DEF LoadsInOrder, SavedSoFar, LoadsPersist
<1>10. TableBeforeItems' /\ RowsHaveTables'
  BY <1>1, <1>3, <1>5, <1>6 DEF TableBeforeItems, RowsHaveTables
<1>11. EmbeddedBeforeDone'
  BY <1>1, <1>3 DEF EmbeddedBeforeDone
<1>12. DoneIsEmbedded'
  <2>1. call[c].copy = "done" => <<t, r>> \in embedded
    BY <1>1 DEF EmbeddedBeforeDone
  <2>2. \A q \in RowIds : itemRow'[q] # NoRow /\ itemRow'[q].status = "done" =>
          <<itemRow'[q].of, q>> \in embedded
    BY <1>5, <2>1 DEF DoneIsEmbedded
  <2> QED BY <1>1, <2>2 DEF DoneIsEmbedded
<1> QED BY <1>7, <1>9, <1>10, <1>11, <1>12

LEMMA RestartStep ==
  ASSUME Inductive, Restart
  PROVE  Inductive'
<1> USE DEF Inductive
<1>1. /\ tableRows' = tableRows /\ itemRow' = itemRow /\ embedded' = embedded /\ loads' = loads
      /\ DOMAIN tables' = {} /\ \A c \in Callers : call'[c] = Idle /\ call'[c].at = "idle"
  BY DEF Restart, store, Idle
<1>2. call' \in [Callers -> CallRecord]
  BY ServerAssumption DEF Restart, Idle, CallRecord, Points, ItemStatus
<1>3. /\ Begun' = Begun /\ Returned' = Returned
      /\ \A u, q : InStore(u, q)' = InStore(u, q)
      /\ \A u : HasTable(u)' = HasTable(u)
  BY <1>1 DEF Begun, Returned, LoadItems, InStore, HasTable
<1>4. TypeOK'
  BY <1>1, <1>2, <1>3 DEF TypeOK, RowPoints, LoadPoints
<1>5. LoadsInOrder' /\ SavedSoFar' /\ TableBeforeItems' /\ EmbeddedBeforeDone'
  BY <1>1, <1>3 DEF LoadsInOrder, SavedSoFar, TableBeforeItems, HasTable,
                      EmbeddedBeforeDone, LoadPoints
<1>6. LoadsPersist' /\ RowsHaveTables' /\ DoneIsEmbedded'
  BY <1>1, <1>3 DEF LoadsPersist, RowsHaveTables, HasTable, DoneIsEmbedded
<1> QED BY <1>4, <1>5, <1>6

LEMMA StutterStep ==
  ASSUME Inductive, UNCHANGED vars
  PROVE  Inductive'
BY DEF vars, store, Inductive, TypeOK, LoadsInOrder, TableBeforeItems, SavedSoFar,
       EmbeddedBeforeDone, RowsHaveTables, LoadsPersist, DoneIsEmbedded, Begun, Returned,
       LoadItems, InStore, HasTable, Status

-------------------------------------------------------------------------------

(* Whatever the tools do, in any interleaving and over any restarts, the    *)
(* inductive invariant of the tables and the store holds.                   *)
THEOREM ServerInvariant == Spec => []Inductive
<1>1. ASSUME Inductive, [Next]_vars
      PROVE  Inductive'
  <2>1. ASSUME NEW c \in Callers, Load(c)
        PROVE  Inductive'
    BY <1>1, <2>1, SetTableStep, SaveTableStep, ReadStep, SaveItemStep, EndLoadStep DEF Load
  <2>2. ASSUME NEW c \in Callers, Search(c)
        PROVE  Inductive'
    BY <1>1, <2>2, TakeStep, StatusStep DEF Search
  <2>3. ASSUME NEW c \in Callers, Voyage(c)
        PROVE  Inductive'
    BY <1>1, <2>3, TakeStep, EmbedFailsStep, SaveEmbeddingStep, StatusStep DEF Voyage
  <2>4. ASSUME NEW c \in Callers, Update(c)
        PROVE  Inductive'
    BY <1>1, <2>4, ReadStep, UpdateStep DEF Update
  <2> QED BY <1>1, <2>1, <2>2, <2>3, <2>4, RestartStep, StutterStep DEF Next
<1> QED BY <1>1, InitIsInductive, PTL DEF Spec

(* A row of research_items refers to a table that is not there only where    *)
(* that table's own SaveTable has failed.                                    *)
THEOREM ItemsHaveTables == Spec => []RowsHaveTables
BY ServerInvariant, PTL DEF Inductive

(* What a load has saved stays, whichever of its other rows it has lost,    *)
(* until a load that did not end before it takes the row over.              *)
THEOREM LoadsArePersisted == Spec => []LoadsPersist
BY ServerInvariant, PTL DEF Inductive

(* An item that is done has its embedding, whichever writes fail.           *)
THEOREM DoneItemsAreEmbedded == Spec => []DoneIsEmbedded
BY ServerInvariant, PTL DEF Inductive
===============================================================================
