----------------------------- MODULE MCDispatcher -----------------------------
(* Instances of Dispatcher for TLC. *)
EXTENDS Dispatcher

(* A start before the table or inside it; no end given, one inside and one  *)
(* beyond the table.  One of the ranges ends before it starts.              *)
MCStarts == {-1, 2}
MCEnds   == {0, 1, NRows + 1}

(* Only the whole table, which is the longest batch. *)
Whole == {0}
===============================================================================
