------------------------------- MODULE MCServer -------------------------------
(* Instances of Server for TLC: the callers are interchangeable. *)
EXTENDS Server, FiniteSets, TLC

CONSTANTS c1, c2

(* A load of two rows and one that may take over the first of them.  The    *)
(* two loads may come in either order of returning.                         *)
TwoRowsThenOne == <<{2}, {0, 1}>>

(* At any time the items that have left "pending" share one row id: those   *)
(* of two ids share nothing the calls on them touch.                        *)
Touched == {r \in RowIds : \E t \in DOMAIN tables :
              r \in DOMAIN tables[t] /\ tables[t][r] # "pending"}
OneRowTouched == Cardinality(Touched) <= 1

(* At most one of the writes of the two loads fails. *)
Lost    == {w \in Begun \X (0 .. MaxRows) : w[2] \in loads[w[1]].lost}
OneLost == Cardinality(Lost) <= 1

Callers2 == {c1, c2}
Perms    == Permutations(Callers2)
===============================================================================
