---------------------------- MODULE MCResearchItem ----------------------------
(* Instances of ResearchItem for TLC. *)
EXTENDS ResearchItem, TLC

CONSTANTS c1, c2, tavily, brave, name, a, b

AllTools == {"search_row", "validate", "voyage_store", "export"}

(* The callers are interchangeable, and so are the values they find. *)
Symmetry == Permutations(Callers) \cup Permutations(Values)

(* What later steps may read: the row of the store is never read, and a copy *)
(* only by the export or the update that has made it.  For runs whose        *)
(* properties speak of neither but there.                                    *)
InUse ==
  <<item, pc, calls, verdict, budget, todo, fanOut,
    [c \in {d \in Callers : pc[d] \in {"saving", "exporting"}} |-> copy[c]]>>
===============================================================================
