----------------------------- MODULE MCConsensus -----------------------------
(* Instances of Consensus for TLC, on words for which Similar is computed.  *)
EXTENDS Consensus, TLC

CONSTANTS p, q, r

E == INSTANCE Edits WITH Letters <- {1, 2}

(* Of five letters, words one edit apart are similar: the first is similar  *)
(* to the second and the second to the third, but not the first to the      *)
(* third.  The last is similar to none of them.                             *)
Words == {<<1, 1, 1, 1, 1>>, <<1, 1, 1, 1, 2>>, <<1, 1, 1, 2, 2>>, <<2, 2, 2, 2, 1>>}

SimilarWords == {<<v, w>> \in Words \X Words : E!SimilarStrings(v, w)}

Symmetry == Permutations({p, q, r})
===============================================================================
