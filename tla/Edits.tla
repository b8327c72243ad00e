--------------------------------- MODULE Edits ---------------------------------
(***************************************************************************)
(* What fuzzy.LevenshteinDistance and fuzzy.Similarity (pkg/fuzzy/match.go) *)
(* mean: the least number of insertions, deletions and substitutions of one *)
(* byte that turn a string into another.  Strings are normalized ones.      *)
(***************************************************************************)
EXTENDS Integers, SequencesExt

CONSTANT Letters   \* the bytes strings are made of

Longer(m, n) == IF m >= n THEN m ELSE n

(* The strings one edit away from s. *)
Edited(s) ==
  {RemoveAt(s, k) : k \in 1 .. Len(s)}
  \cup {[s EXCEPT ![k] = x] : k \in 1 .. Len(s), x \in Letters}
  \cup {InsertAt(s, k, x) : k \in 1 .. Len(s) + 1, x \in Letters}

(* The strings at most n edits away. *)
Ball(s, n) ==
  LET ball[k \in Nat] ==
        IF k = 0 THEN {s}
        ELSE LET nearer == ball[k - 1] IN nearer \cup UNION {Edited(t) : t \in nearer}
  IN ball[n]

IsDistance(s, t, n) == t \in Ball(s, n) /\ (n > 0 => t \notin Ball(s, n - 1))

(* 1 - distance / length of the longer >= 0.8.                              *)
SimilarStrings(s, t) == t \in Ball(s, Longer(Len(s), Len(t)) \div 5)
===============================================================================
