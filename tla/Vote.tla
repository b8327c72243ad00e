--------------------------------- MODULE Vote ---------------------------------
(***************************************************************************)
(* What ConsensusEngine.Validate (internal/engine/consensus.go) decides of  *)
(* a field when no two values that differ are similar: each value then has  *)
(* a cluster of its own, and the order in which the values are visited does *)
(* not matter.  Consensus has the general case.                             *)
(*                                                                         *)
(* rs are an item's results: for each provider a sequence of answers, which *)
(* have a value, or none, for each field.                                   *)
(***************************************************************************)
EXTENDS Integers, Sequences, FiniteSets

CONSTANTS
  Providers,     \* the providers that are available
  Values,        \* the values a provider may find
  ThresholdPct   \* the engine's threshold, in percent

NoValue == "no value"

(* The results that carry a value for field f, and those that carry v. *)
Found(rs, f) ==
  {x \in UNION {{p} \X DOMAIN rs[p] : p \in Providers} : rs[x[1]][x[2]][f] # NoValue}
Support(rs, f, v) == {x \in Found(rs, f) : rs[x[1]][x[2]][f] = v}

(* A field passes when its best value reaches the threshold; a value found  *)
(* once and alone scores one half.                                          *)
Passes(rs, f) ==
  LET n == Cardinality(Found(rs, f))
  IN \/ n = 1 /\ 50 >= ThresholdPct
     \/ n > 1 /\ \E v \in Values : 100 * Cardinality(Support(rs, f, v)) >= ThresholdPct * n

(* A field that fails is "split" when it has conflicts, else "poor".        *)
Agree(rs, f) ==
  IF Passes(rs, f) THEN "passed"
  ELSE IF \E v, w \in Values : v # w /\ Support(rs, f, v) # {} /\ Support(rs, f, w) # {}
       THEN "split" ELSE "poor"
===============================================================================
