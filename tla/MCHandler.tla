------------------------------ MODULE MCHandler ------------------------------
(* Instances of Handler for TLC. *)
EXTENDS Handler, TLC

CONSTANTS k1, k2, c1, c2, tavily, nobody

ProviderLists == {{}, {tavily}}

(* The environment's values are ones the constructors replace.             *)
Concurrencies == {-1}
Thresholds == {0}

(* Half a row at a time, and two rows; a stricter threshold.                *)
ConcurrencyArgs == {5, 20}
ThresholdArgs == {90}
===============================================================================
