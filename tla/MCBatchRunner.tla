----------------------------- MODULE MCBatchRunner -----------------------------
(* Instances of BatchRunner for TLC: SearchBatch(ctx, table, "", 0, 0). *)
EXTENDS BatchRunner

Whole == {0}
===============================================================================
