--------------------------- MODULE MCEmbeddingSearch ---------------------------
(* An instance of EmbeddingSearch for TLC: topK below zero, zero, below, at  *)
(* and beyond the number of results.                                         *)
EXTENDS EmbeddingSearch

SomeTopKs == {-1, 0, 1, 2, 5}
===============================================================================
