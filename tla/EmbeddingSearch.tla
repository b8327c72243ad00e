---------------------------- MODULE EmbeddingSearch ----------------------------
(***************************************************************************)
(* SQLiteStore.SearchEmbeddings (internal/storage/embeddings.go): the       *)
(* records of a namespace are scored against the query, those below the     *)
(* minimum are dropped, the rest is sorted in place by exchanges and cut to *)
(* the first topK.                                                          *)
(*                                                                         *)
(* A record is its row in embeddings: its namespace and the cosine it has   *)
(* with the query, which only its order matters of.  LoadEmbeddings reads   *)
(* the rows of one SELECT, so a voyage_store that runs meanwhile is seen    *)
(* either not at all or before the search.  The rows are read to the last   *)
(* before the first is scored; here each is scored as it is read.           *)
(***************************************************************************)
EXTENDS Integers, Sequences, FiniteSets

CONSTANTS
  Namespaces,  \* the namespaces records are stored under
  Scores,      \* the cosines
  MaxRecords,  \* bound on the rows of embeddings
  TopKs,       \* values of the caller's topK
  AnyName      \* the empty namespace of a query, which selects every record

ASSUME SearchAssumption ==
  /\ Scores \subseteq Int
  /\ MaxRecords \in Nat
  /\ TopKs \subseteq Int
  /\ AnyName \notin Namespaces

VARIABLES
  stored,                    \* the rows of embeddings, in the order of a SELECT
  namespace, minScore, topK, \* the arguments
  next,                      \* the record the scoring loop is at
  results,                   \* the rows kept, by their positions in stored
  i, j,                      \* the variables of the sorting loops
  pc

args == <<stored, namespace, minScore, topK>>
vars == <<args, next, results, i, j, pc>>

Record == [namespace : Namespaces, score : Scores]

Init ==
  /\ stored \in UNION {[1 .. n -> Record] : n \in 0 .. MaxRecords}
  /\ namespace \in Namespaces \cup {AnyName}
  /\ minScore \in Scores
  /\ topK \in TopKs
  /\ next = 1 /\ results = <<>> /\ i = 1 /\ j = 2
  /\ pc = "scoring"

(* LoadEmbeddings selects by namespace, the loop by score. *)
Selected(r) == namespace \in {AnyName, stored[r].namespace}
Kept(r)     == Selected(r) /\ stored[r].score >= minScore
Score(k)    == stored[results[k]].score

KeepAll ==
  /\ pc = "scoring" /\ next <= Len(stored)
  /\ results' = IF Selected(next) THEN Append(results, next) ELSE results
  /\ next' = next + 1
  /\ UNCHANGED <<args, i, j, pc>>
ScoreRecord ==
  /\ pc = "scoring" /\ next <= Len(stored)
  /\ results' = IF Kept(next) THEN Append(results, next) ELSE results
  /\ next' = next + 1
  /\ UNCHANGED <<args, i, j, pc>>

StartSorting ==
  /\ pc = "scoring" /\ next > Len(stored)
  /\ pc' = "sorting"
  /\ UNCHANGED <<args, next, results, i, j>>

(* rows.Next is false after an error too, and rows.Err is not asked: the    *)
(* rows read so far pass for all of them.                                   *)
BreakOff ==
  /\ pc = "scoring" /\ next <= Len(stored)
  /\ pc' = "sorting"
  /\ UNCHANGED <<args, next, results, i, j>>

(* The query or the scan of a row fails: an error and no results.           *)
LoadFails ==
  /\ pc = "scoring" /\ (next = 1 \/ next <= Len(stored))
  /\ results' = <<>>
  /\ pc' = "failed"
  /\ UNCHANGED <<args, next, i, j>>

(* One turn of the inner loop: a later result with a higher score changes   *)
(* places with the one at i.                                                *)
Exchanged == [results EXCEPT ![i] = results[j], ![j] = results[i]]
Copied    == [results EXCEPT ![i] = results[j]]

CopyOver ==
  /\ pc = "sorting" /\ i <= Len(results) /\ j <= Len(results)
  /\ results' = IF Score(j) > Score(i) THEN Copied ELSE results
  /\ j' = j + 1
  /\ UNCHANGED <<args, next, i, pc>>
Compare ==
  /\ pc = "sorting" /\ i <= Len(results) /\ j <= Len(results)
  /\ results' = IF Score(j) > Score(i) THEN Exchanged ELSE results
  /\ j' = j + 1
  /\ UNCHANGED <<args, next, i, pc>>

SkipOne ==
  /\ pc = "sorting" /\ i <= Len(results) /\ j > Len(results)
  /\ i' = i + 1 /\ j' = i + 3
  /\ UNCHANGED <<args, next, results, pc>>
NextPlace ==
  /\ pc = "sorting" /\ i <= Len(results) /\ j > Len(results)
  /\ i' = i + 1 /\ j' = i + 2
  /\ UNCHANGED <<args, next, results, pc>>

(* A topK that is not positive asks for all results. *)
Cut ==
  /\ pc = "sorting" /\ i > Len(results)
  /\ results' = IF topK > 0 /\ Len(results) > topK THEN SubSeq(results, 1, topK) ELSE results
  /\ pc' = "done"
  /\ UNCHANGED <<args, next, i, j>>

Over == pc \in {"done", "failed"} /\ UNCHANGED vars

Next ==
  \/ ScoreRecord \/ BreakOff \/ LoadFails \/ StartSorting
  \/ Compare \/ NextPlace \/ Cut \/ Over

Spec == Init /\ [][Next]_vars

-------------------------------------------------------------------------------
(* Properties. *)

Places    == 1 .. Len(results)
Records   == 1 .. Len(stored)
Returned  == {results[k] : k \in Places}
Wanted(n) == {r \in 1 .. n : Kept(r)}
Read      == next - 1

TypeOK ==
  /\ stored \in Seq(Record)
  /\ namespace \in Namespaces \cup {AnyName}
  /\ minScore \in Int /\ topK \in Int
  /\ next \in 1 .. Len(stored) + 1
  /\ results \in Seq(Records)
  /\ i \in Nat \ {0} /\ j \in Nat \ {0}
  /\ pc \in {"scoring", "sorting", "done", "failed"}

(* The best results come first, whatever the order the store returns its    *)
(* rows in: the exchanges of the two loops leave no pair out of order.      *)
BestFirst ==
  pc = "done" => \A k, m \in Places : k < m => Score(k) >= Score(m)

(* Of the records that were read, one is returned once at most and only if  *)
(* it was asked for, and one that was asked for is left out only when topK  *)
(* better ones, or as good, are returned.                                   *)
NothingBetterLeftOut ==
  pc = "done" =>
    /\ \A k, m \in Places : results[k] = results[m] => k = m
    /\ Returned \subseteq Wanted(Read)
    /\ \A r \in Wanted(Read) \ Returned :
         /\ topK > 0 /\ Len(results) = topK
         /\ \A k \in Places : Score(k) >= stored[r].score

(* What the comment of SearchEmbeddings says of all vectors (embeddings.go, *)
(* line 106): it loads them all and returns the best topK.  A read that     *)
(* breaks off is neither an error nor seen, and a better record is missed.  *)
TopKOfAll ==
  pc = "done" =>
    \A r \in Wanted(Len(stored)) \ Returned :
      /\ topK > 0 /\ Len(results) = topK
      /\ \A k \in Places : Score(k) >= stored[r].score

(* The inductive invariant behind both, in named parts.                     *)

(* The results are the wanted records read so far, each once.               *)
NoneLost ==
  /\ \A k, m \in Places : results[k] = results[m] => k = m
  /\ pc \in {"scoring", "sorting"} => Returned = Wanted(Read)

(* The places before i hold their final results, and the one at i is the    *)
(* best of those compared with it.                                          *)
SortedUpTo ==
  /\ pc = "scoring" => i = 1 /\ j = 2
  /\ pc = "sorting" =>
       /\ i < j
       /\ \A k, m \in Places : k < m /\ k < i => Score(k) >= Score(m)
       /\ \A m \in Places : i < m /\ m < j => Score(i) >= Score(m)

Inductive == TypeOK /\ NoneLost /\ SortedUpTo /\ BestFirst /\ NothingBetterLeftOut
===============================================================================
