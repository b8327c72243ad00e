------------------------- MODULE EmbeddingSearchProofs -------------------------
(***************************************************************************)
(* Theorems about EmbeddingSearch, for any number of records, any scores    *)
(* and any arguments.                                                       *)
(***************************************************************************)
EXTENDS EmbeddingSearch, SequenceTheorems, TLAPS

(* Bounds the later steps rely on. *)
LEMMA Bounds ==
  ASSUME TypeOK
  PROVE  /\ Len(results) \in Nat /\ Len(stored) \in Nat
         /\ next \in Nat /\ next - 1 \in 0 .. Len(stored)
         /\ i \in Nat /\ j \in Nat /\ i >= 1 /\ j >= 1
         /\ \A k \in Places : results[k] \in Records
         /\ \A r \in Records : stored[r].score \in Int
<1>1. stored \in Seq(Record) /\ Len(stored) \in Nat /\ results \in Seq(Records) /\ Len(results) \in Nat
  BY DEF TypeOK
<1>2. \A r \in Records : stored[r] \in Record
  BY <1>1 DEF Records
<1>3. \A r \in Records : stored[r].score \in Int
  BY <1>2, SearchAssumption DEF Record
<1>4. \A k \in Places : results[k] \in Records
  BY <1>1 DEF Places
<1>5. next \in Nat /\ next - 1 \in 0 .. Len(stored) /\ i \in Nat /\ j \in Nat /\ i >= 1 /\ j >= 1
  BY <1>1 DEF TypeOK
<1> QED BY <1>1, <1>3, <1>4, <1>5

LEMMA InitIsInductive == Init => Inductive
<1> SUFFICES ASSUME Init PROVE Inductive
  OBVIOUS
<1>1. stored \in Seq(Record)
  <2>1. \A n \in 0 .. MaxRecords : [1 .. n -> Record] \subseteq Seq(Record)
    BY SearchAssumption
  <2> QED BY <2>1 DEF Init
<1>2. results \in Seq(Records) /\ Len(results) = 0 /\ Places = {}
  BY DEF Init, Places
<1>3. Len(stored) \in Nat /\ next \in 1 .. Len(stored) + 1 /\ i \in Nat \ {0} /\ j \in Nat \ {0}
  BY <1>1 DEF Init
<1>4. minScore \in Int /\ topK \in Int
  BY SearchAssumption DEF Init
<1>5. namespace \in Namespaces \cup {AnyName} /\ pc = "scoring"
  BY DEF Init
<1>6. TypeOK
  BY <1>1, <1>2, <1>3, <1>4, <1>5 DEF TypeOK
<1>7. Wanted(Read) = {} /\ Returned = {}
  BY <1>2 DEF Init, Wanted, Returned, Read
<1>8. NoneLost /\ SortedUpTo
  BY <1>2, <1>5, <1>7 DEF NoneLost, SortedUpTo, Init
<1> QED BY <1>5, <1>6, <1>8 DEF Inductive, BestFirst, NothingBetterLeftOut

-------------------------------------------------------------------------------
(* Scoring. *)

LEMMA ScoreStep ==
  ASSUME Inductive, ScoreRecord
  PROVE  Inductive'
<1> USE DEF Inductive
<1>1. /\ UNCHANGED <<stored, namespace, minScore, topK, i, j, pc>> /\ next' = next + 1
      /\ pc = "scoring" /\ next <= Len(stored) /\ next \in Records
  BY Bounds DEF ScoreRecord, args, TypeOK, Records
<1>2. Returned = Wanted(Read) /\ next \notin Returned
  BY <1>1, Bounds DEF NoneLost, Wanted, Read
<1>3. Wanted(next) = Wanted(Read) \cup (IF Kept(next) THEN {next} ELSE {})
  BY <1>1, Bounds DEF Wanted, Read
<1>4. Wanted(Read)' = Wanted(next)
  <2>1. Read' = next
    BY <1>1, Bounds DEF Read
  <2> QED BY <1>1, <2>1 DEF Wanted, Kept, Selected
<1>5. next' \in 1 .. Len(stored') + 1
  BY <1>1, Bounds
<1>6. CASE ~Kept(next)
  <2>1. results' = results
    BY <1>6 DEF ScoreRecord
  <2>2. TypeOK'
    BY <1>1, <1>5, <2>1 DEF TypeOK, Records
  <2>3. NoneLost'
    BY <1>1, <1>2, <1>3, <1>4, <1>6, <2>1 DEF NoneLost, Returned, Places
  <2>4. SortedUpTo'
    BY <1>1, <2>1 DEF SortedUpTo
  <2> QED BY <1>1, <2>2, <2>3, <2>4 DEF BestFirst, NothingBetterLeftOut
<1>7. CASE Kept(next)
  <2>1. /\ results' = Append(results, next) /\ results' \in Seq(Records)
        /\ Len(results') = Len(results) + 1
        /\ results'[Len(results) + 1] = next
        /\ \A k \in Places : results'[k] = results[k]
    <3>1. results \in Seq(Records) /\ results' = Append(results, next)
      BY <1>7 DEF ScoreRecord, TypeOK
    <3> QED BY <1>1, <3>1, AppendProperties DEF Places
  <2>2. TypeOK'
    BY <1>1, <1>5, <2>1 DEF TypeOK, Records
  <2>3. Returned' = Returned \cup {next}
    BY <2>1, Bounds DEF Returned, Places
  <2>4. ASSUME NEW k \in Places', NEW m \in Places', results'[k] = results'[m]
        PROVE  k = m
    <3>1. CASE k \in Places /\ m \in Places
      BY <2>1, <2>4, <3>1 DEF NoneLost
    <3>2. CASE k = Len(results) + 1 /\ m \in Places
      BY <1>2, <2>1, <2>4, <3>2 DEF Returned
    <3>3. CASE m = Len(results) + 1 /\ k \in Places
      BY <1>2, <2>1, <2>4, <3>3 DEF Returned
    <3> QED BY <2>1, <3>1, <3>2, <3>3, Bounds DEF Places
  <2>5. NoneLost'
    BY <1>1, <1>2, <1>3, <1>4, <1>7, <2>3, <2>4 DEF NoneLost
  <2>6. SortedUpTo'
    BY <1>1 DEF SortedUpTo
  <2> QED BY <1>1, <2>2, <2>5, <2>6 DEF BestFirst, NothingBetterLeftOut
<1> QED BY <1>6, <1>7

LEMMA StartStep ==
  ASSUME Inductive, StartSorting \/ BreakOff
  PROVE  Inductive'
<1> USE DEF Inductive
<1>1. /\ UNCHANGED <<stored, namespace, minScore, topK, next, results, i, j>>
      /\ pc = "scoring" /\ pc' = "sorting"
  BY DEF StartSorting, BreakOff, args
<1>2. TypeOK'
  BY <1>1 DEF TypeOK, Records
<1>3. Returned' = Returned /\ Places' = Places /\ Wanted(Read)' = Wanted(Read)
  BY <1>1 DEF Returned, Places, Wanted, Kept, Selected, Read
<1>4. NoneLost'
  BY <1>1, <1>3 DEF NoneLost
<1>5. SortedUpTo'
  BY <1>1, <1>3 DEF SortedUpTo, Places
<1> QED BY <1>1, <1>2, <1>4, <1>5 DEF BestFirst, NothingBetterLeftOut

LEMMA FailStep ==
  ASSUME Inductive, LoadFails
  PROVE  Inductive'
<1> USE DEF Inductive
<1>1. /\ UNCHANGED <<stored, namespace, minScore, topK, next, i, j>>
      /\ results' = <<>> /\ pc' = "failed"
  BY DEF LoadFails, args
<1>2. Places' = {}
  BY <1>1 DEF Places
<1>3. TypeOK'
  BY <1>1 DEF TypeOK, Records
<1> QED BY <1>1, <1>2, <1>3 DEF NoneLost, SortedUpTo, BestFirst, NothingBetterLeftOut

-------------------------------------------------------------------------------
(* Sorting. *)

(* Exchanging two places keeps the results and moves no other one.          *)
LEMMA Exchange ==
  ASSUME TypeOK, i \in Places, j \in Places
  PROVE  /\ Exchanged \in Seq(Records) /\ Len(Exchanged) = Len(results)
         /\ Exchanged[i] = results[j] /\ Exchanged[j] = results[i]
         /\ \A k \in Places : k # i /\ k # j => Exchanged[k] = results[k]
<1>1. results \in Seq(Records) /\ results[i] \in Records /\ results[j] \in Records
  BY Bounds DEF TypeOK
<1> DEFINE moved == [results EXCEPT ![i] = results[j]]
<1>2. /\ moved \in Seq(Records) /\ Len(moved) = Len(results) /\ moved[i] = results[j]
      /\ \A k \in Places : k # i => moved[k] = results[k]
  BY <1>1, ExceptSeq DEF Places
<1>3. Exchanged = [moved EXCEPT ![j] = results[i]]
  BY DEF Exchanged
<1> HIDE DEF moved
<1>4. /\ Exchanged \in Seq(Records) /\ Len(Exchanged) = Len(results)
      /\ Exchanged[j] = results[i]
      /\ \A k \in Places : k # j => Exchanged[k] = moved[k]
  BY <1>1, <1>2, <1>3, ExceptSeq DEF Places
<1>5. Exchanged[i] = results[j]
  BY <1>2, <1>4
<1> QED BY <1>2, <1>4, <1>5

LEMMA CompareStep ==
  ASSUME Inductive, Compare
  PROVE  Inductive'
<1> USE DEF Inductive
<1>1. /\ UNCHANGED <<stored, namespace, minScore, topK, next, i, pc>> /\ j' = j + 1
      /\ pc = "sorting" /\ i \in Places /\ j \in Places /\ i < j
  BY Bounds DEF Compare, args, Places, SortedUpTo
<1>2. Wanted(Read)' = Wanted(Read) /\ Records' = Records
  BY <1>1 DEF Wanted, Kept, Selected, Read, Records
<1>3. CASE ~(Score(j) > Score(i))
  <2>1. results' = results
    BY <1>3 DEF Compare
  <2>2. TypeOK'
    BY <1>1, <1>2, <2>1, Bounds DEF TypeOK
  <2>3. NoneLost'
    BY <1>1, <1>2, <2>1 DEF NoneLost, Returned, Places
  <2>4. \A k \in Places : Score(k)' = Score(k) /\ Score(k) \in Int
    BY <1>1, <2>1, Bounds DEF Score
  <2>5. ASSUME NEW m \in Places, i < m, m < j + 1
        PROVE  Score(i) >= Score(m)
    <3>1. CASE m = j
      BY <1>1, <1>3, <2>4, <3>1
    <3>2. CASE m # j
      <4>1. m < j
        BY <2>5, <3>2, Bounds DEF Places
      <4> QED BY <1>1, <2>5, <4>1 DEF SortedUpTo
    <3> QED BY <3>1, <3>2
  <2>6. Places' = Places /\ i < j + 1
    BY <1>1, <2>1, Bounds DEF Places
  <2>7. SortedUpTo'
    BY <1>1, <2>4, <2>5, <2>6 DEF SortedUpTo
  <2> QED BY <1>1, <2>2, <2>3, <2>7 DEF BestFirst, NothingBetterLeftOut
<1>4. CASE Score(j) > Score(i)
  <2>1. /\ results' \in Seq(Records) /\ Len(results') = Len(results) /\ Places' = Places
        /\ results'[i] = results[j] /\ results'[j] = results[i]
        /\ \A k \in Places : k # i /\ k # j => results'[k] = results[k]
    <3>1. results' = Exchanged
      BY <1>4 DEF Compare
    <3>2. TypeOK /\ i \in Places /\ j \in Places
      BY <1>1
    <3> QED BY <3>1, <3>2, Exchange DEF Places
  <2>2. TypeOK'
    BY <1>1, <1>2, <2>1, Bounds DEF TypeOK
  <2>3. \A k \in Places : results'[k] =
           results[IF k = i THEN j ELSE IF k = j THEN i ELSE k]
    BY <1>1, <2>1
  <2>4. NoneLost'
    <3> DEFINE other(k) == IF k = i THEN j ELSE IF k = j THEN i ELSE k
    <3>1. \A k \in Places : /\ other(k) \in Places /\ other(other(k)) = k
                             /\ results'[k] = results[other(k)]
      BY <1>1, <2>3
    <3> HIDE DEF other
    <3>2. \A k, m \in Places : results[k] = results[m] => k = m
      BY DEF NoneLost
    <3>3. ASSUME NEW k \in Places, NEW m \in Places, results'[k] = results'[m]
          PROVE  k = m
      <4>1. results[other(k)] = results[other(m)]
        BY <3>1, <3>3
      <4>2. other(k) = other(m)
        BY <3>1, <3>2, <4>1
      <4> QED BY <3>1, <4>2
    <3>4. Returned' = Returned
      <4>1. Returned' = {results'[k] : k \in Places}
        BY <2>1 DEF Returned
      <4>2. \A k \in Places : results'[k] \in Returned
        BY <3>1 DEF Returned
      <4>3. \A k \in Places : results[k] = results'[other(k)]
        BY <3>1
      <4>4. \A k \in Places : results[k] \in Returned'
        BY <3>1, <4>1, <4>3
      <4>5. Returned' \subseteq Returned
        BY <4>1, <4>2
      <4>6. Returned \subseteq Returned'
        BY <4>4 DEF Returned
      <4> QED BY <4>5, <4>6
    <3>5. \A k, m \in Places' : results'[k] = results'[m] => k = m
      BY <2>1, <3>3
    <3> QED BY <1>1, <1>2, <3>4, <3>5 DEF NoneLost
  <2>5. /\ \A k \in Places : k = i => Score(k)' = Score(j)
        /\ \A k \in Places : k = j => Score(k)' = Score(i)
        /\ \A k \in Places : k # i /\ k # j => Score(k)' = Score(k)
    BY <1>1, <2>1 DEF Score
  <2>6. \A k \in Places : Score(k) \in Int
    BY Bounds DEF Score
  <2>7. \A k, m \in Places : k < m /\ k < i => Score(k) >= Score(m)
    BY <1>1 DEF SortedUpTo
  <2>8. \A m \in Places : i < m /\ m < j => Score(i) >= Score(m)
    BY <1>1 DEF SortedUpTo
  <2>9. ASSUME NEW k \in Places, NEW m \in Places, k < m, k < i
        PROVE  Score(k)' >= Score(m)'
    <3>1. k \in Int /\ m \in Int /\ i \in Int /\ j \in Int /\ k < j /\ k # i /\ k # j
      BY <1>1, <2>9, Bounds DEF Places
    <3>2. Score(k)' = Score(k) /\ Score(k) >= Score(m) /\ Score(k) >= Score(i) /\ Score(k) >= Score(j)
      BY <1>1, <2>5, <2>7, <2>9, <3>1
    <3>3. Score(m)' \in {Score(i), Score(j), Score(m)}
      BY <2>5
    <3> QED BY <3>2, <3>3
  <2>10. ASSUME NEW k \in Places, NEW m \in Places, k = i, i < m, m < j + 1
         PROVE  Score(k)' >= Score(m)'
    <3>1. Score(k)' = Score(j) /\ Score(j) >= Score(i)
      BY <1>1, <1>4, <2>5, <2>6, <2>10
    <3>2. CASE m = j
      BY <2>5, <3>1, <3>2
    <3>3. CASE m # j
      <4>1. m < j /\ m # i
        BY <2>10, <3>3, Bounds DEF Places
      <4>2. Score(i) >= Score(m)
        BY <2>8, <2>10, <4>1
      <4>3. Score(m)' = Score(m)
        BY <2>5, <3>3, <4>1
      <4> QED BY <1>1, <2>6, <3>1, <4>2, <4>3
    <3> QED BY <3>2, <3>3
  <2>11. i < j + 1
    BY <1>1, Bounds
  <2>12. \A m \in Places : i < m /\ m < j + 1 => Score(i)' >= Score(m)'
    <3>1. \A k, m \in Places : k = i /\ i < m /\ m < j + 1 => Score(k)' >= Score(m)'
      BY <2>10
    <3> QED BY <1>1, <3>1 DEF Score
  <2>13. SortedUpTo'
    BY <1>1, <2>1, <2>9, <2>11, <2>12 DEF SortedUpTo
  <2> QED BY <1>1, <2>2, <2>4, <2>13 DEF BestFirst, NothingBetterLeftOut
<1> QED BY <1>3, <1>4

LEMMA NextPlaceStep ==
  ASSUME Inductive, NextPlace
  PROVE  Inductive'
<1> USE DEF Inductive
<1>1. /\ UNCHANGED <<stored, namespace, minScore, topK, next, results, pc>>
      /\ i' = i + 1 /\ j' = i + 2
      /\ pc = "sorting" /\ i \in Places /\ j > Len(results)
  BY Bounds DEF NextPlace, args, Places
<1>2. Places' = Places /\ Returned' = Returned /\ Wanted(Read)' = Wanted(Read)
  BY <1>1 DEF Places, Returned, Wanted, Kept, Selected, Read
<1>3. TypeOK'
  BY <1>1, Bounds DEF TypeOK, Records
<1>4. NoneLost'
  BY <1>1, <1>2 DEF NoneLost
<1>5. \A k \in Places : Score(k)' = Score(k)
  BY <1>1 DEF Score
<1>6. ASSUME NEW k \in Places, NEW m \in Places, k < m, k < i + 1
      PROVE  Score(k) >= Score(m)
  <2>1. CASE k < i
    BY <1>1, <1>6, <2>1 DEF SortedUpTo
  <2>2. CASE k = i
    <3>1. m < j
      BY <1>1, Bounds DEF Places
    <3> QED BY <1>1, <1>6, <2>2, <3>1 DEF SortedUpTo
  <2> QED BY <1>6, <2>1, <2>2, Bounds DEF Places
<1>7. \A m \in Places : ~(i + 1 < m /\ m < i + 2)
  BY Bounds DEF Places
<1>8. i + 1 < i + 2
  BY Bounds
<1>9. SortedUpTo'
  BY <1>1, <1>2, <1>5, <1>6, <1>7, <1>8 DEF SortedUpTo
<1> QED BY <1>1, <1>3, <1>4, <1>9 DEF BestFirst, NothingBetterLeftOut

LEMMA CutStep ==
  ASSUME Inductive, Cut
  PROVE  Inductive'
<1> USE DEF Inductive
<1>1. /\ UNCHANGED <<stored, namespace, minScore, topK, next, i, j>>
      /\ pc = "sorting" /\ pc' = "done" /\ i > Len(results)
  BY DEF Cut, args
<1>2. \A k, m \in Places : k < m => Score(k) >= Score(m)
  BY <1>1, Bounds DEF SortedUpTo, Places
<1>3. Wanted(Read)' = Wanted(Read) /\ Records' = Records
  BY <1>1 DEF Wanted, Kept, Selected, Read, Records
<1>4. Returned = Wanted(Read)
  BY <1>1 DEF NoneLost
<1> DEFINE n == Len(results')
<1>5. /\ results' \in Seq(Records) /\ n \in 0 .. Len(results)
      /\ \A k \in 1 .. n : results'[k] = results[k]
      /\ n < Len(results) => topK > 0 /\ n = topK
  <2>1. CASE topK > 0 /\ Len(results) > topK
    <3>1. results' = SubSeq(results, 1, topK) /\ results \in Seq(Records) /\ topK \in Int
      BY <2>1 DEF Cut, TypeOK
    <3>2. \A k \in 1 .. topK : results[k] \in Records
      BY <2>1, Bounds DEF Places, TypeOK
    <3>3. /\ SubSeq(results, 1, topK) \in Seq(Records) /\ Len(SubSeq(results, 1, topK)) = topK
          /\ \A k \in 1 .. topK : SubSeq(results, 1, topK)[k] = results[k]
      BY <2>1, <3>1, <3>2, SubSeqProperties
    <3> QED BY <2>1, <3>1, <3>3, Bounds
  <2>2. CASE ~(topK > 0 /\ Len(results) > topK)
    BY <2>2, Bounds DEF Cut, TypeOK
  <2> QED BY <2>1, <2>2
<1> HIDE DEF n
<1>6. Places' = 1 .. n /\ Places' \subseteq Places
  BY <1>5, Bounds DEF Places, n
<1>7. TypeOK'
  BY <1>1, <1>3, <1>5 DEF TypeOK
<1>8. \A k \in Places' : Score(k)' = Score(k)
  BY <1>1, <1>5, <1>6 DEF Score
<1>9. BestFirst'
  BY <1>2, <1>6, <1>8 DEF BestFirst
<1>10. \A k, m \in Places' : results'[k] = results'[m] => k = m
  BY <1>5, <1>6 DEF NoneLost
<1>11. Returned' \subseteq Wanted(Read)
  BY <1>4, <1>5, <1>6 DEF Returned
<1>12. ASSUME NEW r \in Wanted(Read), r \notin Returned'
       PROVE  /\ topK > 0 /\ n = topK
              /\ \A k \in Places' : Score(k)' >= stored[r].score
  <2>1. PICK m \in Places : results[m] = r
    BY <1>4, <1>12 DEF Returned
  <2>2. m \notin Places'
    BY <1>5, <1>6, <1>12, <2>1 DEF Returned
  <2>3. n < Len(results) /\ \A k \in Places' : k < m
    BY <1>5, <1>6, <2>1, <2>2, Bounds DEF Places
  <2>4. \A k \in Places' : Score(k) >= stored[r].score
    BY <1>2, <1>6, <2>1, <2>3 DEF Score
  <2> QED BY <1>5, <1>8, <2>3, <2>4
<1>13. NothingBetterLeftOut'
  BY <1>1, <1>3, <1>10, <1>11, <1>12 DEF NothingBetterLeftOut, n
<1>14. NoneLost' /\ SortedUpTo'
  BY <1>1, <1>10 DEF NoneLost, SortedUpTo
<1> QED BY <1>7, <1>9, <1>13, <1>14

-------------------------------------------------------------------------------
(* The loops keep every wanted record exactly once and bring the best of    *)
(* those left to the place they are at.                                     *)
THEOREM SearchInvariant == Spec => []Inductive
<1>1. Inductive /\ [Next]_vars => Inductive'
  <2> SUFFICES ASSUME Inductive, [Next]_vars PROVE Inductive'
    OBVIOUS
  <2>1. CASE UNCHANGED vars
    <3>1. UNCHANGED <<stored, namespace, minScore, topK, next, results, i, j, pc>>
      BY <2>1 DEF vars, args
    <3>2. TypeOK'
      BY <3>1 DEF Inductive, TypeOK, Records
    <3>3. NoneLost'
      BY <3>1 DEF Inductive, NoneLost, Returned, Places, Wanted, Kept, Selected, Read
    <3>4. SortedUpTo' /\ BestFirst'
      BY <3>1 DEF Inductive, SortedUpTo, BestFirst, Places, Score
    <3>5. NothingBetterLeftOut'
      BY <3>1 DEF Inductive, NothingBetterLeftOut, Returned, Places, Wanted, Kept, Selected, Read, Score
    <3> QED BY <3>2, <3>3, <3>4, <3>5 DEF Inductive
  <2> QED BY <2>1, ScoreStep, StartStep, FailStep, CompareStep, NextPlaceStep,
            CutStep DEF Next, Over
<1> QED BY <1>1, InitIsInductive, PTL DEF Spec

(* voyage_search lists its results from the best to the worst.              *)
THEOREM ResultsAreSorted == Spec => []BestFirst
BY SearchInvariant, PTL DEF Inductive

(* No record that was read and is above the minimum is left out for a worse *)
(* one, none is listed twice, and a topK that is not positive returns all   *)
(* of them.                                                                 *)
THEOREM TopKIsBest == Spec => []NothingBetterLeftOut
BY SearchInvariant, PTL DEF Inductive
===============================================================================
