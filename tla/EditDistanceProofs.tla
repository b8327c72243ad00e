--------------------------- MODULE EditDistanceProofs ---------------------------
(***************************************************************************)
(* Theorems about EditDistance, for all strings over all alphabets: the     *)
(* table of the textbook algorithm holds the least numbers of edits, and    *)
(* the two rows of fuzzy.LevenshteinDistance are always rows of it.         *)
(*                                                                         *)
(* What a recursive function is for every argument needs an induction.  It  *)
(* is done here by minimal counterexample: the naturals are well founded,   *)
(* so a set of them that is not empty has a least element (LeastElement).   *)
(***************************************************************************)
EXTENDS EditDistance, SequenceTheorems, WellFoundedInduction, TLAPS

Words == Seq(Letters)

-------------------------------------------------------------------------------
(* Induction. *)

LEMMA LeastElement ==
  ASSUME NEW T, T \subseteq Nat, T # {}
  PROVE  \E m \in T : \A n \in T : m <= n
<1> DEFINE Less == {pair \in Nat \X Nat : pair[1] < pair[2]}
<1>1. IsWellFoundedOn(Less, Nat)
  BY NatLessThanWellFounded DEF OpToRel
<1>2. \A m, n \in Nat : m < n => <<m, n>> \in Less
  OBVIOUS
<1> HIDE DEF Less
<1>3. PICK m \in T : \A n \in T : ~(<<n, m>> \in Less)
  BY <1>1, WFMin
<1>4. \A n \in T : n \in Nat /\ m \in Nat /\ ~(n < m)
  BY <1>2, <1>3
<1> QED BY <1>4

(* A set of naturals that has n whenever it has all below n has them all.   *)
LEMMA Induction ==
  ASSUME NEW T, \A n \in Nat : (\A m \in 0 .. n - 1 : m \in T) => n \in T
  PROVE  \A n \in Nat : n \in T
<1> SUFFICES ASSUME NEW k \in Nat, k \notin T PROVE FALSE
  OBVIOUS
<1>1. PICK n \in Nat \ T : \A m \in Nat \ T : n <= m
  <2>1. Nat \ T \subseteq Nat /\ Nat \ T # {}
    OBVIOUS
  <2> QED BY <2>1, LeastElement
<1>2. \A m \in 0 .. n - 1 : m \in Nat /\ ~(n <= m)
  OBVIOUS
<1>3. \A m \in 0 .. n - 1 : m \in T
  BY <1>1, <1>2
<1> QED BY <1>1, <1>3

-------------------------------------------------------------------------------
(* Pieces of strings. *)

LEMMA Pieces ==
  ASSUME NEW s \in Words, NEW k \in 1 .. Len(s) + 1
  PROVE  /\ SubSeq(s, 1, k - 1) \in Words /\ SubSeq(s, k, Len(s)) \in Words
         /\ Len(SubSeq(s, 1, k - 1)) = k - 1
         /\ s = SubSeq(s, 1, k - 1) \o SubSeq(s, k, Len(s))
<1>1. Len(s) \in Nat
  BY LenProperties DEF Words
<1>2. SubSeq(s, 1, k - 1) \in Words /\ Len(SubSeq(s, 1, k - 1)) = k - 1
  <2>1. \A m \in 1 .. k - 1 : s[m] \in Letters
    BY <1>1 DEF Words
  <2>2. k - 1 \in Int /\ 1 \in Int /\ (IF 1 <= k - 1 THEN k - 1 - 1 + 1 ELSE 0) = k - 1
    BY <1>1
  <2> QED BY <2>1, <2>2, SubSeqProperties DEF Words
<1>3. SubSeq(s, k, Len(s)) \in Words
  <2>1. \A m \in k .. Len(s) : s[m] \in Letters
    BY <1>1 DEF Words
  <2> QED BY <1>1, <2>1, SubSeqProperties DEF Words
<1>4. SubSeq(s, 1, k - 1) \o SubSeq(s, k, Len(s)) = SubSeq(s, 1, Len(s))
  <2>1. /\ 1 \in 1 .. Len(s) + 1 /\ k - 1 \in 1 - 1 .. Len(s) /\ Len(s) \in k - 1 .. Len(s)
        /\ (k - 1) + 1 = k
    BY <1>1
  <2> QED BY <2>1, ConcatAdjacentSubSeq DEF Words
<1> QED BY <1>2, <1>3, <1>4, SubSeqFull DEF Words

LEMMA PiecesAround ==
  ASSUME NEW s \in Words, NEW k \in 1 .. Len(s)
  PROVE  /\ SubSeq(s, 1, k - 1) \in Words /\ s[k] \in Letters /\ SubSeq(s, k + 1, Len(s)) \in Words
         /\ Len(SubSeq(s, 1, k - 1)) = k - 1
         /\ s = SubSeq(s, 1, k - 1) \o (<<s[k]>> \o SubSeq(s, k + 1, Len(s)))
<1>1. Len(s) \in Nat /\ k \in 1 .. Len(s) + 1 /\ Len(s) \in k .. Len(s) /\ k + 1 \in 1 .. Len(s) + 1
  BY LenProperties DEF Words
<1>2. SubSeq(s, k, Len(s)) = <<s[k]>> \o SubSeq(s, k + 1, Len(s))
  BY <1>1, SubSeqRecursiveFirst DEF Words
<1>3. /\ SubSeq(s, 1, k - 1) \in Words /\ Len(SubSeq(s, 1, k - 1)) = k - 1
      /\ s = SubSeq(s, 1, k - 1) \o SubSeq(s, k, Len(s))
  BY <1>1, Pieces
<1>4. SubSeq(s, k + 1, Len(s)) \in Words
  BY <1>1, Pieces
<1>5. s[k] \in Letters
  BY DEF Words
<1> QED BY <1>2, <1>3, <1>4, <1>5

(* The pieces of a concatenation are what was concatenated. *)
LEMMA PiecesOfConcat ==
  ASSUME NEW p \in Words, NEW q \in Words
  PROVE  /\ p \o q \in Words /\ Len(p \o q) = Len(p) + Len(q)
         /\ SubSeq(p \o q, 1, Len(p)) = p
         /\ SubSeq(p \o q, Len(p) + 1, Len(p) + Len(q)) = q
<1>1. /\ Len(p) \in Nat /\ Len(q) \in Nat /\ p \o q \in Words /\ Len(p \o q) = Len(p) + Len(q)
      /\ \A m \in 1 .. Len(p) + Len(q) :
           (p \o q)[m] = IF m <= Len(p) THEN p[m] ELSE q[m - Len(p)]
  BY ConcatProperties, LenProperties DEF Words
<1>2. \A m \in 1 .. Len(p) + Len(q) : (p \o q)[m] \in Letters
  BY <1>1 DEF Words
<1>3. SubSeq(p \o q, 1, Len(p)) = p
  <2> DEFINE r == SubSeq(p \o q, 1, Len(p))
  <2>1. r \in Words /\ Len(r) = Len(p) /\ \A m \in 1 .. Len(p) : r[m] = (p \o q)[m]
    <3>1. \A m \in 1 .. Len(p) : (p \o q)[m] \in Letters
      BY <1>1, <1>2
    <3>2. /\ 1 \in Int /\ Len(p) \in Int
          /\ (IF 1 <= Len(p) THEN Len(p) - 1 + 1 ELSE 0) = Len(p)
          /\ \A m \in 1 .. Len(p) : m \in 1 .. Len(p) - 1 + 1 /\ 1 + m - 1 = m
      BY <1>1
    <3> QED BY <3>1, <3>2, SubSeqProperties DEF Words
  <2> HIDE DEF r
  <2>2. \A m \in 1 .. Len(p) : r[m] = p[m]
    BY <1>1, <2>1
  <2>3. r = p
    BY <2>1, <2>2, SeqEqual DEF Words
  <2> QED BY <2>3 DEF r
<1>4. SubSeq(p \o q, Len(p) + 1, Len(p) + Len(q)) = q
  <2> DEFINE r == SubSeq(p \o q, Len(p) + 1, Len(p) + Len(q))
  <2>1. r \in Words /\ Len(r) = Len(q) /\ \A m \in 1 .. Len(q) : r[m] = (p \o q)[Len(p) + m]
    <3>1. \A m \in Len(p) + 1 .. Len(p) + Len(q) : (p \o q)[m] \in Letters
      BY <1>1, <1>2
    <3>2. /\ Len(p) + 1 \in Int /\ Len(p) + Len(q) \in Int
          /\ (IF Len(p) + 1 <= Len(p) + Len(q)
              THEN (Len(p) + Len(q)) - (Len(p) + 1) + 1 ELSE 0) = Len(q)
          /\ \A m \in 1 .. Len(q) : /\ m \in 1 .. (Len(p) + Len(q)) - (Len(p) + 1) + 1
                                    /\ (Len(p) + 1) + m - 1 = Len(p) + m
      BY <1>1
    <3> QED BY <3>1, <3>2, SubSeqProperties DEF Words
  <2> HIDE DEF r
  <2>2. \A m \in 1 .. Len(q) : r[m] = q[m]
    <3>1. \A m \in 1 .. Len(q) : /\ Len(p) + m \in 1 .. Len(p) + Len(q)
                                 /\ ~(Len(p) + m <= Len(p)) /\ (Len(p) + m) - Len(p) = m
      BY <1>1
    <3> QED BY <1>1, <2>1, <3>1
  <2>3. r = q
    BY <2>1, <2>2, SeqEqual DEF Words
  <2> QED BY <2>3 DEF r
<1> QED BY <1>1, <1>3, <1>4

-------------------------------------------------------------------------------
(* Edits. *)

(* The letter x between p and q. *)
Put(p, x, q) == p \o (<<x>> \o q)

(* Around the place of an edit, p and q are left alone.                     *)
Deletes(s, u, p, q)     == \E x \in Letters : s = Put(p, x, q) /\ u = p \o q
Substitutes(s, u, p, q) ==
  \E x, y \in Letters : s = Put(p, x, q) /\ u = Put(p, y, q)
Inserts(s, u, p, q)     == \E x \in Letters : s = p \o q /\ u = Put(p, x, q)

Edits(s, u) ==
  \E p, q \in Words : Deletes(s, u, p, q) \/ Substitutes(s, u, p, q) \/ Inserts(s, u, p, q)

LEMMA OneLetter == \A x \in Letters : <<x>> \in Words /\ Len(<<x>>) = 1
BY DEF Words

(* What w is when it is p, the letter x and q.                              *)
Parts(w, p, x, q) ==
  /\ w \in Words /\ Len(w) = Len(p) + Len(q) + 1
  /\ Len(p) \in Nat /\ Len(q) \in Nat
  /\ Len(p) + 1 \in 1 .. Len(w)
  /\ SubSeq(w, 1, Len(p)) = p
  /\ SubSeq(w, Len(p) + 2, Len(w)) = q
  /\ w[Len(p) + 1] = x
  /\ \A n \in 1 .. Len(p) : w[n] = p[n]
  /\ \A n \in Len(p) + 2 .. Len(w) : w[n] = q[n - Len(p) - 1]

LEMMA Between ==
  ASSUME NEW p \in Words, NEW q \in Words, NEW x \in Letters
  PROVE  Parts(Put(p, x, q), p, x, q)
<1>0. PICK w : w = Put(p, x, q) /\ w = p \o (<<x>> \o q)
  BY DEF Put
<1>1. /\ <<x>> \in Words /\ Len(<<x>>) = 1
      /\ Len(p) \in Nat /\ Len(q) \in Nat
  BY OneLetter, LenProperties DEF Words
<1>2. /\ <<x>> \o q \in Words /\ Len(<<x>> \o q) = Len(q) + 1
      /\ \A n \in 1 .. Len(q) + 1 : (<<x>> \o q)[n] = IF n <= 1 THEN x ELSE q[n - 1]
  <2>1. /\ <<x>> \o q \in Seq(Letters) /\ Len(<<x>> \o q) = Len(<<x>>) + Len(q)
        /\ \A n \in 1 .. Len(<<x>>) + Len(q) :
             (<<x>> \o q)[n] = IF n <= Len(<<x>>) THEN <<x>>[n] ELSE q[n - Len(<<x>>)]
    BY <1>1, ConcatProperties DEF Words
  <2>2. 1 + Len(q) = Len(q) + 1 /\ \A n \in 1 .. Len(q) + 1 : n <= 1 => <<x>>[n] = x
    BY <1>1
  <2> QED BY <1>1, <2>1, <2>2 DEF Words
<1>3. /\ w \in Words /\ Len(w) = Len(p) + (Len(q) + 1)
      /\ \A n \in 1 .. Len(p) + (Len(q) + 1) :
           w[n] = IF n <= Len(p) THEN p[n] ELSE (<<x>> \o q)[n - Len(p)]
  BY <1>0, <1>2, ConcatProperties DEF Words
<1>4. SubSeq(w, 1, Len(p)) = p
  BY <1>0, <1>2, PiecesOfConcat
<1>5. SubSeq(w, Len(p) + 2, Len(w)) = q
  <2>1. p \o <<x>> \in Words /\ Len(p \o <<x>>) = Len(p) + 1
    BY <1>1, PiecesOfConcat
  <2>2. w = (p \o <<x>>) \o q
    BY <1>0, <1>1, ConcatAssociative DEF Words
  <2>3. SubSeq((p \o <<x>>) \o q, Len(p \o <<x>>) + 1, Len(p \o <<x>>) + Len(q)) = q
    BY <2>1, PiecesOfConcat
  <2>4. (Len(p) + 1) + 1 = Len(p) + 2 /\ (Len(p) + 1) + Len(q) = Len(w)
    BY <1>1, <1>3
  <2> QED BY <2>1, <2>2, <2>3, <2>4
<1>6. w[Len(p) + 1] = x
  <2>1. /\ Len(p) + 1 \in 1 .. Len(p) + (Len(q) + 1) /\ ~(Len(p) + 1 <= Len(p))
        /\ (Len(p) + 1) - Len(p) = 1 /\ 1 \in 1 .. Len(q) + 1
    BY <1>1
  <2> QED BY <1>2, <1>3, <2>1
<1>7. \A n \in 1 .. Len(p) : w[n] = p[n]
  BY <1>1, <1>3
<1>8. ASSUME NEW n \in Len(p) + 2 .. Len(w) PROVE w[n] = q[n - Len(p) - 1]
  <2>1. /\ n \in 1 .. Len(p) + (Len(q) + 1) /\ ~(n <= Len(p))
        /\ n - Len(p) \in 1 .. Len(q) + 1 /\ ~(n - Len(p) <= 1)
        /\ (n - Len(p)) - 1 = n - Len(p) - 1
    BY <1>1, <1>3
  <2> QED BY <1>2, <1>3, <2>1
<1>9. Len(w) = Len(p) + Len(q) + 1 /\ Len(p) + 1 \in 1 .. Len(w)
  BY <1>1, <1>3
<1>10. Parts(w, p, x, q)
  BY <1>1, <1>3, <1>4, <1>5, <1>6, <1>7, <1>8, <1>9 DEF Parts
<1> QED BY <1>0, <1>10

LEMMA PutIsConcat ==
  ASSUME NEW p \in Words, NEW q \in Words, NEW x \in Letters
  PROVE  Put(p, x, q) = (p \o <<x>>) \o q
BY OneLetter, ConcatAssociative DEF Words, Put

LEMMA SubstitutedIsEdited ==
  \A s, y : y \in Letters =>
    \A k \in 1 .. Len(s) : [s EXCEPT ![k] = y] \in Edited(s)
BY DEF Edited

(* Edited(s) holds the words that an edit somewhere makes of s.             *)
LEMMA EditForm ==
  ASSUME NEW s \in Words, NEW u
  PROVE  u \in Edited(s) <=> Edits(s, u)
<1>1. Len(s) \in Nat
  BY LenProperties DEF Words
<1>2. ASSUME NEW k \in 1 .. Len(s), u = RemoveAt(s, k) PROVE Edits(s, u)
  <2>1. Deletes(s, u, SubSeq(s, 1, k - 1), SubSeq(s, k + 1, Len(s)))
    BY <1>2, PiecesAround DEF Deletes, RemoveAt, Put
  <2> QED BY <2>1, PiecesAround DEF Edits
<1>3. ASSUME NEW k \in 1 .. Len(s), NEW x \in Letters, u = [s EXCEPT ![k] = x]
      PROVE  Edits(s, u)
  <2>1. PICK p \in Words, q \in Words :
          p = SubSeq(s, 1, k - 1) /\ q = SubSeq(s, k + 1, Len(s))
    BY PiecesAround
  <2>2. PICK y \in Letters : y = s[k]
    BY PiecesAround
  <2>3. s = Put(p, y, q) /\ Len(p) = k - 1
    BY <2>1, <2>2, PiecesAround DEF Put
  <2>4. /\ u \in Words /\ Len(u) = Len(s)
        /\ \A n \in 1 .. Len(s) : u[n] = IF n = k THEN x ELSE s[n]
    BY <1>3, ExceptSeq DEF Words
  <2>5. PICK w : w = Put(p, x, q)
    OBVIOUS
  <2>6. /\ w \in Words /\ Len(w) = Len(p) + Len(q) + 1
        /\ w[Len(p) + 1] = x
        /\ \A n \in 1 .. Len(p) : w[n] = p[n]
        /\ \A n \in Len(p) + 2 .. Len(w) : w[n] = q[n - Len(p) - 1]
        /\ Len(p) \in Nat /\ Len(q) \in Nat
    <3>1. Parts(w, p, x, q)
      BY <2>5, Between
    <3> QED BY <3>1 DEF Parts
  <2>7. /\ Len(s) = Len(p) + Len(q) + 1
        /\ \A n \in 1 .. Len(p) : s[n] = p[n]
        /\ \A n \in Len(p) + 2 .. Len(s) : s[n] = q[n - Len(p) - 1]
    <3>1. Parts(s, p, y, q)
      BY <2>3, Between
    <3> QED BY <3>1 DEF Parts
  <2>8. ASSUME NEW n \in 1 .. Len(s) PROVE u[n] = w[n]
    <3>1. CASE n < k
      <4>1. n \in 1 .. Len(p) /\ n # k
        BY <2>3, <2>6, <3>1
      <4> QED BY <2>4, <2>6, <2>7, <4>1
    <3>2. CASE n = k
      <4>1. n = Len(p) + 1
        BY <2>3, <2>6, <3>2
      <4> QED BY <2>4, <2>6, <3>2, <4>1
    <3>3. CASE n > k
      <4>1. n \in Len(p) + 2 .. Len(s) /\ n # k /\ Len(w) = Len(s)
        BY <2>3, <2>6, <2>7, <3>3
      <4> QED BY <2>4, <2>6, <2>7, <4>1
    <3> QED BY <1>1, <3>1, <3>2, <3>3
  <2>9. u = w
    BY <2>4, <2>6, <2>7, <2>8, SeqEqual DEF Words
  <2>10. Substitutes(s, u, p, q)
    BY <2>3, <2>5, <2>9 DEF Substitutes
  <2> QED BY <2>10 DEF Edits
<1>4. ASSUME NEW k \in 1 .. Len(s) + 1, NEW x \in Letters, u = InsertAt(s, k, x)
      PROVE  Edits(s, u)
  <2>1. PICK p \in Words, q \in Words : p = SubSeq(s, 1, k - 1) /\ q = SubSeq(s, k, Len(s))
    BY Pieces
  <2>2. u = (p \o <<x>>) \o q
    BY <1>4, <2>1 DEF InsertAt
  <2>3. u = Put(p, x, q)
    BY <2>2, PutIsConcat
  <2>4. Inserts(s, u, p, q)
    BY <2>1, <2>3, Pieces DEF Inserts
  <2> QED BY <2>4 DEF Edits
<1>5. ASSUME NEW p \in Words, NEW q \in Words, Deletes(s, u, p, q) PROVE u \in Edited(s)
  <2>1. PICK x \in Letters : s = Put(p, x, q) /\ u = p \o q
    BY <1>5 DEF Deletes
  <2>2. /\ Len(p) + 1 \in 1 .. Len(s) /\ SubSeq(s, 1, Len(p)) = p
        /\ SubSeq(s, Len(p) + 2, Len(s)) = q
        /\ (Len(p) + 1) - 1 = Len(p) /\ (Len(p) + 1) + 1 = Len(p) + 2
    <3>1. Parts(s, p, x, q)
      BY <2>1, Between
    <3> QED BY <3>1 DEF Parts
  <2>3. u = RemoveAt(s, Len(p) + 1)
    BY <2>1, <2>2 DEF RemoveAt
  <2> QED BY <2>2, <2>3 DEF Edited
<1>6. ASSUME NEW p \in Words, NEW q \in Words, Substitutes(s, u, p, q) PROVE u \in Edited(s)
  <2>1. PICK x \in Letters, y \in Letters : s = Put(p, x, q) /\ u = Put(p, y, q)
    BY <1>6 DEF Substitutes
  <2>2. /\ Len(p) + 1 \in 1 .. Len(s) /\ Len(s) = Len(p) + Len(q) + 1
        /\ \A n \in 1 .. Len(p) : s[n] = p[n]
        /\ \A n \in Len(p) + 2 .. Len(s) : s[n] = q[n - Len(p) - 1]
        /\ Len(p) \in Nat /\ Len(q) \in Nat
    <3>1. Parts(s, p, x, q)
      BY <2>1, Between
    <3> QED BY <3>1 DEF Parts
  <2>3. /\ u \in Words /\ Len(u) = Len(p) + Len(q) + 1 /\ u[Len(p) + 1] = y
        /\ \A n \in 1 .. Len(p) : u[n] = p[n]
        /\ \A n \in Len(p) + 2 .. Len(u) : u[n] = q[n - Len(p) - 1]
    <3>1. Parts(u, p, y, q)
      BY <2>1, Between
    <3> QED BY <3>1 DEF Parts
  <2>4. PICK w : w = [s EXCEPT ![Len(p) + 1] = y]
    OBVIOUS
  <2>5. /\ w \in Words /\ Len(w) = Len(s)
        /\ \A n \in 1 .. Len(s) : w[n] = IF n = Len(p) + 1 THEN y ELSE s[n]
    BY <2>2, <2>4, ExceptSeq DEF Words
  <2>6. ASSUME NEW n \in 1 .. Len(u) PROVE u[n] = w[n]
    <3>1. CASE n \in 1 .. Len(p)
      <4>1. n # Len(p) + 1 /\ n \in 1 .. Len(s)
        BY <2>2, <3>1
      <4> QED BY <2>2, <2>3, <2>5, <3>1, <4>1
    <3>2. CASE n = Len(p) + 1
      BY <2>2, <2>3, <2>5, <3>2
    <3>3. CASE n \notin 1 .. Len(p) /\ n # Len(p) + 1
      <4>1. n \in Len(p) + 2 .. Len(u) /\ Len(u) = Len(s)
        BY <2>2, <2>3, <3>3
      <4> QED BY <2>2, <2>3, <2>5, <3>3, <4>1
    <3> QED BY <3>1, <3>2, <3>3
  <2>7. u = w
    BY <2>2, <2>3, <2>5, <2>6, SeqEqual DEF Words
  <2>8. PICK k \in 1 .. Len(s) : u = [s EXCEPT ![k] = y]
    BY <2>2, <2>4, <2>7
  <2> QED BY <2>8, SubstitutedIsEdited
<1>7. ASSUME NEW p \in Words, NEW q \in Words, Inserts(s, u, p, q) PROVE u \in Edited(s)
  <2>1. PICK x \in Letters : s = p \o q /\ u = Put(p, x, q)
    BY <1>7 DEF Inserts
  <2>2. /\ SubSeq(s, 1, Len(p)) = p /\ SubSeq(s, Len(p) + 1, Len(s)) = q
        /\ Len(p) \in Nat /\ Len(q) \in Nat /\ Len(s) = Len(p) + Len(q)
    BY <2>1, PiecesOfConcat, LenProperties DEF Words
  <2>3. Len(p) + 1 \in 1 .. Len(s) + 1 /\ (Len(p) + 1) - 1 = Len(p)
    BY <2>2
  <2>4. u = (p \o <<x>>) \o q
    BY <2>1, PutIsConcat
  <2>5. u = InsertAt(s, Len(p) + 1, x)
    BY <2>2, <2>3, <2>4 DEF InsertAt
  <2> QED BY <2>3, <2>5 DEF Edited
<1>8. u \in Edited(s) => Edits(s, u)
  BY <1>2, <1>3, <1>4 DEF Edited
<1>9. Edits(s, u) => u \in Edited(s)
  BY <1>5, <1>6, <1>7 DEF Edits
<1> QED BY <1>8, <1>9

(* An edit makes a word of a word, one longer or shorter at most.           *)
LEMMA EditedWord ==
  ASSUME NEW s \in Words, NEW u \in Edited(s)
  PROVE  /\ u \in Words /\ Len(s) \in Nat /\ Len(u) \in Nat
         /\ Len(u) <= Len(s) + 1 /\ Len(s) <= Len(u) + 1
<1>1. PICK p \in Words, q \in Words :
        Deletes(s, u, p, q) \/ Substitutes(s, u, p, q) \/ Inserts(s, u, p, q)
  BY EditForm DEF Edits
<1>2. /\ p \o q \in Words /\ Len(p \o q) = Len(p) + Len(q)
      /\ \A x \in Letters : \A w : w = Put(p, x, q) =>
           w \in Words /\ Len(w) = Len(p) + Len(q) + 1
      /\ Len(p) \in Nat /\ Len(q) \in Nat
  <2>1. \A x \in Letters : Parts(Put(p, x, q), p, x, q)
    BY Between
  <2> QED BY <2>1, PiecesOfConcat, LenProperties DEF Words, Parts
<1>3. ASSUME NEW m \in Nat PROVE m <= m + 1 /\ m <= m + 1 + 1
  OBVIOUS
<1>4. Len(p) + Len(q) \in Nat
  BY <1>2
<1>5. CASE Deletes(s, u, p, q)
  BY <1>2, <1>3, <1>4, <1>5 DEF Deletes
<1>6. CASE Substitutes(s, u, p, q)
  BY <1>2, <1>3, <1>4, <1>6 DEF Substitutes
<1>7. CASE Inserts(s, u, p, q)
  BY <1>2, <1>3, <1>4, <1>7 DEF Inserts
<1> QED BY <1>1, <1>5, <1>6, <1>7

-------------------------------------------------------------------------------
(* Balls. *)

(* What the definition of Ball calls ball exists: the words that chains of  *)
(* at most k edits, or none, lead to.                                       *)
LEMMA BallEquations ==
  ASSUME NEW s \in Words
  PROVE  /\ Ball(s, 0) = {s}
         /\ \A n \in Nat : n # 0 =>
              Ball(s, n) = Ball(s, n - 1) \cup UNION {Edited(t) : t \in Ball(s, n - 1)}
<1> DEFINE Chain(c, k, u) ==
             /\ c \in [0 .. k -> Words] /\ c[0] = s /\ c[k] = u
             /\ \A n \in 1 .. k : c[n] = c[n - 1] \/ c[n] \in Edited(c[n - 1])
           F == [k \in Nat |-> {u \in Words : \E c : Chain(c, k, u)}]
           Body(f, k) == IF k = 0 THEN {s}
                         ELSE LET nearer == f[k - 1]
                              IN  nearer \cup UNION {Edited(t) : t \in nearer}
<1>1. F[0] = {s}
  <2>1. ASSUME NEW u \in F[0] PROVE u = s
    OBVIOUS
  <2>2. Chain([n \in 0 .. 0 |-> s], 0, s)
    OBVIOUS
  <2>3. s \in F[0]
    BY <2>2
  <2> QED BY <2>1, <2>3
<1>2. ASSUME NEW k \in Nat, k # 0
      PROVE  F[k] = F[k - 1] \cup UNION {Edited(t) : t \in F[k - 1]}
  <2>0. k - 1 \in Nat /\ k \in 1 .. k
    BY <1>2
  <2>1. ASSUME NEW u \in F[k] PROVE u \in F[k - 1] \cup UNION {Edited(t) : t \in F[k - 1]}
    <3>1. PICK c : Chain(c, k, u)
      OBVIOUS
    <3>2. PICK d : d = [n \in 0 .. k - 1 |-> c[n]]
      OBVIOUS
    <3>3. Chain(d, k - 1, c[k - 1])
      <4>1. d \in [0 .. k - 1 -> Words]
        BY <2>0, <3>1, <3>2
      <4>2. \A n \in 0 .. k - 1 : d[n] = c[n]
        BY <3>2
      <4>3. d[0] = s /\ d[k - 1] = c[k - 1]
        BY <2>0, <3>1, <4>2
      <4>4. \A n \in 1 .. k - 1 : /\ n \in 1 .. k /\ n \in 0 .. k - 1 /\ n - 1 \in 0 .. k - 1
        BY <2>0
      <4>5. \A n \in 1 .. k - 1 : d[n] = d[n - 1] \/ d[n] \in Edited(d[n - 1])
        BY <3>1, <4>2, <4>4
      <4> QED BY <4>1, <4>3, <4>5
    <3>4. c[k - 1] \in Words
      BY <2>0, <3>1
    <3>5. c[k - 1] \in F[k - 1]
      BY <2>0, <3>3, <3>4
    <3>6. u = c[k - 1] \/ u \in Edited(c[k - 1])
      BY <2>0, <3>1
    <3> HIDE DEF F, Chain
    <3> QED BY <3>5, <3>6
  <2>2. ASSUME NEW t \in F[k - 1], NEW u, u = t \/ u \in Edited(t) PROVE u \in F[k]
    <3>1. PICK c : Chain(c, k - 1, t)
      BY <2>0
    <3>2. t \in Words /\ u \in Words
      BY <2>0, <2>2, EditedWord
    <3>3. PICK d : d = [n \in 0 .. k |-> IF n = k THEN u ELSE c[n]]
      OBVIOUS
    <3>4. /\ \A n \in 0 .. k - 1 : n \in 0 .. k /\ n # k /\ d[n] = c[n]
          /\ d[k] = u
      BY <2>0, <3>3
    <3>5. Chain(d, k, u)
      <4>1. d \in [0 .. k -> Words]
        <5>1. \A n \in 0 .. k : n # k => n \in 0 .. k - 1
          BY <2>0
        <5> QED BY <3>1, <3>2, <3>3, <5>1
      <4>2. d[0] = s
        BY <2>0, <3>1, <3>4
      <4>3. ASSUME NEW n \in 1 .. k PROVE d[n] = d[n - 1] \/ d[n] \in Edited(d[n - 1])
        <5>1. CASE n = k
          <6>1. n - 1 \in 0 .. k - 1 /\ d[n - 1] = c[k - 1] /\ c[k - 1] = t
            BY <2>0, <3>1, <3>4, <5>1
          <6> QED BY <2>2, <3>4, <5>1, <6>1
        <5>2. CASE n # k
          <6>1. n \in 1 .. k - 1 /\ n \in 0 .. k - 1 /\ n - 1 \in 0 .. k - 1
            BY <2>0, <5>2
          <6> QED BY <3>1, <3>4, <6>1
        <5> QED BY <5>1, <5>2
      <4> QED BY <3>4, <4>1, <4>2, <4>3
    <3> QED BY <3>2, <3>5
  <2> HIDE DEF F
  <2> QED BY <2>1, <2>2
<1>3. F = [k \in Nat |-> Body(F, k)]
  <2>1. \A k \in Nat : F[k] = Body(F, k)
    <3> HIDE DEF F
    <3> QED BY <1>1, <1>2
  <2> QED BY <2>1
<1> HIDE DEF F
<1>4. PICK B : B = CHOOSE f : f = [k \in Nat |-> Body(f, k)]
  OBVIOUS
<1>5. B = [k \in Nat |-> Body(B, k)]
  BY <1>3, <1>4
<1>6. \A n : Ball(s, n) = B[n]
  BY <1>4 DEF Ball
<1>7. B[0] = {s} /\ \A n \in Nat : n # 0 => B[n] = B[n - 1] \cup UNION {Edited(t) : t \in B[n - 1]}
  BY <1>5
<1> QED BY <1>6, <1>7

LEMMA BallStep ==
  ASSUME NEW s \in Words, NEW n \in Nat
  PROVE  /\ Ball(s, n) \subseteq Ball(s, n + 1)
         /\ \A t \in Ball(s, n) : Edited(t) \subseteq Ball(s, n + 1)
         /\ \A u \in Ball(s, n + 1) : u \in Ball(s, n) \/ \E t \in Ball(s, n) : u \in Edited(t)
<1>1. n + 1 \in Nat /\ n + 1 # 0 /\ (n + 1) - 1 = n
  OBVIOUS
<1>2. Ball(s, n + 1) = Ball(s, n) \cup UNION {Edited(t) : t \in Ball(s, n)}
  BY <1>1, BallEquations
<1> QED BY <1>2

LEMMA BallWords ==
  ASSUME NEW s \in Words
  PROVE  \A n \in Nat : \A u \in Ball(s, n) :
           /\ u \in Words /\ Len(u) \in Nat /\ Len(s) \in Nat
           /\ Len(u) <= Len(s) + n /\ Len(s) <= Len(u) + n
<1> DEFINE Good(n, u) == /\ u \in Words /\ Len(u) \in Nat /\ Len(s) \in Nat
                         /\ Len(u) <= Len(s) + n /\ Len(s) <= Len(u) + n
           T == {n \in Nat : \A u \in Ball(s, n) : Good(n, u)}
<1>1. ASSUME NEW n \in Nat, \A m \in 0 .. n - 1 : m \in T PROVE n \in T
  <2>1. CASE n = 0
    <3>1. Ball(s, n) = {s} /\ Len(s) \in Nat
      BY <2>1, BallEquations, LenProperties DEF Words
    <3> QED BY <2>1, <3>1
  <2>2. CASE n # 0
    <3>1. PICK m \in Nat : n = m + 1 /\ m \in T
      <4>1. n - 1 \in Nat /\ n = (n - 1) + 1 /\ n - 1 \in 0 .. n - 1
        BY <2>2
      <4> HIDE DEF T
      <4> QED BY <1>1, <4>1
    <3>2. \A u \in Ball(s, m) : Good(m, u)
      BY <3>1
    <3>3. ASSUME NEW u \in Ball(s, n) PROVE Good(n, u)
      <4>1. CASE u \in Ball(s, m)
        BY <3>1, <3>2, <4>1
      <4>2. CASE \E t \in Ball(s, m) : u \in Edited(t)
        <5>1. PICK t \in Ball(s, m) : u \in Edited(t)
          BY <4>2
        <5>2. Good(m, t)
          BY <3>2
        <5>3. /\ u \in Words /\ Len(t) \in Nat /\ Len(u) \in Nat
              /\ Len(u) <= Len(t) + 1 /\ Len(t) <= Len(u) + 1
          BY <5>1, <5>2, EditedWord
        <5> QED BY <3>1, <5>2, <5>3
      <4> HIDE DEF Good
      <4> QED BY <3>1, <4>1, <4>2, BallStep
    <3> QED BY <3>3
  <2> QED BY <2>1, <2>2
<1> HIDE DEF T
<1>2. \A n \in Nat : n \in T
  BY <1>1, Induction
<1> QED BY <1>2 DEF T

LEMMA BallGrows ==
  ASSUME NEW s \in Words, NEW m \in Nat
  PROVE  \A n \in Nat : m <= n => Ball(s, m) \subseteq Ball(s, n)
<1> DEFINE T == {n \in Nat : m <= n => Ball(s, m) \subseteq Ball(s, n)}
<1>1. ASSUME NEW n \in Nat, \A k \in 0 .. n - 1 : k \in T PROVE n \in T
  <2> SUFFICES ASSUME m <= n PROVE Ball(s, m) \subseteq Ball(s, n)
    OBVIOUS
  <2>1. CASE n = m
    BY <2>1
  <2>2. CASE n # m
    <3>1. n - 1 \in Nat /\ m <= n - 1 /\ n = (n - 1) + 1 /\ n - 1 \in 0 .. n - 1
      BY <2>2
    <3>2. Ball(s, m) \subseteq Ball(s, n - 1)
      BY <1>1, <3>1
    <3>3. Ball(s, n - 1) \subseteq Ball(s, n)
      <4>1. Ball(s, n - 1) \subseteq Ball(s, (n - 1) + 1)
        BY <3>1, BallStep
      <4> QED BY <3>1, <4>1
    <3> QED BY <3>2, <3>3
  <2> QED BY <2>1, <2>2
<1> HIDE DEF T
<1>2. \A n \in Nat : n \in T
  BY <1>1, Induction
<1> QED BY <1>2 DEF T

(* An edit before the others. *)
LEMMA EditBefore ==
  ASSUME NEW s \in Words, NEW r \in Edited(s)
  PROVE  \A n \in Nat : Ball(r, n) \subseteq Ball(s, n + 1)
<1>0. r \in Words
  BY EditedWord
<1> DEFINE T == {n \in Nat : Ball(r, n) \subseteq Ball(s, n + 1)}
<1>1. ASSUME NEW n \in Nat, \A k \in 0 .. n - 1 : k \in T PROVE n \in T
  <2>1. CASE n = 0
    <3>1. Ball(r, n) = {r} /\ s \in Ball(s, 0)
      BY <1>0, <2>1, BallEquations
    <3>2. r \in Ball(s, 0 + 1)
      <4>1. 0 \in Nat
        OBVIOUS
      <4> QED BY <3>1, <4>1, BallStep
    <3> QED BY <2>1, <3>1, <3>2
  <2>2. CASE n # 0
    <3>1. PICK m \in Nat : n = m + 1 /\ m \in T
      <4>1. n - 1 \in Nat /\ n = (n - 1) + 1 /\ n - 1 \in 0 .. n - 1
        BY <2>2
      <4> HIDE DEF T
      <4> QED BY <1>1, <4>1
    <3>2. Ball(r, m) \subseteq Ball(s, n)
      BY <3>1
    <3>3. ASSUME NEW u \in Ball(r, n) PROVE u \in Ball(s, n + 1)
      <4>1. u \in Ball(r, m) \/ \E t \in Ball(r, m) : u \in Edited(t)
        BY <1>0, <3>1, BallStep
      <4> QED BY <3>2, <4>1, BallStep
    <3> QED BY <3>3
  <2> QED BY <2>1, <2>2
<1> HIDE DEF T
<1>2. \A n \in Nat : n \in T
  BY <1>1, Induction
<1> QED BY <1>2 DEF T

-------------------------------------------------------------------------------
(* The last letter. *)

LEMMA AppendAfter ==
  ASSUME NEW p \in Words, NEW q \in Words, NEW y \in Letters
  PROVE  /\ Append(q, y) \in Words
         /\ Append(p \o q, y) = p \o Append(q, y)
         /\ \A x \in Letters : Append(Put(p, x, q), y) = Put(p, x, Append(q, y))
<1>1. /\ Append(q, y) \in Words /\ Append(q, y) = q \o <<y>> /\ p \o q \in Words
      /\ <<y>> \in Words
  BY AppendProperties, AppendIsConcat, ConcatProperties, OneLetter DEF Words
<1>2. Append(p \o q, y) = p \o Append(q, y)
  <2>1. Append(p \o q, y) = (p \o q) \o <<y>>
    BY <1>1, AppendIsConcat DEF Words
  <2> QED BY <1>1, <2>1, ConcatAssociative DEF Words
<1>3. ASSUME NEW x \in Letters PROVE Append(Put(p, x, q), y) = Put(p, x, Append(q, y))
  <2>1. p \o <<x>> \in Words
    BY OneLetter, ConcatProperties DEF Words
  <2>2. PICK v \in Words : v = p \o <<x>>
    BY <2>1
  <2>3. Put(p, x, q) = v \o q /\ Put(p, x, Append(q, y)) = v \o Append(q, y)
    <3>1. Put(p, x, q) = v \o q
      BY <2>2, PutIsConcat
    <3>2. PICK w \in Words : w = Append(q, y)
      BY <1>1
    <3>3. Put(p, x, w) = v \o w
      BY <2>2, PutIsConcat
    <3> QED BY <3>1, <3>2, <3>3
  <2>4. v \o q \in Words /\ Append(v \o q, y) = (v \o q) \o <<y>>
    BY ConcatProperties, AppendIsConcat DEF Words
  <2>5. (v \o q) \o <<y>> = v \o (q \o <<y>>)
    BY <1>1, ConcatAssociative DEF Words
  <2> QED BY <1>1, <2>3, <2>4, <2>5
<1> QED BY <1>1, <1>2, <1>3

(* p before q ends as q, which is r and the letter x, does.                 *)
Ends(v, w, x)         == v = Append(w, x)
EndsAlike(p, q, r, x) ==
  Ends(p \o q, p \o r, x) /\ \A z \in Letters : Ends(Put(p, z, q), Put(p, z, r), x)

LEMMA SameEnd ==
  ASSUME NEW p \in Words, NEW r \in Words, NEW x \in Letters
  PROVE  EndsAlike(p, Append(r, x), r, x)
<1>1. Ends(p \o Append(r, x), p \o r, x)
  BY AppendAfter DEF Ends
<1>2. \A z \in Letters : Ends(Put(p, z, Append(r, x)), Put(p, z, r), x)
  BY AppendAfter DEF Ends
<1> QED BY <1>1, <1>2 DEF EndsAlike

(* With nothing behind it, the letter put in is the last. *)
LEMMA PutLast ==
  ASSUME NEW p \in Words, NEW x \in Letters
  PROVE  <<>> \in Words /\ Put(p, x, <<>>) = Append(p, x) /\ p \o <<>> = p
<1>1. <<>> \in Words /\ p \o <<>> = p
  BY EmptySeq, ConcatEmptySeq DEF Words
<1>2. Put(p, x, <<>>) = (p \o <<x>>) \o <<>>
  BY <1>1, PutIsConcat
<1>3. p \o <<x>> \in Words /\ p \o <<x>> = Append(p, x)
  BY OneLetter, ConcatProperties, AppendIsConcat DEF Words
<1>4. (p \o <<x>>) \o <<>> = p \o <<x>>
  BY <1>3, ConcatEmptySeq DEF Words
<1> QED BY <1>1, <1>2, <1>3, <1>4

LEMMA EditsAtTheEnd ==
  ASSUME NEW t \in Words, NEW y \in Letters, NEW z \in Letters
  PROVE  /\ Append(t, y) \in Words
         /\ Append(t, y) \in Edited(t)
         /\ t \in Edited(Append(t, y))
         /\ Append(t, z) \in Edited(Append(t, y))
<1>1. Append(t, y) \in Words /\ <<>> \in Words
  BY AppendAfter, PutLast
<1>2. /\ Put(t, y, <<>>) = Append(t, y) /\ Put(t, z, <<>>) = Append(t, z)
      /\ t \o <<>> = t
  BY PutLast
<1>3. Inserts(t, Append(t, y), t, <<>>)
  BY <1>2 DEF Inserts
<1>4. Deletes(Append(t, y), t, t, <<>>)
  BY <1>2 DEF Deletes
<1>5. Substitutes(Append(t, y), Append(t, z), t, <<>>)
  BY <1>2 DEF Substitutes
<1>6. /\ Edits(t, Append(t, y)) /\ Edits(Append(t, y), t)
      /\ Edits(Append(t, y), Append(t, z))
  BY <1>1, <1>3, <1>4, <1>5 DEF Edits
<1> QED BY <1>1, <1>6, EditForm

(* An edit before a letter that stays. *)
LEMMA EditBeforeLast ==
  ASSUME NEW t \in Words, NEW u \in Edited(t), NEW y \in Letters
  PROVE  Append(u, y) \in Edited(Append(t, y))
<1>1. PICK p \in Words, q \in Words :
        Deletes(t, u, p, q) \/ Substitutes(t, u, p, q) \/ Inserts(t, u, p, q)
  BY EditForm DEF Edits
<1>2. /\ Append(t, y) \in Words /\ Append(q, y) \in Words
      /\ Append(p \o q, y) = p \o Append(q, y)
      /\ \A x \in Letters : Append(Put(p, x, q), y) = Put(p, x, Append(q, y))
  BY AppendAfter
<1>3. \/ Deletes(Append(t, y), Append(u, y), p, Append(q, y))
      \/ Substitutes(Append(t, y), Append(u, y), p, Append(q, y))
      \/ Inserts(Append(t, y), Append(u, y), p, Append(q, y))
  BY <1>1, <1>2 DEF Deletes, Substitutes, Inserts
<1> QED BY <1>2, <1>3, EditForm DEF Edits

LEMMA SameLast ==
  ASSUME NEW t \in Words, NEW u \in Words, NEW y \in Letters, NEW z \in Letters,
         Append(t, y) = Append(u, z)
  PROVE  t = u /\ y = z
BY AppendInjective DEF Words

(* The ways in which an edit can end in the word t with the letter y.       *)
LEMMA LastEdit ==
  ASSUME NEW t \in Words, NEW y \in Letters, NEW u \in Words, Append(t, y) \in Edited(u)
  PROVE  \/ u = t
         \/ \E r \in Words : u = Append(r, y) /\ t \in Edited(r)
         \/ \E z \in Letters : u = Append(t, z)
         \/ \E z \in Letters : u = Append(Append(t, y), z)
<1>1. PICK p \in Words, q \in Words : \/ Deletes(u, Append(t, y), p, q)
                                      \/ Substitutes(u, Append(t, y), p, q)
                                      \/ Inserts(u, Append(t, y), p, q)
  BY EditForm DEF Edits
<1>2. CASE q = <<>>
  <2>1. p \o q = p /\ \A x \in Letters : Put(p, x, q) = Append(p, x)
    BY <1>2, PutLast
  <2>2. CASE Deletes(u, Append(t, y), p, q)
    BY <2>1, <2>2 DEF Deletes
  <2>3. CASE Substitutes(u, Append(t, y), p, q)
    <3>1. PICK x \in Letters, z \in Letters : u = Append(p, x) /\ Append(t, y) = Append(p, z)
      BY <2>1, <2>3 DEF Substitutes
    <3>2. t = p
      BY <3>1, SameLast
    <3> QED BY <3>1, <3>2
  <2>4. CASE Inserts(u, Append(t, y), p, q)
    <3>1. PICK z \in Letters : u = p /\ Append(t, y) = Append(p, z)
      BY <2>1, <2>4 DEF Inserts
    <3>2. t = p
      BY <3>1, SameLast
    <3> QED BY <3>1, <3>2
  <2> QED BY <1>1, <2>2, <2>3, <2>4
<1>3. CASE q # <<>>
  <2>1. PICK r \in Words, x \in Letters : q = Append(r, x)
    BY <1>3, SequenceEmptyOrAppend DEF Words
  <2>2. /\ p \o q = Append(p \o r, x) /\ p \o r \in Words
        /\ \A z \in Letters : Put(p, z, q) = Append(Put(p, z, r), x) /\ Put(p, z, r) \in Words
    <3>1. \A z \in Letters : Parts(Put(p, z, r), p, z, r)
      BY Between
    <3>2. p \o r \in Words
      BY PiecesOfConcat
    <3>3. EndsAlike(p, Append(r, x), r, x)
      BY SameEnd
    <3>4. EndsAlike(p, q, r, x)
      BY <2>1, <3>3
    <3>5. \A z \in Letters : Put(p, z, r) \in Words
      BY <3>1 DEF Parts
    <3> QED BY <3>2, <3>4, <3>5 DEF EndsAlike, Ends
  <2>3. CASE Deletes(u, Append(t, y), p, q)
    <3>1. PICK z \in Letters :
            u = Append(Put(p, z, r), x) /\ Append(t, y) = Append(p \o r, x)
      BY <2>2, <2>3 DEF Deletes
    <3>2. t = p \o r /\ y = x
      <4>1. PICK w \in Words : w = p \o r
        BY <2>2
      <4>2. Append(t, y) = Append(w, x)
        BY <3>1, <4>1
      <4>3. t = w /\ y = x
        BY <4>2, SameLast
      <4> QED BY <4>1, <4>3
    <3>3. Deletes(Put(p, z, r), t, p, r)
      BY <3>2 DEF Deletes
    <3>4. t \in Edited(Put(p, z, r))
      BY <2>2, <3>3, EditForm DEF Edits
    <3> QED BY <2>2, <3>1, <3>2, <3>4
  <2>4. CASE Substitutes(u, Append(t, y), p, q)
    <3>1. PICK z \in Letters, v \in Letters :
            u = Append(Put(p, z, r), x) /\ Append(t, y) = Append(Put(p, v, r), x)
      BY <2>2, <2>4 DEF Substitutes
    <3>2. t = Put(p, v, r) /\ y = x
      <4>1. Put(p, v, r) \in Words /\ Append(t, y) = Append(Put(p, v, r), x)
        BY <2>2, <3>1
      <4> QED BY <4>1, SameLast
    <3>3. Substitutes(Put(p, z, r), t, p, r)
      BY <3>2 DEF Substitutes
    <3>4. t \in Edited(Put(p, z, r))
      BY <2>2, <3>3, EditForm DEF Edits
    <3> QED BY <2>2, <3>1, <3>2, <3>4
  <2>5. CASE Inserts(u, Append(t, y), p, q)
    <3>1. PICK v \in Letters :
            u = Append(p \o r, x) /\ Append(t, y) = Append(Put(p, v, r), x)
      BY <2>2, <2>5 DEF Inserts
    <3>2. t = Put(p, v, r) /\ y = x
      <4>1. Put(p, v, r) \in Words /\ Append(t, y) = Append(Put(p, v, r), x)
        BY <2>2, <3>1
      <4> QED BY <4>1, SameLast
    <3>3. Inserts(p \o r, t, p, r)
      BY <3>2 DEF Inserts
    <3>4. t \in Edited(p \o r)
      BY <2>2, <3>3, EditForm DEF Edits
    <3> QED BY <2>2, <3>1, <3>2, <3>4
  <2> QED BY <1>1, <2>3, <2>4, <2>5
<1> QED BY <1>2, <1>3

-------------------------------------------------------------------------------
(* Least numbers of edits. *)

(* The same edits, before a letter that stays. *)
LEMMA BallBeforeLast ==
  ASSUME NEW s \in Words, NEW x \in Letters
  PROVE  \A n \in Nat : \A t \in Ball(s, n) : Append(t, x) \in Ball(Append(s, x), n)
<1>0. Append(s, x) \in Words
  BY EditsAtTheEnd
<1> DEFINE T == {n \in Nat : \A t \in Ball(s, n) : Append(t, x) \in Ball(Append(s, x), n)}
<1>1. ASSUME NEW n \in Nat, \A k \in 0 .. n - 1 : k \in T PROVE n \in T
  <2>1. CASE n = 0
    BY <1>0, <2>1, BallEquations
  <2>2. CASE n # 0
    <3>1. PICK m \in Nat : n = m + 1 /\ m \in T
      <4>1. n - 1 \in Nat /\ n = (n - 1) + 1 /\ n - 1 \in 0 .. n - 1
        BY <2>2
      <4> HIDE DEF T
      <4> QED BY <1>1, <4>1
    <3>2. \A t \in Ball(s, m) : Append(t, x) \in Ball(Append(s, x), m)
      BY <3>1
    <3>3. ASSUME NEW t \in Ball(s, n) PROVE Append(t, x) \in Ball(Append(s, x), n)
      <4>1. CASE t \in Ball(s, m)
        BY <1>0, <3>1, <3>2, <4>1, BallStep
      <4>2. CASE t \notin Ball(s, m)
        <5>1. PICK r \in Ball(s, m) : t \in Edited(r)
          BY <3>1, <4>2, BallStep
        <5>2. Append(t, x) \in Edited(Append(r, x))
          BY <5>1, BallWords, EditBeforeLast
        <5> QED BY <1>0, <3>1, <3>2, <5>2, BallStep
      <4> QED BY <4>1, <4>2
    <3> QED BY <3>3
  <2> QED BY <2>1, <2>2
<1> HIDE DEF T
<1>2. \A n \in Nat : n \in T
  BY <1>1, Induction
<1> QED BY <1>2 DEF T

LEMMA Costs ==
  \A x, y : Cost(x, y) \in Nat /\ Cost(x, y) <= 1 /\ (Cost(x, y) = 0 <=> x = y)
BY DEF Cost

(* The edits that lead to a word with a letter, from those that do without. *)
LEMMA OneMoreEdit ==
  ASSUME NEW s \in Words, NEW x \in Letters, NEW t \in Words, NEW y \in Letters, NEW n \in Nat
  PROVE  /\ Append(t, y) \in Ball(s, n) => Append(t, y) \in Ball(Append(s, x), n + 1)
         /\ t \in Ball(Append(s, x), n) => Append(t, y) \in Ball(Append(s, x), n + 1)
         /\ t \in Ball(s, n) => Append(t, y) \in Ball(Append(s, x), n + Cost(x, y))
<1>1. /\ Append(s, x) \in Words /\ s \in Edited(Append(s, x))
      /\ Append(t, y) \in Edited(t) /\ Append(t, y) \in Edited(Append(t, x))
  BY EditsAtTheEnd
<1>2. Append(t, y) \in Ball(s, n) => Append(t, y) \in Ball(Append(s, x), n + 1)
  BY <1>1, EditBefore
<1>3. t \in Ball(Append(s, x), n) => Append(t, y) \in Ball(Append(s, x), n + 1)
  BY <1>1, BallStep
<1>4. ASSUME t \in Ball(s, n) PROVE Append(t, y) \in Ball(Append(s, x), n + Cost(x, y))
  <2>1. Append(t, x) \in Ball(Append(s, x), n)
    BY <1>4, BallBeforeLast
  <2>2. CASE x = y
    <3>1. n + Cost(x, y) = n
      BY <2>2, Costs
    <3> QED BY <2>1, <2>2, <3>1
  <2>3. CASE x # y
    <3>1. n + Cost(x, y) = n + 1
      BY <2>3 DEF Cost
    <3>2. Append(t, y) \in Ball(Append(s, x), n + 1)
      BY <1>1, <2>1, BallStep
    <3> QED BY <3>1, <3>2
  <2> QED BY <2>2, <2>3
<1> QED BY <1>2, <1>3, <1>4

(* What n edits from s with x to t with y leave for the words without their *)
(* last letters.                                                            *)
Shorter(s, x, t, y, n) ==
  \/ n >= 1 /\ Append(t, y) \in Ball(s, n - 1)
  \/ n >= 1 /\ t \in Ball(Append(s, x), n - 1)
  \/ n >= Cost(x, y) /\ t \in Ball(s, n - Cost(x, y))

LEMMA ShorterGrows ==
  ASSUME NEW s \in Words, NEW x \in Letters, NEW t, NEW y, NEW n \in Nat, Shorter(s, x, t, y, n)
  PROVE  Shorter(s, x, t, y, n + 1)
<1>0. Append(s, x) \in Words /\ Cost(x, y) \in Nat
  BY EditsAtTheEnd, Costs
<1>1. CASE n >= 1 /\ Append(t, y) \in Ball(s, n - 1)
  <2>1. n - 1 \in Nat /\ (n - 1) + 1 = n /\ (n + 1) - 1 = n /\ n + 1 >= 1
    BY <1>1
  <2>2. Append(t, y) \in Ball(s, (n - 1) + 1)
    BY <1>1, <2>1, BallStep
  <2> QED BY <2>1, <2>2 DEF Shorter
<1>2. CASE n >= 1 /\ t \in Ball(Append(s, x), n - 1)
  <2>1. n - 1 \in Nat /\ (n - 1) + 1 = n /\ (n + 1) - 1 = n /\ n + 1 >= 1
    BY <1>2
  <2>2. t \in Ball(Append(s, x), (n - 1) + 1)
    BY <1>0, <1>2, <2>1, BallStep
  <2> QED BY <2>1, <2>2 DEF Shorter
<1>3. CASE n >= Cost(x, y) /\ t \in Ball(s, n - Cost(x, y))
  <2>1. PICK k \in Nat : k = n - Cost(x, y)
    BY <1>0, <1>3
  <2>2. (n + 1) - Cost(x, y) = k + 1 /\ n + 1 >= Cost(x, y)
    BY <1>0, <1>3, <2>1
  <2>3. t \in Ball(s, k + 1)
    BY <1>3, <2>1, BallStep
  <2> QED BY <2>2, <2>3 DEF Shorter
<1> QED BY <1>1, <1>2, <1>3 DEF Shorter

(* Whatever n edits do, the last letters can be taken apart from the rest.  *)
LEMMA LastLetters ==
  ASSUME NEW s \in Words, NEW x \in Letters
  PROVE  \A n \in Nat : \A t \in Words, y \in Letters :
           Append(t, y) \in Ball(Append(s, x), n) => Shorter(s, x, t, y, n)
<1> DEFINE Goal(n, t, y) ==
             Append(t, y) \in Ball(Append(s, x), n) => Shorter(s, x, t, y, n)
           T == {n \in Nat : \A t \in Words, y \in Letters : Goal(n, t, y)}
<1>0. Append(s, x) \in Words
  BY EditsAtTheEnd
<1>1. ASSUME NEW n \in Nat, \A k \in 0 .. n - 1 : k \in T PROVE n \in T
  <2>1. CASE n = 0
    <3>1. Ball(Append(s, x), n) = {Append(s, x)} /\ Ball(s, n) = {s}
      BY <1>0, <2>1, BallEquations
    <3>2. ASSUME NEW t \in Words, NEW y \in Letters, Append(t, y) = Append(s, x)
          PROVE  Shorter(s, x, t, y, n)
      <4>1. t = s /\ y = x
        BY <3>2, SameLast
      <4>2. Cost(x, y) = 0 /\ n - Cost(x, y) = n /\ n >= Cost(x, y)
        BY <2>1, <4>1, Costs
      <4> QED BY <3>1, <4>1, <4>2 DEF Shorter
    <3> QED BY <3>1, <3>2
  <2>2. CASE n # 0
    <3>1. PICK m \in Nat : n = m + 1 /\ m \in T
      <4>1. n - 1 \in Nat /\ n = (n - 1) + 1 /\ n - 1 \in 0 .. n - 1
        BY <2>2
      <4> HIDE DEF T
      <4> QED BY <1>1, <4>1
    <3>2. \A t \in Words, y \in Letters :
            Append(t, y) \in Ball(Append(s, x), m) => Shorter(s, x, t, y, m)
      BY <3>1
    <3>3. /\ n >= 1 /\ n - 1 = m
          /\ Ball(s, m) \subseteq Ball(s, n)
          /\ \A t \in Ball(s, m) : Edited(t) \subseteq Ball(s, n)
      BY <3>1, BallStep
    <3>4. ASSUME NEW t \in Words, NEW y \in Letters, Append(t, y) \in Ball(Append(s, x), m)
          PROVE  Shorter(s, x, t, y, n)
      BY <3>1, <3>2, <3>4, ShorterGrows
    <3>5. ASSUME m >= 1
          PROVE  /\ m - 1 \in Nat
                 /\ Ball(s, m - 1) \subseteq Ball(s, m)
                 /\ Ball(Append(s, x), m - 1) \subseteq Ball(Append(s, x), m)
                 /\ \A t \in Ball(s, m - 1) : Edited(t) \subseteq Ball(s, m)
                 /\ \A t \in Ball(Append(s, x), m - 1) : Edited(t) \subseteq Ball(Append(s, x), m)
      <4>1. PICK l \in Nat : l = m - 1 /\ l + 1 = m
        BY <3>5
      <4> QED BY <1>0, <4>1, BallStep
    <3>6. ASSUME NEW t \in Words, NEW y \in Letters, NEW u \in Ball(Append(s, x), m),
                 Append(t, y) \in Edited(u)
          PROVE  Shorter(s, x, t, y, n)
      <4>1. u \in Words
        BY <1>0, BallWords
      <4>2. CASE u = t
        BY <3>3, <4>2 DEF Shorter
      <4>3. ASSUME NEW r \in Words, u = Append(r, y), t \in Edited(r)
            PROVE  Shorter(s, x, t, y, n)
        <5>1. Shorter(s, x, r, y, m)
          BY <3>2, <4>3
        <5>2. CASE m >= 1 /\ Append(r, y) \in Ball(s, m - 1)
          <6>1. Append(t, y) \in Ball(s, m)
            BY <3>5, <3>6, <4>3, <5>2
          <6> QED BY <3>3, <6>1 DEF Shorter
        <5>3. CASE m >= 1 /\ r \in Ball(Append(s, x), m - 1)
          <6>1. t \in Ball(Append(s, x), m)
            BY <3>5, <4>3, <5>3
          <6> QED BY <3>3, <6>1 DEF Shorter
        <5>4. CASE m >= Cost(x, y) /\ r \in Ball(s, m - Cost(x, y))
          <6>1. PICK k \in Nat : k = m - Cost(x, y)
            BY <5>4, Costs
          <6>2. n >= Cost(x, y) /\ n - Cost(x, y) = k + 1
            BY <3>1, <5>4, <6>1, Costs
          <6>3. t \in Ball(s, k + 1)
            BY <4>3, <5>4, <6>1, BallStep
          <6> QED BY <6>2, <6>3 DEF Shorter
        <5> QED BY <5>1, <5>2, <5>3, <5>4 DEF Shorter
      <4>4. ASSUME NEW z \in Letters, u = Append(t, z) PROVE Shorter(s, x, t, y, n)
        <5>1. Shorter(s, x, t, z, m)
          BY <3>2, <4>4
        <5>2. CASE m >= 1 /\ Append(t, z) \in Ball(s, m - 1)
          <6>1. Append(t, y) \in Ball(s, m)
            BY <3>5, <3>6, <4>4, <5>2
          <6> QED BY <3>3, <6>1 DEF Shorter
        <5>3. CASE m >= 1 /\ t \in Ball(Append(s, x), m - 1)
          <6>1. t \in Ball(Append(s, x), m)
            BY <3>5, <5>3
          <6> QED BY <3>3, <6>1 DEF Shorter
        <5>4. CASE m >= Cost(x, z) /\ t \in Ball(s, m - Cost(x, z))
          <6>1. PICK k \in Nat, l \in Nat : k = m - Cost(x, z) /\ l = n - Cost(x, y) /\ k <= l
            <7>1. Cost(x, z) \in Nat /\ Cost(x, y) \in Nat /\ Cost(x, y) <= 1
              BY Costs
            <7>2. m - Cost(x, z) \in Nat /\ n - Cost(x, y) \in Nat
                  /\ m - Cost(x, z) <= n - Cost(x, y)
              BY <3>1, <5>4, <7>1
            <7> QED BY <7>2
          <6>2. t \in Ball(s, l) /\ n >= Cost(x, y)
            <7>1. n >= Cost(x, y)
              BY <3>1, Costs
            <7> QED BY <5>4, <6>1, <7>1, BallGrows
          <6> QED BY <6>1, <6>2 DEF Shorter
        <5> QED BY <5>1, <5>2, <5>3, <5>4 DEF Shorter
      <4>5. ASSUME NEW z \in Letters, u = Append(Append(t, y), z) PROVE Shorter(s, x, t, y, n)
        <5>0. Append(t, y) \in Words
          BY EditsAtTheEnd
        <5>1. Shorter(s, x, Append(t, y), z, m)
          BY <3>2, <4>5, <5>0
        <5>2. CASE m >= 1 /\ Append(Append(t, y), z) \in Ball(s, m - 1)
          <6>1. Append(t, y) \in Ball(s, m)
            BY <3>5, <3>6, <4>5, <5>2
          <6> QED BY <3>3, <6>1 DEF Shorter
        <5>3. CASE m >= 1 /\ Append(t, y) \in Ball(Append(s, x), m - 1)
          BY <3>4, <3>5, <5>3
        <5>4. CASE m >= Cost(x, z) /\ Append(t, y) \in Ball(s, m - Cost(x, z))
          <6>1. PICK k \in Nat : k = m - Cost(x, z) /\ k <= m
            BY <5>4, Costs
          <6>2. Append(t, y) \in Ball(s, m)
            BY <5>4, <6>1, BallGrows
          <6> QED BY <3>3, <6>2 DEF Shorter
        <5> QED BY <5>1, <5>2, <5>3, <5>4 DEF Shorter
      <4> QED BY <3>6, <4>1, <4>2, <4>3, <4>4, <4>5, LastEdit
    <3>7. ASSUME NEW t \in Words, NEW y \in Letters, Append(t, y) \in Ball(Append(s, x), n)
          PROVE  Shorter(s, x, t, y, n)
      <4>1. \/ Append(t, y) \in Ball(Append(s, x), m)
            \/ \E u \in Ball(Append(s, x), m) : Append(t, y) \in Edited(u)
        BY <1>0, <3>1, <3>7, BallStep
      <4> QED BY <3>4, <3>6, <4>1
    <3> QED BY <3>7
  <2> QED BY <2>1, <2>2
<1> HIDE DEF T
<1>2. \A n \in Nat : n \in T
  BY <1>1, Induction
<1> QED BY <1>2 DEF T

-------------------------------------------------------------------------------
(* Distances. *)

LEMMA DistanceBounds ==
  ASSUME NEW s \in Words, NEW t, NEW n \in Nat
  PROVE  IsDistance(s, t, n) <=> \A k \in Nat : t \in Ball(s, k) <=> n <= k
<1>1. ASSUME IsDistance(s, t, n), NEW k \in Nat PROVE t \in Ball(s, k) <=> n <= k
  <2>1. n <= k => t \in Ball(s, k)
    BY <1>1, BallGrows DEF IsDistance
  <2>2. ASSUME t \in Ball(s, k), ~(n <= k) PROVE FALSE
    <3>1. n > 0 /\ n - 1 \in Nat /\ k <= n - 1
      BY <2>2
    <3>2. t \in Ball(s, n - 1)
      BY <2>2, <3>1, BallGrows
    <3> QED BY <1>1, <3>1, <3>2 DEF IsDistance
  <2> QED BY <2>1, <2>2
<1>2. ASSUME \A k \in Nat : t \in Ball(s, k) <=> n <= k PROVE IsDistance(s, t, n)
  <2>1. t \in Ball(s, n)
    BY <1>2
  <2>2. n > 0 => n - 1 \in Nat /\ ~(n <= n - 1)
    OBVIOUS
  <2> QED BY <1>2, <2>1, <2>2 DEF IsDistance
<1> QED BY <1>1, <1>2

LEMMA DistanceUnique ==
  ASSUME NEW s \in Words, NEW t, NEW m \in Nat, NEW n \in Nat,
         IsDistance(s, t, m), IsDistance(s, t, n)
  PROVE  m = n
<1>1. t \in Ball(s, m) /\ t \in Ball(s, n)
  BY DEF IsDistance
<1>2. m <= n /\ n <= m
  BY <1>1, DistanceBounds
<1> QED BY <1>2

(* The recurrence of the textbook.                                          *)
LEMMA Recurrence ==
  ASSUME NEW s \in Words, NEW x \in Letters, NEW t \in Words, NEW y \in Letters,
         NEW m \in Nat, IsDistance(s, Append(t, y), m),
         NEW n \in Nat, IsDistance(Append(s, x), t, n),
         NEW l \in Nat, IsDistance(s, t, l)
  PROVE  IsDistance(Append(s, x), Append(t, y), Min3(m + 1, n + 1, l + Cost(x, y)))
<1>1. PICK d : d = Min3(m + 1, n + 1, l + Cost(x, y))
  OBVIOUS
<1>2. Cost(x, y) \in Nat
  BY Costs
<1>3. /\ d \in Nat /\ d <= m + 1 /\ d <= n + 1 /\ d <= l + Cost(x, y)
      /\ d = m + 1 \/ d = n + 1 \/ d = l + Cost(x, y)
  BY <1>1, <1>2 DEF Min3, Min2
<1>4. Append(s, x) \in Words /\ Append(t, y) \in Words
  BY EditsAtTheEnd
<1>5. Append(t, y) \in Ball(Append(s, x), d)
  <2>1. /\ Append(t, y) \in Ball(s, m) /\ t \in Ball(Append(s, x), n) /\ t \in Ball(s, l)
    BY DEF IsDistance
  <2> QED BY <1>3, <2>1, OneMoreEdit
<1>6. ASSUME NEW k \in Nat, Append(t, y) \in Ball(Append(s, x), k) PROVE d <= k
  <2>1. Shorter(s, x, t, y, k)
    BY <1>6, LastLetters
  <2>2. CASE k >= 1 /\ Append(t, y) \in Ball(s, k - 1)
    <3>1. k - 1 \in Nat
      BY <2>2
    <3>2. m <= k - 1
      BY <2>2, <3>1, DistanceBounds
    <3> QED BY <1>3, <3>1, <3>2
  <2>3. CASE k >= 1 /\ t \in Ball(Append(s, x), k - 1)
    <3>1. k - 1 \in Nat
      BY <2>3
    <3>2. n <= k - 1
      BY <1>4, <2>3, <3>1, DistanceBounds
    <3> QED BY <1>3, <3>1, <3>2
  <2>4. CASE k >= Cost(x, y) /\ t \in Ball(s, k - Cost(x, y))
    <3>1. k - Cost(x, y) \in Nat
      BY <1>2, <2>4
    <3>2. l <= k - Cost(x, y)
      BY <2>4, <3>1, DistanceBounds
    <3> QED BY <1>2, <1>3, <3>1, <3>2
  <2> QED BY <2>1, <2>2, <2>3, <2>4 DEF Shorter
<1>7. \A k \in Nat : Append(t, y) \in Ball(Append(s, x), k) <=> d <= k
  BY <1>3, <1>4, <1>5, <1>6, BallGrows
<1>8. IsDistance(Append(s, x), Append(t, y), d)
  BY <1>3, <1>4, <1>7, DistanceBounds
<1> QED BY <1>1, <1>8

(* A word that is not empty has a last letter. *)
LEMMA Split ==
  ASSUME NEW s \in Words
  PROVE  /\ Len(s) \in Nat
         /\ Len(s) = 0 <=> s = <<>>
         /\ Len(s) # 0 => \E r \in Words, x \in Letters :
                            s = Append(r, x) /\ Len(r) \in Nat /\ Len(s) = Len(r) + 1
<1>1. Len(s) \in Nat /\ (Len(s) = 0 <=> s = <<>>)
  BY EmptySeq DEF Words
<1>2. ASSUME Len(s) # 0
      PROVE  \E r \in Words, x \in Letters :
               s = Append(r, x) /\ Len(r) \in Nat /\ Len(s) = Len(r) + 1
  <2>1. PICK r \in Words, x \in Letters : s = Append(r, x)
    BY <1>1, <1>2, SequenceEmptyOrAppend DEF Words
  <2> QED BY <2>1, AppendProperties, LenProperties DEF Words
<1> QED BY <1>1, <1>2

(* To or from the empty word one deletes or inserts every letter.           *)
LEMMA EmptyDistances ==
  ASSUME NEW s \in Words
  PROVE  IsDistance(<<>>, s, Len(s)) /\ IsDistance(s, <<>>, Len(s))
<1>0. <<>> \in Words /\ Len(<<>>) = 0
  BY EmptySeq DEF Words
<1> DEFINE T == {n \in Nat : \A t \in Words :
                   Len(t) = n => t \in Ball(<<>>, n) /\ <<>> \in Ball(t, n)}
<1>1. ASSUME NEW n \in Nat, \A k \in 0 .. n - 1 : k \in T PROVE n \in T
  <2> SUFFICES ASSUME NEW t \in Words, Len(t) = n
               PROVE  t \in Ball(<<>>, n) /\ <<>> \in Ball(t, n)
    OBVIOUS
  <2>1. CASE n = 0
    <3>1. t = <<>>
      BY <2>1, Split
    <3> QED BY <1>0, <2>1, <3>1, BallEquations
  <2>2. CASE n # 0
    <3>1. PICK r \in Words, x \in Letters :
            t = Append(r, x) /\ Len(r) \in Nat /\ Len(t) = Len(r) + 1
      BY <2>2, Split
    <3>2. Len(r) \in 0 .. n - 1 /\ n = Len(r) + 1
      BY <3>1
    <3>3. r \in Ball(<<>>, Len(r)) /\ <<>> \in Ball(r, Len(r))
      BY <1>1, <3>2
    <3>4. t \in Edited(r) /\ r \in Edited(t)
      BY <3>1, EditsAtTheEnd
    <3> HIDE DEF T
    <3>5. t \in Ball(<<>>, Len(r) + 1)
      BY <1>0, <3>1, <3>3, <3>4, BallStep
    <3>6. <<>> \in Ball(t, Len(r) + 1)
      BY <3>1, <3>3, <3>4, EditBefore
    <3> QED BY <3>2, <3>5, <3>6
  <2> QED BY <2>1, <2>2
<1> HIDE DEF T
<1>2. \A n \in Nat : n \in T
  BY <1>1, Induction
<1>3. Len(s) \in Nat /\ s \in Ball(<<>>, Len(s)) /\ <<>> \in Ball(s, Len(s))
  BY <1>2, Split DEF T
<1>4. ASSUME NEW k \in Nat
      PROVE  /\ s \in Ball(<<>>, k) => Len(s) <= k
             /\ <<>> \in Ball(s, k) => Len(s) <= k
  BY <1>0, <1>3, BallWords
<1>5. /\ \A k \in Nat : s \in Ball(<<>>, k) <=> Len(s) <= k
      /\ \A k \in Nat : <<>> \in Ball(s, k) <=> Len(s) <= k
  BY <1>0, <1>3, <1>4, BallGrows
<1> QED BY <1>0, <1>3, <1>5, DistanceBounds

LEMMA DistanceExists ==
  ASSUME NEW s \in Words, NEW t \in Words
  PROVE  \E n \in Nat : IsDistance(s, t, n)
<1> DEFINE T == {k \in Nat : \A u, v \in Words :
                   Len(u) + Len(v) = k => \E n \in Nat : IsDistance(u, v, n)}
<1>1. ASSUME NEW k \in Nat, \A m \in 0 .. k - 1 : m \in T PROVE k \in T
  <2> SUFFICES ASSUME NEW u \in Words, NEW v \in Words, Len(u) + Len(v) = k
               PROVE  \E n \in Nat : IsDistance(u, v, n)
    OBVIOUS
  <2>1. CASE Len(u) = 0
    <3>1. u = <<>> /\ Len(v) \in Nat
      BY <2>1, Split
    <3> QED BY <3>1, EmptyDistances
  <2>2. CASE Len(v) = 0
    <3>1. v = <<>> /\ Len(u) \in Nat
      BY <2>2, Split
    <3> QED BY <3>1, EmptyDistances
  <2>3. CASE Len(u) # 0 /\ Len(v) # 0
    <3>1. PICK r \in Words, x \in Letters :
            u = Append(r, x) /\ Len(r) \in Nat /\ Len(u) = Len(r) + 1
      BY <2>3, Split
    <3>2. PICK w \in Words, y \in Letters :
            v = Append(w, y) /\ Len(w) \in Nat /\ Len(v) = Len(w) + 1
      BY <2>3, Split
    <3>3. /\ Len(r) + Len(v) \in 0 .. k - 1 /\ Len(u) + Len(w) \in 0 .. k - 1
          /\ Len(r) + Len(w) \in 0 .. k - 1
      BY <3>1, <3>2
    <3>4. PICK m \in Nat : IsDistance(r, v, m)
      BY <1>1, <3>3
    <3>5. PICK n \in Nat : IsDistance(u, w, n)
      BY <1>1, <3>3
    <3>6. PICK l \in Nat : IsDistance(r, w, l)
      BY <1>1, <3>3
    <3>7. IsDistance(u, v, Min3(m + 1, n + 1, l + Cost(x, y)))
      BY <3>1, <3>2, <3>4, <3>5, <3>6, Recurrence
    <3>8. Min3(m + 1, n + 1, l + Cost(x, y)) \in Nat
      BY Costs DEF Min3, Min2
    <3> QED BY <3>7, <3>8
  <2> QED BY <2>1, <2>2, <2>3
<1> HIDE DEF T
<1>2. \A n \in Nat : n \in T
  BY <1>1, Induction
<1>3. Len(s) + Len(t) \in Nat
  BY Split
<1> QED BY <1>2, <1>3 DEF T

-------------------------------------------------------------------------------
(* The table. *)

Prefix(s, m) == SubSeq(s, 1, m)

LEMMA PrefixFacts ==
  ASSUME NEW s \in Words
  PROVE  /\ Len(s) \in Nat /\ Prefix(s, 0) = <<>> /\ Prefix(s, Len(s)) = s
         /\ \A m \in 0 .. Len(s) : Prefix(s, m) \in Words /\ Len(Prefix(s, m)) = m
         /\ \A m \in 1 .. Len(s) :
              s[m] \in Letters /\ Prefix(s, m) = Append(Prefix(s, m - 1), s[m])
<1>1. Len(s) \in Nat /\ Prefix(s, Len(s)) = s
  BY LenProperties, SubSeqFull DEF Prefix, Words
<1>2. Prefix(s, 0) = <<>>
  BY SubSeqEmpty DEF Prefix
<1>3. ASSUME NEW m \in 0 .. Len(s) PROVE Prefix(s, m) \in Words /\ Len(Prefix(s, m)) = m
  <2>1. m + 1 \in 1 .. Len(s) + 1 /\ (m + 1) - 1 = m
    BY <1>1
  <2> QED BY <2>1, Pieces DEF Prefix
<1>4. ASSUME NEW m \in 1 .. Len(s)
      PROVE  s[m] \in Letters /\ Prefix(s, m) = Append(Prefix(s, m - 1), s[m])
  <2>1. s[m] \in Letters
    BY DEF Words
  <2>2. 1 \in 1 .. Len(s) /\ m \in 1 .. Len(s) /\ m - 1 \in 0 .. Len(s)
    BY <1>1
  <2>3. Prefix(s, m) = Prefix(s, m - 1) \o <<s[m]>>
    BY <2>2, SubSeqRecursiveSecond DEF Prefix, Words
  <2>4. Prefix(s, m - 1) \in Words
    BY <1>3, <2>2
  <2>5. Append(Prefix(s, m - 1), s[m]) = Prefix(s, m - 1) \o <<s[m]>>
    BY <2>1, <2>4, AppendIsConcat DEF Words
  <2> QED BY <2>1, <2>3, <2>5
<1> QED BY <1>1, <1>2, <1>3, <1>4

LEMMA LeastOfThree ==
  \A m, n, k \in Nat :
    \A x, y : Min3(m + 1, n + 1, k + Cost(x, y)) \in Nat
  BY Costs DEF Min3, Min2

Cells(s, u) == (0 .. Len(s)) \X (0 .. Len(u))

(* What the definition of TableOf says of a cell, when the table is t.      *)
CellOf(t, s, u, c) ==
  IF c[1] = 0 THEN c[2]
  ELSE IF c[2] = 0 THEN c[1]
  ELSE Min3(t[<<c[1] - 1, c[2]>>] + 1, t[<<c[1], c[2] - 1>>] + 1,
            t[<<c[1] - 1, c[2] - 1>>] + Cost(s[c[1]], u[c[2]]))

(* The distances between prefixes satisfy that.                             *)
LEMMA DistancesAreCells ==
  ASSUME NEW s \in Words, NEW u \in Words
  PROVE  \E t \in [Cells(s, u) -> Nat] : t = [c \in Cells(s, u) |-> CellOf(t, s, u, c)]
<1>1. PICK t : t = [c \in Cells(s, u) |->
                      CHOOSE n \in Nat : IsDistance(Prefix(s, c[1]), Prefix(u, c[2]), n)]
  OBVIOUS
<1>2. ASSUME NEW m \in 0 .. Len(s), NEW n \in 0 .. Len(u)
      PROVE  /\ <<m, n>> \in Cells(s, u) /\ t[<<m, n>>] \in Nat
             /\ IsDistance(Prefix(s, m), Prefix(u, n), t[<<m, n>>])
  <2>1. \E k \in Nat : IsDistance(Prefix(s, m), Prefix(u, n), k)
    BY PrefixFacts, DistanceExists
  <2>2. /\ <<m, n>> \in Cells(s, u)
        /\ t[<<m, n>>] = CHOOSE k \in Nat : IsDistance(Prefix(s, m), Prefix(u, n), k)
    BY <1>1 DEF Cells
  <2> QED BY <2>1, <2>2
<1>3. ASSUME NEW m \in 0 .. Len(s), NEW n \in 0 .. Len(u)
      PROVE  t[<<m, n>>] = CellOf(t, s, u, <<m, n>>)
  <2>0. /\ Prefix(s, m) \in Words /\ Len(Prefix(s, m)) = m /\ m \in Nat
        /\ Prefix(u, n) \in Words /\ Len(Prefix(u, n)) = n /\ n \in Nat
        /\ Prefix(s, 0) = <<>> /\ Prefix(u, 0) = <<>>
        /\ Len(s) \in Nat /\ Len(u) \in Nat
    BY PrefixFacts
  <2>1. CASE m = 0
    <3>1. IsDistance(Prefix(s, m), Prefix(u, n), n)
      BY <2>0, <2>1, EmptyDistances
    <3>2. t[<<m, n>>] = n
      BY <1>2, <2>0, <3>1, DistanceUnique
    <3> QED BY <2>1, <3>2 DEF CellOf
  <2>2. CASE m # 0 /\ n = 0
    <3>1. IsDistance(Prefix(s, m), Prefix(u, n), m)
      BY <2>0, <2>2, EmptyDistances
    <3>2. t[<<m, n>>] = m
      BY <1>2, <2>0, <3>1, DistanceUnique
    <3> QED BY <2>2, <3>2 DEF CellOf
  <2>3. CASE m # 0 /\ n # 0
    <3>1. m \in 1 .. Len(s) /\ m - 1 \in 0 .. Len(s) /\ n \in 1 .. Len(u) /\ n - 1 \in 0 .. Len(u)
      BY <2>0, <2>3
    <3>2. /\ Prefix(s, m - 1) \in Words /\ s[m] \in Letters
          /\ Prefix(s, m) = Append(Prefix(s, m - 1), s[m])
          /\ Prefix(u, n - 1) \in Words /\ u[n] \in Letters
          /\ Prefix(u, n) = Append(Prefix(u, n - 1), u[n])
      BY <3>1, PrefixFacts
    <3>3. PICK k \in Nat : k = t[<<m - 1, n>>] /\ IsDistance(Prefix(s, m - 1), Prefix(u, n), k)
      BY <1>2, <3>1
    <3>4. PICK l \in Nat : l = t[<<m, n - 1>>] /\ IsDistance(Prefix(s, m), Prefix(u, n - 1), l)
      BY <1>2, <3>1
    <3>5. PICK h \in Nat :
            h = t[<<m - 1, n - 1>>] /\ IsDistance(Prefix(s, m - 1), Prefix(u, n - 1), h)
      BY <1>2, <3>1
    <3>6. PICK d : d = Min3(k + 1, l + 1, h + Cost(s[m], u[n]))
      OBVIOUS
    <3>7. d \in Nat
      BY <3>6, LeastOfThree
    <3>8. PICK v, w : v = Prefix(s, m - 1) /\ w = Prefix(u, n - 1)
      OBVIOUS
    <3>9. /\ IsDistance(v, Append(w, u[n]), k) /\ IsDistance(Append(v, s[m]), w, l)
          /\ IsDistance(v, w, h)
      BY <3>2, <3>3, <3>4, <3>5, <3>8
    <3>10. IsDistance(Append(v, s[m]), Append(w, u[n]), Min3(k + 1, l + 1, h + Cost(s[m], u[n])))
      BY <3>2, <3>8, <3>9, Recurrence
    <3>11. IsDistance(Prefix(s, m), Prefix(u, n), d)
      BY <3>2, <3>6, <3>8, <3>10
    <3>12. t[<<m, n>>] = d
      BY <1>2, <2>0, <3>7, <3>11, DistanceUnique
    <3> QED BY <2>3, <3>3, <3>4, <3>5, <3>6, <3>12 DEF CellOf
  <2> QED BY <2>1, <2>2, <2>3
<1>4. t \in [Cells(s, u) -> Nat]
  <2>1. \A c \in Cells(s, u) : c = <<c[1], c[2]>> /\ c[1] \in 0 .. Len(s) /\ c[2] \in 0 .. Len(u)
    BY DEF Cells
  <2>2. \A c \in Cells(s, u) : t[c] \in Nat
    BY <1>2, <2>1
  <2> QED BY <1>1, <2>2
<1>5. t = [c \in Cells(s, u) |-> CellOf(t, s, u, c)]
  <2>1. \A c \in Cells(s, u) : c = <<c[1], c[2]>> /\ c[1] \in 0 .. Len(s) /\ c[2] \in 0 .. Len(u)
    BY DEF Cells
  <2>2. \A c \in Cells(s, u) : t[c] = CellOf(t, s, u, c)
    BY <1>3, <2>1
  <2> QED BY <1>1, <2>2
<1> QED BY <1>4, <1>5

(* So the table exists, and is a table. *)
LEMMA TableIsTable ==
  ASSUME NEW s \in Words, NEW u \in Words
  PROVE  IsTable(TableOf(s, u), s, u)
<1>1. PICK B : B = CHOOSE t : t = [c \in Cells(s, u) |-> CellOf(t, s, u, c)]
  OBVIOUS
<1>2. B = [c \in Cells(s, u) |-> CellOf(B, s, u, c)]
  BY <1>1, DistancesAreCells
<1>3. TableOf(s, u) = B
  BY <1>1 DEF TableOf, CellOf, Cells
<1>4. ASSUME NEW m \in 0 .. Len(s), NEW n \in 0 .. Len(u)
      PROVE  B[<<m, n>>] = CellOf(B, s, u, <<m, n>>)
  BY <1>2 DEF Cells
<1>5. Len(s) \in Nat /\ Len(u) \in Nat
  BY PrefixFacts
<1> DEFINE T == {k \in Nat : \A m \in 0 .. Len(s), n \in 0 .. Len(u) :
                   m + n = k => B[<<m, n>>] \in Nat}
<1>6. ASSUME NEW k \in Nat, \A l \in 0 .. k - 1 : l \in T PROVE k \in T
  <2> SUFFICES ASSUME NEW m \in 0 .. Len(s), NEW n \in 0 .. Len(u), m + n = k
               PROVE  B[<<m, n>>] \in Nat
    OBVIOUS
  <2>1. CASE m = 0 \/ n = 0
    <3>1. B[<<m, n>>] = IF m = 0 THEN n ELSE m
      BY <1>4, <2>1 DEF CellOf
    <3> QED BY <1>5, <3>1
  <2>2. CASE m # 0 /\ n # 0
    <3>1. /\ m - 1 \in 0 .. Len(s) /\ n - 1 \in 0 .. Len(u)
          /\ (m - 1) + n \in 0 .. k - 1 /\ m + (n - 1) \in 0 .. k - 1
          /\ (m - 1) + (n - 1) \in 0 .. k - 1
      BY <1>5, <2>2
    <3>2. B[<<m - 1, n>>] \in Nat /\ B[<<m, n - 1>>] \in Nat /\ B[<<m - 1, n - 1>>] \in Nat
      BY <1>6, <3>1
    <3>3. B[<<m, n>>] = Min3(B[<<m - 1, n>>] + 1, B[<<m, n - 1>>] + 1,
                             B[<<m - 1, n - 1>>] + Cost(s[m], u[n]))
      BY <1>4, <2>2 DEF CellOf
    <3>4. PICK h \in Nat, d \in Nat, e \in Nat :
            h = B[<<m - 1, n>>] /\ d = B[<<m, n - 1>>] /\ e = B[<<m - 1, n - 1>>]
      BY <3>2
    <3>5. B[<<m, n>>] = Min3(h + 1, d + 1, e + Cost(s[m], u[n]))
      BY <3>3, <3>4
    <3>6. Min3(h + 1, d + 1, e + Cost(s[m], u[n])) \in Nat
      BY LeastOfThree
    <3> QED BY <3>5, <3>6
  <2> QED BY <2>1, <2>2
<1> HIDE DEF T
<1>7. \A k \in Nat : k \in T
  BY <1>6, Induction
<1>8. ASSUME NEW m \in 0 .. Len(s), NEW n \in 0 .. Len(u) PROVE B[<<m, n>>] \in Nat
  <2>1. m + n \in Nat
    BY <1>5
  <2> QED BY <1>7, <2>1 DEF T
<1>9. B \in [Cells(s, u) -> Nat]
  <2>1. \A c \in Cells(s, u) : c = <<c[1], c[2]>> /\ c[1] \in 0 .. Len(s) /\ c[2] \in 0 .. Len(u)
    BY DEF Cells
  <2>2. \A c \in Cells(s, u) : B[c] \in Nat
    BY <1>8, <2>1
  <2> QED BY <1>2, <2>2
<1>10. /\ \A n \in 0 .. Len(u) : B[<<0, n>>] = n
       /\ \A m \in 0 .. Len(s) : B[<<m, 0>>] = m
  <2>1. 0 \in 0 .. Len(s) /\ 0 \in 0 .. Len(u)
    BY <1>5
  <2> QED BY <1>4, <2>1 DEF CellOf
<1>11. ASSUME NEW m \in 1 .. Len(s), NEW n \in 1 .. Len(u)
       PROVE  B[<<m, n>>] = Min3(B[<<m - 1, n>>] + 1, B[<<m, n - 1>>] + 1,
                                 B[<<m - 1, n - 1>>] + Cost(s[m], u[n]))
  <2>1. m \in 0 .. Len(s) /\ n \in 0 .. Len(u) /\ m # 0 /\ n # 0
    BY <1>5
  <2> QED BY <1>4, <2>1 DEF CellOf
<1> QED BY <1>3, <1>9, <1>10, <1>11 DEF IsTable, Cells

(* Whatever satisfies the equations of the table holds the distances.       *)
LEMMA TableHoldsDistances ==
  ASSUME NEW s \in Words, NEW u \in Words, NEW t, IsTable(t, s, u)
  PROVE  \A m \in 0 .. Len(s), n \in 0 .. Len(u) :
           t[<<m, n>>] \in Nat /\ IsDistance(Prefix(s, m), Prefix(u, n), t[<<m, n>>])
<1> DEFINE Good(m, n) == IsDistance(Prefix(s, m), Prefix(u, n), t[<<m, n>>])
           T == {k \in Nat : \A m \in 0 .. Len(s), n \in 0 .. Len(u) : m + n = k => Good(m, n)}
<1>0. /\ Len(s) \in Nat /\ Len(u) \in Nat
      /\ \A m \in 0 .. Len(s), n \in 0 .. Len(u) : t[<<m, n>>] \in Nat
  BY PrefixFacts DEF IsTable
<1>1. ASSUME NEW k \in Nat, \A l \in 0 .. k - 1 : l \in T PROVE k \in T
  <2> SUFFICES ASSUME NEW m \in 0 .. Len(s), NEW n \in 0 .. Len(u), m + n = k PROVE Good(m, n)
    OBVIOUS
  <2>1. CASE m = 0
    <3>1. Prefix(s, m) = <<>> /\ Prefix(u, n) \in Words /\ Len(Prefix(u, n)) = n /\ t[<<m, n>>] = n
      BY <2>1, PrefixFacts DEF IsTable
    <3> QED BY <3>1, EmptyDistances
  <2>2. CASE n = 0
    <3>1. Prefix(u, n) = <<>> /\ Prefix(s, m) \in Words /\ Len(Prefix(s, m)) = m /\ t[<<m, n>>] = m
      BY <2>2, PrefixFacts DEF IsTable
    <3> QED BY <3>1, EmptyDistances
  <2>3. CASE m # 0 /\ n # 0
    <3>1. /\ m \in 1 .. Len(s) /\ n \in 1 .. Len(u)
          /\ m - 1 \in 0 .. Len(s) /\ n - 1 \in 0 .. Len(u)
          /\ (m - 1) + n \in 0 .. k - 1 /\ m + (n - 1) \in 0 .. k - 1
          /\ (m - 1) + (n - 1) \in 0 .. k - 1
      BY <1>0, <2>3
    <3>2. Good(m - 1, n) /\ Good(m, n - 1) /\ Good(m - 1, n - 1)
      BY <1>1, <3>1
    <3>3. /\ Prefix(s, m - 1) \in Words /\ s[m] \in Letters
          /\ Prefix(s, m) = Append(Prefix(s, m - 1), s[m])
          /\ Prefix(u, n - 1) \in Words /\ u[n] \in Letters
          /\ Prefix(u, n) = Append(Prefix(u, n - 1), u[n])
      BY <3>1, PrefixFacts
    <3>4. PICK h \in Nat, d \in Nat, e \in Nat :
            h = t[<<m - 1, n>>] /\ d = t[<<m, n - 1>>] /\ e = t[<<m - 1, n - 1>>]
      BY <1>0, <3>1
    <3>5. t[<<m, n>>] = Min3(h + 1, d + 1, e + Cost(s[m], u[n]))
      BY <3>1, <3>4 DEF IsTable
    <3>6. PICK v, w : v = Prefix(s, m - 1) /\ w = Prefix(u, n - 1)
      OBVIOUS
    <3>7. /\ IsDistance(v, Append(w, u[n]), h) /\ IsDistance(Append(v, s[m]), w, d)
          /\ IsDistance(v, w, e)
      BY <3>2, <3>3, <3>4, <3>6
    <3>8. IsDistance(Append(v, s[m]), Append(w, u[n]), Min3(h + 1, d + 1, e + Cost(s[m], u[n])))
      BY <3>3, <3>6, <3>7, Recurrence
    <3> QED BY <3>3, <3>5, <3>6, <3>8
  <2> QED BY <2>1, <2>2, <2>3
<1> HIDE DEF T
<1>2. \A k \in Nat : k \in T
  BY <1>1, Induction
<1>3. ASSUME NEW m \in 0 .. Len(s), NEW n \in 0 .. Len(u) PROVE Good(m, n)
  <2>1. m + n \in Nat
    BY <1>0
  <2> QED BY <1>2, <2>1 DEF T
<1> QED BY <1>0, <1>3

-------------------------------------------------------------------------------
(* Similarity. *)

LEMMA EditBack ==
  ASSUME NEW s \in Words, NEW u \in Edited(s)
  PROVE  s \in Edited(u)
<1>1. u \in Words
  BY EditedWord
<1>2. PICK p \in Words, q \in Words :
        Deletes(s, u, p, q) \/ Substitutes(s, u, p, q) \/ Inserts(s, u, p, q)
  BY EditForm DEF Edits
<1>3. Inserts(u, s, p, q) \/ Substitutes(u, s, p, q) \/ Deletes(u, s, p, q)
  BY <1>2 DEF Deletes, Substitutes, Inserts
<1>4. Edits(u, s)
  BY <1>3 DEF Edits
<1> QED BY <1>1, <1>4, EditForm

(* What n edits make of s, n edits make into s again. *)
LEMMA BallBack ==
  ASSUME NEW s \in Words
  PROVE  \A n \in Nat : \A u \in Ball(s, n) : s \in Ball(u, n)
<1> DEFINE T == {n \in Nat : \A u \in Ball(s, n) : s \in Ball(u, n)}
<1>1. ASSUME NEW n \in Nat, \A k \in 0 .. n - 1 : k \in T PROVE n \in T
  <2>1. CASE n = 0
    <3>1. Ball(s, n) = {s} /\ s \in Ball(s, n)
      BY <2>1, BallEquations
    <3> QED BY <3>1
  <2>2. CASE n # 0
    <3>1. PICK k \in Nat : n = k + 1
      BY <2>2
    <3>2. ASSUME NEW u \in Ball(s, k) PROVE s \in Ball(u, k) /\ u \in Words
      <4>1. k \in T
        BY <1>1, <3>1
      <4> QED BY <4>1, BallWords
    <3>3. ASSUME NEW u \in Ball(s, n) PROVE s \in Ball(u, n)
      <4>1. u \in Ball(s, k) \/ \E t \in Ball(s, k) : u \in Edited(t)
        BY <3>1, BallStep
      <4>2. CASE u \in Ball(s, k)
        <5>1. Ball(u, k) \subseteq Ball(u, k + 1)
          BY <3>2, <4>2, BallStep
        <5> QED BY <3>1, <3>2, <4>2, <5>1
      <4>3. ASSUME NEW t \in Ball(s, k), u \in Edited(t) PROVE s \in Ball(u, n)
        <5>1. s \in Ball(t, k) /\ t \in Words
          BY <3>2
        <5>2. u \in Words /\ t \in Edited(u)
          BY <4>3, <5>1, EditedWord, EditBack
        <5>3. Ball(t, k) \subseteq Ball(u, k + 1)
          BY <5>2, EditBefore
        <5> QED BY <3>1, <5>1, <5>3
      <4> QED BY <4>1, <4>2, <4>3
    <3> QED BY <3>3
  <2> QED BY <2>1, <2>2
<1> HIDE DEF T
<1>2. \A n \in Nat : n \in T
  BY <1>1, Induction
<1> QED BY <1>2 DEF T

(* Every value is similar to itself and similarity does not depend on the   *)
(* order of its arguments, as Consensus assumes of the values it groups:    *)
(* the length divided by and the distance are both symmetric.               *)
THEOREM SimilarityIsSymmetric ==
  /\ \A s \in Words : SimilarStrings(s, s)
  /\ \A s, t \in Words : SimilarStrings(s, t) => SimilarStrings(t, s)
<1>1. ASSUME NEW s \in Words, NEW t \in Words
      PROVE  /\ Longer(Len(s), Len(t)) \div 5 \in Nat
             /\ Longer(Len(s), Len(t)) = Longer(Len(t), Len(s))
  <2>1. Len(s) \in Nat /\ Len(t) \in Nat
    BY LenProperties DEF Words
  <2>2. \A m, n \in Nat : Longer(m, n) \in Nat /\ Longer(m, n) = Longer(n, m)
    BY DEF Longer
  <2>3. \A n \in Nat : n \div 5 \in Nat
    OBVIOUS
  <2> QED BY <2>1, <2>2, <2>3
<1>2. ASSUME NEW s \in Words PROVE SimilarStrings(s, s)
  <2>1. PICK n \in Nat : n = Longer(Len(s), Len(s)) \div 5
    BY <1>1
  <2>2. 0 \in Nat /\ 0 <= n
    OBVIOUS
  <2>3. s \in Ball(s, 0) /\ Ball(s, 0) \subseteq Ball(s, n)
    BY <2>2, BallEquations, BallGrows
  <2> QED BY <2>1, <2>3 DEF SimilarStrings
<1>3. ASSUME NEW s \in Words, NEW t \in Words, SimilarStrings(s, t) PROVE SimilarStrings(t, s)
  <2>1. PICK n \in Nat :
          n = Longer(Len(s), Len(t)) \div 5 /\ n = Longer(Len(t), Len(s)) \div 5
    BY <1>1
  <2>2. t \in Ball(s, n)
    BY <1>3, <2>1 DEF SimilarStrings
  <2>3. s \in Ball(t, n)
    BY <2>2, BallBack
  <2> QED BY <2>1, <2>3 DEF SimilarStrings
<1> QED BY <1>2, <1>3

-------------------------------------------------------------------------------
(* The rows. *)

LEMMA InitRows == Init => RollingRows
<1> SUFFICES ASSUME Init PROVE RollingRows
  OBVIOUS
<1>1. a \in Words /\ b \in Words
  BY DEF Init, Strings, Words
<1>2. Len(a) \in Nat /\ Len(b) \in Nat
  BY <1>1, LenProperties DEF Words
<1>3. TypeOK
  BY <1>1, <1>2 DEF Init, TypeOK, Columns, Words
<1>4. IsTable(TableOf(a, b), a, b)
  BY <1>1, TableIsTable
<1>5. InBounds /\ RowsAreOf(TableOf(a, b))
  BY DEF Init, InBounds, RowsAreOf
<1> QED BY <1>3, <1>4, <1>5 DEF RollingRows

(* What the rows are is said of a table t that the step does not change.    *)
LEMMA StepOfRows ==
  ASSUME NEW t, IsTable(t, a, b), TypeOK, InBounds, RowsAreOf(t), [Next]_vars
  PROVE  /\ TypeOK' /\ InBounds' /\ a' = a /\ b' = b
         /\ pc' = "row" => \A n \in Columns : prev'[n] = t[<<i' - 1, n>>]
         /\ pc' = "cell" => /\ \A n \in Columns : prev'[n] = t[<<i' - 1, n>>]
                            /\ \A n \in Columns : n < j' => curr'[n] = t[<<i', n>>]
         /\ pc' = "done" => distance' = t[<<Len(a), Len(b)>>]
<1>1. /\ Len(a) \in Nat /\ Len(b) \in Nat /\ 0 \in Columns /\ Len(b) \in Columns
      /\ a \in Seq(Letters) /\ b \in Seq(Letters)
      /\ i \in 0 .. Len(a) + 1 /\ j \in 0 .. Len(b) + 1
      /\ prev \in [Columns -> Nat] /\ curr \in [Columns -> Nat] /\ distance \in Nat
  BY LenProperties DEF TypeOK, Columns
<1>2. CASE EmptyArgument
  <2>1. \A n \in 0 .. Len(b) : t[<<0, n>>] = n
    BY DEF IsTable
  <2>2. \A m \in 0 .. Len(a) : t[<<m, 0>>] = m
    BY DEF IsTable
  <2>3. distance' = t[<<Len(a), Len(b)>>] /\ distance' \in Nat
    BY <1>1, <1>2, <2>1, <2>2 DEF EmptyArgument
  <2> QED BY <1>1, <1>2, <2>3 DEF EmptyArgument, TypeOK, InBounds, Columns
<1>3. CASE MakeRows
  <2>1. \A n \in Columns : t[<<0, n>>] = n
    BY DEF IsTable, Columns
  <2>2. i' = 1 /\ i' - 1 = 0 /\ i' \in 0 .. Len(a) + 1 /\ Len(a) >= 1 /\ Len(b) >= 1
    BY <1>1, <1>3 DEF MakeRows
  <2>3. \A n \in Columns : prev'[n] = t[<<i' - 1, n>>]
    BY <1>3, <2>1, <2>2 DEF MakeRows
  <2>4. prev' \in [Columns -> Nat]
    BY <1>1, <1>3 DEF MakeRows, Columns
  <2> QED BY <1>1, <1>3, <2>2, <2>3, <2>4 DEF MakeRows, TypeOK, InBounds, Columns
<1>4. CASE StartRow
  <2>1. /\ i \in 1 .. Len(a) /\ i \in 0 .. Len(a) /\ Len(a) >= 1 /\ Len(b) >= 1
        /\ 1 \in 0 .. Len(b) + 1
    BY <1>1, <1>4 DEF StartRow, InBounds
  <2>2. curr' \in [Columns -> Nat] /\ curr'[0] = i
    BY <1>1, <1>4, <2>1 DEF StartRow
  <2>3. t[<<i, 0>>] = i
    BY <2>1 DEF IsTable
  <2>4. \A n \in Columns : n < 1 => n = 0
    BY <1>1 DEF Columns
  <2>5. \A n \in Columns : prev[n] = t[<<i - 1, n>>]
    BY <1>4 DEF StartRow, RowsAreOf
  <2>6. /\ a' = a /\ b' = b /\ i' = i /\ prev' = prev /\ distance' = distance
        /\ j' = 1 /\ pc' = "cell"
    BY <1>4 DEF StartRow
  <2>7. \A n \in Columns : n < j' => curr'[n] = t[<<i', n>>]
    BY <2>2, <2>3, <2>4, <2>6
  <2>8. TypeOK' /\ InBounds'
    BY <1>1, <2>1, <2>2, <2>6 DEF TypeOK, InBounds, Columns
  <2> QED BY <2>5, <2>6, <2>7, <2>8
<1>5. CASE FillCell
  <2>1. /\ i \in 1 .. Len(a) /\ i \in 0 .. Len(a) /\ i - 1 \in 0 .. Len(a)
        /\ j \in 1 .. Len(b) /\ j \in Columns /\ j - 1 \in Columns
        /\ j + 1 \in 0 .. Len(b) + 1 /\ j + 1 >= 1 /\ j - 1 < j
        /\ \A n \in Columns : n < j + 1 => n < j \/ n = j
    BY <1>1, <1>5 DEF FillCell, InBounds, Columns
  <2>2. /\ \A n \in Columns : prev[n] = t[<<i - 1, n>>]
        /\ \A n \in Columns : n < j => curr[n] = t[<<i, n>>]
    BY <1>5 DEF FillCell, RowsAreOf
  <2>3. prev[j] = t[<<i - 1, j>>] /\ prev[j - 1] = t[<<i - 1, j - 1>>] /\ curr[j - 1] = t[<<i, j - 1>>]
    BY <2>1, <2>2
  <2>4. t[<<i, j>>] = Min3(t[<<i - 1, j>>] + 1, t[<<i, j - 1>>] + 1,
                           t[<<i - 1, j - 1>>] + Cost(a[i], b[j]))
    BY <2>1 DEF IsTable
  <2>5. t[<<i, j>>] \in Nat
    BY <2>1 DEF IsTable, Columns
  <2>6. curr' = [curr EXCEPT ![j] = t[<<i, j>>]]
    BY <1>5, <2>3, <2>4 DEF FillCell
  <2>7. curr' \in [Columns -> Nat]
    BY <1>1, <2>5, <2>6
  <2>8. \A n \in Columns : n < j' => curr'[n] = t[<<i', n>>]
    <3>1. j' = j + 1 /\ i' = i
      BY <1>5 DEF FillCell
    <3>2. curr'[j] = t[<<i, j>>] /\ \A n \in Columns : n # j => curr'[n] = curr[n]
      BY <1>1, <2>1, <2>6
    <3> QED BY <2>1, <2>2, <3>1, <3>2
  <2> QED BY <1>1, <1>5, <2>1, <2>2, <2>7, <2>8 DEF FillCell, TypeOK, InBounds, Columns
<1>6. CASE SwapRows
  <2>1. /\ i \in 1 .. Len(a) /\ i + 1 \in 0 .. Len(a) + 1 /\ (i + 1) - 1 = i /\ i + 1 >= 1
        /\ Len(a) >= 1 /\ Len(b) >= 1
    BY <1>1, <1>6 DEF SwapRows, InBounds
  <2>2. \A n \in Columns : n < j
    BY <1>1, <1>6 DEF SwapRows, Columns
  <2>3. \A n \in Columns : prev'[n] = t[<<i' - 1, n>>]
    BY <1>6, <2>1, <2>2 DEF SwapRows, RowsAreOf
  <2> QED BY <1>1, <1>6, <2>1, <2>3 DEF SwapRows, TypeOK, InBounds, Columns
<1>7. CASE Return
  <2>1. i - 1 = Len(a)
    BY <1>1, <1>7 DEF Return
  <2>2. distance' = t[<<Len(a), Len(b)>>]
    BY <1>1, <1>7, <2>1 DEF Return, RowsAreOf
  <2>3. distance' \in Nat
    BY <1>1, <1>7 DEF Return
  <2> QED BY <1>1, <1>7, <2>2, <2>3 DEF Return, TypeOK, InBounds, Columns
<1>8. CASE UNCHANGED vars
  BY <1>8 DEF vars, TypeOK, InBounds, RowsAreOf, Columns
<1> QED BY <1>2, <1>3, <1>4, <1>5, <1>6, <1>7, <1>8 DEF Next, Over

LEMMA NextRows == RollingRows /\ [Next]_vars => RollingRows'
<1> SUFFICES ASSUME RollingRows, [Next]_vars PROVE RollingRows'
  OBVIOUS
<1>1. PICK t : t = TableOf(a, b)
  OBVIOUS
<1>2. IsTable(t, a, b) /\ TypeOK /\ InBounds /\ RowsAreOf(t)
  BY <1>1 DEF RollingRows
<1>3. /\ TypeOK' /\ InBounds' /\ a' = a /\ b' = b
      /\ pc' = "row" => \A n \in Columns : prev'[n] = t[<<i' - 1, n>>]
      /\ pc' = "cell" => /\ \A n \in Columns : prev'[n] = t[<<i' - 1, n>>]
                         /\ \A n \in Columns : n < j' => curr'[n] = t[<<i', n>>]
      /\ pc' = "done" => distance' = t[<<Len(a), Len(b)>>]
  BY <1>2, StepOfRows
<1>4. TableOf(a, b)' = t
  BY <1>1, <1>3
<1>5. IsTable(TableOf(a, b), a, b)'
  BY <1>2, <1>3, <1>4
<1>6. RowsAreOf(TableOf(a, b))'
  BY <1>3, <1>4 DEF RowsAreOf, Columns
<1> QED BY <1>3, <1>5, <1>6 DEF RollingRows

(* While the loops run, the rows of fuzzy.LevenshteinDistance are the row   *)
(* above and the filled part of the row being computed, of the table whose  *)
(* cells are the distances between prefixes, whatever the strings hold and  *)
(* however often the rows have changed places.                              *)
THEOREM RowsOfTheTable == Spec => []RollingRows
<1>1. Init => RollingRows
  BY InitRows
<1>2. RollingRows /\ [Next]_vars => RollingRows'
  BY NextRows
<1> QED BY <1>1, <1>2, PTL DEF Spec

(* fuzzy.LevenshteinDistance returns the least number of insertions,        *)
(* deletions and substitutions of one byte that turn a into b, for strings  *)
(* of every length over every set of bytes.                                 *)
THEOREM LeastEdits == Spec => []DistanceIsLeast
<1>1. RollingRows => DistanceIsLeast
  <2> SUFFICES ASSUME RollingRows, pc = "done" PROVE IsDistance(a, b, distance)
    BY DEF DistanceIsLeast
  <2>1. PICK t : t = TableOf(a, b)
    OBVIOUS
  <2>2. a \in Words /\ b \in Words /\ IsTable(t, a, b) /\ distance = t[<<Len(a), Len(b)>>]
    BY <2>1 DEF RollingRows, TypeOK, RowsAreOf, Words
  <2>3. Len(a) \in 0 .. Len(a) /\ Len(b) \in 0 .. Len(b)
    BY <2>2, LenProperties DEF Words
  <2>4. IsDistance(Prefix(a, Len(a)), Prefix(b, Len(b)), t[<<Len(a), Len(b)>>])
    BY <2>2, <2>3, TableHoldsDistances
  <2>5. Prefix(a, Len(a)) = a /\ Prefix(b, Len(b)) = b
    BY <2>2, PrefixFacts
  <2> QED BY <2>2, <2>4, <2>5
<1> QED BY <1>1, RowsOfTheTable, PTL
===============================================================================
