----------------------------- MODULE EditDistance -----------------------------
(***************************************************************************)
(* fuzzy.LevenshteinDistance (pkg/fuzzy/match.go): the edit distance of two *)
(* strings, computed with two rows that change places after every letter of *)
(* the first string.  The second row is never cleared: each turn of the     *)
(* inner loop overwrites what it held two letters ago.                      *)
(*                                                                         *)
(* A string is a sequence of bytes, as in the code, which compares a[i-1]   *)
(* with b[j-1] and takes len(a) and len(b): what counts as one letter is    *)
(* one byte of the normalized string.                                       *)
(***************************************************************************)
EXTENDS Edits

CONSTANT MaxLen   \* bound on the length of the arguments

ASSUME EditDistanceAssumption == MaxLen \in Nat

VARIABLES
  a, b,        \* the arguments
  i, j,        \* the loop variables
  prev, curr,  \* the two rows
  distance,    \* the value returned
  pc

vars == <<a, b, i, j, prev, curr, distance, pc>>

Min2(m, n) == IF m <= n THEN m ELSE n
Min3(m, n, k) == Min2(Min2(m, n), k)
Cost(x, y) == IF x = y THEN 0 ELSE 1

Strings == UNION {[1 .. n -> Letters] : n \in 0 .. MaxLen}
Columns == 0 .. Len(b)

Init ==
  /\ a \in Strings /\ b \in Strings
  /\ i = 0 /\ j = 0
  /\ prev = [k \in Columns |-> 0] /\ curr = prev
  /\ distance = 0
  /\ pc = "start"

(* An empty argument is answered at once, with the length of the other.     *)
EmptyArgument ==
  /\ pc = "start"
  /\ \/ Len(a) = 0 /\ distance' = Len(b)
     \/ Len(a) # 0 /\ Len(b) = 0 /\ distance' = Len(a)
  /\ pc' = "done"
  /\ UNCHANGED <<a, b, i, j, prev, curr>>

MakeRows ==
  /\ pc = "start" /\ Len(a) # 0 /\ Len(b) # 0
  /\ prev' = [k \in Columns |-> k]
  /\ i' = 1
  /\ pc' = "row"
  /\ UNCHANGED <<a, b, j, curr, distance>>

KeepFirstCell ==
  /\ pc = "row" /\ i <= Len(a)
  /\ j' = 1
  /\ pc' = "cell"
  /\ UNCHANGED <<a, b, i, prev, curr, distance>>
StartRow ==
  /\ pc = "row" /\ i <= Len(a)
  /\ curr' = [curr EXCEPT ![0] = i]
  /\ j' = 1
  /\ pc' = "cell"
  /\ UNCHANGED <<a, b, i, prev, distance>>

FillCell ==
  /\ pc = "cell" /\ j <= Len(b)
  /\ curr' = [curr EXCEPT ![j] =
                Min3(prev[j] + 1, curr[j - 1] + 1, prev[j - 1] + Cost(a[i], b[j]))]
  /\ j' = j + 1
  /\ UNCHANGED <<a, b, i, prev, distance, pc>>

SwapRows ==
  /\ pc = "cell" /\ j > Len(b)
  /\ prev' = curr /\ curr' = prev
  /\ i' = i + 1
  /\ pc' = "row"
  /\ UNCHANGED <<a, b, j, distance>>

ReturnCurr ==
  /\ pc = "row" /\ i > Len(a)
  /\ distance' = curr[Len(b)]
  /\ pc' = "done"
  /\ UNCHANGED <<a, b, i, j, prev, curr>>
Return ==
  /\ pc = "row" /\ i > Len(a)
  /\ distance' = prev[Len(b)]
  /\ pc' = "done"
  /\ UNCHANGED <<a, b, i, j, prev, curr>>

Over == pc = "done" /\ UNCHANGED vars

Next ==
  \/ EmptyArgument \/ MakeRows
  \/ StartRow \/ FillCell \/ SwapRows \/ Return
  \/ Over

Spec == Init /\ [][Next]_vars

-------------------------------------------------------------------------------
(* Properties. *)

TypeOK ==
  /\ a \in Seq(Letters) /\ b \in Seq(Letters)
  /\ i \in 0 .. Len(a) + 1 /\ j \in 0 .. Len(b) + 1
  /\ prev \in [Columns -> Nat] /\ curr \in [Columns -> Nat]
  /\ distance \in Nat
  /\ pc \in {"start", "row", "cell", "done"}

(* The two rows and the early returns compute the least number of edits: no *)
(* cell is read before this pass over the row has written it, although the  *)
(* rows trade places and keep their old contents.                           *)
DistanceIsLeast == pc = "done" => IsDistance(a, b, distance)

(* The table of distances between prefixes, which the code never holds as a *)
(* whole.                                                                   *)
IsTable(t, s, u) ==
  /\ t \in [(0 .. Len(s)) \X (0 .. Len(u)) -> Nat]
  /\ \A n \in 0 .. Len(u) : t[<<0, n>>] = n
  /\ \A m \in 0 .. Len(s) : t[<<m, 0>>] = m
  /\ \A m \in 1 .. Len(s), n \in 1 .. Len(u) :
       t[<<m, n>>] = Min3(t[<<m - 1, n>>] + 1, t[<<m, n - 1>>] + 1, t[<<m - 1, n - 1>>] + Cost(s[m], u[n]))

TableOf(s, u) ==
  LET t[c \in (0 .. Len(s)) \X (0 .. Len(u))] ==
        LET m == c[1]
            n == c[2]
        IN  IF m = 0 THEN n
            ELSE IF n = 0 THEN m
            ELSE Min3(t[<<m - 1, n>>] + 1, t[<<m, n - 1>>] + 1,
                      t[<<m - 1, n - 1>>] + Cost(s[m], u[n]))
  IN t

(* The rows are the two of the table the loops are at: the row above, and   *)
(* of the current one what has been filled.                                 *)
RowsAreOf(t) ==
  /\ pc = "row" => \A n \in Columns : prev[n] = t[<<i - 1, n>>]
  /\ pc = "cell" => /\ \A n \in Columns : prev[n] = t[<<i - 1, n>>]
                   /\ \A n \in Columns : n < j => curr[n] = t[<<i, n>>]
  /\ pc = "done" => distance = t[<<Len(a), Len(b)>>]

(* Where an index is formed, the arguments and the rows have it.            *)
InBounds ==
  /\ pc \in {"row", "cell"} => i >= 1 /\ Len(a) >= 1 /\ Len(b) >= 1
  /\ pc = "cell" => i <= Len(a) /\ j >= 1

RollingRows == TypeOK /\ InBounds /\ IsTable(TableOf(a, b), a, b) /\ RowsAreOf(TableOf(a, b))
===============================================================================
