--------------------------- MODULE ConsensusProofs ---------------------------
(***************************************************************************)
(* Theorems about Consensus, for every set of providers and values, every   *)
(* threshold, every reflexive and symmetric similarity and every number of  *)
(* values found.                                                            *)
(***************************************************************************)
EXTENDS Consensus, SequenceTheorems, FiniteSetTheorems, TLAPS

-------------------------------------------------------------------------------
(* Counting. *)

(* A stretch of the naturals and any part of it are finite.                 *)
LEMMA IntervalPart ==
  ASSUME NEW n \in Nat, NEW K, K \subseteq 1 .. n
  PROVE  IsFiniteSet(K) /\ IsFiniteSet(1 .. n) /\ Cardinality(1 .. n) = n
<1>1. 1 \in Int /\ n \in Int
  OBVIOUS
<1>2. IsFiniteSet(1 .. n) /\ Cardinality(1 .. n) = IF 1 > n THEN 0 ELSE n - 1 + 1
  BY ONLY <1>1, FS_Interval
<1>3. IsFiniteSet(K)
  BY <1>2, FS_Subset
<1> QED BY <1>2, <1>3

(* Sets whose elements a function pairs off are of the same size.           *)
LEMMA PairedOff ==
  ASSUME NEW S, NEW T, NEW f \in [S -> T], IsFiniteSet(S),
         \A x, y \in S : f[x] = f[y] => x = y,
         \A y \in T : \E x \in S : f[x] = y
  PROVE  IsFiniteSet(T) /\ Cardinality(T) = Cardinality(S)
<1>1. f \in Surjection(S, T)
  BY DEF Surjection
<1>2. f \in Injection(S, T)
  BY DEF Injection, IsInjective
<1> QED BY <1>1, <1>2, FS_Surjection

(* The part of a stretch of the naturals at o + k, for the k of a set K.    *)
LEMMA Shifted ==
  ASSUME NEW n \in Nat, NEW K, K \subseteq 1 .. n, NEW o \in Nat,
         NEW T, \A y : y \in T <=> \E k \in K : y = o + k
  PROVE  IsFiniteSet(T) /\ Cardinality(T) = Cardinality(K)
<1> DEFINE f == [k \in K |-> o + k]
<1>1. IsFiniteSet(K)
  BY IntervalPart
<1>2. f \in [K -> T]
  OBVIOUS
<1>3. \A x, y \in K : f[x] = f[y] => x = y
  OBVIOUS
<1>4. \A y \in T : \E x \in K : f[x] = y
  OBVIOUS
<1> HIDE DEF f
<1> QED BY <1>1, <1>2, <1>3, <1>4, PairedOff

(* What one more element adds to two sets of the same size.                 *)
LEMMA OneMore ==
  ASSUME NEW S, NEW M, IsFiniteSet(S), IsFiniteSet(M), Cardinality(S) = Cardinality(M),
         NEW x, x \notin S, NEW y, y \notin M
  PROVE  Cardinality(S \cup {x}) = Cardinality(M \cup {y})
<1>1. Cardinality(S \cup {x}) = Cardinality(S) + 1
  BY FS_AddElement
<1>2. Cardinality(M \cup {y}) = Cardinality(M) + 1
  BY FS_AddElement
<1> QED BY <1>1, <1>2

(* The places of the clusters cl, for any of them and any providers.        *)
SlotsIn(cl, C, P) ==
  UNION {{c} \X {k \in 1 .. Len(cl[c].sources) : cl[c].sources[k] \in P} : c \in C}

LEMMA SlotsAreThese ==
  /\ \A C, P : Slots(C, P) = SlotsIn(clusters, C, P)
  /\ \A C, P : Slots(C, P)' = SlotsIn(clusters', C, P)
BY DEF Slots, SlotsIn, Size

LEMMA SlotsElement ==
  ASSUME NEW cl, NEW C, NEW P, NEW x
  PROVE  x \in SlotsIn(cl, C, P) <=>
           \E c \in C : \E k \in 1 .. Len(cl[c].sources) :
             cl[c].sources[k] \in P /\ x = <<c, k>>
BY DEF SlotsIn

LEMMA SlotsFinite ==
  ASSUME NEW cl \in Seq(Cluster), NEW C, C \subseteq 1 .. Len(cl), NEW P
  PROVE  IsFiniteSet(SlotsIn(cl, C, P))
<1> DEFINE part == [c \in C |-> {c} \X {k \in 1 .. Len(cl[c].sources) : cl[c].sources[k] \in P}]
           parts == {{c} \X {k \in 1 .. Len(cl[c].sources) : cl[c].sources[k] \in P} : c \in C}
<1>1. IsFiniteSet(C)
  BY IntervalPart, LenProperties
<1>2. part \in Surjection(C, parts)
  BY DEF Surjection
<1>3. IsFiniteSet(parts)
  BY <1>1, <1>2, FS_Surjection
<1>4. \A T \in parts : IsFiniteSet(T)
  <2> SUFFICES ASSUME NEW c \in C
               PROVE  IsFiniteSet({c} \X {k \in 1 .. Len(cl[c].sources) : cl[c].sources[k] \in P})
    OBVIOUS
  <2>1. Len(cl[c].sources) \in Nat
    BY DEF Cluster
  <2>2. IsFiniteSet({k \in 1 .. Len(cl[c].sources) : cl[c].sources[k] \in P})
    BY <2>1, IntervalPart
  <2> QED BY <2>2, FS_Singleton, FS_Product
<1> HIDE DEF parts, part
<1>5. IsFiniteSet(UNION parts)
  BY <1>3, <1>4, FS_UNION
<1> QED BY <1>5 DEF parts, SlotsIn

-------------------------------------------------------------------------------
(* Types. *)

LEMMA Shape ==
  ASSUME TypeOK
  PROVE  /\ all \in Seq(Entry) /\ Len(all) \in Nat /\ next \in Nat
         /\ \A n \in 1 .. Len(all) : all[n].value \in Values /\ all[n].provider \in Providers
         /\ clusters \in Seq(Cluster) /\ Len(clusters) \in Nat
         /\ \A c \in 1 .. Len(clusters) :
              /\ clusters[c] \in Cluster /\ clusters[c].canonical \in Values
              /\ clusters[c].sources \in Seq(Providers) /\ Size(c) \in Nat
              /\ \A k \in 1 .. Size(c) : clusters[c].sources[k] \in Providers
         /\ \A p \in Providers :
              /\ found[p] \in Seq(Values) /\ Len(found[p]) \in Nat
              /\ Positions(p) = 1 .. Len(found[p])
              /\ \A k \in Positions(p) : found[p][k] \in Values
<1>1. /\ all \in Seq(Entry) /\ Len(all) \in Nat /\ next \in Nat
      /\ clusters \in Seq(Cluster) /\ Len(clusters) \in Nat
  BY DEF TypeOK
<1>2. \A n \in 1 .. Len(all) : all[n].value \in Values /\ all[n].provider \in Providers
  <2>1. \A n \in 1 .. Len(all) : all[n] \in Entry
    BY <1>1
  <2> QED BY <2>1 DEF Entry
<1>3. ASSUME NEW c \in 1 .. Len(clusters)
      PROVE  /\ clusters[c] \in Cluster /\ clusters[c].canonical \in Values
             /\ clusters[c].sources \in Seq(Providers) /\ Size(c) \in Nat
             /\ \A k \in 1 .. Size(c) : clusters[c].sources[k] \in Providers
  <2>1. clusters[c] \in Cluster
    BY <1>1
  <2>2. clusters[c].canonical \in Values /\ clusters[c].sources \in Seq(Providers)
    BY <2>1 DEF Cluster
  <2> QED BY <2>1, <2>2 DEF Size
<1>4. ASSUME NEW p \in Providers
      PROVE  /\ found[p] \in Seq(Values) /\ Len(found[p]) \in Nat
             /\ Positions(p) = 1 .. Len(found[p])
             /\ \A k \in Positions(p) : found[p][k] \in Values
  <2>1. found[p] \in Seq(Values)
    BY DEF TypeOK
  <2> QED BY <2>1 DEF Positions
<1> QED BY <1>1, <1>2, <1>3, <1>4

LEMMA MembersFinite ==
  ASSUME TypeOK, NEW C, NEW P
  PROVE  IsFiniteSet(Members(C, P))
<1>1. next - 1 \in Nat /\ Members(C, P) \subseteq 1 .. next - 1
  BY DEF TypeOK, Members
<1> QED BY <1>1, IntervalPart

(* A value has one home. *)
LEMMA OneHome ==
  ASSUME NEW n, NEW c \in 1 .. Len(clusters), NEW d \in 1 .. Len(clusters),
         Len(clusters) \in Nat, IsHome(c, n), IsHome(d, n)
  PROVE  c = d
BY DEF IsHome

-------------------------------------------------------------------------------
(* Grouping. *)

(* The value at hand goes to cluster c, whose sources were old: whatever    *)
(* clusters and providers one asks for, both sides of Tally gain one or none. *)
LEMMA Placed ==
  ASSUME TypeOK, Homes, Tally, next <= Len(all), next' = next + 1, all' = all,
         clusters' \in Seq(Cluster), NEW c \in 1 .. Len(clusters'), NEW m, m = next,
         Len(clusters') >= Len(clusters),
         NEW old \in Seq(Providers),
         c \in 1 .. Len(clusters) => old = clusters[c].sources,
         c \notin 1 .. Len(clusters) => old = <<>>,
         clusters'[c].sources = Append(old, all[next].provider),
         \A e \in 1 .. Len(clusters') :
           e # c => e \in 1 .. Len(clusters) /\ clusters'[e] = clusters[e],
         \A e \in 1 .. Len(clusters') : IsHome(e, m)' <=> e = c,
         \A e \in 1 .. Len(clusters'), n \in 1 .. next - 1 :
           IsHome(e, n)' <=> e \in 1 .. Len(clusters) /\ IsHome(e, n)
  PROVE  Homes' /\ Tally'
<1> DEFINE d == all[next].provider
           x == <<c, Len(old) + 1>>
           Here(C) == C \cap (1 .. Len(clusters))
<1>1. /\ Len(clusters) \in Nat /\ Len(clusters') \in Nat /\ next \in Nat /\ next >= 1
      /\ Len(old) \in Nat /\ d \in Providers
      /\ Len(Append(old, d)) = Len(old) + 1
      /\ Append(old, d)[Len(old) + 1] = d
      /\ \A k \in 1 .. Len(old) : Append(old, d)[k] = old[k]
  <2>1. next \in 1 .. Len(all) /\ Len(clusters') \in Nat
    BY DEF TypeOK
  <2>2. d \in Providers
    BY <2>1, Shape
  <2> QED BY <2>1, <2>2, Shape
<1>2. Homes'
  <2> SUFFICES ASSUME NEW n \in 1 .. next PROVE \E e \in 1 .. Len(clusters') : IsHome(e, n)'
    BY <1>1 DEF Homes
  <2>1. CASE n = next
    BY <2>1
  <2>2. CASE n # next
    <3>1. n \in 1 .. next - 1
      BY <1>1, <2>2
    <3>2. PICK e \in 1 .. Len(clusters) : IsHome(e, n)
      BY <3>1 DEF Homes
    <3>3. e \in 1 .. Len(clusters')
      BY <1>1, <3>2
    <3> QED BY <3>1, <3>2, <3>3
  <2> QED BY <2>1, <2>2
<1>3. ASSUME NEW C, C \subseteq 1 .. Len(clusters'), NEW P
      PROVE  /\ SlotsIn(clusters', C, P) = IF c \in C /\ d \in P
                                           THEN SlotsIn(clusters, Here(C), P) \cup {x}
                                           ELSE SlotsIn(clusters, Here(C), P)
             /\ x \notin SlotsIn(clusters, Here(C), P)
  <2>1. ASSUME NEW y
        PROVE  y \in SlotsIn(clusters', C, P) <=>
                 y \in SlotsIn(clusters, Here(C), P) \/ (c \in C /\ d \in P /\ y = x)
    <3>1. ASSUME y \in SlotsIn(clusters', C, P)
          PROVE  y \in SlotsIn(clusters, Here(C), P) \/ (c \in C /\ d \in P /\ y = x)
      <4>1. PICK e \in C, k \in Nat :
              k \in 1 .. Len(clusters'[e].sources) /\ clusters'[e].sources[k] \in P /\ y = <<e, k>>
        BY <3>1, SlotsElement
      <4>2. CASE e # c
        <5>1. e \in Here(C) /\ clusters'[e] = clusters[e]
          BY <1>3, <4>2
        <5> QED BY <4>1, <5>1, SlotsElement
      <4>3. CASE e = c /\ k = Len(old) + 1
        BY <1>1, <4>1, <4>3
      <4>4. CASE e = c /\ k # Len(old) + 1
        <5>1. k \in 1 .. Len(old) /\ clusters'[e].sources[k] = old[k]
          <6>1. k \in 1 .. Len(old) + 1
            BY <1>1, <4>1, <4>4
          <6>2. k \in 1 .. Len(old)
            BY <1>1, <4>4, <6>1
          <6>3. Append(old, d)[k] = old[k]
            BY <1>1, <6>2
          <6>4. clusters'[e].sources = Append(old, d)
            BY <4>4
          <6> QED BY <6>2, <6>3, <6>4
        <5>2. c \in 1 .. Len(clusters)
          BY <1>1, <5>1
        <5>3. c \in Here(C) /\ old = clusters[c].sources
          BY <4>4, <5>2
        <5> QED BY <4>1, <4>4, <5>1, <5>3, SlotsElement
      <4> QED BY <4>2, <4>3, <4>4
    <3>2. ASSUME y \in SlotsIn(clusters, Here(C), P) PROVE y \in SlotsIn(clusters', C, P)
      <4>1. PICK e \in Here(C), k \in Nat :
              k \in 1 .. Len(clusters[e].sources) /\ clusters[e].sources[k] \in P /\ y = <<e, k>>
        BY <3>2, SlotsElement
      <4>2. CASE e # c
        BY <1>3, <4>1, <4>2, SlotsElement
      <4>3. CASE e = c
        <5>1. old = clusters[c].sources
          BY <4>1, <4>3
        <5>2. /\ k \in 1 .. Len(clusters'[c].sources)
              /\ clusters'[c].sources[k] = clusters[c].sources[k]
          BY <1>1, <4>1, <4>3, <5>1
        <5> QED BY <4>1, <4>3, <5>2, SlotsElement
      <4> QED BY <4>2, <4>3
    <3>3. ASSUME c \in C, d \in P PROVE x \in SlotsIn(clusters', C, P)
      BY <1>1, <3>3, SlotsElement
    <3> QED BY <3>1, <3>2, <3>3
  <2>2. x \notin SlotsIn(clusters, Here(C), P)
    <3> SUFFICES ASSUME x \in SlotsIn(clusters, Here(C), P) PROVE FALSE
      OBVIOUS
    <3>1. PICK e \in Here(C), k \in Nat : k \in 1 .. Len(clusters[e].sources) /\ x = <<e, k>>
      BY SlotsElement
    <3>2. e = c /\ k = Len(old) + 1 /\ old = clusters[c].sources
      BY <3>1
    <3> QED BY <1>1, <3>1, <3>2
  <2> HIDE DEF x, Here, d
  <2>3. CASE c \in C /\ d \in P
    BY <2>1, <2>2, <2>3
  <2>4. CASE ~(c \in C /\ d \in P)
    BY <2>1, <2>2, <2>4
  <2> QED BY <2>3, <2>4
<1>4. ASSUME NEW C, C \subseteq 1 .. Len(clusters'), NEW P
      PROVE  /\ Members(C, P)' = IF c \in C /\ d \in P
                                 THEN Members(Here(C), P) \cup {next}
                                 ELSE Members(Here(C), P)
             /\ next \notin Members(Here(C), P)
  <2>1. Members(C, P)' = {n \in 1 .. next : all[n].provider \in P /\ \E e \in C : IsHome(e, n)'}
    BY <1>1 DEF Members
  <2>2. ASSUME NEW n \in 1 .. next - 1
        PROVE  (\E e \in C : IsHome(e, n)') <=> (\E e \in Here(C) : IsHome(e, n))
    BY <1>4, <1>1
  <2>3. (\E e \in C : IsHome(e, m)') <=> c \in C
    BY <1>4
  <2>4. Members(Here(C), P) =
          {n \in 1 .. next - 1 : all[n].provider \in P /\ \E e \in Here(C) : IsHome(e, n)}
    BY DEF Members
  <2>5. next \notin Members(Here(C), P)
    <3>1. next \notin 1 .. next - 1
      BY <1>1
    <3> QED BY <2>4, <3>1
  <2>6. ASSUME NEW n
        PROVE  n \in Members(C, P)' <=> \/ n \in Members(Here(C), P)
                                        \/ c \in C /\ d \in P /\ n = next
    <3>1. CASE n \in 1 .. next - 1
      <4>1. n \in 1 .. next /\ n # next
        <5>1. \A b \in Nat : \A k \in 1 .. b - 1 : k \in 1 .. b /\ k # b
          OBVIOUS
        <5>2. next \in Nat
          BY <1>1
        <5> QED BY <3>1, <5>1, <5>2
      <4>2. n \in Members(C, P)' <=> all[n].provider \in P /\ \E e \in C : IsHome(e, n)'
        BY <2>1, <4>1
      <4>3. n \in Members(Here(C), P) <=>
              all[n].provider \in P /\ \E e \in Here(C) : IsHome(e, n)
        BY <2>4, <3>1
      <4> QED BY <2>2, <3>1, <4>1, <4>2, <4>3
    <3>2. CASE n = next
      BY <1>1, <2>1, <2>3, <2>5, <3>2
    <3>3. CASE n \notin 1 .. next
      <4>1. n # next /\ n \notin 1 .. next - 1
        BY <1>1, <3>3
      <4> QED BY <2>1, <2>4, <3>3, <4>1
    <3> QED BY <1>1, <3>1, <3>2, <3>3
  <2> HIDE DEF d, Here
  <2>7. CASE c \in C /\ d \in P
    BY <2>5, <2>6, <2>7
  <2>8. CASE ~(c \in C /\ d \in P)
    BY <2>5, <2>6, <2>8
  <2> QED BY <2>7, <2>8
<1>5. ASSUME NEW C \in SUBSET (1 .. Len(clusters')), NEW P \in SUBSET Providers
      PROVE  Cardinality(Slots(C, P)') = Cardinality(Members(C, P)')
  <2> DEFINE S == SlotsIn(clusters, Here(C), P)
             M == Members(Here(C), P)
  <2>1. IsFiniteSet(S) /\ IsFiniteSet(M) /\ Cardinality(S) = Cardinality(M)
    <3>1. Here(C) \in SUBSET (1 .. Len(clusters)) /\ clusters \in Seq(Cluster)
      BY DEF TypeOK
    <3>2. IsFiniteSet(S)
      BY <3>1, SlotsFinite
    <3>3. Cardinality(Slots(Here(C), P)) = Cardinality(M)
      BY <3>1 DEF Tally
    <3> QED BY <3>2, <3>3, MembersFinite, SlotsAreThese
  <2>2. Slots(C, P)' = SlotsIn(clusters', C, P)
    BY SlotsAreThese
  <2> HIDE DEF S, M, x, d, Here
  <2>3. /\ SlotsIn(clusters', C, P) = IF c \in C /\ d \in P THEN S \cup {x} ELSE S
        /\ x \notin S
    BY <1>3 DEF S
  <2>4. /\ Members(C, P)' = IF c \in C /\ d \in P THEN M \cup {next} ELSE M
        /\ next \notin M
    BY <1>4 DEF M
  <2>5. CASE c \in C /\ d \in P
    <3>1. Cardinality(S \cup {x}) = Cardinality(M \cup {next})
      BY <2>1, <2>3, <2>4, OneMore
    <3>2. SlotsIn(clusters', C, P) = S \cup {x} /\ Members(C, P)' = M \cup {next}
      BY <2>3, <2>4, <2>5
    <3> QED BY <2>2, <3>1, <3>2
  <2>6. CASE ~(c \in C /\ d \in P)
    BY <2>1, <2>2, <2>3, <2>4, <2>6
  <2> QED BY <2>5, <2>6
<1> QED BY <1>2, <1>5 DEF Tally

(* While values are grouped, nothing else changes. *)
LEMMA GroupingKeeps ==
  ASSUME Phases, Blocks, pc = "grouping", UNCHANGED <<found, unread, all, pc>>
  PROVE  Phases' /\ Blocks' /\ Answered'
<1>1. Blocks'
  <2>1. \A p, o : IsBlock(p, o)' <=> IsBlock(p, o)
    BY DEF IsBlock, Positions
  <2> QED BY <2>1 DEF Blocks
<1>2. Answered'
  <2>1. pc' # "done"
    OBVIOUS
  <2> QED BY <2>1 DEF Answered
<1>3. Phases'
  BY DEF Phases
<1> QED BY <1>1, <1>2, <1>3

LEMMA JoinStep ==
  ASSUME Inductive, JoinCluster
  PROVE  Inductive'
<1>1. PICK c \in Matching :
        /\ \A e \in Matching : c <= e
        /\ clusters' = [clusters EXCEPT ![c].sources = Append(@, all[next].provider)]
  BY DEF JoinCluster
<1> DEFINE d == all[next].provider
           grown == [clusters[c] EXCEPT !.sources = Append(@, d)]
<1>2. /\ UNCHANGED <<found, unread, all, result, passed, pc>> /\ next' = next + 1
      /\ pc = "grouping" /\ next <= Len(all)
  BY DEF JoinCluster
<1>3. TypeOK /\ next \in 1 .. Len(all) /\ next + 1 \in 1 .. Len(all) + 1 /\ next - 1 \in Nat
  BY <1>2 DEF Inductive, TypeOK
<1>4. /\ c \in 1 .. Len(clusters) /\ d \in Providers
      /\ clusters \in Seq(Cluster) /\ Len(clusters) \in Nat
      /\ clusters[c] \in Cluster /\ clusters[c].sources \in Seq(Providers)
  BY <1>3, Shape DEF Matching
<1>5. /\ grown \in Cluster /\ grown.canonical = clusters[c].canonical
      /\ grown.sources = Append(clusters[c].sources, d)
  <2>1. Append(clusters[c].sources, d) \in Seq(Providers)
    BY <1>4, AppendProperties
  <2> QED BY <1>4, <2>1 DEF Cluster
<1>6. clusters' = [clusters EXCEPT ![c] = grown]
  BY <1>1, <1>4
<1> HIDE DEF grown
<1>7. /\ clusters' \in Seq(Cluster) /\ Len(clusters') = Len(clusters)
      /\ clusters'[c] = grown
      /\ \A e \in 1 .. Len(clusters) : e # c => clusters'[e] = clusters[e]
  BY <1>4, <1>5, <1>6, ExceptSeq
<1>8. TypeOK'
  BY <1>2, <1>3, <1>7 DEF TypeOK
<1>9. \A e \in 1 .. Len(clusters) : clusters'[e].canonical = clusters[e].canonical
  BY <1>5, <1>7
<1>10. CanonicalsApart'
  BY <1>7, <1>9 DEF Inductive, CanonicalsApart
<1>11. Homes' /\ Tally'
  <2>1. ASSUME NEW e \in 1 .. Len(clusters), NEW n
        PROVE  IsHome(e, n)' <=> IsHome(e, n)
    <3>1. \A f \in 1 .. e : f \in 1 .. Len(clusters)
      BY <1>4
    <3>2. \A f \in 1 .. e : Matches(f, n)' <=> Matches(f, n)
      BY <1>2, <1>9, <3>1 DEF Matches
    <3> QED BY <1>4, <3>2 DEF IsHome
  <2>2. ASSUME NEW e \in 1 .. Len(clusters)
        PROVE  IsHome(e, next) <=> e = c
    <3>1. \A f \in 1 .. Len(clusters) : f \in Matching <=> Matches(f, next)
      BY DEF Matching, Matches
    <3>2. IsHome(c, next)
      BY <1>1, <1>4, <3>1 DEF IsHome
    <3> QED BY <1>4, <3>2, OneHome
  <2>3. PICK m : m = next
    OBVIOUS
  <2>4. \A e \in 1 .. Len(clusters') : IsHome(e, m)' <=> e = c
    BY <1>7, <2>1, <2>2, <2>3
  <2>5. \A e \in 1 .. Len(clusters'), n \in 1 .. next - 1 :
          IsHome(e, n)' <=> e \in 1 .. Len(clusters) /\ IsHome(e, n)
    BY <1>7, <2>1
  <2>6. c \in 1 .. Len(clusters') /\ Len(clusters') >= Len(clusters)
    BY <1>4, <1>7
  <2>7. \A e \in 1 .. Len(clusters') :
          e # c => e \in 1 .. Len(clusters) /\ clusters'[e] = clusters[e]
    BY <1>7
  <2>8. clusters'[c].sources = Append(clusters[c].sources, all[next].provider)
    BY <1>5, <1>7
  <2>9. Homes /\ Tally
    BY DEF Inductive
  <2> QED BY <1>2, <1>3, <1>4, <1>7, <2>3, <2>4, <2>5, <2>6, <2>7, <2>8, <2>9, Placed
<1>12. Phases' /\ Blocks' /\ Answered'
  BY <1>2, GroupingKeeps DEF Inductive
<1>13. Founded'
  <2>1. \A n \in 1 .. next - 1 : n \in 1 .. (next + 1) - 1
    BY <1>3
  <2> QED BY <1>2, <1>7, <1>9, <2>1 DEF Inductive, Founded
<1> QED BY <1>8, <1>10, <1>11, <1>12, <1>13 DEF Inductive

LEMMA OpenStep ==
  ASSUME Inductive, OpenCluster
  PROVE  Inductive'
<1> DEFINE new == [canonical |-> all[next].value, sources |-> <<all[next].provider>>]
<1>0. PICK L : L = Len(clusters)
  OBVIOUS
<1>1. /\ UNCHANGED <<found, unread, all, result, passed, pc>> /\ next' = next + 1
      /\ pc = "grouping" /\ next <= Len(all)
  BY DEF OpenCluster
<1>2. TypeOK /\ next \in 1 .. Len(all) /\ next + 1 \in 1 .. Len(all) + 1 /\ next - 1 \in Nat
  BY <1>1 DEF Inductive, TypeOK
<1>3. /\ all[next].value \in Values /\ all[next].provider \in Providers
      /\ clusters \in Seq(Cluster) /\ L \in Nat
      /\ \A e \in 1 .. L : clusters[e].canonical \in Values
  BY <1>0, <1>2, Shape
<1>4. new \in Cluster
  BY <1>3 DEF Cluster
<1> HIDE DEF new
<1>5. /\ clusters' \in Seq(Cluster) /\ Len(clusters') = L + 1
      /\ clusters'[L + 1] = new
      /\ \A e \in 1 .. L : clusters'[e] = clusters[e]
  <2>1. clusters' = Append(clusters, new)
    BY DEF OpenCluster, new
  <2> QED BY <1>0, <1>3, <1>4, <2>1
<1>6. TypeOK'
  BY <1>1, <1>2, <1>5 DEF TypeOK
<1>7. /\ \A e \in 1 .. L : <<clusters[e].canonical, new.canonical>> \notin Similar
      /\ \A e \in 1 .. L : <<new.canonical, clusters[e].canonical>> \notin Similar
      /\ <<new.canonical, new.canonical>> \in Similar
  <2>1. \A e \in 1 .. L : <<clusters[e].canonical, new.canonical>> \notin Similar
    BY <1>0 DEF OpenCluster, Matching, new
  <2>2. new.canonical \in Values
    BY <1>3 DEF new
  <2> QED BY <1>3, <2>1, <2>2, ConsensusAssumption
<1>8. CanonicalsApart'
  <2> SUFFICES ASSUME NEW e \in 1 .. L + 1, NEW f \in 1 .. L + 1,
                      <<clusters'[e].canonical, clusters'[f].canonical>> \in Similar, e # f
               PROVE  FALSE
    BY <1>5 DEF CanonicalsApart
  <2>1. CASE e \in 1 .. L /\ f \in 1 .. L
    <3>1. <<clusters[e].canonical, clusters[f].canonical>> \in Similar
      BY <1>5, <2>1
    <3> QED BY <1>0, <2>1, <3>1 DEF Inductive, CanonicalsApart
  <2>2. CASE e = L + 1
    <3>1. f \in 1 .. L /\ clusters'[e] = new /\ clusters'[f] = clusters[f]
      BY <1>3, <1>5, <2>2
    <3> QED BY <1>7, <3>1
  <2>3. CASE f = L + 1
    <3>1. e \in 1 .. L /\ clusters'[f] = new /\ clusters'[e] = clusters[e]
      BY <1>3, <1>5, <2>3
    <3> QED BY <1>7, <3>1
  <2> QED BY <1>3, <2>1, <2>2, <2>3
<1>9. Homes' /\ Tally'
  <2>1. ASSUME NEW e \in 1 .. L, NEW n
        PROVE  /\ Matches(e, n)' <=> Matches(e, n)
               /\ IsHome(e, n)' <=> IsHome(e, n)
    <3>1. \A f \in 1 .. e : f \in 1 .. L
      BY <1>3
    <3>2. \A f \in 1 .. e : Matches(f, n)' <=> Matches(f, n)
      BY <1>1, <1>5, <3>1 DEF Matches
    <3> QED BY <1>3, <3>2 DEF IsHome
  <2>2. PICK m : m = next
    OBVIOUS
  <2>3. (\A e \in 1 .. L : ~Matches(e, m)') /\ Matches(L + 1, m)'
    <3>1. \A e \in 1 .. L : ~Matches(e, m)
      BY <1>7, <2>2 DEF Matches, new
    <3>2. Matches(L + 1, m)'
      BY <1>1, <1>5, <1>7, <2>2 DEF Matches, new
    <3> QED BY <2>1, <3>1, <3>2
  <2>4. \A e \in 1 .. L + 1 : IsHome(e, m)' <=> e = L + 1
    <3>1. \A e \in 1 .. L : ~IsHome(e, m)'
      BY <2>3 DEF IsHome
    <3>2. IsHome(L + 1, m)'
      <4>1. 1 .. L = 1 .. (L + 1) - 1
        BY <1>3
      <4> QED BY <2>3, <4>1 DEF IsHome
    <3> QED BY <1>3, <3>1, <3>2
  <2>5. \A e \in 1 .. L + 1, n \in 1 .. next - 1 :
          IsHome(e, n)' <=> e \in 1 .. L /\ IsHome(e, n)
    <3>1. ASSUME NEW n \in 1 .. next - 1 PROVE ~IsHome(L + 1, n)'
      <4>1. PICK e \in 1 .. L : IsHome(e, n)
        BY <1>0, <3>1 DEF Inductive, Homes
      <4>2. Matches(e, n)'
        BY <2>1, <4>1 DEF IsHome
      <4>3. e \in 1 .. (L + 1) - 1
        BY <1>3
      <4> QED BY <4>2, <4>3 DEF IsHome
    <3> QED BY <1>3, <2>1, <3>1
  <2>6. /\ L + 1 \in 1 .. Len(clusters') /\ Len(clusters') >= Len(clusters)
        /\ L + 1 \notin 1 .. Len(clusters)
    BY <1>0, <1>3, <1>5
  <2>7. \A e \in 1 .. Len(clusters') :
          e # L + 1 => e \in 1 .. Len(clusters) /\ clusters'[e] = clusters[e]
    BY <1>0, <1>3, <1>5
  <2>8. clusters'[L + 1].sources = Append(<<>>, all[next].provider) /\ <<>> \in Seq(Providers)
    BY <1>5 DEF new
  <2>9. Homes /\ Tally
    BY DEF Inductive
  <2>10. /\ \A e \in 1 .. Len(clusters') : IsHome(e, m)' <=> e = L + 1
         /\ \A e \in 1 .. Len(clusters'), n \in 1 .. next - 1 :
              IsHome(e, n)' <=> e \in 1 .. Len(clusters) /\ IsHome(e, n)
    BY <1>0, <1>5, <2>4, <2>5
  <2> QED BY <1>1, <1>2, <1>5, <2>2, <2>6, <2>7, <2>8, <2>9, <2>10, Placed
<1>10. Phases' /\ Blocks' /\ Answered'
  BY <1>1, GroupingKeeps DEF Inductive
<1>11. Founded'
  <2>1. next \in 1 .. (next + 1) - 1 /\ \A n \in 1 .. next - 1 : n \in 1 .. (next + 1) - 1
    BY <1>2
  <2>2. ASSUME NEW c \in 1 .. L + 1
        PROVE  \E n \in 1 .. (next + 1) - 1 : clusters'[c].canonical = all[n].value
    <3>1. CASE c = L + 1
      BY <1>5, <2>1, <3>1 DEF new
    <3>2. CASE c # L + 1
      <4>1. c \in 1 .. L
        BY <1>3, <3>2
      <4> QED BY <1>0, <1>5, <2>1, <4>1 DEF Inductive, Founded
    <3> QED BY <3>1, <3>2
  <2> QED BY <1>1, <1>5, <2>2 DEF Founded
<1> QED BY <1>6, <1>8, <1>9, <1>10, <1>11 DEF Inductive

-------------------------------------------------------------------------------
(* Collecting and concluding. *)

LEMMA InitIsInductive == Init => Inductive
<1> SUFFICES ASSUME Init PROVE Inductive
  OBVIOUS
<1>1. found \in [Providers -> Seq(Values)]
  <2>1. \A n \in 0 .. MaxFound : [1 .. n -> Values] \subseteq Seq(Values)
    BY ConsensusAssumption
  <2> QED BY <2>1 DEF Init
<1>2. result \in Field
  BY DEF Init, Fresh, Field
<1>3. /\ all \in Seq(Entry) /\ Len(all) = 0
      /\ clusters = <<>> /\ clusters \in Seq(Cluster) /\ Len(clusters) = 0
  BY DEF Init
<1>4. /\ unread = Providers /\ next = 1 /\ pc = "collecting" /\ passed \in BOOLEAN
  BY DEF Init
<1>5. TypeOK
  BY <1>1, <1>2, <1>3, <1>4 DEF TypeOK
<1>6. Phases /\ Blocks /\ Homes /\ Founded /\ CanonicalsApart /\ Answered
  BY <1>3, <1>4 DEF Phases, Blocks, Homes, Founded, CanonicalsApart, Answered
<1>7. Tally
  <2> SUFFICES ASSUME NEW C \in SUBSET (1 .. Len(clusters)), NEW P
               PROVE  Cardinality(Slots(C, P)) = Cardinality(Members(C, P))
    BY DEF Tally
  <2>1. C = {}
    BY <1>3
  <2> QED BY <2>1 DEF Slots, Members
<1> QED BY <1>5, <1>6, <1>7 DEF Inductive

(* The values of one provider, as entries of allValues. *)
Entries(p) == [i \in 1 .. Len(found[p]) |-> [value |-> found[p][i], provider |-> p]]

LEMMA CollectStep ==
  ASSUME Inductive, NEW p \in Providers, Collect(p)
  PROVE  Inductive'
<1>1. PICK L, M : L = Len(all) /\ M = Len(found[p])
  OBVIOUS
<1>2. /\ UNCHANGED <<found, clusters, next, result, passed, pc>> /\ pc = "collecting"
      /\ p \in unread /\ unread' = unread \ {p} /\ all' = all \o Entries(p)
  BY DEF Collect, Entries
<1>3. /\ TypeOK /\ all \in Seq(Entry) /\ L \in Nat /\ M \in Nat
      /\ Positions(p) = 1 .. M /\ \A k \in 1 .. M : found[p][k] \in Values
  BY <1>1, Shape DEF Inductive
<1>4. /\ Entries(p) \in Seq(Entry) /\ Len(Entries(p)) = M
      /\ \A i \in 1 .. M : Entries(p)[i] = [value |-> found[p][i], provider |-> p]
  BY <1>1, <1>3 DEF Entries, Entry
<1>5. /\ all' \in Seq(Entry) /\ Len(all') = L + M
      /\ \A i \in 1 .. L + M : all'[i] = IF i <= L THEN all[i] ELSE Entries(p)[i - L]
  <2>1. all \in Seq(Entry) /\ Entries(p) \in Seq(Entry)
    BY <1>3, <1>4
  <2>2. /\ all \o Entries(p) \in Seq(Entry)
        /\ Len(all \o Entries(p)) = Len(all) + Len(Entries(p))
        /\ \A i \in 1 .. Len(all) + Len(Entries(p)) :
             (all \o Entries(p))[i] = IF i <= Len(all) THEN all[i] ELSE Entries(p)[i - Len(all)]
    BY <2>1, ConcatProperties
  <2> QED BY <1>1, <1>2, <1>4, <2>2
<1>6. /\ \A i \in 1 .. L : all'[i] = all[i]
      /\ \A i \in L + 1 .. L + M :
           all'[i].value = found[p][i - L] /\ all'[i].provider = p
  <2>1. \A i \in 1 .. L : i \in 1 .. L + M /\ i <= L
    BY <1>3
  <2>2. \A i \in L + 1 .. L + M : i \in 1 .. L + M /\ ~(i <= L) /\ i - L \in 1 .. M
    BY <1>3
  <2>3. ASSUME NEW i \in L + 1 .. L + M
        PROVE  all'[i].value = found[p][i - L] /\ all'[i].provider = p
    <3>1. all'[i] = Entries(p)[i - L]
      BY <1>5, <2>2
    <3>2. Entries(p)[i - L] = [value |-> found[p][i - L], provider |-> p]
      BY <1>4, <2>2
    <3> QED BY <3>1, <3>2
  <2> QED BY <1>5, <2>1, <2>3
<1>7. clusters = <<>> /\ next = 1
  BY <1>2 DEF Inductive, Phases
<1>8. TypeOK'
  <2>1. next' \in 1 .. Len(all') + 1
    BY <1>2, <1>3, <1>5, <1>7
  <2> QED BY <1>2, <1>3, <1>5, <2>1 DEF TypeOK
<1>9. Blocks'
  <2>1. ASSUME NEW q \in Providers, q # p
        PROVE  \A n \in 1 .. L + M : all'[n].provider = q <=> n \in 1 .. L /\ all[n].provider = q
    <3> SUFFICES ASSUME NEW n \in 1 .. L + M
                 PROVE  all'[n].provider = q <=> n \in 1 .. L /\ all[n].provider = q
      OBVIOUS
    <3>1. CASE n \in 1 .. L
      BY <1>6, <3>1
    <3>2. CASE n \notin 1 .. L
      <4>1. n \in L + 1 .. L + M
        BY <1>3, <3>2
      <4> QED BY <1>6, <2>1, <3>2, <4>1
    <3> QED BY <3>1, <3>2
  <2>2. ASSUME NEW q \in unread' PROVE \A n \in 1 .. Len(all') : all'[n].provider # q
    <3>1. q \in Providers /\ q # p /\ q \in unread
      BY <1>2, <1>3, <2>2 DEF TypeOK
    <3>2. \A n \in 1 .. L : all[n].provider # q
      BY <1>1, <3>1 DEF Inductive, Blocks
    <3> QED BY <1>5, <2>1, <3>1, <3>2
  <2>3. ASSUME NEW q \in Providers, q \notin unread'
        PROVE  \E o \in 0 .. Len(all') : IsBlock(q, o)'
    <3>1. CASE q = p
      <4>1. \A n \in 1 .. L : all[n].provider # p
        BY <1>1, <1>2 DEF Inductive, Blocks
      <4>2. ASSUME NEW n \in 1 .. L + M PROVE all'[n].provider = p <=> n - L \in 1 .. M
        <5>1. CASE n \in 1 .. L
          <6>1. n - L \notin 1 .. M
            BY <1>3, <5>1
          <6> QED BY <1>6, <4>1, <5>1, <6>1
        <5>2. CASE n \notin 1 .. L
          <6>1. n \in L + 1 .. L + M /\ n - L \in 1 .. M
            BY <1>3, <5>2
          <6> QED BY <1>6, <6>1
        <5> QED BY <5>1, <5>2
      <4>3. ASSUME NEW k \in 1 .. M PROVE all'[L + k].value = found[p][k]
        <5>1. L + k \in L + 1 .. L + M /\ (L + k) - L = k
          BY <1>3
        <5> QED BY <1>6, <5>1
      <4>4. L \in 0 .. Len(all')
        BY <1>3, <1>5
      <4>5. IsBlock(p, L)'
        <5>1. Positions(p)' = 1 .. M /\ found'[p] = found[p]
          BY <1>2, <1>3 DEF Positions
        <5>2. Len(found'[p]) = M /\ Len(all') = L + M
          BY <1>1, <1>5, <5>1
        <5>3. L + Len(found'[p]) <= Len(all')
          BY <1>3, <5>2
        <5>4. \A n \in 1 .. Len(all') : all'[n].provider = p <=> n - L \in Positions(p)'
          BY <4>2, <5>1, <5>2
        <5>5. \A k \in Positions(p)' : all'[L + k].value = found'[p][k]
          BY <4>3, <5>1
        <5> QED BY <5>3, <5>4, <5>5 DEF IsBlock
      <4> QED BY <3>1, <4>4, <4>5
    <3>2. CASE q # p
      <4>1. PICK o \in 0 .. L : IsBlock(q, o)
        BY <1>1, <1>2, <2>3, <3>2 DEF Inductive, Blocks
      <4>2. o \in Nat /\ o \in 0 .. Len(all')
        BY <1>3, <1>5
      <4>3. Len(found[q]) \in Nat /\ Positions(q) = 1 .. Len(found[q])
        BY <1>3, Shape
      <4>4. \A k \in 1 .. Len(found[q]) : o + k \in 1 .. L
        BY <1>1, <1>3, <4>1, <4>2, <4>3 DEF IsBlock
      <4>5. \A n \in 1 .. L + M : all'[n].provider = q <=> n - o \in 1 .. Len(found[q])
        <5> SUFFICES ASSUME NEW n \in 1 .. L + M
                     PROVE  all'[n].provider = q <=> n - o \in 1 .. Len(found[q])
          OBVIOUS
        <5>1. n - o \in 1 .. Len(found[q]) => n \in 1 .. L
          <6>1. o + (n - o) = n
            BY <1>3, <4>2
          <6> QED BY <4>4, <6>1
        <5>2. n \in 1 .. L => (all[n].provider = q <=> n - o \in 1 .. Len(found[q]))
          BY <1>1, <4>1, <4>3 DEF IsBlock
        <5> QED BY <2>1, <3>2, <5>1, <5>2
      <4>6. \A k \in 1 .. Len(found[q]) : all'[o + k].value = found[q][k]
        BY <1>6, <4>1, <4>3, <4>4 DEF IsBlock
      <4>7. o + Len(found[q]) <= L + M
        BY <1>1, <1>3, <4>1, <4>2, <4>3 DEF IsBlock
      <4>8. IsBlock(q, o)'
        BY <1>2, <1>5, <4>3, <4>5, <4>6, <4>7 DEF IsBlock, Positions
      <4> QED BY <4>2, <4>8
    <3> QED BY <3>1, <3>2
  <2> QED BY <2>2, <2>3 DEF Blocks
<1>10. CanonicalsApart' /\ Phases' /\ Answered' /\ Homes' /\ Founded'
  BY <1>2, <1>7 DEF CanonicalsApart, Phases, Answered, Homes, Founded
<1>11. Tally'
  <2> SUFFICES ASSUME NEW C \in SUBSET (1 .. Len(clusters')), NEW P
               PROVE  Cardinality(Slots(C, P)') = Cardinality(Members(C, P)')
    BY DEF Tally
  <2>1. C = {}
    BY <1>2, <1>7
  <2> QED BY <2>1 DEF Slots, Members
<1> QED BY <1>8, <1>9, <1>10, <1>11 DEF Inductive

(* The steps that touch neither what was collected nor the clusters.        *)
LEMMA KeepsClusters ==
  ASSUME Inductive, UNCHANGED <<found, unread, all, clusters, next>>,
         TypeOK', Phases', Answered'
  PROVE  Inductive'
<1>1. Blocks'
  <2>1. Blocks
    BY DEF Inductive
  <2>2. \A p, o : IsBlock(p, o)' <=> IsBlock(p, o)
    BY DEF IsBlock, Positions
  <2> QED BY <2>1, <2>2 DEF Blocks
<1>2. Homes' /\ Founded' /\ CanonicalsApart'
  BY DEF Inductive, Homes, Founded, CanonicalsApart, IsHome, Matches
<1>3. Tally'
  <2>1. Tally
    BY DEF Inductive
  <2>2. \A C, P : Slots(C, P)' = Slots(C, P)
    BY SlotsAreThese
  <2>3. \A C, P : Members(C, P)' = Members(C, P)
    BY DEF Members, IsHome, Matches
  <2> QED BY <2>1, <2>2, <2>3 DEF Tally
<1> QED BY <1>1, <1>2, <1>3 DEF Inductive

(* What OneValue returns. *)
LEMMA SingleType ==
  ASSUME TypeOK, Len(all) = 1
  PROVE  /\ SingleValue \in Field
         /\ all[1].value \in Values /\ all[1].provider \in Providers
<1>1. all[1].value \in Values /\ all[1].provider \in Providers
  BY Shape
<1>2. <<all[1].provider>> \in Seq(Providers)
  BY <1>1
<1> QED BY <1>1, <1>2 DEF SingleValue, Field

(* What Conclude returns for cluster c. *)
LEMMA MajorityType ==
  ASSUME TypeOK, NEW c \in 1 .. Len(clusters)
  PROVE  Majority(c) \in Field
<1>1. Size(c) \in Nat /\ Len(all) \in Nat
  BY Shape
<1>2. clusters[c].canonical \in Values /\ clusters[c].sources \in Seq(Providers)
  BY Shape
<1>3. \A e \in 1 .. Len(clusters) : \A k \in 1 .. Size(e) : ConflictOf(e, k) \in Conflict
  <2> SUFFICES ASSUME NEW e \in 1 .. Len(clusters), NEW k \in 1 .. Size(e)
               PROVE  ConflictOf(e, k) \in Conflict
    OBVIOUS
  <2>1. clusters[e].sources[k] \in Providers /\ clusters[e].canonical \in Values
    BY Shape
  <2>2. k \in Nat /\ e \in Nat
    BY Shape
  <2> QED BY <2>1, <2>2 DEF ConflictOf, Conflict
<1>4. ConflictsWith(c) \subseteq Conflict
  BY <1>3 DEF ConflictsWith
<1> QED BY <1>1, <1>2, <1>4 DEF Majority, Field

LEMMA ReturnStep ==
  ASSUME Inductive, NothingFound \/ OneValue \/ StartGrouping \/ Conclude
  PROVE  Inductive'
<1>1. TypeOK /\ Phases
  BY DEF Inductive
<1>2. UNCHANGED <<found, unread, all, clusters, next>>
  BY DEF NothingFound, OneValue, StartGrouping, Conclude
<1>3. Phases'
  BY <1>1 DEF Phases, NothingFound, OneValue, StartGrouping, Conclude, Collected
<1>4. Len(all) \in Nat /\ next \in 1 .. Len(all) + 1
  BY <1>1 DEF TypeOK
<1>5. CASE NothingFound
  <2>1. result' = Fresh /\ passed' = FALSE /\ pc' = "done" /\ Len(all) = 0
    BY <1>5 DEF NothingFound
  <2>2. result' \in Field
    BY <2>1 DEF Fresh, Field
  <2>3. TypeOK' /\ Answered'
    BY <1>1, <1>2, <2>1, <2>2 DEF TypeOK, Answered
  <2> QED BY <1>2, <1>3, <2>3, KeepsClusters
<1>6. CASE OneValue
  <2>1. result' = SingleValue /\ passed' = (50 >= ThresholdPct) /\ pc' = "done" /\ Len(all) = 1
    BY <1>6 DEF OneValue
  <2>2. result' \in Field
    BY <1>1, <2>1, SingleType
  <2>3. SingleValue' = SingleValue
    BY <1>2 DEF SingleValue
  <2>4. TypeOK' /\ Answered'
    BY <1>1, <1>2, <2>1, <2>2, <2>3 DEF TypeOK, Answered
  <2> QED BY <1>2, <1>3, <2>4, KeepsClusters
<1>7. CASE StartGrouping
  <2>1. TypeOK' /\ Answered'
    BY <1>1, <1>7 DEF StartGrouping, TypeOK, Answered
  <2> QED BY <1>2, <1>3, <2>1, KeepsClusters
<1>8. CASE Conclude
  <2>1. PICK c \in 1 .. Len(clusters) :
          /\ IsBest(c) /\ result' = Majority(c)
          /\ passed' = (100 * Size(c) >= ThresholdPct * Len(all))
    BY <1>8 DEF Conclude
  <2>2. passed' \in BOOLEAN /\ pc' = "done" /\ next > Len(all)
    BY <1>8 DEF Conclude
  <2>3. TypeOK'
    <3>1. result' \in Field
      BY <1>1, <2>1, MajorityType
    <3> QED BY <1>1, <1>2, <2>2, <3>1 DEF TypeOK
  <2>4. Len(all) > 1
    BY <1>8 DEF Conclude, Inductive, Phases
  <2>5. IsBest(c)' /\ Majority(c)' = Majority(c) /\ Size(c)' = Size(c)
    BY <1>2, <2>1 DEF IsBest, Size, Majority, ConflictsWith, ConflictOf
  <2>6. next = Len(all) + 1
    BY <1>4, <2>2
  <2>7. Answered'
    BY <1>2, <2>1, <2>4, <2>5, <2>6 DEF Answered
  <2> QED BY <1>2, <1>3, <2>3, <2>7, KeepsClusters
<1> QED BY <1>5, <1>6, <1>7, <1>8

-------------------------------------------------------------------------------
(* What the invariant says of an answer. *)

(* The values of a provider that satisfy any condition are as many in       *)
(* allValues as among what it found: its block is a copy.                   *)
LEMMA BlockIsCopy ==
  ASSUME TypeOK, Blocks, unread = {}, NEW p \in Providers, NEW V
  PROVE  LET here  == {n \in 1 .. Len(all) : all[n].provider = p /\ all[n].value \in V}
             there == {i \in Positions(p) : found[p][i] \in V}
         IN  /\ IsFiniteSet(here) /\ IsFiniteSet(there)
             /\ Cardinality(here) = Cardinality(there)
<1> DEFINE here  == {n \in 1 .. Len(all) : all[n].provider = p /\ all[n].value \in V}
           there == {i \in Positions(p) : found[p][i] \in V}
<1>1. PICK o \in 0 .. Len(all) : IsBlock(p, o)
  BY DEF Blocks
<1>2. Len(all) \in Nat /\ Len(found[p]) \in Nat /\ Positions(p) = 1 .. Len(found[p])
  BY Shape
<1>3. o \in Nat /\ there \subseteq 1 .. Len(found[p])
  BY <1>1, <1>2
<1>4. ASSUME NEW y PROVE y \in here <=> \E k \in there : y = o + k
  <2>1. ASSUME y \in here PROVE \E k \in there : y = o + k
    <3>1. y \in 1 .. Len(all) /\ all[y].provider = p /\ all[y].value \in V
      BY <2>1
    <3>2. y - o \in Positions(p)
      BY <1>1, <3>1 DEF IsBlock
    <3>3. o + (y - o) = y
      BY <1>2, <1>3, <3>1
    <3>4. found[p][y - o] = all[y].value
      BY <1>1, <3>2, <3>3 DEF IsBlock
    <3> QED BY <3>1, <3>2, <3>3, <3>4
  <2>2. ASSUME NEW k \in there, y = o + k PROVE y \in here
    <3>1. k \in Positions(p) /\ found[p][k] \in V
      OBVIOUS
    <3>2. y \in 1 .. Len(all) /\ y - o = k
      BY <1>1, <1>2, <1>3, <2>2, <3>1 DEF IsBlock
    <3>3. all[y].provider = p
      BY <1>1, <3>1, <3>2 DEF IsBlock
    <3>4. all[y].value = found[p][k]
      BY <1>1, <2>2, <3>1 DEF IsBlock
    <3> QED BY <3>1, <3>2, <3>3, <3>4
  <2> QED BY <2>1, <2>2
<1> HIDE DEF here, there
<1>5. IsFiniteSet(here) /\ Cardinality(here) = Cardinality(there)
  BY <1>2, <1>3, <1>4, Shifted
<1>6. IsFiniteSet(there)
  BY <1>2, <1>3, IntervalPart
<1> QED BY <1>5, <1>6 DEF here, there

(* Cluster c's sources that are p, counted, are its slots. *)
LEMMA AgreeingAsSlots ==
  ASSUME TypeOK, NEW c \in 1 .. Len(clusters), NEW P
  PROVE  LET those == {k \in 1 .. Size(c) : clusters[c].sources[k] \in P}
         IN  IsFiniteSet(those) /\ Cardinality(those) = Cardinality(Slots({c}, P))
<1> DEFINE those == {k \in 1 .. Size(c) : clusters[c].sources[k] \in P}
           f == [k \in those |-> <<c, k>>]
<1>1. IsFiniteSet(those)
  BY Shape, IntervalPart
<1>2. f \in [those -> Slots({c}, P)]
  BY DEF Slots
<1>3. \A k, l \in those : f[k] = f[l] => k = l
  OBVIOUS
<1>4. \A y \in Slots({c}, P) : \E k \in those : f[k] = y
  BY DEF Slots
<1> HIDE DEF f, those
<1>5. Cardinality(Slots({c}, P)) = Cardinality(those)
  BY <1>1, <1>2, <1>3, <1>4, PairedOff
<1> QED BY <1>1, <1>5 DEF those

(* The conflicts with cluster c that name p are the slots of the others.    *)
LEMMA ConflictsAsSlots ==
  ASSUME TypeOK, NEW c \in 1 .. Len(clusters), NEW p \in Providers
  PROVE  Cardinality({x \in ConflictsWith(c) : x.provider = p})
           = Cardinality(Slots((1 .. Len(clusters)) \ {c}, {p}))
<1> DEFINE C == (1 .. Len(clusters)) \ {c}
           S == Slots(C, {p})
           T == {x \in ConflictsWith(c) : x.provider = p}
           f == [s \in S |-> ConflictOf(s[1], s[2])]
<1>1. IsFiniteSet(S)
  <2>1. clusters \in Seq(Cluster) /\ C \subseteq 1 .. Len(clusters)
    BY DEF TypeOK
  <2> QED BY <2>1, SlotsFinite, SlotsAreThese
<1>2. \A s \in S : /\ s = <<s[1], s[2]>> /\ s[1] \in C /\ s[2] \in 1 .. Size(s[1])
                   /\ clusters[s[1]].sources[s[2]] = p
  BY DEF Slots
<1>3. ASSUME NEW s \in S PROVE f[s] \in T
  <2>1. f[s] = ConflictOf(s[1], s[2])
    OBVIOUS
  <2>2. f[s] \in ConflictsWith(c)
    <3>1. PICK d \in C, k \in 1 .. Size(s[1]) : d = s[1] /\ k = s[2]
      BY <1>2
    <3>2. f[s] = ConflictOf(d, k) /\ k \in 1 .. Size(d)
      BY <2>1, <3>1
    <3> HIDE DEF f
    <3> QED BY <3>2 DEF ConflictsWith
  <2>3. f[s].provider = p
    BY <1>2, <2>1 DEF ConflictOf
  <2> QED BY <2>2, <2>3
<1>4. ASSUME NEW s \in S, NEW t \in S, f[s] = f[t] PROVE s = t
  <2>1. f[s].at = <<s[1], s[2]>> /\ f[t].at = <<t[1], t[2]>>
    BY DEF ConflictOf
  <2>2. s = f[s].at /\ t = f[t].at
    BY <1>2, <2>1
  <2> QED BY <1>4, <2>2
<1>5. ASSUME NEW x \in T PROVE \E s \in S : f[s] = x
  <2>1. x \in ConflictsWith(c) /\ x.provider = p
    OBVIOUS
  <2>2. PICK d \in C : x \in {ConflictOf(d, k) : k \in 1 .. Size(d)}
    BY <2>1 DEF ConflictsWith
  <2>3. PICK k \in 1 .. Size(d) : x = ConflictOf(d, k)
    BY <2>2
  <2>4. clusters[d].sources[k] = p
    BY <2>1, <2>3 DEF ConflictOf
  <2>5. <<d, k>> \in S
    BY <2>2, <2>3, <2>4 DEF Slots
  <2>6. f[<<d, k>>] = x
    BY <2>3, <2>5
  <2> QED BY <2>5, <2>6
<1>6. f \in [S -> T]
  BY <1>3
<1> HIDE DEF f, S, T
<1>7. Cardinality(T) = Cardinality(S)
  BY <1>1, <1>4, <1>5, <1>6, PairedOff
<1> QED BY <1>7 DEF S, T

(* Slots of disjoint sets of clusters are counted apart. *)
LEMMA SlotsAddUp ==
  ASSUME TypeOK, NEW c \in 1 .. Len(clusters), NEW P
  PROVE  Cardinality(Slots({c}, P)) + Cardinality(Slots((1 .. Len(clusters)) \ {c}, P))
           = Cardinality(Slots(1 .. Len(clusters), P))
<1> DEFINE K == 1 .. Len(clusters)
           A == Slots({c}, P)
           B == Slots(K \ {c}, P)
<1>1. IsFiniteSet(A) /\ IsFiniteSet(B)
  <2>1. /\ clusters \in Seq(Cluster) /\ {c} \subseteq 1 .. Len(clusters)
        /\ K \ {c} \subseteq 1 .. Len(clusters)
    BY DEF TypeOK
  <2> QED BY <2>1, SlotsFinite, SlotsAreThese
<1>2. A \cap B = {}
  BY DEF Slots
<1>3. A \cup B = Slots(K, P)
  BY DEF Slots
<1> HIDE DEF A, B
<1>4. Cardinality(A \cup B) = Cardinality(A) + Cardinality(B)
  <2>1. Cardinality(A \cup B) = Cardinality(A) + Cardinality(B) - Cardinality(A \cap B)
    BY <1>1, FS_Union
  <2>2. Cardinality(A) \in Nat /\ Cardinality(B) \in Nat /\ Cardinality(A \cap B) = 0
    BY <1>1, <1>2, FS_CardinalityType, FS_EmptySet
  <2> QED BY <2>1, <2>2
<1> QED BY <1>3, <1>4 DEF A, B

(* With one value in all, the answer names its provider once. *)
LEMMA AloneInAll ==
  ASSUME TypeOK, Len(all) = 1, NEW p \in Providers, NEW V, all[1].value \in V
  PROVE  {k \in DOMAIN SingleValue.sources : SingleValue.sources[k] = p}
           = {n \in 1 .. Len(all) : all[n].provider = p /\ all[n].value \in V}
<1>1. SingleValue.sources = <<all[1].provider>>
  BY DEF SingleValue
<1>2. DOMAIN SingleValue.sources = 1 .. 1 /\ SingleValue.sources[1] = all[1].provider
  BY <1>1
<1>3. \A n \in 1 .. 1 : n = 1
  OBVIOUS
<1> QED BY <1>2, <1>3

LEMMA EvidenceIsAccounted == Inductive => EvidenceAccounted
<1> SUFFICES ASSUME Inductive, pc = "done", NEW p \in Providers
             PROVE  Agreeing(p) + Conflicting(p) = Cardinality(Positions(p))
  BY DEF EvidenceAccounted
<1>1. TypeOK /\ Blocks /\ unread = {}
  BY DEF Inductive, Phases
<1> DEFINE mine == {n \in 1 .. Len(all) : all[n].provider = p /\ all[n].value \in Values}
<1>2. IsFiniteSet(mine) /\ Cardinality(mine) = Cardinality(Positions(p))
  <2>1. {i \in Positions(p) : found[p][i] \in Values} = Positions(p)
    BY <1>1, Shape
  <2> QED BY <1>1, <2>1, BlockIsCopy
<1>3. Cardinality(mine) \in Nat
  BY <1>2, FS_CardinalityType
<1>4. CASE Len(all) = 0 /\ result = Fresh
  <2>1. mine = {}
    BY <1>4
  <2>2. {k \in DOMAIN result.sources : result.sources[k] = p} = {}
    BY <1>4 DEF Fresh
  <2>3. {x \in result.conflicts : x.provider = p} = {}
    BY <1>4 DEF Fresh
  <2>4. Agreeing(p) = 0 /\ Conflicting(p) = 0 /\ Cardinality(mine) = 0
    BY <2>1, <2>2, <2>3, FS_EmptySet DEF Agreeing, Conflicting
  <2> QED BY <1>2, <2>4
<1>5. CASE Len(all) = 1 /\ result = SingleValue
  <2>1. {k \in DOMAIN result.sources : result.sources[k] = p} = mine
    BY <1>1, <1>5, AloneInAll, SingleType
  <2>2. {x \in result.conflicts : x.provider = p} = {}
    BY <1>5 DEF SingleValue
  <2>3. Agreeing(p) = Cardinality(mine) /\ Conflicting(p) = 0
    BY <2>1, <2>2, FS_EmptySet DEF Agreeing, Conflicting
  <2> QED BY <1>2, <1>3, <2>3
<1>6. ASSUME Len(all) > 1, next = Len(all) + 1, NEW c \in 1 .. Len(clusters), result = Majority(c)
      PROVE  Agreeing(p) + Conflicting(p) = Cardinality(Positions(p))
  <2>1. Agreeing(p) = Cardinality(Slots({c}, {p}))
    <3>1. result.sources = clusters[c].sources
      BY <1>6 DEF Majority
    <3>2. DOMAIN result.sources = 1 .. Size(c)
      BY <1>1, <3>1, Shape DEF Size
    <3>3. {k \in DOMAIN result.sources : result.sources[k] = p}
            = {k \in 1 .. Size(c) : clusters[c].sources[k] \in {p}}
      BY <3>1, <3>2
    <3> QED BY <1>1, <3>3, AgreeingAsSlots DEF Agreeing
  <2>2. Conflicting(p) = Cardinality(Slots((1 .. Len(clusters)) \ {c}, {p}))
    <3>1. result.conflicts = ConflictsWith(c)
      BY <1>6 DEF Majority
    <3> QED BY <1>1, <3>1, ConflictsAsSlots DEF Conflicting
  <2>3. Cardinality(Slots(1 .. Len(clusters), {p})) = Cardinality(Members(1 .. Len(clusters), {p}))
    <3>1. (1 .. Len(clusters)) \in SUBSET (1 .. Len(clusters)) /\ {p} \in SUBSET Providers
      OBVIOUS
    <3> QED BY <3>1 DEF Inductive, Tally
  <2>4. Members(1 .. Len(clusters), {p}) = mine
    <3>1. 1 .. next - 1 = 1 .. Len(all)
      BY <1>1, <1>6, Shape
    <3>2. \A n \in 1 .. Len(all) : all[n].value \in Values
      BY <1>1, Shape
    <3> QED BY <3>1, <3>2 DEF Members, Inductive, Homes
  <2> QED BY <1>1, <1>2, <2>1, <2>2, <2>3, <2>4, SlotsAddUp
<1> QED BY <1>4, <1>5, <1>6 DEF Inductive, Answered

(* A provider's values that are similar to v, in allValues. *)
LEMMA SupportInAll ==
  ASSUME TypeOK, Blocks, unread = {}, NEW p \in Providers, NEW v
  PROVE  LET T == {n \in 1 .. Len(all) : all[n].provider = p /\ <<v, all[n].value>> \in Similar}
         IN  /\ IsFiniteSet(T) /\ IsFiniteSet(Supporting(p, v))
             /\ Cardinality(T) = Cardinality(Supporting(p, v))
<1> DEFINE V == {w \in Values : <<v, w>> \in Similar}
           T == {n \in 1 .. Len(all) : all[n].provider = p /\ <<v, all[n].value>> \in Similar}
<1>1. T = {n \in 1 .. Len(all) : all[n].provider = p /\ all[n].value \in V}
  BY Shape
<1>2. Supporting(p, v) = {i \in Positions(p) : found[p][i] \in V}
  BY Shape DEF Supporting
<1> HIDE DEF V, T
<1>3. /\ IsFiniteSet(T) /\ IsFiniteSet(Supporting(p, v))
      /\ Cardinality(T) = Cardinality(Supporting(p, v))
  BY <1>1, <1>2, BlockIsCopy
<1> QED BY <1>3 DEF T

LEMMA SourcesDoSupport == Inductive => SourcesSupportValue
<1> SUFFICES ASSUME Inductive, pc = "done", NEW p \in Providers
             PROVE  Agreeing(p) <= Cardinality(Supporting(p, result.value))
  BY DEF SourcesSupportValue
<1>1. TypeOK /\ Blocks /\ unread = {}
  BY DEF Inductive, Phases
<1> DEFINE mine == {n \in 1 .. Len(all) :
                      all[n].provider = p /\ <<result.value, all[n].value>> \in Similar}
<1>2. IsFiniteSet(mine) /\ Cardinality(mine) = Cardinality(Supporting(p, result.value))
  BY <1>1, SupportInAll
<1>3. Cardinality(mine) \in Nat
  BY <1>2, FS_CardinalityType
<1>4. CASE Len(all) = 0 /\ result = Fresh
  <2>1. {k \in DOMAIN result.sources : result.sources[k] = p} = {}
    BY <1>4 DEF Fresh
  <2>2. Agreeing(p) = 0
    BY <2>1, FS_EmptySet DEF Agreeing
  <2> QED BY <1>2, <1>3, <2>2
<1>5. CASE Len(all) = 1 /\ result = SingleValue
  <2>1. all[1].value \in Values /\ result.value = all[1].value
    BY <1>1, <1>5, SingleType DEF SingleValue
  <2>2. all[1].value \in {w \in Values : <<result.value, w>> \in Similar}
    BY <2>1, ConsensusAssumption
  <2>3. {k \in DOMAIN result.sources : result.sources[k] = p}
          = {n \in 1 .. Len(all) : all[n].provider = p
                                   /\ all[n].value \in {w \in Values : <<result.value, w>> \in Similar}}
    BY <1>1, <1>5, <2>2, AloneInAll
  <2>4. {k \in DOMAIN result.sources : result.sources[k] = p} = mine
    BY <1>1, <2>3, Shape
  <2>5. Agreeing(p) = Cardinality(mine)
    BY <2>4 DEF Agreeing
  <2> HIDE DEF mine
  <2> QED BY <1>2, <1>3, <2>5
<1>6. ASSUME Len(all) > 1, next = Len(all) + 1, NEW c \in 1 .. Len(clusters), result = Majority(c)
      PROVE  Agreeing(p) <= Cardinality(Supporting(p, result.value))
  <2>1. result.sources = clusters[c].sources /\ result.value = clusters[c].canonical
    BY <1>6 DEF Majority
  <2>2. DOMAIN result.sources = 1 .. Size(c)
    BY <1>1, <2>1, Shape DEF Size
  <2>3. {k \in DOMAIN result.sources : result.sources[k] = p}
          = {k \in 1 .. Size(c) : clusters[c].sources[k] \in {p}}
    BY <2>1, <2>2
  <2>4. Agreeing(p) = Cardinality(Slots({c}, {p}))
    BY <1>1, <2>3, AgreeingAsSlots DEF Agreeing
  <2>5. Cardinality(Slots({c}, {p})) = Cardinality(Members({c}, {p}))
    <3>1. {c} \in SUBSET (1 .. Len(clusters)) /\ {p} \in SUBSET Providers
      OBVIOUS
    <3> QED BY <3>1 DEF Inductive, Tally
  <2>6. Members({c}, {p}) \subseteq mine
    <3>1. 1 .. next - 1 = 1 .. Len(all)
      BY <1>1, <1>6, Shape
    <3> QED BY <2>1, <3>1 DEF Members, IsHome, Matches
  <2>7. Cardinality(Members({c}, {p})) <= Cardinality(mine)
    BY <1>2, <2>6, FS_Subset
  <2> QED BY <1>2, <2>4, <2>5, <2>7
<1> QED BY <1>4, <1>5, <1>6 DEF Inductive, Answered

-------------------------------------------------------------------------------
(* The classes of similar values. *)

(* allValues holds the values found and no other. *)
LEMMA WhatOccurs ==
  ASSUME TypeOK, Blocks, unread = {}
  PROVE  /\ \A n \in 1 .. Len(all) : all[n].value \in Occurring
         /\ \A v \in Occurring : \E n \in 1 .. Len(all) : all[n].value = v
<1>1. ASSUME NEW n \in 1 .. Len(all) PROVE all[n].value \in Occurring
  <2>1. PICK p \in Providers : all[n].provider = p
    BY Shape
  <2>2. PICK o \in 0 .. Len(all) : IsBlock(p, o)
    BY DEF Blocks
  <2>3. n - o \in Positions(p)
    BY <2>1, <2>2 DEF IsBlock
  <2>4. o + (n - o) = n
    BY <2>2, Shape
  <2>5. all[n].value = found[p][n - o]
    BY <2>2, <2>3, <2>4 DEF IsBlock
  <2> QED BY <2>3, <2>5 DEF Occurring
<1>2. ASSUME NEW v \in Occurring PROVE \E n \in 1 .. Len(all) : all[n].value = v
  <2>1. PICK p \in Providers : \E i \in Positions(p) : v = found[p][i]
    BY DEF Occurring
  <2>2. PICK i \in Positions(p) : v = found[p][i]
    BY <2>1
  <2>3. PICK o \in 0 .. Len(all) : IsBlock(p, o)
    BY DEF Blocks
  <2>4. o + i \in 1 .. Len(all)
    BY <2>2, <2>3, Shape DEF IsBlock
  <2> QED BY <2>2, <2>3, <2>4 DEF IsBlock
<1> QED BY <1>1, <1>2

(* The values of a set W, counted over the providers, are those in allValues. *)
With(p, W) == {i \in Positions(p) : found[p][i] \in W}
Within(W)  == UNION {{p} \X With(p, W) : p \in Providers}

LEMMA AllThatWasFound ==
  ASSUME TypeOK, Blocks, unread = {}, NEW W
  PROVE  Cardinality(Within(W)) = Cardinality({n \in 1 .. Len(all) : all[n].value \in W})
<1> DEFINE T == {n \in 1 .. Len(all) : all[n].value \in W}
           S == UNION {{p} \X With(p, W) : p \in Providers}
           off == [p \in Providers |-> CHOOSE o \in 0 .. Len(all) : IsBlock(p, o)]
           f == [n \in T |-> <<all[n].provider, n - off[all[n].provider]>>]
<1>1. \A p \in Providers : off[p] \in 0 .. Len(all) /\ IsBlock(p, off[p])
  BY DEF Blocks
<1> HIDE DEF off
<1>2. IsFiniteSet(T) /\ Len(all) \in Nat
  BY Shape, IntervalPart
<1>3. ASSUME NEW n \in T
      PROVE  /\ all[n].provider \in Providers
             /\ n - off[all[n].provider] \in With(all[n].provider, W)
             /\ off[all[n].provider] + (n - off[all[n].provider]) = n
  <2>1. PICK p \in Providers : all[n].provider = p
    BY Shape
  <2>2. n - off[p] \in Positions(p)
    BY <1>1, <2>1 DEF IsBlock
  <2>3. off[p] + (n - off[p]) = n
    BY <1>1, <1>2
  <2>4. found[p][n - off[p]] = all[n].value
    BY <1>1, <2>2, <2>3 DEF IsBlock
  <2> QED BY <2>1, <2>2, <2>3, <2>4 DEF With
<1>4. \A n \in T : f[n] \in S
  BY <1>3
<1>5. ASSUME NEW m \in T, NEW n \in T, f[m] = f[n] PROVE m = n
  <2>1. all[m].provider = all[n].provider
    BY <1>5
  <2>2. m - off[all[m].provider] = n - off[all[n].provider]
    BY <1>5
  <2> QED BY <1>3, <2>1, <2>2
<1>6. ASSUME NEW y \in S PROVE \E n \in T : f[n] = y
  <2>1. PICK p \in Providers : y \in {p} \X With(p, W)
    OBVIOUS
  <2>2. PICK i \in With(p, W) : y = <<p, i>>
    BY <2>1
  <2>3. i \in Positions(p) /\ found[p][i] \in W
    BY DEF With
  <2>4. i \in Nat /\ off[p] \in Nat
    BY <1>1, <1>2, <2>3, Shape
  <2>5. off[p] + i \in 1 .. Len(all) /\ (off[p] + i) - off[p] = i
    <3>1. off[p] + Len(found[p]) <= Len(all) /\ i \in 1 .. Len(found[p]) /\ Len(found[p]) \in Nat
      BY <1>1, <2>3, Shape DEF IsBlock
    <3>2. \A m, l, n \in Nat : m + l <= n =>
            \A k \in 1 .. l : m + k \in 1 .. n /\ (m + k) - m = k
      OBVIOUS
    <3> QED BY <1>2, <2>4, <3>1, <3>2
  <2>6. all[off[p] + i].provider = p /\ all[off[p] + i].value = found[p][i]
    BY <1>1, <2>3, <2>5 DEF IsBlock
  <2> QED BY <2>2, <2>3, <2>5, <2>6
<1>7. f \in [T -> S]
  BY <1>4
<1> HIDE DEF f, T, S
<1>8. Cardinality(S) = Cardinality(T)
  BY <1>2, <1>5, <1>6, <1>7, PairedOff
<1> QED BY <1>8 DEF Within, S, T

(* The class of a value, counted over the providers, is its class in allValues. *)
LEMMA ClassInAll ==
  ASSUME TypeOK, Blocks, unread = {}, NEW v
  PROVE  ClassSize(v) = Cardinality({n \in 1 .. Len(all) : <<v, all[n].value>> \in Similar})
<1> DEFINE W == {w \in Values : <<v, w>> \in Similar}
<1>1. Cardinality(Within(W)) = Cardinality({n \in 1 .. Len(all) : all[n].value \in W})
  BY AllThatWasFound
<1>2. \A n \in 1 .. Len(all) : all[n].value \in W <=> <<v, all[n].value>> \in Similar
  BY Shape
<1>3. \A p \in Providers : With(p, W) = Supporting(p, v)
  BY Shape DEF With, Supporting
<1>4. Within(W) = UNION {{p} \X Supporting(p, v) : p \in Providers}
  BY <1>3 DEF Within
<1>5. {n \in 1 .. Len(all) : all[n].value \in W} = {n \in 1 .. Len(all) : <<v, all[n].value>> \in Similar}
  BY <1>2
<1> QED BY <1>1, <1>4, <1>5 DEF ClassSize

(* Where similarity is transitive, a cluster holds the class of its         *)
(* canonical value, which is that of every value in it.                     *)
LEMMA ClusterIsClass ==
  ASSUME Inductive, Transitive, unread = {}, next = Len(all) + 1,
         NEW d \in 1 .. Len(clusters)
  PROVE  /\ clusters[d].canonical \in Occurring
         /\ Size(d) = ClassSize(clusters[d].canonical)
         /\ \A n \in 1 .. Len(all) : IsHome(d, n) => ClassSize(all[n].value) = Size(d)
<1> DEFINE u == clusters[d].canonical
           T(v) == {n \in 1 .. Len(all) : <<v, all[n].value>> \in Similar}
<1>1. TypeOK /\ Blocks /\ Len(all) \in Nat /\ 1 .. next - 1 = 1 .. Len(all)
  BY Shape DEF Inductive
<1>2. \A e \in 1 .. Len(clusters) : clusters[e].canonical \in Occurring
  BY <1>1, WhatOccurs DEF Inductive, Founded
<1>3. /\ \A n \in 1 .. Len(all) : all[n].value \in Occurring /\ all[n].value \in Values
      /\ \A e \in 1 .. Len(clusters) : clusters[e].canonical \in Values
  BY <1>1, WhatOccurs, Shape
<1>4. ASSUME NEW n \in 1 .. Len(all) PROVE IsHome(d, n) <=> n \in T(u)
  <2>1. PICK e \in 1 .. Len(clusters) : IsHome(e, n)
    BY <1>1 DEF Inductive, Homes
  <2>2. ASSUME n \in T(u) PROVE d = e
    <3>1. <<all[n].value, clusters[e].canonical>> \in Similar
      BY <1>3, <2>1, ConsensusAssumption DEF IsHome, Matches
    <3>2. <<u, clusters[e].canonical>> \in Similar
      BY <1>2, <1>3, <2>2, <3>1 DEF Transitive
    <3> QED BY <3>2 DEF Inductive, CanonicalsApart
  <2> QED BY <2>1, <2>2 DEF IsHome, Matches
<1>5. Members({d}, Providers) = T(u)
  BY <1>1, <1>4, Shape DEF Members
<1>6. Size(d) = Cardinality(Members({d}, Providers))
  <2>1. Size(d) \in Nat /\ {k \in 1 .. Size(d) : clusters[d].sources[k] \in Providers} = 1 .. Size(d)
    BY <1>1, Shape
  <2>2. Cardinality(1 .. Size(d)) = Size(d)
    BY <2>1, IntervalPart
  <2>3. Cardinality(1 .. Size(d)) = Cardinality(Slots({d}, Providers))
    BY <1>1, <2>1, AgreeingAsSlots
  <2>4. {d} \in SUBSET (1 .. Len(clusters)) /\ Providers \in SUBSET Providers
    OBVIOUS
  <2> QED BY <2>2, <2>3, <2>4 DEF Inductive, Tally
<1>7. \A v : ClassSize(v) = Cardinality(T(v))
  BY <1>1, ClassInAll
<1>8. ASSUME NEW n \in 1 .. Len(all), IsHome(d, n) PROVE T(all[n].value) = T(u)
  <2>1. <<u, all[n].value>> \in Similar /\ <<all[n].value, u>> \in Similar
    BY <1>3, <1>8, ConsensusAssumption DEF IsHome, Matches
  <2> QED BY <1>2, <1>3, <2>1 DEF Transitive
<1> HIDE DEF T
<1> QED BY <1>2, <1>5, <1>6, <1>7, <1>8

LEMMA ScoreIsOfLargest == Inductive => ScoreIsLargestClass
<1> SUFFICES ASSUME Inductive, pc = "done", Len(all) > 1, Transitive
             PROVE  /\ \E v \in Occurring : ClassSize(v) = result.agree
                    /\ \A v \in Occurring : ClassSize(v) <= result.agree
                    /\ result.of = Len(all)
  BY DEF ScoreIsLargestClass
<1>1. TypeOK /\ Blocks /\ unread = {} /\ Len(all) \in Nat
  BY Shape DEF Inductive, Phases
<1>2. PICK c \in 1 .. Len(clusters) :
        next = Len(all) + 1 /\ IsBest(c) /\ result = Majority(c)
  <2>1. Len(all) # 0 /\ Len(all) # 1
    <3>1. Len(all) \in Nat
      BY <1>1
    <3>2. \A m \in Nat : m > 1 => m # 0 /\ m # 1
      OBVIOUS
    <3> QED BY <3>1, <3>2
  <2>2. Answered
    BY DEF Inductive
  <2>3. next = Len(all) + 1 /\ \E c \in 1 .. Len(clusters) : IsBest(c) /\ result = Majority(c)
    BY <2>1, <2>2 DEF Answered
  <2> QED BY <2>3
<1>3. result.agree = Size(c) /\ result.of = Len(all)
  BY <1>2 DEF Majority
<1>4. ASSUME NEW v \in Occurring PROVE ClassSize(v) <= Size(c)
  <2>1. PICK n \in 1 .. Len(all) : all[n].value = v
    BY <1>1, WhatOccurs
  <2>2. n \in 1 .. next - 1
    BY <1>1, <1>2
  <2>3. PICK d \in 1 .. Len(clusters) : IsHome(d, n)
    BY <2>2 DEF Inductive, Homes
  <2>4. ClassSize(v) = Size(d)
    BY <1>1, <1>2, <2>1, <2>3, ClusterIsClass
  <2> QED BY <1>2, <2>4 DEF IsBest
<1>5. clusters[c].canonical \in Occurring /\ ClassSize(clusters[c].canonical) = Size(c)
  BY <1>1, <1>2, ClusterIsClass
<1> QED BY <1>3, <1>4, <1>5

-------------------------------------------------------------------------------
(* The vote. *)

LEMMA Thresholds == ThresholdPct \in Nat /\ ThresholdPct > 0
BY ConsensusAssumption DEF ThresholdPct

LEMMA PositiveShare ==
  \A n \in Nat, t \in Nat : n > 1 /\ t > 0 => ~(100 * 0 >= t * n)
<1> SUFFICES ASSUME NEW n \in Nat, NEW t \in Nat, n > 1, t > 0 PROVE t * n > 0
  BY SMT
<1> QED BY SMT

LEMMA MoreIsEnough ==
  \A m, n, l \in Nat : m <= n /\ 100 * m >= l => 100 * n >= l
OBVIOUS

(* What Vote counts are the values found, and those that are v.             *)
LEMMA VoteCounts ==
  ASSUME TypeOK, Blocks, unread = {}
  PROVE  /\ Cardinality(Ballot!Found(Results, "field")) = Len(all)
         /\ \A v \in Values :
              /\ Ballot!Support(Results, "field", v) = Within({v})
              /\ Within({v}) # {} <=> v \in Occurring
<1>1. ASSUME NEW p \in Providers, NEW k \in Positions(p)
      PROVE  Results[p][k]["field"] = found[p][k] /\ found[p][k] \in Values
  BY Shape DEF Results
<1>2. \A p \in Providers : DOMAIN Results[p] = Positions(p)
  BY DEF Results
<1>3. NoValue \notin Values /\ Ballot!NoValue = NoValue
  BY ConsensusAssumption DEF Ballot!NoValue, NoValue
<1>4. \A x \in Within(Values) : x = <<x[1], x[2]>> /\ x[1] \in Providers /\ x[2] \in Positions(x[1])
  BY DEF Within, With
<1>5. Within(Values) = UNION {{p} \X DOMAIN Results[p] : p \in Providers}
  <2>1. \A p \in Providers : With(p, Values) = DOMAIN Results[p]
    BY <1>1, <1>2 DEF With
  <2> QED BY <2>1 DEF Within
<1>6. Ballot!Found(Results, "field") = Within(Values)
  <2>1. \A x \in Within(Values) : Results[x[1]][x[2]]["field"] # Ballot!NoValue
    BY <1>1, <1>3, <1>4
  <2> QED BY <1>5, <2>1 DEF Ballot!Found
<1>7. Cardinality(Within(Values)) = Len(all)
  <2>1. Len(all) \in Nat /\ {n \in 1 .. Len(all) : all[n].value \in Values} = 1 .. Len(all)
    BY Shape
  <2>2. Cardinality(1 .. Len(all)) = Len(all)
    BY <2>1, IntervalPart
  <2> QED BY <2>1, <2>2, AllThatWasFound
<1>8. ASSUME NEW v \in Values PROVE Ballot!Support(Results, "field", v) = Within({v})
  <2>1. Ballot!Support(Results, "field", v)
          = {x \in Within(Values) : Results[x[1]][x[2]]["field"] = v}
    BY <1>6 DEF Ballot!Support
  <2>2. \A x \in Within(Values) : Results[x[1]][x[2]]["field"] = found[x[1]][x[2]]
    BY <1>1, <1>4
  <2>3. \A x : x \in Within({v}) <=> x \in Within(Values) /\ found[x[1]][x[2]] = v
    BY DEF Within, With
  <2> QED BY <2>1, <2>2, <2>3
<1>9. ASSUME NEW v \in Values PROVE Within({v}) # {} <=> v \in Occurring
  <2>1. ASSUME Within({v}) # {} PROVE v \in Occurring
    <3>1. PICK p \in Providers : With(p, {v}) # {}
      BY <2>1 DEF Within
    <3>2. PICK k \in Positions(p) : found[p][k] = v
      BY <3>1 DEF With
    <3> QED BY <3>2 DEF Occurring
  <2>2. ASSUME v \in Occurring PROVE Within({v}) # {}
    <3>1. PICK p \in Providers : \E k \in Positions(p) : v = found[p][k]
      BY <2>2 DEF Occurring
    <3>2. PICK k \in With(p, {v}) : TRUE
      BY <3>1 DEF With
    <3>3. <<p, k>> \in Within({v})
      BY DEF Within
    <3> QED BY <3>3
  <2> QED BY <2>1, <2>2
<1> QED BY <1>6, <1>7, <1>8, <1>9

LEMMA VerdictsAgree == Inductive => VerdictIsVote
<1> SUFFICES ASSUME Inductive, pc = "done", Exact
             PROVE  Ballot!Agree(Results, "field") =
                      IF passed THEN "passed"
                      ELSE IF result.conflicts # {} THEN "split" ELSE "poor"
  BY DEF VerdictIsVote
<1>1. TypeOK /\ Blocks /\ unread = {} /\ Len(all) \in Nat /\ Answered
  BY Shape DEF Inductive, Phases
<1>2. Occurring \subseteq Values
  BY <1>1, Shape DEF Occurring
<1>0. \A m \in Nat : (m = 0 \/ m = 1 \/ m > 1) /\ (m > 1 => m # 0 /\ m # 1)
  OBVIOUS
<1> DEFINE Differ == \E v, w \in Occurring : v # w
           Best   == \E v \in Values : 100 * Cardinality(Within({v})) >= ThresholdPct * Len(all)
<1>3. /\ Ballot!Passes(Results, "field")
           <=> (Len(all) = 1 /\ 50 >= ThresholdPct) \/ (Len(all) > 1 /\ Best)
      /\ Ballot!Agree(Results, "field") = IF Ballot!Passes(Results, "field") THEN "passed"
                                          ELSE IF Differ THEN "split" ELSE "poor"
  <2>1. /\ Cardinality(Ballot!Found(Results, "field")) = Len(all)
        /\ \A v \in Values : Ballot!Support(Results, "field", v) = Within({v})
        /\ \A v \in Values : Within({v}) # {} <=> v \in Occurring
    BY <1>1, VoteCounts
  <2>0. \A S : Ballot!Cardinality(S) = Cardinality(S)
    BY DEF Ballot!Cardinality, Cardinality
  <2>2. Ballot!Passes(Results, "field")
           <=> (Len(all) = 1 /\ 50 >= ThresholdPct) \/ (Len(all) > 1 /\ Best)
    BY <2>0, <2>1 DEF Ballot!Passes, Best
  <2>3. Differ <=> \E v, w \in Values : /\ v # w
                                        /\ Ballot!Support(Results, "field", v) # {}
                                        /\ Ballot!Support(Results, "field", w) # {}
    BY <1>2, <2>1
  <2> QED BY <2>2, <2>3 DEF Ballot!Agree
<1> HIDE DEF Best, Differ
<1> SUFFICES /\ passed <=> Ballot!Passes(Results, "field")
             /\ result.conflicts # {} <=> Differ
  BY <1>1, <1>3 DEF TypeOK
<1>4. CASE Len(all) = 0
  <2>1. result = Fresh /\ ~passed
    BY <1>1, <1>4 DEF Answered
  <2>2. ~Differ
    BY <1>1, <1>4, WhatOccurs DEF Differ
  <2> QED BY <1>3, <1>4, <2>1, <2>2 DEF Fresh
<1>5. CASE Len(all) = 1
  <2>1. result = SingleValue /\ passed = (50 >= ThresholdPct)
    BY <1>1, <1>5 DEF Answered
  <2>2. \A m, n \in 1 .. Len(all) : m = n
    BY <1>5
  <2>3. ~Differ
    BY <1>1, <2>2, WhatOccurs DEF Differ
  <2>4. result.conflicts = {}
    BY <2>1 DEF SingleValue
  <2>5. Ballot!Passes(Results, "field") <=> 50 >= ThresholdPct
    BY <1>3, <1>5
  <2>6. passed <=> 50 >= ThresholdPct
    BY <2>1
  <2>7. passed <=> Ballot!Passes(Results, "field")
    BY <2>5, <2>6
  <2> QED BY <2>3, <2>4, <2>7
<1>6. CASE Len(all) > 1
  <2>1. PICK c \in 1 .. Len(clusters) :
          /\ next = Len(all) + 1 /\ IsBest(c) /\ result = Majority(c)
          /\ passed = (100 * Size(c) >= ThresholdPct * Len(all))
    <3>1. Len(all) # 0 /\ Len(all) # 1
      BY <1>0, <1>1, <1>6
    <3> QED BY <1>1, <3>1 DEF Answered
  <2>2. \A v \in Values : <<v, v>> \in Similar
    BY ConsensusAssumption
  <2>3. Transitive
    BY DEF Exact, Transitive
  <2>4. ASSUME NEW v \in Occurring PROVE Cardinality(Within({v})) = ClassSize(v)
    <3>1. \A p \in Providers : With(p, {v}) = Supporting(p, v)
      BY <1>2, <2>2 DEF With, Supporting, Occurring, Exact
    <3> QED BY <3>1 DEF Within, ClassSize
  <2>5. /\ \A v \in Occurring : ClassSize(v) <= result.agree
        /\ result.agree = Size(c)
    BY <1>6, <2>1, <2>3, ScoreIsOfLargest DEF ScoreIsLargestClass, Majority
  <2>6. \A d \in 1 .. Len(clusters) :
          /\ clusters[d].canonical \in Occurring /\ Size(d) \in Nat
          /\ Size(d) = ClassSize(clusters[d].canonical)
    BY <1>1, <2>1, <2>3, ClusterIsClass, Shape
  <2>7. ASSUME NEW v \in Occurring
        PROVE  \E d \in 1 .. Len(clusters) : clusters[d].canonical = v
    <3>1. PICK n \in 1 .. Len(all) : all[n].value = v
      BY <1>1, WhatOccurs
    <3>2. n \in 1 .. next - 1
      BY <1>1, <2>1
    <3>3. PICK d \in 1 .. Len(clusters) : IsHome(d, n)
      BY <3>2 DEF Inductive, Homes
    <3> QED BY <2>6, <3>1, <3>3 DEF IsHome, Matches, Exact
  <2>8. Best <=> passed
    <3>1. ASSUME passed PROVE Best
      BY <1>2, <2>1, <2>4, <2>6, <3>1 DEF Best
    <3>2. ASSUME Best PROVE passed
      <4>1. PICK v \in Values : 100 * Cardinality(Within({v})) >= ThresholdPct * Len(all)
        BY <3>2 DEF Best
      <4>2. v \in Occurring
        <5>1. SUFFICES ASSUME Within({v}) = {} PROVE FALSE
          BY <1>1, VoteCounts
        <5>2. Cardinality(Within({v})) = 0
          BY <5>1, FS_EmptySet
        <5> QED BY <1>1, <1>6, <4>1, <5>2, Thresholds, PositiveShare
      <4>3. PICK d \in 1 .. Len(clusters) : clusters[d].canonical = v
        BY <4>2, <2>7
      <4>4. Size(d) = Cardinality(Within({v})) /\ Size(d) <= Size(c)
        BY <2>1, <2>4, <2>6, <4>2, <4>3 DEF IsBest
      <4>5. 100 * Size(d) >= ThresholdPct * Len(all)
        BY <4>1, <4>4
      <4>6. Size(c) \in Nat /\ Size(d) \in Nat
        BY <2>6
      <4>7. PICK l : l = ThresholdPct * Len(all)
        OBVIOUS
      <4>8. l \in Nat
        BY <1>1, <4>7, Thresholds
      <4>9. 100 * Size(c) >= l
        BY <4>4, <4>5, <4>6, <4>7, <4>8, MoreIsEnough
      <4> QED BY <2>1, <4>7, <4>9
    <3> QED BY <3>1, <3>2
  <2>9. ASSUME NEW d \in 1 .. Len(clusters) PROVE Size(d) >= 1
    <3>1. PICK n \in 1 .. Len(all) : all[n].value = clusters[d].canonical
      BY <1>1, <2>6, WhatOccurs
    <3>2. n \in {m \in 1 .. Len(all) : <<clusters[d].canonical, all[m].value>> \in Similar}
      BY <1>2, <2>2, <2>6, <3>1
    <3>3. IsFiniteSet({m \in 1 .. Len(all) : <<clusters[d].canonical, all[m].value>> \in Similar})
      BY <1>1, IntervalPart
    <3>4. Size(d) = Cardinality({m \in 1 .. Len(all) : <<clusters[d].canonical, all[m].value>> \in Similar})
      BY <1>1, <2>6, ClassInAll
    <3>5. Size(d) # 0
      BY <3>2, <3>3, <3>4, FS_EmptySet
    <3> QED BY <2>6, <3>5
  <2>10. result.conflicts # {} <=> \E d \in 1 .. Len(clusters) : d # c
    <3>1. result.conflicts = ConflictsWith(c)
      BY <2>1 DEF Majority
    <3>2. ASSUME NEW d \in 1 .. Len(clusters), d # c PROVE ConflictOf(d, 1) \in ConflictsWith(c)
      <4>1. 1 \in 1 .. Size(d)
        BY <2>6, <2>9
      <4> QED BY <3>2, <4>1 DEF ConflictsWith
    <3>3. ConflictsWith(c) # {} => \E d \in 1 .. Len(clusters) : d # c
      BY DEF ConflictsWith
    <3> QED BY <3>1, <3>2, <3>3
  <2>11. Differ <=> \E d \in 1 .. Len(clusters) : d # c
    <3>1. ASSUME NEW d \in 1 .. Len(clusters), d # c PROVE Differ
      <4>1. clusters[d].canonical # clusters[c].canonical
        BY <1>2, <2>2, <2>6, <3>1 DEF Inductive, CanonicalsApart
      <4> QED BY <2>6, <4>1 DEF Differ
    <3>2. ASSUME NEW v \in Occurring, NEW w \in Occurring, v # w
          PROVE  \E d \in 1 .. Len(clusters) : d # c
      BY <2>7, <3>2
    <3> QED BY <3>1, <3>2 DEF Differ
  <2>12. Ballot!Passes(Results, "field") <=> Best
    BY <1>0, <1>1, <1>3, <1>6
  <2>13. passed <=> Ballot!Passes(Results, "field")
    BY <2>8, <2>12
  <2> QED BY <2>10, <2>11, <2>13
<1> QED BY <1>0, <1>1, <1>4, <1>5, <1>6

-------------------------------------------------------------------------------
(* The theorems. *)

(* Every step of Consensus keeps its inductive invariant: allValues is a    *)
(* shuffle of what the providers found, every value grouped has one home,   *)
(* and clusters name providers exactly as often as these found members.     *)
THEOREM ConsensusInvariant == Spec => []Inductive
<1>1. Inductive /\ [Next]_vars => Inductive'
  <2> SUFFICES ASSUME Inductive, [Next]_vars PROVE Inductive'
    OBVIOUS
  <2>1. CASE \E p \in Providers : Collect(p)
    BY <2>1, CollectStep
  <2>2. CASE NothingFound \/ OneValue \/ StartGrouping \/ Conclude
    BY <2>2, ReturnStep
  <2>3. CASE JoinCluster
    BY <2>3, JoinStep
  <2>4. CASE OpenCluster
    BY <2>4, OpenStep
  <2>5. CASE UNCHANGED vars
    <3>1. TypeOK' /\ Phases'
      BY <2>5 DEF Inductive, TypeOK, Phases, vars
    <3>2. \A c : (IsBest(c)' <=> IsBest(c)) /\ Size(c)' = Size(c)
      BY <2>5 DEF IsBest, Size, vars
    <3>3. \A c : Majority(c)' = Majority(c)
      BY <2>5 DEF Majority, Size, ConflictsWith, ConflictOf, vars
    <3>4. SingleValue' = SingleValue
      BY <2>5 DEF SingleValue, vars
    <3>5. Answered
      BY DEF Inductive
    <3>6. Answered'
      BY <2>5, <3>2, <3>3, <3>4, <3>5 DEF Answered, vars
    <3> QED BY <2>5, <3>1, <3>6, KeepsClusters DEF vars
  <2> QED BY <2>1, <2>2, <2>3, <2>4, <2>5 DEF Next, Over
<1> QED BY <1>1, InitIsInductive, PTL DEF Spec

(* However the map is ordered and whatever was found, ConsensusEngine.Validate *)
(* never reports as a conflict a value similar to the one it returns.       *)
THEOREM ClustersStayApart == Spec => []CanonicalsApart
BY ConsensusInvariant, PTL DEF Inductive

(* However the map is ordered, each value found appears once in the answer  *)
(* of ConsensusEngine.Validate: as a source or as a conflict.               *)
THEOREM NoEvidenceIsLost == Spec => []EvidenceAccounted
BY ConsensusInvariant, EvidenceIsAccounted, PTL

(* ConsensusEngine.Validate names a provider as a source no more often than *)
(* the provider found a value similar to the one returned.                  *)
THEOREM SourcesAreSupport == Spec => []SourcesSupportValue
BY ConsensusInvariant, SourcesDoSupport, PTL

(* Where similarity is transitive on what was found, the score that         *)
(* ConsensusEngine.Validate returns is that of the largest class of similar *)
(* values, whatever the order of the map.                                   *)
THEOREM OrderDoesNotMatter == Spec => []ScoreIsLargestClass
BY ConsensusInvariant, ScoreIsOfLargest, PTL

(* Where no two values found that differ are similar, the verdict that      *)
(* ConsensusEngine.Validate returns is the vote ResearchItem counts, in     *)
(* whatever order the map is visited: so the two modules speak of one       *)
(* verdict, and Vote is what this one implements.                           *)
THEOREM VerdictIsTheVote == Spec => []VerdictIsVote
BY ConsensusInvariant, VerdictsAgree, PTL
===============================================================================
