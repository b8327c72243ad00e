------------------------------ MODULE Consensus ------------------------------
(***************************************************************************)
(* ConsensusEngine.Validate (internal/engine/consensus.go) for one field of *)
(* one item: the values the providers found are collected in the order of a *)
(* Go map, grouped with the first cluster whose canonical value is similar, *)
(* and the largest cluster becomes the verdict.  Iteration over a map       *)
(* starts anywhere: the providers are visited in any order.                 *)
(*                                                                         *)
(* Similar stands for fuzzy.Similarity(v, w) >= 0.8, which is reflexive and *)
(* symmetric but not transitive.  URLs are left out.                        *)
(***************************************************************************)
EXTENDS Integers, Sequences, FiniteSets

CONSTANTS
  Providers,    \* the providers of the item's results
  Values,       \* the non-empty values a result may carry for the field
  Similar,      \* the pairs of values fuzzy.Similarity puts at 0.8 or above
  MaxFound,     \* bound on the values one provider has found
  Threshold     \* the threshold NewConsensusEngine is given, in percent

NoValue == "no value"

ASSUME ConsensusAssumption ==
  /\ IsFiniteSet(Providers)
  /\ NoValue \notin Values
  /\ Similar \subseteq Values \X Values
  /\ \A v \in Values : <<v, v>> \in Similar
  /\ \A v, w \in Values : <<v, w>> \in Similar => <<w, v>> \in Similar
  /\ MaxFound \in Nat
  /\ Threshold \in Int

VARIABLES
  found,     \* item.Results: each provider's values for the field, in order
  unread,    \* the providers the range over item.Results has still to visit
  all,       \* allValues
  clusters,  \* clusters
  next,      \* the index in allValues the grouping loop is at
  result,    \* the ConsensusField returned
  passed,    \* the verdict returned with it
  pc

vars == <<found, unread, all, clusters, next, result, passed, pc>>

(* NewConsensusEngine replaces a threshold that is not positive. *)
ThresholdPct == IF Threshold <= 0 THEN 70 ELSE Threshold

Entry    == [value : Values, provider : Providers]
Cluster  == [canonical : Values, sources : Seq(Providers)]
Conflict == [at : Nat \X Nat, value : Values, provider : Providers]
Field    == [value : Values \cup {NoValue}, agree : Nat, of : Nat,
             sources : Seq(Providers), conflicts : SUBSET Conflict]

(* A score is a fraction: agreeing values over all values.                  *)
Fresh == [value |-> NoValue, agree |-> 0, of |-> 1, sources |-> <<>>, conflicts |-> {}]

Init ==
  /\ found \in [Providers -> UNION {[1 .. n -> Values] : n \in 0 .. MaxFound}]
  /\ unread = Providers
  /\ all = <<>> /\ clusters = <<>> /\ next = 1
  /\ result = Fresh /\ passed = FALSE
  /\ pc = "collecting"

(* One turn of the outer loop: what provider p has found. *)
Collect(p) ==
  /\ pc = "collecting"
  /\ p \in unread
  /\ unread' = unread \ {p}
  /\ all' = all \o [i \in 1 .. Len(found[p]) |-> [value |-> found[p][i], provider |-> p]]
  /\ UNCHANGED <<found, clusters, next, result, passed, pc>>

Collected == pc = "collecting" /\ unread = {}

NothingFound ==
  /\ Collected /\ Len(all) = 0
  /\ result' = Fresh /\ passed' = FALSE
  /\ pc' = "done"
  /\ UNCHANGED <<found, unread, all, clusters, next>>

(* "single source, moderate confidence" *)
SingleValue == [value |-> all[1].value, agree |-> 1, of |-> 2,
                sources |-> <<all[1].provider>>, conflicts |-> {}]
TrustOneSource ==
  /\ Collected /\ Len(all) = 1
  /\ result' = SingleValue /\ passed' = TRUE
  /\ pc' = "done"
  /\ UNCHANGED <<found, unread, all, clusters, next>>
OneValue ==
  /\ Collected /\ Len(all) = 1
  /\ result' = SingleValue
  /\ passed' = (50 >= ThresholdPct)
  /\ pc' = "done"
  /\ UNCHANGED <<found, unread, all, clusters, next>>

StartGrouping ==
  /\ Collected /\ Len(all) > 1
  /\ pc' = "grouping"
  /\ UNCHANGED <<found, unread, all, clusters, next, result, passed>>

(* The clusters whose canonical value is similar to the value at hand.      *)
Matching == {c \in 1 .. Len(clusters) : <<clusters[c].canonical, all[next].value>> \in Similar}
Newest   == Matching \cap {Len(clusters)}

(* The value joins the first of them ... *)
JoinAny ==
  /\ pc = "grouping" /\ next <= Len(all)
  /\ clusters # <<>>
  /\ clusters' = [clusters EXCEPT ![1].sources = Append(@, all[next].provider)]
  /\ next' = next + 1
  /\ UNCHANGED <<found, unread, all, result, passed, pc>>
JoinCluster ==
  /\ pc = "grouping" /\ next <= Len(all)
  /\ \E c \in Matching :
       /\ \A d \in Matching : c <= d
       /\ clusters' = [clusters EXCEPT ![c].sources = Append(@, all[next].provider)]
  /\ next' = next + 1
  /\ UNCHANGED <<found, unread, all, result, passed, pc>>

(* ... or opens a cluster of its own. *)
OpenIfNotNewest ==
  /\ pc = "grouping" /\ next <= Len(all)
  /\ Newest = {}
  /\ clusters' = Append(clusters, [canonical |-> all[next].value,
                                   sources |-> <<all[next].provider>>])
  /\ next' = next + 1
  /\ UNCHANGED <<found, unread, all, result, passed, pc>>
OpenCluster ==
  /\ pc = "grouping" /\ next <= Len(all)
  /\ Matching = {}
  /\ clusters' = Append(clusters, [canonical |-> all[next].value,
                                   sources |-> <<all[next].provider>>])
  /\ next' = next + 1
  /\ UNCHANGED <<found, unread, all, result, passed, pc>>

(* The first of the largest clusters. *)
Size(c)    == Len(clusters[c].sources)
FirstOne(c) == c = 1
IsBest(c)  ==
  \A d \in 1 .. Len(clusters) : Size(d) <= Size(c) /\ (Size(d) = Size(c) => c <= d)

(* One conflict for every source of every other cluster.                    *)
ConflictOf(c, k) ==
  [at |-> <<c, k>>, value |-> clusters[c].canonical, provider |-> clusters[c].sources[k]]
ConflictsOfHeads(best) ==
  {ConflictOf(c, 1) : c \in (1 .. Len(clusters)) \ {best}}
ConflictsWith(best) ==
  UNION {{ConflictOf(c, k) : k \in 1 .. Size(c)} : c \in (1 .. Len(clusters)) \ {best}}

Majority(best) ==
  [value |-> clusters[best].canonical, agree |-> Size(best), of |-> Len(all),
   sources |-> clusters[best].sources, conflicts |-> ConflictsWith(best)]
Conclude ==
  /\ pc = "grouping" /\ next > Len(all)
  /\ \E c \in 1 .. Len(clusters) :
       /\ IsBest(c)
       /\ result' = Majority(c)
       /\ passed' = (100 * Size(c) >= ThresholdPct * Len(all))
  /\ pc' = "done"
  /\ UNCHANGED <<found, unread, all, clusters, next>>

Over == pc = "done" /\ UNCHANGED vars

Next ==
  \/ \E p \in Providers : Collect(p)
  \/ NothingFound \/ OneValue \/ StartGrouping
  \/ JoinCluster \/ OpenCluster \/ Conclude
  \/ Over

Spec == Init /\ [][Next]_vars

-------------------------------------------------------------------------------
(* Properties. *)

TypeOK ==
  /\ found \in [Providers -> Seq(Values)]
  /\ unread \subseteq Providers
  /\ all \in Seq(Entry)
  /\ clusters \in Seq(Cluster)
  /\ next \in 1 .. Len(all) + 1
  /\ result \in Field
  /\ passed \in BOOLEAN
  /\ pc \in {"collecting", "grouping", "done"}

(* The values of a provider that are similar to v, as positions in found.   *)
Positions(p)     == DOMAIN found[p]
Supporting(p, v) == {i \in Positions(p) : <<v, found[p][i]>> \in Similar}

Agreeing(p)    == Cardinality({k \in DOMAIN result.sources : result.sources[k] = p})
Conflicting(p) == Cardinality({x \in result.conflicts : x.provider = p})

(* No evidence is lost or counted twice: every value a provider found makes *)
(* it appear once, among the sources or among the conflicts, whatever the   *)
(* order of the map and however the values were grouped.                    *)
EvidenceAccounted ==
  pc = "done" => \A p \in Providers :
    Agreeing(p) + Conflicting(p) = Cardinality(Positions(p))

(* A provider is named as a source no more often than it found a value      *)
(* similar to the one returned, so a verdict that passes has the threshold's *)
(* share of the evidence behind the value itself.                           *)
SourcesSupportValue ==
  pc = "done" => \A p \in Providers :
    Agreeing(p) <= Cardinality(Supporting(p, result.value))

(* Two clusters never stand for similar values, so no conflict reported is  *)
(* a mere variant of the value returned, or of another conflict of another  *)
(* cluster.                                                                 *)
CanonicalsApart ==
  \A c, d \in 1 .. Len(clusters) :
    <<clusters[c].canonical, clusters[d].canonical>> \in Similar => c = d

(* Where similarity is transitive on what was found, the order of the map   *)
(* does not matter: the score is the share of the largest class of similar  *)
(* values.                                                                  *)
Occurring == UNION {{found[p][i] : i \in Positions(p)} : p \in Providers}
Transitive ==
  \A u, v, w \in Occurring :
    <<u, v>> \in Similar /\ <<v, w>> \in Similar => <<u, w>> \in Similar
ClassSize(v) == Cardinality(UNION {{p} \X Supporting(p, v) : p \in Providers})

ScoreIsLargestClass ==
  (pc = "done" /\ Len(all) > 1 /\ Transitive) =>
    /\ \E v \in Occurring : ClassSize(v) = result.agree
    /\ \A v \in Occurring : ClassSize(v) <= result.agree
    /\ result.of = Len(all)

(* Where no two values found that differ are similar, the verdict on the    *)
(* field is the one that ResearchItem counts with (Vote): it passes on the  *)
(* same evidence, and it has conflicts, which is what a retry looks for,    *)
(* when two providers or two answers disagree.                              *)
Ballot == INSTANCE Vote
Results == [p \in Providers |-> [i \in Positions(p) |-> [f \in {"field"} |-> found[p][i]]]]
Exact   == \A v, w \in Occurring : <<v, w>> \in Similar => v = w

VerdictIsVote ==
  pc = "done" /\ Exact =>
    Ballot!Agree(Results, "field") = IF passed THEN "passed"
                                     ELSE IF result.conflicts # {} THEN "split" ELSE "poor"

(* The inductive invariant behind the five properties, in named parts.      *)

(* Nothing is grouped before all is collected.                              *)
Phases ==
  /\ pc = "collecting" => clusters = <<>> /\ next = 1
  /\ pc # "collecting" => unread = {}
  /\ pc = "grouping" => Len(all) > 1

(* allValues has a block for each provider visited, with all it has found,  *)
(* and nothing else of any provider.                                        *)
IsBlock(p, o) ==
  /\ o + Len(found[p]) <= Len(all)
  /\ \A n \in 1 .. Len(all) : all[n].provider = p <=> n - o \in Positions(p)
  /\ \A k \in Positions(p) : all[o + k].value = found[p][k]
Blocks ==
  /\ \A p \in unread : \A n \in 1 .. Len(all) : all[n].provider # p
  /\ \A p \in Providers \ unread : \E o \in 0 .. Len(all) : IsBlock(p, o)

(* A value belongs to the first cluster it matches.  Clusters are opened    *)
(* behind the others and keep their canonical value, so it does so for ever. *)
Matches(c, n) == <<clusters[c].canonical, all[n].value>> \in Similar
IsHome(c, n)  == Matches(c, n) /\ \A d \in 1 .. c - 1 : ~Matches(d, n)
Homes == \A n \in 1 .. next - 1 : \E c \in 1 .. Len(clusters) : IsHome(c, n)

(* A cluster's canonical value is one of those grouped.                     *)
Founded ==
  \A c \in 1 .. Len(clusters) : \E n \in 1 .. next - 1 : clusters[c].canonical = all[n].value

(* Any clusters name any providers as often as these found what belongs to  *)
(* those: with one cluster, its size; with all but the best, the conflicts. *)
Slots(C, P)   == UNION {{c} \X {k \in 1 .. Size(c) : clusters[c].sources[k] \in P} : c \in C}
Members(C, P) == {n \in 1 .. next - 1 : all[n].provider \in P /\ \E c \in C : IsHome(c, n)}
Tally ==
  \A C \in SUBSET (1 .. Len(clusters)), P \in SUBSET Providers :
    Cardinality(Slots(C, P)) = Cardinality(Members(C, P))

(* What was returned.                                                       *)
Answered ==
  pc = "done" =>
    \/ Len(all) = 0 /\ result = Fresh /\ ~passed
    \/ Len(all) = 1 /\ result = SingleValue /\ passed = (50 >= ThresholdPct)
    \/ /\ Len(all) > 1 /\ next = Len(all) + 1
       /\ \E c \in 1 .. Len(clusters) :
            /\ IsBest(c) /\ result = Majority(c)
            /\ passed = (100 * Size(c) >= ThresholdPct * Len(all))

Inductive ==
  TypeOK /\ Phases /\ Blocks /\ Homes /\ Founded /\ Tally /\ CanonicalsApart /\ Answered
===============================================================================
