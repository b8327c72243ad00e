--------------------------- MODULE ExtractionProofs ---------------------------
(***************************************************************************)
(* Theorems about Extraction, for every set of providers, patterns and      *)
(* texts and every list of fields.                                          *)
(***************************************************************************)
EXTENDS Extraction, WellFoundedInduction, TLAPS

LEMMA FieldIsListed ==
  /\ \A n \in DOMAIN ValidateFields : ValidateFields[n] \in Fields
  /\ DOMAIN ValidateFields = 1 .. Len(ValidateFields) /\ Len(ValidateFields) \in Nat
BY ExtractionAssumption DEF Fields

(* What an expression finds is a value, never "no match".                   *)
LEMMA ExtractedType ==
  ASSUME NEW f \in Fields, NEW t \in Texts
  PROVE  Extracted(f, t) \subseteq Values /\ None \notin Extracted(f, t)
<1>1. /\ t.pattern \in [Patterns -> Values \cup {None}]
      /\ t.label[f] \in [1 .. Forms -> Values \cup {None}]
      /\ t.near[f] \in Values \cup {None}
  BY ExtractionAssumption
<1>2. NameOf[f] \in Patterns \cup {None} /\ Contains[f] \subseteq Patterns
  BY ExtractionAssumption
<1>3. ByPattern(f, t) \subseteq Values /\ None \notin ByPattern(f, t)
  BY <1>1, <1>2 DEF ByPattern, Matches
<1>4. ByLabel(f, t) \subseteq Values /\ None \notin ByLabel(f, t)
  BY <1>1 DEF ByLabel
<1>5. ByProximity(f, t) \subseteq Values /\ None \notin ByProximity(f, t)
  BY <1>1 DEF ByProximity
<1> QED BY <1>3, <1>4, <1>5 DEF Extracted

(* Search hands over its results with no field filled.                      *)
LEMMA BlankType ==
  ASSUME NEW texts \in Seq(Texts)
  PROVE  /\ Blank(texts) \in Seq(SearchResult)
         /\ \A i \in DOMAIN Blank(texts) : Sound(Blank(texts)[i])
<1>1. \A i \in 1 .. Len(texts) : texts[i] \in Texts
  OBVIOUS
<1>2. \A i \in 1 .. Len(texts) : Blank(texts)[i] \in SearchResult
  BY <1>1 DEF Blank, SearchResult
<1>3. Blank(texts) \in [1 .. Len(texts) -> SearchResult]
  BY <1>2 DEF Blank
<1>4. \A i \in 1 .. Len(texts) : Sound(Blank(texts)[i])
  BY DEF Blank, Sound
<1> QED BY <1>3, <1>4, Len(texts) \in Nat DEF Blank

LEMMA BodyType == Bodies \subseteq Seq(Texts)
BY ExtractionAssumption DEF Bodies

(* Filling one field of one result with a value extraction gives its text.  *)
LEMMA FillOne ==
  ASSUME NEW rs \in Seq(SearchResult), NEW i \in DOMAIN rs, NEW f \in Fields,
         NEW v \in Extracted(f, rs[i].text), \A j \in DOMAIN rs : Sound(rs[j])
  PROVE  LET new == [rs EXCEPT ![i].fields[f] = v]
         IN /\ new \in Seq(SearchResult) /\ DOMAIN new = DOMAIN rs /\ Len(new) = Len(rs)
            /\ \A j \in DOMAIN rs : j # i => new[j] = rs[j]
            /\ Sound(new[i]) /\ Filled(new[i], f)
            /\ \A g \in Fields : Filled(rs[i], g) => Filled(new[i], g)
<1> DEFINE new == [rs EXCEPT ![i].fields[f] = v]
           r   == [rs[i] EXCEPT !.fields[f] = v]
<1>1. rs[i] \in SearchResult /\ rs[i].text \in Texts
  <2>1. rs[i] \in SearchResult
    OBVIOUS
  <2> QED BY <2>1 DEF SearchResult
<1>2. v \in Values /\ v # None
  BY <1>1, ExtractedType
<1>3. r.text = rs[i].text /\ r.fields = [rs[i].fields EXCEPT ![f] = v]
  BY <1>1 DEF SearchResult
<1>4. rs[i].fields \in [Fields -> Values \cup {None}]
  BY <1>1 DEF SearchResult
<1>5. r \in SearchResult
  BY <1>1, <1>2 DEF SearchResult
<1>6. new[i] = r /\ DOMAIN new = DOMAIN rs /\ \A j \in DOMAIN rs : j # i => new[j] = rs[j]
  OBVIOUS
<1>7. new \in Seq(SearchResult) /\ Len(new) = Len(rs)
  <2>1. new = [rs EXCEPT ![i] = r]
    OBVIOUS
  <2> HIDE DEF r, new
  <2> QED BY <2>1, <1>5
<1>8. Sound(r)
  <2>1. \A g \in Fields : r.fields[g] = IF g = f THEN v ELSE rs[i].fields[g]
    BY <1>3, <1>4
  <2> HIDE DEF r
  <2> QED BY <2>1, <1>3 DEF Sound
<1>9. Filled(r, f) /\ \A g \in Fields : Filled(rs[i], g) => Filled(r, g)
  <2>1. \A g \in Fields : r.fields[g] = IF g = f THEN v ELSE rs[i].fields[g]
    BY <1>3, <1>4
  <2> HIDE DEF r
  <2> QED BY <2>1, <1>2, <1>3 DEF Filled
<1> QED BY <1>6, <1>7, <1>8, <1>9

-------------------------------------------------------------------------------
(* The loop. *)

LEMMA RecordIsComplete ==
  ASSUME NEW r, \A n \in DOMAIN ValidateFields : Filled(r, ValidateFields[n])
  PROVE  Complete(r)
BY DEF Complete, Fields

(* The steps of Search leave the loop where it starts.                      *)
LEMMA SearchStep ==
  ASSUME Inductive, NEW p \in Providers,
         Respond(p) \/ RequestFails(p) \/ DecodeFails(p) \/ Decode(p)
  PROVE  Inductive'
<1> USE DEF At
<1>0. TypeOK /\ LoopInvariant(p) /\ \A q \in Providers : LoopInvariant(q)
  BY DEF Inductive
<1>1. /\ place' = place /\ next' = next /\ place[p] = 0
      /\ pc[p] \in {"started", "responded"} /\ results[p] = <<>>
      /\ pc'[p] \in {"responded", "searched"}
      /\ pc' \in [Providers -> {"skipped", "started", "responded", "searched",
                                "extracting", "recorded"}]
      /\ \A q \in Providers : q # p => pc'[q] = pc[q] /\ failed'[q] = failed[q]
                                       /\ results'[q] = results[q]
  BY <1>0 DEF Respond, RequestFails, DecodeFails, Decode, TypeOK, LoopInvariant
<1>2. body' \in [Providers -> Seq(Texts)] /\ failed' \in [Providers -> BOOLEAN]
  <2>1. CASE Respond(p)
    <3>1. PICK b \in Bodies : body' = [body EXCEPT ![p] = b]
      BY <2>1 DEF Respond
    <3>2. b \in Seq(Texts)
      BY BodyType
    <3> QED BY <1>0, <2>1, <3>1, <3>2 DEF Respond, TypeOK
  <2>2. CASE RequestFails(p) \/ DecodeFails(p) \/ Decode(p)
    <3>1. <<>> \in Seq(Texts)
      OBVIOUS
    <3>2. body \in [Providers -> Seq(Texts)] /\ failed \in [Providers -> BOOLEAN]
      BY <1>0 DEF TypeOK
    <3>3. body' = body \/ body' = [body EXCEPT ![p] = <<>>]
      BY <2>2 DEF RequestFails, DecodeFails, Decode
    <3>4. failed' = failed \/ failed' = [failed EXCEPT ![p] = TRUE]
      BY <2>2 DEF RequestFails, DecodeFails, Decode
    <3>5. body' \in [Providers -> Seq(Texts)]
      BY <3>1, <3>2, <3>3
    <3>6. failed' \in [Providers -> BOOLEAN]
      BY <3>2, <3>4
    <3> QED BY <3>5, <3>6
  <2> QED BY <2>1, <2>2
<1>3. body[p] \in Seq(Texts)
  BY <1>0 DEF TypeOK
<1>4. /\ results' \in [Providers -> Seq(SearchResult)]
      /\ \A i \in DOMAIN results'[p] : Sound(results'[p][i])
      /\ failed'[p] => results'[p] = <<>>
      /\ pc'[p] = "responded" => results'[p] = <<>> /\ ~failed'[p]
      /\ Len(results'[p]) >= 0
  <2>1. CASE Decode(p)
    <3>1. results' = [results EXCEPT ![p] = Blank(body[p])] /\ failed' = failed
          /\ pc'[p] = "searched"
      BY <1>0, <2>1 DEF Decode, TypeOK
    <3>2. Blank(body[p]) \in Seq(SearchResult) /\ Len(Blank(body[p])) >= 0
      BY <1>3, BlankType
    <3>3. results' \in [Providers -> Seq(SearchResult)] /\ results'[p] = Blank(body[p])
      BY <1>0, <3>1, <3>2 DEF TypeOK
    <3>4. \A i \in DOMAIN results'[p] : Sound(results'[p][i])
      BY <1>3, <3>3, BlankType
    <3>5. ~failed[p]
      BY <1>0, <1>1, <2>1 DEF Decode, Inductive, LoopInvariant, TypeOK
    <3> QED BY <3>1, <3>2, <3>3, <3>4, <3>5
  <2>2. CASE Respond(p) \/ RequestFails(p) \/ DecodeFails(p)
    <3>1. results' = results
      BY <2>2 DEF Respond, RequestFails, DecodeFails
    <3>2. ~failed[p]
      BY <1>0, <1>1 DEF LoopInvariant
    <3>3. pc'[p] = "responded" => failed' = failed
      BY <1>0, <2>2 DEF Respond, RequestFails, DecodeFails, TypeOK
    <3> QED BY <1>0, <1>1, <3>1, <3>2, <3>3 DEF TypeOK
  <2> QED BY <2>1, <2>2
<1>5. TypeOK'
  BY <1>0, <1>1, <1>2, <1>4 DEF TypeOK
<1>6. LoopInvariant(p)'
  <2>1. Len(results'[p]) \in Nat
    BY <1>4
  <2> QED BY <1>1, <1>4, <2>1 DEF LoopInvariant
<1>7. ASSUME NEW q \in Providers, q # p PROVE LoopInvariant(q)'
  BY <1>0, <1>1, <1>7 DEF LoopInvariant
<1> QED BY <1>5, <1>6, <1>7 DEF Inductive

LEMMA NextResultStep ==
  ASSUME Inductive, NEW p \in Providers, NextResult(p)
  PROVE  Inductive'
<1>0. TypeOK /\ LoopInvariant(p) /\ \A q \in Providers : LoopInvariant(q)
  BY DEF Inductive
<1>1. /\ results' = results /\ failed' = failed /\ body' = body
      /\ place' = [place EXCEPT ![p] = place[p] + 1] /\ next' = [next EXCEPT ![p] = 1]
      /\ pc' = [pc EXCEPT ![p] = "extracting"] /\ place[p] < Len(results[p]) /\ Between(p)
  BY DEF NextResult
<1>2. TypeOK'
  BY <1>0, <1>1 DEF TypeOK
<1>3. /\ results[p] \in Seq(SearchResult) /\ Len(results[p]) \in Nat
      /\ DOMAIN results[p] = 1 .. Len(results[p]) /\ place[p] \in Nat
      /\ pc'[p] = "extracting" /\ place'[p] = place[p] + 1 /\ next'[p] = 1
  BY <1>0, <1>1 DEF TypeOK
<1>4. \A i \in DOMAIN results[p] : i < place'[p] => Complete(results[p][i])
  <2>1. CASE pc[p] = "searched"
    BY <1>0, <1>3, <2>1 DEF LoopInvariant
  <2>2. CASE pc[p] = "extracting" /\ FieldsDone(p)
    <3>1. \A n \in DOMAIN ValidateFields : n < next[p]
      BY <1>0, <2>2, FieldIsListed DEF FieldsDone, TypeOK
    <3>2. Complete(results[p][place[p]])
      BY <1>0, <2>2, <3>1, RecordIsComplete DEF LoopInvariant
    <3> QED BY <1>0, <1>3, <3>2 DEF LoopInvariant
  <2> QED BY <1>1, <2>1, <2>2 DEF Between
<1>5. LoopInvariant(p)'
  <2>1. failed[p] => results[p] = <<>>
    BY <1>0 DEF LoopInvariant
  <2>2. \A i \in DOMAIN results[p] : Sound(results[p][i])
    BY <1>0 DEF LoopInvariant
  <2>3. \A n \in DOMAIN ValidateFields : ~(n < next'[p])
    BY <1>3, FieldIsListed
  <2> QED BY <1>1, <1>3, <1>4, <2>1, <2>2, <2>3 DEF LoopInvariant
<1>6. ASSUME NEW q \in Providers, q # p PROVE LoopInvariant(q)'
  <2>1. /\ results'[q] = results[q] /\ failed'[q] = failed[q] /\ place'[q] = place[q]
        /\ next'[q] = next[q] /\ pc'[q] = pc[q]
    BY <1>0, <1>1, <1>6 DEF TypeOK
  <2> QED BY <1>0, <2>1 DEF LoopInvariant
<1> QED BY <1>2, <1>5, <1>6 DEF Inductive

LEMMA ExtractFieldStep ==
  ASSUME Inductive, NEW p \in Providers, ExtractField(p)
  PROVE  Inductive'
<1>0. TypeOK /\ LoopInvariant(p) /\ \A q \in Providers : LoopInvariant(q)
  BY DEF Inductive
<1> DEFINE f == ValidateFields[next[p]]
           rs == results[p]
           r == rs[place[p]]
<1>1. /\ failed' = failed /\ body' = body /\ place' = place
      /\ next' = [next EXCEPT ![p] = next[p] + 1]
      /\ pc[p] = "extracting" /\ pc' = pc
  BY <1>0 DEF ExtractField, At, TypeOK
<1>2. next[p] \in DOMAIN ValidateFields /\ f \in Fields
  BY <1>0, FieldIsListed DEF ExtractField, FieldsDone, TypeOK
<1>3. rs \in Seq(SearchResult) /\ place[p] \in DOMAIN rs /\ \A j \in DOMAIN rs : Sound(rs[j])
  <2>1. rs \in Seq(SearchResult) /\ place[p] \in Nat
    BY <1>0 DEF TypeOK
  <2>2. place[p] # 0 /\ place[p] <= Len(rs)
    BY <1>0, <1>1 DEF LoopInvariant
  <2>3. \A j \in DOMAIN rs : Sound(rs[j])
    BY <1>0 DEF LoopInvariant
  <2> QED BY <2>1, <2>2, <2>3
<1>4. \/ results' = results /\ (r.fields[f] # None \/ Extracted(f, r.text) = {})
      \/ \E v \in Extracted(f, r.text) :
           results' = [results EXCEPT ![p] = [rs EXCEPT ![place[p]].fields[f] = v]]
  <2>1. \/ (r.fields[f] # None \/ Extracted(f, r.text) = {}) /\ UNCHANGED results
        \/ \E v \in Extracted(f, r.text) :
             results' = [results EXCEPT ![p][place[p]].fields[f] = v]
    BY DEF ExtractField
  <2> QED BY <2>1
<1>5. /\ results' \in [Providers -> Seq(SearchResult)]
      /\ \A q \in Providers : q # p => results'[q] = results[q]
      /\ DOMAIN results'[p] = DOMAIN rs /\ Len(results'[p]) = Len(rs)
      /\ \A j \in DOMAIN rs : j # place[p] => results'[p][j] = rs[j]
      /\ Sound(results'[p][place[p]]) /\ Filled(results'[p][place[p]], f)
      /\ \A g \in Fields : Filled(r, g) => Filled(results'[p][place[p]], g)
  <2>1. CASE results' = results /\ (r.fields[f] # None \/ Extracted(f, r.text) = {})
    BY <1>0, <1>3, <2>1 DEF TypeOK, Filled
  <2>2. ASSUME NEW v \in Extracted(f, r.text),
               results' = [results EXCEPT ![p] = [rs EXCEPT ![place[p]].fields[f] = v]]
        PROVE  <1>5!1 /\ <1>5!2 /\ <1>5!3 /\ <1>5!4 /\ <1>5!5 /\ <1>5!6
    <3> DEFINE new == [rs EXCEPT ![place[p]].fields[f] = v]
    <3>1. /\ new \in Seq(SearchResult) /\ DOMAIN new = DOMAIN rs /\ Len(new) = Len(rs)
          /\ \A j \in DOMAIN rs : j # place[p] => new[j] = rs[j]
          /\ Sound(new[place[p]]) /\ Filled(new[place[p]], f)
          /\ \A g \in Fields : Filled(r, g) => Filled(new[place[p]], g)
      BY <1>2, <1>3, FillOne
    <3> HIDE DEF new, rs, r, f
    <3>2. results' = [results EXCEPT ![p] = new]
      BY <2>2 DEF new, rs, r, f
    <3>3. /\ results'[p] = new /\ \A q \in Providers : q # p => results'[q] = results[q]
          /\ results' \in [Providers -> Seq(SearchResult)]
      BY <1>0, <3>1, <3>2 DEF TypeOK
    <3> QED BY <3>1, <3>3
  <2> QED BY <1>4, <2>1, <2>2
<1>6. TypeOK'
  <2>1. next[p] + 1 \in Nat \ {0}
    BY <1>0 DEF TypeOK
  <2> HIDE DEF rs, r, f
  <2> QED BY <1>0, <1>1, <1>5, <2>1 DEF TypeOK
<1>7. LoopInvariant(p)'
  <2>1. \A n \in DOMAIN ValidateFields :
          n < next[p] + 1 => Filled(results'[p][place[p]], ValidateFields[n])
    <3> SUFFICES ASSUME NEW n \in DOMAIN ValidateFields, n < next[p] + 1
                 PROVE  Filled(results'[p][place[p]], ValidateFields[n])
      OBVIOUS
    <3>1. CASE n = next[p]
      BY <1>5, <3>1
    <3>2. CASE n < next[p]
      <4>1. Filled(r, ValidateFields[n])
        BY <1>0, <1>1, <3>2 DEF LoopInvariant
      <4> QED BY <1>5, <4>1, FieldIsListed
    <3> QED BY <1>0, <3>1, <3>2, FieldIsListed DEF TypeOK
  <2>2. next'[p] = next[p] + 1 /\ place'[p] = place[p] /\ pc'[p] = "extracting"
    BY <1>0, <1>1 DEF TypeOK
  <2>3. ~failed[p]
    BY <1>0, <1>3 DEF LoopInvariant
  <2>4. \A i \in DOMAIN rs : i < place[p] => Complete(results'[p][i])
    <3>1. \A i \in DOMAIN rs : i < place[p] => i # place[p] /\ Complete(rs[i])
      BY <1>0, <1>3 DEF LoopInvariant
    <3> QED BY <1>5, <3>1
  <2>5. place[p] # 0 /\ place[p] <= Len(rs)
    BY <1>0, <1>1 DEF LoopInvariant
  <2>6. \A i \in DOMAIN rs : Sound(results'[p][i])
    BY <1>3, <1>5
  <2> HIDE DEF rs, r, f
  <2> QED BY <1>1, <1>5, <2>1, <2>2, <2>3, <2>4, <2>5, <2>6 DEF LoopInvariant
<1>8. ASSUME NEW q \in Providers, q # p PROVE LoopInvariant(q)'
  <2>1. /\ results'[q] = results[q] /\ failed'[q] = failed[q] /\ place'[q] = place[q]
        /\ next'[q] = next[q] /\ pc'[q] = pc[q]
    BY <1>0, <1>1, <1>5, <1>8 DEF TypeOK
  <2> QED BY <1>0, <2>1 DEF LoopInvariant
<1> QED BY <1>6, <1>7, <1>8 DEF Inductive

LEMMA RecordStep ==
  ASSUME Inductive, NEW p \in Providers, Record(p)
  PROVE  Inductive'
<1>0. TypeOK /\ LoopInvariant(p) /\ \A q \in Providers : LoopInvariant(q)
  BY DEF Inductive
<1>1. /\ UNCHANGED <<body, results, failed, place, next>> /\ Between(p)
      /\ pc' = [pc EXCEPT ![p] = "recorded"] /\ place[p] = Len(results[p])
  BY DEF Record
<1>2. TypeOK'
  BY <1>0, <1>1 DEF TypeOK
<1>3. results[p] \in Seq(SearchResult) /\ Len(results[p]) \in Nat
  BY <1>0 DEF TypeOK
<1>4. \A i \in DOMAIN results[p] : Complete(results[p][i])
  <2>1. CASE pc[p] = "searched"
    BY <1>0, <1>1, <1>3, <2>1 DEF LoopInvariant
  <2>2. CASE pc[p] = "extracting" /\ FieldsDone(p)
    <3>1. \A n \in DOMAIN ValidateFields : n < next[p]
      BY <1>0, <2>2, FieldIsListed DEF FieldsDone, TypeOK
    <3>2. Complete(results[p][place[p]])
      BY <1>0, <2>2, <3>1, RecordIsComplete DEF LoopInvariant
    <3> QED BY <1>0, <1>1, <1>3, <3>2 DEF LoopInvariant
  <2> QED BY <1>1, <2>1, <2>2 DEF Between
<1>5. LoopInvariant(p)'
  <2>1. pc'[p] = "recorded"
    BY <1>0, <1>1 DEF TypeOK
  <2> QED BY <1>0, <1>1, <1>3, <1>4, <2>1 DEF LoopInvariant
<1>6. ASSUME NEW q \in Providers, q # p PROVE LoopInvariant(q)'
  <2>1. pc'[q] = pc[q]
    BY <1>0, <1>1, <1>6 DEF TypeOK
  <2> QED BY <1>0, <1>1, <2>1 DEF LoopInvariant
<1> QED BY <1>2, <1>5, <1>6 DEF Inductive

-------------------------------------------------------------------------------
(* The theorems. *)

LEMMA InitIsInductive == Init => Inductive
<1> SUFFICES ASSUME Init PROVE Inductive
  OBVIOUS
<1>1. <<>> \in Seq(Texts) /\ <<>> \in Seq(SearchResult) /\ Len(<<>>) = 0 /\ DOMAIN <<>> = {}
  OBVIOUS
<1>2. TypeOK
  BY <1>1 DEF Init, TypeOK
<1>3. ASSUME NEW p \in Providers PROVE LoopInvariant(p)
  <2>1. /\ results[p] = <<>> /\ ~failed[p] /\ place[p] = 0
        /\ pc[p] = "skipped" \/ pc[p] = "started"
    BY DEF Init
  <2> QED BY <1>1, <2>1 DEF LoopInvariant
<1> QED BY <1>2, <1>3 DEF Inductive

(* Whatever the services answer, an errored search holds no results, and    *)
(* the loop of ExtractFields has left behind it exactly what extraction     *)
(* finds in each result's own text.                                         *)
THEOREM ExtractionInvariant == Spec => []Inductive
<1>1. ASSUME Inductive, [Next]_vars PROVE Inductive'
  <2>1. CASE UNCHANGED vars
    BY <1>1, <2>1 DEF vars, Inductive, TypeOK, LoopInvariant
  <2> QED BY <1>1, <2>1, SearchStep, NextResultStep, ExtractFieldStep, RecordStep
          DEF Next, ProviderStep, Over
<1> QED BY InitIsInductive, <1>1, PTL DEF Spec

(* A search that failed gives Validate nothing to count.                    *)
THEOREM ErrorsHoldNoEvidence == Spec => []ErrorHasNoEvidence
<1>1. Inductive => ErrorHasNoEvidence
  <2> SUFFICES ASSUME Inductive, NEW p \in Providers, failed[p], NEW f \in Fields
               PROVE  Evidence(p, f) = {}
    BY DEF ErrorHasNoEvidence
  <2>1. results[p] = <<>>
    BY DEF Inductive, LoopInvariant
  <2> QED BY <2>1 DEF Evidence
<1> QED BY <1>1, ExtractionInvariant, PTL

(* Extraction takes its values from the best way that finds any.            *)
LEMMA ExtractedIsBest ==
  ASSUME NEW f \in Fields, NEW t \in Texts
  PROVE  LET ranked == Ranked(f, t)
         IN /\ Extracted(f, t) = {} => \A k \in DOMAIN ranked : ranked[k] = {}
            /\ \A v \in Extracted(f, t) : \E k \in DOMAIN ranked :
                 v \in ranked[k] /\ \A s \in 1 .. k - 1 : ranked[s] = {}
<1> DEFINE ranked == Ranked(f, t)
<1>0. /\ Forms \in Nat /\ DOMAIN ranked = 1 .. Forms + 3
      /\ NameOf[f] \in Patterns \cup {None} /\ None \notin Patterns
      /\ NameOf[f] # None => NameOf[f] \in Contains[f]
  BY ExtractionAssumption DEF Ranked
<1>1. ranked[1] = IF NameOf[f] = None THEN {} ELSE {t.pattern[NameOf[f]]} \ {None}
  <2>1. 1 \in 1 .. Forms + 3
    BY <1>0
  <2>2. ranked[1] = IF NameOf[f] = None THEN {} ELSE Matches(t, {NameOf[f]})
    BY <2>1 DEF Ranked
  <2>3. Matches(t, {NameOf[f]}) = {t.pattern[NameOf[f]]} \ {None}
    BY DEF Matches
  <2> QED BY <2>2, <2>3
<1>2. ranked[2] = Matches(t, Contains[f])
  BY <1>0 DEF Ranked
<1>3. \A k \in 1 .. Forms : ranked[k + 2] = {t.label[f][k]} \ {None}
  BY <1>0 DEF Ranked
<1>4. ranked[Forms + 3] = ByProximity(f, t)
  BY <1>0 DEF Ranked, ByProximity
<1>5. ByPattern(f, t) = IF ranked[1] # {} THEN ranked[1] ELSE ranked[2]
  BY <1>1, <1>2 DEF ByPattern
<1>6. ByPattern(f, t) = {} => ranked[1] = {} /\ ranked[2] = {}
  BY <1>5
<1> HIDE DEF ranked
<1>7. ByLabel(f, t) = {} => \A k \in 1 .. Forms : ranked[k + 2] = {}
  <2> SUFFICES ASSUME ByLabel(f, t) = {}, NEW k \in 1 .. Forms, ranked[k + 2] # {}
               PROVE  FALSE
    OBVIOUS
  <2> DEFINE Hits == {m \in 1 .. Forms : t.label[f][m] # None}
  <2>1. k \in Hits
    BY <1>3
  <2>2. \E m \in Hits : \A j \in Hits : m <= j
    <3>1. Hits \subseteq Nat /\ Hits # {}
      BY <2>1
    <3> DEFINE Less == {pair \in Nat \X Nat : pair[1] < pair[2]}
    <3>2. IsWellFoundedOn(Less, Nat)
      BY NatLessThanWellFounded DEF OpToRel
    <3>3. \A j, m \in Nat : j < m => <<j, m>> \in Less
      OBVIOUS
    <3> HIDE DEF Less, Hits
    <3>4. PICK m \in Hits : \A j \in Hits : ~(<<j, m>> \in Less)
      BY <3>1, <3>2, WFMin
    <3>5. \A j \in Hits : ~(j < m)
      BY <3>1, <3>3, <3>4
    <3>6. \A j \in Nat : ~(j < m) => m <= j
      BY <3>1
    <3> QED BY <3>1, <3>5, <3>6
  <2>3. PICK m \in Hits : \A j \in Hits : m <= j
    BY <2>2
  <2>4. \A j \in 1 .. m - 1 : t.label[f][j] = None
    BY <1>0, <2>3
  <2> QED BY <2>3, <2>4 DEF ByLabel
<1>8. CASE ByPattern(f, t) # {}
  <2>1. 1 \in DOMAIN ranked /\ 2 \in DOMAIN ranked /\ 1 .. 1 - 1 = {} /\ 1 .. 2 - 1 = {1}
    BY <1>0
  <2>2. Extracted(f, t) = IF ranked[1] # {} THEN ranked[1] ELSE ranked[2]
    BY <1>5, <1>8 DEF Extracted
  <2> QED BY <1>8, <2>1, <2>2 DEF Extracted, ranked
<1>9. CASE ByPattern(f, t) = {} /\ ByLabel(f, t) # {}
  <2>1. ASSUME NEW v \in ByLabel(f, t)
        PROVE  \E k \in DOMAIN ranked : v \in ranked[k] /\ \A s \in 1 .. k - 1 : ranked[s] = {}
    <3>1. PICK m \in 1 .. Forms : /\ v = t.label[f][m] /\ t.label[f][m] # None
                                  /\ \A j \in 1 .. m - 1 : t.label[f][j] = None
      BY <2>1 DEF ByLabel
    <3>2. m + 2 \in DOMAIN ranked /\ v \in ranked[m + 2]
      BY <1>0, <1>3, <3>1
    <3>3. \A s \in 1 .. (m + 2) - 1 : ranked[s] = {}
      <4> SUFFICES ASSUME NEW s \in 1 .. (m + 2) - 1 PROVE ranked[s] = {}
        OBVIOUS
      <4>1. CASE s \in {1, 2}
        BY <1>6, <1>9, <4>1
      <4>2. CASE s \notin {1, 2}
        <5>1. s - 2 \in 1 .. m - 1 /\ s - 2 \in 1 .. Forms /\ (s - 2) + 2 = s
          BY <1>0, <4>2
        <5> QED BY <1>3, <3>1, <5>1
      <4> QED BY <4>1, <4>2
    <3> QED BY <3>2, <3>3
  <2> QED BY <1>9, <2>1 DEF Extracted, ranked
<1>10. CASE ByPattern(f, t) = {} /\ ByLabel(f, t) = {}
  <2>1. Extracted(f, t) = ranked[Forms + 3]
    BY <1>4, <1>10 DEF Extracted
  <2>2. \A s \in 1 .. Forms + 2 : ranked[s] = {}
    <3> SUFFICES ASSUME NEW s \in 1 .. Forms + 2 PROVE ranked[s] = {}
      OBVIOUS
    <3>1. CASE s \in {1, 2}
      BY <1>6, <1>10, <3>1
    <3>2. CASE s \notin {1, 2}
      <4>1. s - 2 \in 1 .. Forms /\ (s - 2) + 2 = s
        BY <1>0, <3>2
      <4> QED BY <1>7, <1>10, <4>1
    <3> QED BY <3>1, <3>2
  <2>3. (Forms + 3) - 1 = Forms + 2 /\ Forms + 3 \in DOMAIN ranked
    BY <1>0
  <2>4. \A k \in DOMAIN ranked : k # Forms + 3 => k \in 1 .. Forms + 2
    BY <1>0
  <2> QED BY <2>1, <2>2, <2>3, <2>4 DEF ranked
<1> QED BY <1>8, <1>9, <1>10

(* Every recorded field holds the best value its own result's text offers.  *)
THEOREM BestValuesRecorded == Spec => []BestWayWins
<1>1. Inductive => BestWayWins
  <2> SUFFICES ASSUME Inductive, NEW p \in Providers, pc[p] = "recorded",
                      NEW i \in DOMAIN results[p], NEW f \in Fields
               PROVE  LET ranked == Ranked(f, results[p][i].text)
                          value  == results[p][i].fields[f]
                      IN \/ /\ value = None
                            /\ \A k \in DOMAIN ranked : ranked[k] = {}
                         \/ \E k \in DOMAIN ranked :
                              value \in ranked[k] /\ \A s \in 1 .. k - 1 : ranked[s] = {}
    BY DEF BestWayWins
  <2>1. results[p] \in Seq(SearchResult) /\ Sound(results[p][i]) /\ Complete(results[p][i])
    BY DEF Inductive, TypeOK, LoopInvariant
  <2>2. results[p][i] \in SearchResult
    BY <2>1
  <2>3. results[p][i].text \in Texts
    BY <2>2 DEF SearchResult
  <2>4. \/ results[p][i].fields[f] = None /\ Extracted(f, results[p][i].text) = {}
        \/ results[p][i].fields[f] \in Extracted(f, results[p][i].text)
    BY <2>1 DEF Sound, Complete, Filled
  <2> QED BY <2>3, <2>4, ExtractedIsBest
<1> QED BY <1>1, ExtractionInvariant, PTL
===============================================================================
