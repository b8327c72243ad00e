------------------------------ MODULE Extraction ------------------------------
(***************************************************************************)
(* The goroutine SearchItem and searchWithQuery start for one provider,     *)
(* from the request to the ProviderResult it appends: the provider's Search *)
(* (internal/providers) with every way it can fail, and ExtractFields       *)
(* (internal/engine/extractor.go), which fills the validated fields of each *)
(* result from its text.  The append itself is ResearchItem's.              *)
(*                                                                         *)
(* A text is what the regular expressions find in it: for each known        *)
(* pattern, for each label form of a field, and next to a field's name.     *)
(* The text of an exa result is cut to 500 bytes before any of them sees    *)
(* it; scores, URLs and times are not read by the extraction.               *)
(***************************************************************************)
EXTENDS Integers, Sequences

CONSTANTS
  Providers,    \* the goroutines of one search
  WithoutKey,   \* providers whose API key is empty
  ValidateFields, \* validateFields, in the caller's order; a field may be named twice
  Patterns,     \* the keys of knownPatterns
  NameOf,       \* the pattern a field is called, or none
  Contains,     \* the patterns whose key is part of a field's name
  Forms,        \* len(labelPatterns)
  Values,       \* what an expression may match, trimmed and of a length it keeps
  None,         \* no match
  Texts,        \* the texts a service may return
  MaxResults    \* bound on the results of one response

Fields == {ValidateFields[n] : n \in DOMAIN ValidateFields}

ASSUME ExtractionAssumption ==
  /\ ValidateFields \in Seq(Fields)
  /\ WithoutKey \subseteq Providers
  /\ None \notin Values /\ None \notin Patterns
  /\ NameOf \in [Fields -> Patterns \cup {None}]
  /\ Contains \in [Fields -> SUBSET Patterns]
  /\ \A f \in Fields : NameOf[f] # None => NameOf[f] \in Contains[f]
  /\ Forms \in Nat /\ MaxResults \in Nat
  /\ Texts \subseteq [pattern : [Patterns -> Values \cup {None}],
                      label   : [Fields -> [1 .. Forms -> Values \cup {None}]],
                      near    : [Fields -> Values \cup {None}]]

VARIABLES
  pc,       \* control point of each provider's goroutine
  body,     \* the response being decoded: the texts of its results
  results,  \* what Search returned: texts and fields
  failed,   \* whether it returned an error
  place,    \* the result ExtractFields is at
  next      \* its next field for that result

vars == <<pc, body, results, failed, place, next>>

Blank(texts) == [i \in 1 .. Len(texts) |->
                  [text |-> texts[i], fields |-> [f \in Fields |-> None]]]
Bodies == UNION {[1 .. n -> Texts] : n \in 0 .. MaxResults}

(* The goroutines exist for the providers that are available.               *)
Init ==
  /\ pc = [p \in Providers |-> IF p \in WithoutKey THEN "skipped" ELSE "started"]
  /\ body = [p \in Providers |-> <<>>]
  /\ results = [p \in Providers |-> <<>>]
  /\ failed = [p \in Providers |-> FALSE]
  /\ place = [p \in Providers |-> 0]
  /\ next = [p \in Providers |-> 1]

At(p, from, to) == pc[p] = from /\ pc' = [pc EXCEPT ![p] = to]

-------------------------------------------------------------------------------
(* Search. *)

(* The service answers with status 200 ...                                  *)
Respond(p) ==
  /\ At(p, "started", "responded")
  /\ \E b \in Bodies : body' = [body EXCEPT ![p] = b]
  /\ UNCHANGED <<results, failed, place, next>>

(* ... or the request fails, is cancelled or times out, or the status is    *)
(* another: an error and no results.                                        *)
RequestFails(p) ==
  /\ At(p, "started", "searched")
  /\ failed' = [failed EXCEPT ![p] = TRUE]
  /\ UNCHANGED <<body, results, place, next>>

(* A body that does not decode is an error too, whatever came before the    *)
(* fault.                                                                   *)
DecodePart(p) ==
  /\ At(p, "responded", "searched")
  /\ failed' = [failed EXCEPT ![p] = TRUE]
  /\ results' = [results EXCEPT ![p] = Blank(body[p])]
  /\ UNCHANGED <<body, place, next>>
DecodeFails(p) ==
  /\ At(p, "responded", "searched")
  /\ failed' = [failed EXCEPT ![p] = TRUE]
  /\ body' = [body EXCEPT ![p] = <<>>]
  /\ UNCHANGED <<results, place, next>>

(* Each result gets a map of fields of its own.                             *)
Decode(p) ==
  /\ At(p, "responded", "searched")
  /\ results' = [results EXCEPT ![p] = Blank(body[p])]
  /\ body' = [body EXCEPT ![p] = <<>>]
  /\ UNCHANGED <<failed, place, next>>

-------------------------------------------------------------------------------
(* ExtractFields. *)

(* extractByPattern: the pattern of the field's name, else the patterns its *)
(* name contains, in the order of a map: the first that matches ends the    *)
(* loop, and any may be the first.                                          *)
Matches(text, names) == {text.pattern[n] : n \in names} \ {None}
ByPattern(f, text) ==
  IF NameOf[f] # None /\ text.pattern[NameOf[f]] # None
  THEN {text.pattern[NameOf[f]]}
  ELSE Matches(text, Contains[f])

(* extractByLabel: the forms in the order of their list.                    *)
ByLabel(f, text) ==
  {text.label[f][k] : k \in {m \in 1 .. Forms :
     text.label[f][m] # None /\ \A j \in 1 .. m - 1 : text.label[f][j] = None}}

(* extractByProximity.                                                      *)
ByProximity(f, text) == {text.near[f]} \ {None}

(* The values ExtractFields may give a field: the first way that finds one. *)
LabelFirst(f, text) ==
  IF ByLabel(f, text) # {} THEN ByLabel(f, text)
  ELSE IF ByPattern(f, text) # {} THEN ByPattern(f, text)
  ELSE ByProximity(f, text)
Extracted(f, text) ==
  IF ByPattern(f, text) # {} THEN ByPattern(f, text)
  ELSE IF ByLabel(f, text) # {} THEN ByLabel(f, text)
  ELSE ByProximity(f, text)

(* The loop over the results, and for each over the fields.  A field that   *)
(* already has a value is passed over.                                      *)
FieldsDone(p) == next[p] > Len(ValidateFields)
Between(p) == pc[p] = "searched" \/ (pc[p] = "extracting" /\ FieldsDone(p))
NextResult(p) ==
  /\ Between(p)
  /\ place[p] < Len(results[p])
  /\ pc' = [pc EXCEPT ![p] = "extracting"]
  /\ place' = [place EXCEPT ![p] = @ + 1]
  /\ next' = [next EXCEPT ![p] = 1]
  /\ UNCHANGED <<body, results, failed>>

ExtractField(p) ==
  /\ At(p, "extracting", "extracting")
  /\ ~FieldsDone(p)
  /\ next' = [next EXCEPT ![p] = @ + 1]
  /\ LET f     == ValidateFields[next[p]]
         r     == results[p][place[p]]
         found == Extracted(f, r.text)
     IN \/ (r.fields[f] # None \/ found = {}) /\ UNCHANGED results
        \/ /\ r.fields[f] = None
           /\ \E v \in found : results' = [results EXCEPT ![p][place[p]].fields[f] = v]
  /\ UNCHANGED <<body, failed, place>>

(* The ProviderResult is built from whatever there is, error or not.        *)
Record(p) ==
  /\ Between(p)
  /\ place[p] = Len(results[p])
  /\ pc' = [pc EXCEPT ![p] = "recorded"]
  /\ UNCHANGED <<body, results, failed, place, next>>

ProviderStep(p) ==
  \/ Respond(p) \/ RequestFails(p) \/ DecodeFails(p) \/ Decode(p)
  \/ NextResult(p) \/ ExtractField(p) \/ Record(p)

Over == (\A p \in Providers : pc[p] \in {"skipped", "recorded"}) /\ UNCHANGED vars

Next == (\E p \in Providers : ProviderStep(p)) \/ Over

Spec == Init /\ [][Next]_vars

-------------------------------------------------------------------------------
(* Properties. *)

(* The values Validate finds for a field in what a provider recorded.       *)
Evidence(p, f) ==
  {results[p][i].fields[f] : i \in DOMAIN results[p]} \ {None}

SearchResult == [text : Texts, fields : [Fields -> Values \cup {None}]]
TypeOK ==
  /\ pc \in [Providers -> {"skipped", "started", "responded", "searched",
                           "extracting", "recorded"}]
  /\ body \in [Providers -> Seq(Texts)]
  /\ results \in [Providers -> Seq(SearchResult)]
  /\ failed \in [Providers -> BOOLEAN]
  /\ place \in [Providers -> Nat]
  /\ next \in [Providers -> Nat \ {0}]

(* The inductive invariant.  A value in a result is one that extraction     *)
(* gives its text; no result comes with an error; and the fields the loop   *)
(* has passed hold a value if there is one.                                 *)
Sound(r) == \A f \in Fields : r.fields[f] = None \/ r.fields[f] \in Extracted(f, r.text)
Filled(r, f) == r.fields[f] = None => Extracted(f, r.text) = {}
Complete(r) == \A f \in Fields : Filled(r, f)

LoopInvariant(p) ==
  /\ pc[p] \in {"skipped", "started", "responded"} => results[p] = <<>> /\ ~failed[p]
  /\ failed[p] => results[p] = <<>>
  /\ pc[p] \in {"skipped", "started", "responded", "searched"} => place[p] = 0
  /\ place[p] <= Len(results[p])
  /\ \A i \in DOMAIN results[p] :
       /\ Sound(results[p][i])
       /\ i < place[p] => Complete(results[p][i])
  /\ pc[p] = "extracting" =>
       /\ place[p] # 0
       /\ \A n \in DOMAIN ValidateFields :
            n < next[p] => Filled(results[p][place[p]], ValidateFields[n])
  /\ pc[p] = "recorded" => \A i \in DOMAIN results[p] : Complete(results[p][i])

Inductive == TypeOK /\ \A p \in Providers : LoopInvariant(p)

(* An error and evidence never come together: Validate reads the results of *)
(* a ProviderResult without looking at its Error, so a search that fails in *)
(* whatever way must have returned none.                                    *)
ErrorHasNoEvidence ==
  \A p \in Providers : failed[p] => \A f \in Fields : Evidence(p, f) = {}

(* The ways of finding a value, best first: the pattern a field is called,  *)
(* a pattern its name contains, the label forms in their order, proximity.  *)
Ranked(f, text) ==
  [r \in 1 .. Forms + 3 |->
     IF r = 1 THEN IF NameOf[f] = None THEN {} ELSE Matches(text, {NameOf[f]})
     ELSE IF r = 2 THEN Matches(text, Contains[f])
     ELSE IF r = Forms + 3 THEN {text.near[f]} \ {None}
     ELSE {text.label[f][r - 2]} \ {None}]

(* Every field of a recorded result holds a value of the best way that      *)
(* finds one in that result's own text, and is left empty exactly when none *)
(* does: no weaker way overrides a stronger one, no value is carried over   *)
(* from another result or field, and none is missed.                        *)
BestWayWins ==
  \A p \in Providers : pc[p] = "recorded" =>
    \A i \in DOMAIN results[p], f \in Fields :
      LET ranked == Ranked(f, results[p][i].text)
          value  == results[p][i].fields[f]
      IN \/ /\ value = None
            /\ \A r \in DOMAIN ranked : ranked[r] = {}
         \/ \E r \in DOMAIN ranked :
              value \in ranked[r] /\ \A s \in 1 .. r - 1 : ranked[s] = {}
===============================================================================
