----------------------------- MODULE MCExtraction -----------------------------
(* An instance of Extraction for TLC: the fields "url", which is the name of *)
(* a pattern, and "linkedin_url", whose name contains two.                   *)
EXTENDS Extraction, TLC

CONSTANTS tavily, brave, exa, url, linkedin, linkedin_url, v, w, none

NamedFields   == <<linkedin_url, url, linkedin_url>>
FieldNames    == [f \in {url, linkedin_url} |-> IF f = url THEN url ELSE none]
FieldPatterns == [f \in {url, linkedin_url} |-> IF f = url THEN {url} ELSE {url, linkedin}]

(* Texts with an address, a profile, both or neither; with a label in the   *)
(* first form, in the second or in both; and with a value near the name.    *)
Text(u, l, first, second, near) ==
  [pattern |-> (url :> u @@ linkedin :> l),
   label   |-> [f \in {url, linkedin_url} |-> <<first, second>>],
   near    |-> [f \in {url, linkedin_url} |-> near]]
SomeTexts ==
  {Text(v, w, none, none, w), Text(v, none, w, none, w),
   Text(none, w, v, none, none), Text(none, none, v, w, w), Text(none, none, none, none, v)}
===============================================================================
