CONSTANTS
  tavily = tavily
  brave = brave
  exa = exa
  url = url
  linkedin = linkedin
  linkedin_url = linkedin_url
  v = v
  w = w
  none = none
  Providers = {tavily, brave, exa}
  WithoutKey = {exa}
  ValidateFields <- NamedFields
  Patterns = {url, linkedin}
  NameOf <- FieldNames
  Contains <- FieldPatterns
  Forms = 2
  Values = {v, w}
  None = none
  Texts <- SomeTexts
  MaxResults = 2
SPECIFICATION Spec
INVARIANTS
  Inductive
  ErrorHasNoEvidence
  BestWayWins
