CONSTANTS
  c1 = c1
  c2 = c2
  tavily = tavily
  brave = brave
  name = name
  a = a
  b = b
  Callers = {c1}
  MaxCalls = 3
  Tools <- AllTools
  Providers = {tavily, brave}
  Fields = {name}
  Values = {a, b}
  ThresholdPct = 70
  Configured = 1
  StoreFails = TRUE
SPECIFICATION Spec
INVARIANTS
  VerdictFollowsEvidence
  RowIsEarlierVerdict
PROPERTIES
  CallsReturn
  ResultsOnlyGrow
