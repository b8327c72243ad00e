CONSTANTS
  c1 = c1
  c2 = c2
  tavily = tavily
  brave = brave
  name = name
  a = a
  b = b
  Callers = {c1, c2}
  MaxCalls = 1
  Tools = {"search_row"}
  Providers = {tavily}
  Fields = {name}
  Values = {a, b}
  ThresholdPct = 70
  Configured = 1
  StoreFails = FALSE
SPECIFICATION Spec
INVARIANTS
  RowMatchesItem
SYMMETRY Symmetry
