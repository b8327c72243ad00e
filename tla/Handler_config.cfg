CONSTANTS
  k1 = k1
  k2 = k2
  c1 = c1
  c2 = c2
  tavily = tavily
  nobody = nobody
  Configs = {k1, k2}
  Callers = {c1}
  NoOne = nobody
  Available <- ProviderLists
  EnvConcurrency <- Concurrencies
  EnvThresholds <- Thresholds
  ConcArgs <- ConcurrencyArgs
  ThreshArgs <- ThresholdArgs
SPECIFICATION Spec
INVARIANTS
  Inductive
  ReplyInForce
  ReadersGetUsable
PROPERTIES
  CallsReturn
  SearchesStartCurrent
