CONSTANTS
  Namespaces = {rows, notes}
  AnyName = any
  Scores = {1, 2, 3}
  MaxRecords = 4
  TopKs <- SomeTopKs
SPECIFICATION Spec
INVARIANTS
  Inductive
  BestFirst
  NothingBetterLeftOut
