CONSTANTS
  Namespaces = {rows, notes}
  AnyName = any
  Scores = {1, 2, 3}
  MaxRecords = 2
  TopKs <- SomeTopKs
SPECIFICATION Spec
INVARIANT TopKOfAll
