CONSTANTS
  c1 = c1
  c2 = c2
  Callers <- Callers2
  MaxTables = 2
  MaxRows = 2
  Sizes <- TwoRowsThenOne
  MayFail = {}
  NoRow = NoRow
SPECIFICATION Spec
INVARIANTS
  RowsHoldTheirItems
