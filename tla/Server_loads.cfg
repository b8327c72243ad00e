CONSTANTS
  c1 = c1
  c2 = c2
  Callers <- Callers2
  MaxTables = 2
  MaxRows = 2
  Sizes <- TwoRowsThenOne
  MayFail = {"table", "item", "update", "embedding"}
  NoRow = NoRow
SPECIFICATION Spec
CONSTRAINTS
  OneRowTouched
  OneLost
SYMMETRY Perms
INVARIANTS
  Inductive
  RowsHaveTables
  LoadsPersist
  DoneIsEmbedded
