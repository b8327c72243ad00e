CONSTANTS
  NRows = 2
  Configured = 2
  StartArgs <- Whole
  EndArgs <- Whole
  StoreFails = TRUE
  SecondProcess = TRUE
  ReplyCancels = FALSE
SPECIFICATION RunnerSpec
INVARIANTS
  RunnerInductive
  RowNeverOverstates
PROPERTIES
  RunnerExits
  CompletedIsFinal
