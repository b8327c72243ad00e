CONSTANTS
  NRows = 2
  Configured = 2
  StartArgs <- Whole
  EndArgs <- Whole
  StoreFails = FALSE
  SecondProcess = TRUE
  ReplyCancels = TRUE
SPECIFICATION Spec
INVARIANTS
  SearchesOutliveReply
