CONSTANTS
  NRows = 3
  Configured = 2
  StartArgs <- MCStarts
  EndArgs <- MCEnds
  StoreFails = FALSE
  SecondProcess = TRUE
  ReplyCancels = TRUE
SPECIFICATION Spec
INVARIANTS
  Inductive
  PermitsBoundWorkers
  CompletedMeansSettled
PROPERTIES
  ImplementsBatchJob
  JobTerminates
