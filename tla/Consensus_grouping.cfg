CONSTANTS
  p = p
  q = q
  r = r
  Providers = {p, q, r}
  Values <- Words
  Similar <- SimilarWords
  MaxFound = 2
  Threshold = 70
SPECIFICATION Spec
INVARIANTS
  Inductive
  EvidenceAccounted
  SourcesSupportValue
  ScoreIsLargestClass
  VerdictIsVote
SYMMETRY Symmetry
