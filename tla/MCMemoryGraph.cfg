CONSTANTS
  Records = {1, 2, 3, 4, 5}
  Fresh = 5
  Contents <- MCContents
  Relevance <- MCRelevance
  Alikeness <- MCAlikeness
  Starts <- MCStarts
  IndexHits <- MCIndexHits
  MaxTouched = 1
  RrfK = 60
  Lambda = 72
  MinCandidates = 2
  MaxResults = 50
  MaxDepth = 2
  MaxNodes = 512
  MaxSources = 2
SPECIFICATION Spec
CHECK_DEADLOCK FALSE
INVARIANTS
  HitsWereThere
  MatchesReturned
  GraphFaithful
  CompactionFaithful
