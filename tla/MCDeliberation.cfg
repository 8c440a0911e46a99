CONSTANTS
  llama = llama
  gemma = gemma
  openai = openai
  offline = offline
  AllowedVectors = {"api", "cloud", "endpoint"}
  TopVectors = 2
  TopControls = 2
  Clients <- MCClients
  Provider <- MCProvider
  Situations <- MCSituations
  Requests <- MCRequests
  Shards = 4
  Answers <- MCAnswers
  Dimensions <- MCDimensions
  ControlFor <- MCControlFor
  Draw <- MCDraw
  Attributed = {3, 4}
SPECIFICATION Spec
INVARIANTS
  OpinionsKeepTheirModel
  AuditMatchesCouncil
  TraceReplays
  RangeCovers
CHECK_DEADLOCK FALSE
