CONSTANTS
  Debates = {d1,d2}
  Scans = {}
  Models = {m1}
  Rounds = 2
SPECIFICATION RoleSpec
INVARIANTS
  PromptIsolated
