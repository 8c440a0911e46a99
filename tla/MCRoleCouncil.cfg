CONSTANTS
  Debates = {d1, d2}
  Scans = {s1}
  Models = {m1, m2}
  Rounds = 2
SPECIFICATION RoleFairSpec
INVARIANTS
  PromptRestored
  RoleReachesClients
PROPERTIES
  DebatesEnd
