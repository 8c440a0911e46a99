CONSTANTS
  Records = {r1, r2, r3}
  Clients = {c1, c2}
  Second = c2
  Third = r3
  Poison = {r1}
  Limit = 2
  MaxClock = 3
SPECIFICATION MCSpec
INVARIANTS
  IndexFollows
  QueueMatchesRecords
PROPERTIES
  SyncDrains
