CONSTANTS
  Records = {r1, r2}
  Words = {w1, w2}
  Contents = {{w1}, {w1, w2}}
  Holds = {{w1, w2}}
  Clients = {c1, c2}
  MaxEvent = 3
SPECIFICATION Spec
SYMMETRY Symmetry
INVARIANTS
  TypeOK
  IntegrityHolds
  AuditTellsRecords
  SearchExact
