CONSTANTS
  Clients = {c1, c2}
  NoClient = NoClient
  Labels = {l1, l2}
  Values = {v1, v2}
  NoValue = NoValue
  Unreadable = Unreadable
  Tokens = {t1, t2}
  MaxKey = 3
SPECIFICATION Spec
INVARIANTS
  RotationTransactional
