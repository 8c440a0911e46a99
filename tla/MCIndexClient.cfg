CONSTANTS
  Requests = {q1, q2, q3}
  Configured = {"auto", "remote", "embedded"}
SPECIFICATION ClientFairSpec
INVARIANTS
  ClientReady
PROPERTIES
  EventuallyConnected
