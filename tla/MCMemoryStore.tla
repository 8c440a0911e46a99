---------------------------- MODULE MCMemoryStore ----------------------------
(* Instances of MemoryStore: requests that overlap on two records, and requests  *)
(* one after the other on three, more than a sync takes.                         *)
EXTENDS MemoryStore

CONSTANTS Second, Third  \* a client and a record, only one of which takes part

VARIABLE overlapping

MCInit == Init /\ overlapping \in BOOLEAN

MCNext ==
  /\ Next
  /\ IF overlapping THEN active'[Third] = 0 ELSE req'[Second] = Idle
  /\ UNCHANGED overlapping

MCSpec == MCInit /\ [][MCNext]_<<vars, overlapping>> /\ Fairness
=============================================================================
