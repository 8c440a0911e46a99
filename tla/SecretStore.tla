----------------------------- MODULE SecretStore -----------------------------
(***************************************************************************)
(* What a caller of the vault relies on: a map from labels to secrets that *)
(* changes only when a set or a delete that some client asked for takes    *)
(* effect, once.  A request may be dropped (the vault was locked or the    *)
(* process died before it took effect); the whole map may be lost, which   *)
(* is then never hidden.                                                   *)
(***************************************************************************)
CONSTANTS Clients, Labels, Values, NoValue

VARIABLES secrets, pending, lost

Idle == [at |-> "idle", label |-> CHOOSE l \in Labels : TRUE, value |-> NoValue]

Requests ==
  [at : {"set"}, label : Labels, value : Values]
    \cup [at : {"delete"}, label : Labels, value : {NoValue}]

Init ==
  /\ secrets = [l \in Labels |-> NoValue]
  /\ pending = [c \in Clients |-> Idle]
  /\ lost = FALSE

Call(c) ==
  /\ pending[c] = Idle
  /\ \E r \in Requests : pending' = [pending EXCEPT ![c] = r]
  /\ UNCHANGED <<secrets, lost>>

\* A set stores its value, a delete stores NoValue.
Perform(c) ==
  /\ pending[c] # Idle
  /\ secrets' = IF lost THEN secrets
                ELSE [secrets EXCEPT ![pending[c].label] = pending[c].value]
  /\ pending' = [pending EXCEPT ![c] = Idle]
  /\ UNCHANGED lost

Drop(c) ==
  /\ pending' = [pending EXCEPT ![c] = Idle]
  /\ UNCHANGED <<secrets, lost>>

Restart ==
  /\ pending' = [c \in Clients |-> Idle]
  /\ UNCHANGED <<secrets, lost>>

Lose ==
  /\ ~lost /\ lost' = TRUE
  /\ secrets' = [l \in Labels |-> NoValue]
  /\ \A c \in Clients : pending'[c] \in {pending[c], Idle}
  /\ DOMAIN pending' = Clients

Next == Restart \/ Lose \/ \E c \in Clients : Call(c) \/ Perform(c) \/ Drop(c)

Spec == Init /\ [][Next]_<<secrets, pending, lost>>
=============================================================================
