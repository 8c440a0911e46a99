----------------------------- MODULE RecordStore -----------------------------
(***************************************************************************)
(* The SQLite side of sidecar/cyberforge_sidecar/storage.py and what       *)
(* memory_governance.py does with it: which key a record is encrypted      *)
(* with, the audit chain, the blind search index, and retention.           *)
(*                                                                         *)
(* The master key is in the vault.  A request first obtains it (_keys), and *)
(* makes it if there is none; its transaction comes later, under the       *)
(* store's lock.  Keys are numbers, 0 is none.                             *)
(***************************************************************************)
EXTENDS Naturals, Sequences, FiniteSets

CONSTANTS
  Records,   \* record ids
  Words,     \* words of the text that a record is searched by
  Contents,  \* what a record may contain: its words, which stand for its digest
  Holds,     \* the contents whose tags or metadata put a hold on the record
  Clients,   \* concurrent requests
  MaxEvent   \* bound: events in the audit chain

ASSUME RecordStoreAssumption ==
  /\ Records # {}
  /\ Contents # {} /\ Contents \subseteq SUBSET Words
  /\ Holds \subseteq Contents
  /\ MaxEvent \in Nat

VARIABLES
  vaultKey,  \* the vault's storage/sqlite-master-key-v1
  minted,    \* keys made so far
  session,   \* the callers' vault session is live
  row,       \* table records
  old,       \* the records whose updated_at is beyond their retention window
  blind,     \* table blind_tokens: the words of each record, hashed with a key
  audit,     \* table audit_chain
  req        \* the request each client has in flight

tables == <<row, old, blind, audit>>
vars == <<vaultKey, minted, session, tables, req>>

-----------------------------------------------------------------------------
SomeContent == CHOOSE x \in Contents : TRUE

Row == [present : BOOLEAN, deleted : BOOLEAN, key : Nat, digest : Contents]

NoRow == [present |-> FALSE, deleted |-> FALSE, key |-> 0,
          digest |-> SomeContent]

\* previous_hash of an event: how many events it covers.
Event == [op : {"put", "delete"}, rec : Records, digest : Contents, key : Nat,
          previous : Nat]

\* A word hashed with a key.
Token == Words \X Nat

Operations == {"put", "delete", "retire"}

\* Between two calls a request is about to ...
Steps == {"idle",
          "first",   \* ... store the key it has made
          "write",   \* ... run its transaction
          "retain"}  \* ... take up the next candidate of a retention plan

Request == [at : Steps, op : Operations, rec : Records, digest : Contents,
            key : Nat, todo : SUBSET Records]

Idle == [at |-> "idle", op |-> "put", rec |-> CHOOSE r \in Records : TRUE,
         digest |-> SomeContent, key |-> 0, todo |-> {}]

TypeOK ==
  /\ session \in BOOLEAN
  /\ vaultKey \in Nat /\ minted \in Nat
  /\ row \in [Records -> Row]
  /\ old \subseteq Records
  /\ blind \in [Records -> SUBSET Token]
  /\ audit \in Seq(Event)
  /\ req \in [Clients -> Request]

Init ==
  /\ vaultKey = 0 /\ minted = 0 /\ session = TRUE
  /\ row = [r \in Records |-> NoRow]
  /\ old = {}
  /\ blind = [r \in Records |-> {}]
  /\ audit = <<>>
  /\ req = [c \in Clients |-> Idle]

-----------------------------------------------------------------------------
At(c, step) == req[c].at = step

Active(r) == row[r].present /\ ~row[r].deleted

\* _decode_row: the row authenticates under the key that is in the vault now.
Readable(r) == Active(r) /\ row[r].key = vaultKey

\* search: a word of the query, hashed with the key in the vault, hits r.
Hit(w, r) == Active(r) /\ <<w, vaultKey>> \in blind[r]

\* retention_plan's candidates: expired and not held.
Candidates == {r \in Records : Active(r) /\ r \in old /\ row[r].digest \notin Holds}

\* A retention goes on with its next candidate, another request has ended.
EntryDone(c) ==
  req' = [req EXCEPT ![c] = IF @.todo = {} THEN Idle
                            ELSE [Idle EXCEPT !.at = "retain", !.todo = req[c].todo]]

\* put or delete: _keys finds the key or makes one, which is not stored yet.  get
\* and search do so too and change nothing else, like the delete of no record.
Begin(c, op, r, x) ==
  /\ At(c, "idle") /\ session
  /\ req' = [req EXCEPT ![c] =
               [at |-> IF vaultKey = 0 THEN "first" ELSE "write", op |-> op, rec |-> r,
                digest |-> x, key |-> vaultKey, todo |-> {}]]
  /\ UNCHANGED <<vaultKey, minted, session, tables>>

\* Mutant: the key is used without having been stored.
UseUnstored(c) ==
  /\ At(c, "first") /\ session
  /\ minted' = minted + 1
  /\ req' = [req EXCEPT ![c] = [@ EXCEPT !.at = "write", !.key = minted + 1]]
  /\ UNCHANGED <<vaultKey, session, tables>>

\* _master_key stores the key it has generated, over any that is there by now.
StoreKey(c) ==
  /\ At(c, "first") /\ session
  /\ minted' = minted + 1 /\ vaultKey' = minted + 1
  /\ req' = [req EXCEPT ![c] = [@ EXCEPT !.at = "write", !.key = minted + 1]]
  /\ UNCHANGED <<session, tables>>

\* set_json refuses an ended session.
StoreKeyFails(c) ==
  /\ At(c, "first") /\ ~session
  /\ req' = [req EXCEPT ![c] = Idle]
  /\ UNCHANGED <<vaultKey, minted, session, tables>>

\* Mutant: an event counts itself out.
AppendOffByOne(op, r, x, k) ==
  /\ Len(audit) < MaxEvent
  /\ audit' = Append(audit, [op |-> op, rec |-> r, digest |-> x, key |-> k,
                             previous |-> Len(audit) - 1])

\* _append_audit, in the transaction of the operation it records.
AppendAudit(op, r, x, k) ==
  /\ Len(audit) < MaxEvent
  /\ audit' = Append(audit, [op |-> op, rec |-> r, digest |-> x, key |-> k,
                             previous |-> Len(audit)])

\* Mutant: the words of an earlier version stay in the index.
IndexMore(r, x, k) == blind' = [blind EXCEPT ![r] = @ \cup {<<w, k>> : w \in x}]

\* DELETE FROM blind_tokens, and INSERT for the words of the new contents.
IndexWords(r, x, k) == blind' = [blind EXCEPT ![r] = {<<w, k>> : w \in x}]

\* put: one transaction, with the key obtained before it.
CommitPut(c) ==
  LET q == req[c] IN
  /\ At(c, "write") /\ q.op = "put"
  /\ row' = [row EXCEPT ![q.rec] = [present |-> TRUE, deleted |-> FALSE,
                                    key |-> q.key, digest |-> q.digest]]
  /\ old' = old \ {q.rec}
  /\ IndexWords(q.rec, q.digest, q.key)
  /\ AppendAudit("put", q.rec, q.digest, q.key)
  /\ EntryDone(c)
  /\ UNCHANGED <<vaultKey, minted, session>>

\* Mutant: delete does not look whether there is a row.
DeleteUnchecked(c) ==
  LET q == req[c] IN
  /\ At(c, "write") /\ q.op # "put"
  /\ row' = [row EXCEPT ![q.rec].deleted = TRUE]
  /\ old' = old \ {q.rec}
  /\ IndexWords(q.rec, {}, q.key)
  /\ AppendAudit("delete", q.rec, SomeContent, q.key)
  /\ EntryDone(c)
  /\ UNCHANGED <<vaultKey, minted, session>>

\* delete: the row stays, marked; False, and nothing done, if there is none.
CommitDelete(c) ==
  LET q == req[c] IN
  /\ At(c, "write") /\ q.op # "put"
  /\ IF Active(q.rec)
     THEN /\ row' = [row EXCEPT ![q.rec].deleted = TRUE]
          /\ old' = old \ {q.rec}
          /\ IndexWords(q.rec, {}, q.key)
          /\ AppendAudit("delete", q.rec, SomeContent, q.key)
     ELSE UNCHANGED tables
  /\ EntryDone(c)
  /\ UNCHANGED <<vaultKey, minted, session>>

\* The transaction fails and is rolled back; a retention notes it and goes on.
CommitFails(c) ==
  /\ At(c, "write")
  /\ EntryDone(c)
  /\ UNCHANGED <<vaultKey, minted, session, tables>>

-----------------------------------------------------------------------------
\* apply_retention, its plan: it reads every active record, and raises if one
\* does not authenticate.
Plan(c) ==
  /\ At(c, "idle") /\ session
  /\ \A r \in Records : Active(r) => Readable(r)
  /\ Candidates # {}
  /\ req' = [req EXCEPT ![c] = [Idle EXCEPT !.at = "retain", !.todo = Candidates]]
  /\ UNCHANGED <<vaultKey, minted, session, tables>>

\* apply_retention, its loop: a candidate is deleted as by any caller, and an ended
\* session is noted as one failure per candidate.
Retire(c) ==
  /\ At(c, "retain")
  /\ \E r \in req[c].todo :
       LET rest == req[c].todo \ {r}
       IN  IF session
           THEN req' = [req EXCEPT ![c] = [Idle EXCEPT !.at = "write", !.op = "retire",
                                             !.rec = r, !.key = vaultKey, !.todo = rest]]
           ELSE req' = [req EXCEPT ![c] = IF rest = {} THEN Idle
                                          ELSE [@ EXCEPT !.todo = rest]]
  /\ UNCHANGED <<vaultKey, minted, session, tables>>

\* Time passes: an active record is beyond its retention window.
Expire(r) ==
  /\ Active(r) /\ old' = old \cup {r}
  /\ UNCHANGED <<vaultKey, minted, session, row, blind, audit, req>>

LockOrUnlock ==
  /\ session' = ~session
  /\ UNCHANGED <<vaultKey, minted, tables, req>>

\* The sidecar dies and is started again: only SQLite and the vault remain.
Restart ==
  /\ session' = FALSE
  /\ req' = [c \in Clients |-> Idle]
  /\ UNCHANGED <<vaultKey, minted, tables>>

Next ==
  \/ \E c \in Clients :
       \/ StoreKey(c) \/ StoreKeyFails(c)
       \/ CommitPut(c) \/ CommitDelete(c) \/ CommitFails(c)
       \/ Plan(c) \/ Retire(c)
       \/ \E r \in Records :
            \/ \E x \in Contents : Begin(c, "put", r, x)
            \/ Begin(c, "delete", r, SomeContent)
  \/ \E r \in Records : Expire(r)
  \/ LockOrUnlock \/ Restart

Spec == Init /\ [][Next]_vars

-----------------------------------------------------------------------------
EventsOf(r) == {i \in 1..Len(audit) : audit[i].rec = r}

\* What verify_integrity checks and a reader relies on: every active record and
\* every audit event authenticates under the key that the vault holds, and each
\* event names the one before it.
Healthy ==
  /\ \A r \in Records : Active(r) => Readable(r)
  /\ \A i \in 1..Len(audit) : audit[i].key = vaultKey /\ audit[i].previous = i - 1

\* Only a second master key, stored over the first, makes a record or an audit event
\* unverifiable: no order of requests, locks, failures and restarts does, and nothing is
\* encrypted with a key that is not in the vault.
IntegrityHolds == minted <= 1 => Healthy

\* The audit chain tells the records, overlapping requests or not: the last event
\* of a record says whether it is there, and with which contents.
AuditTellsRecords ==
  \A r \in Records :
    IF EventsOf(r) = {} THEN ~row[r].present
    ELSE \E i \in EventsOf(r) :
           /\ \A j \in EventsOf(r) : j <= i
           /\ row[r].present
           /\ \/ audit[i].op = "delete" /\ row[r].deleted
              \/ audit[i].op = "put" /\ Active(r) /\ audit[i].digest = row[r].digest

\* A search for a word hits exactly the records that can be decrypted and contain it,
\* however often they have been put, deleted and put again under other contents: no
\* word of an earlier version hits, none of this one is missing, and no hit makes the
\* search raise.  It holds with a second master key too.
SearchExact ==
  \A w \in Words, r \in Records : Hit(w, r) <=> Readable(r) /\ w \in row[r].digest
=============================================================================
