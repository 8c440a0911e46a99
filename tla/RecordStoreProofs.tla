-------------------------- MODULE RecordStoreProofs --------------------------
(***************************************************************************)
(* Proofs about RecordStore, for every set of records, contents and        *)
(* clients and any length of the audit chain.                              *)
(***************************************************************************)
EXTENDS RecordStore, TLAPS

\* What a request that is at some step has in its hands.
Shape ==
  \A c \in Clients :
    /\ req[c].at \in {"idle", "first"} => req[c].todo = {}
    /\ req[c].op # "retire" /\ ~At(c, "retain") => req[c].todo = {}
    /\ At(c, "first") => req[c].op # "retire"

\* The last event of r in the chain a says what row w is.
Tells(a, w, r) ==
  \/ /\ \A i \in 1..Len(a) : a[i].rec # r
     /\ ~w.present
  \/ \E i \in 1..Len(a) :
       /\ a[i].rec = r /\ \A j \in 1..Len(a) : a[j].rec = r => j <= i
       /\ w.present
       /\ \/ a[i].op = "delete" /\ w.deleted
          \/ a[i].op = "put" /\ ~w.deleted /\ a[i].digest = w.digest

AllTold == \A r \in Records : Tells(audit, row[r], r)

\* The index has the words of an active record, all of them and no others, hashed with
\* the key that the record is encrypted with.
IndexKey ==
  \A r \in Records : Active(r) => blind[r] = {<<w, row[r].key>> : w \in row[r].digest}

\* The key in the vault is the last one made, and no request, row or event uses a key
\* that was not stored.
KeysStored ==
  /\ vaultKey = minted
  /\ \A r \in Records : Active(r) => row[r].key \in 1..minted
  /\ \A i \in 1..Len(audit) : audit[i].key \in 1..minted /\ audit[i].previous = i - 1
  /\ \A c \in Clients : At(c, "write") => req[c].key \in 1..minted
  /\ \A c \in Clients : At(c, "retain") \/ req[c].todo # {} => minted # 0

IInv == TypeOK /\ Shape /\ AllTold /\ IndexKey /\ KeysStored

USE RecordStoreAssumption

-----------------------------------------------------------------------------
(* Lemmas about the operators of RecordStore. *)

\* The request of a client that has none is a request.
LEMMA IdleType == SomeContent \in Contents /\ Idle \in Request
  BY DEF SomeContent, Idle, Request, Steps, Operations

\* The row of a record that was never stored is a row.
LEMMA NoRowType == NoRow \in Row
  BY IdleType DEF NoRow, Row

\* When an entry is dealt with, the request keeps what it has still to do and is
\* over if that is nothing; no other request is touched.
LEMMA EntryDoneGives ==
  ASSUME TypeOK, NEW c \in Clients, EntryDone(c)
  PROVE  /\ req' \in [Clients -> Request]
         /\ \A d \in Clients : d # c => req'[d] = req[d]
         /\ req'[c].todo = req[c].todo
         /\ req'[c].at = IF req[c].todo = {} THEN "idle" ELSE "retain"
<1>1. CASE req[c].todo = {}
  <2>1. req' = [req EXCEPT ![c] = Idle]
    BY <1>1 DEF EntryDone
  <2> QED BY <2>1, <1>1, IdleType DEF TypeOK, Idle
<1>2. CASE req[c].todo # {}
  <2>1. req' = [req EXCEPT ![c] = [Idle EXCEPT !.at = "retain", !.todo = req[c].todo]]
    BY <1>2 DEF EntryDone
  <2>2. [Idle EXCEPT !.at = "retain", !.todo = req[c].todo] \in Request
    BY IdleType DEF TypeOK, Request, Steps
  <2> QED BY <2>1, <2>2, <1>2, IdleType DEF TypeOK, Idle
<1> QED BY <1>1, <1>2

\* A chain with one more event tells the same of every other record ...
LEMMA AppendTellsOthers ==
  ASSUME NEW a \in Seq(Event), NEW e \in Event, NEW r \in Records, e.rec # r,
         NEW w \in Row, Tells(a, w, r)
  PROVE  Tells(Append(a, e), w, r)
<1> DEFINE b == Append(a, e)
<1>1. Len(b) = Len(a) + 1 /\ b[Len(a) + 1] = e /\ \A i \in 1..Len(a) : b[i] = a[i]
  OBVIOUS
<1>2. \A i \in 1..Len(b) : b[i].rec = r => i \in 1..Len(a) /\ b[i] = a[i]
  BY <1>1
<1> QED BY <1>1, <1>2 DEF Tells

\* ... and of its own record what the event says.
LEMMA AppendTellsOwn ==
  ASSUME NEW a \in Seq(Event), NEW e \in Event, NEW w \in Row, w.present,
         \/ e.op = "delete" /\ w.deleted
         \/ e.op = "put" /\ ~w.deleted /\ e.digest = w.digest
  PROVE  Tells(Append(a, e), w, e.rec)
<1> DEFINE b == Append(a, e)
           n == Len(a) + 1
<1>1. Len(b) = n /\ n \in 1..Len(b) /\ b[n] = e
  OBVIOUS
<1>2. \A j \in 1..Len(b) : j <= n
  BY <1>1
<1> QED BY <1>1, <1>2 DEF Tells

-----------------------------------------------------------------------------
(* The invariant is inductive. *)

\* An empty store, no key and no request: the invariant holds at the start.
LEMMA InitIInv == Init => IInv
<1> SUFFICES ASSUME Init PROVE IInv
  OBVIOUS
<1>1. \A c \in Clients : req[c] = Idle /\ req[c].at = "idle" /\ req[c].todo = {}
  BY DEF Init, Idle
<1>2. \A r \in Records : row[r] = NoRow /\ ~row[r].present
  BY DEF Init, NoRow
<1>3. audit \in Seq(Event) /\ Len(audit) = 0
  BY DEF Init
<1>4. TypeOK
  BY <1>3, IdleType, NoRowType DEF Init, TypeOK
<1>5. Shape
  BY <1>1 DEF Shape, At
<1>6. AllTold
  BY <1>2, <1>3 DEF AllTold, Tells
<1>7. IndexKey
  BY <1>2 DEF IndexKey, Active
<1>8. KeysStored
  BY <1>1, <1>2, <1>3 DEF Init, KeysStored, Active, At
<1> QED BY <1>4, <1>5, <1>6, <1>7, <1>8 DEF IInv

\* The tables and the key decide what the chain tells and how rows are hashed.
LEMMA SameTables ==
  ASSUME IInv, UNCHANGED <<row, blind, audit>>
  PROVE  AllTold' /\ IndexKey'
  BY DEF IInv, AllTold, IndexKey, Tells, Active

\* The event of a transaction is verified with the key the request had obtained.
LEMMA AppendKeepsKeys ==
  ASSUME IInv, NEW c \in Clients, At(c, "write"), NEW e \in Event,
         e.key = req[c].key, e.previous = Len(audit),
         audit' = Append(audit, e), UNCHANGED minted
  PROVE  \A i \in 1..Len(audit') :
           audit'[i].key \in 1..minted' /\ audit'[i].previous = i - 1
<1>1. audit \in Seq(Event) /\ req[c].key \in 1..minted
  BY DEF IInv, TypeOK, KeysStored
<1>2. Len(audit') = Len(audit) + 1 /\ audit'[Len(audit) + 1] = e
  BY <1>1
<1>3. \A i \in 1..Len(audit) : audit'[i] = audit[i] /\ i \in 1..Len(audit')
  BY <1>1
<1>4. \A i \in 1..Len(audit') : i \in 1..Len(audit) \/ i = Len(audit) + 1
  BY <1>1, <1>2
<1> QED BY <1>1, <1>2, <1>3, <1>4 DEF IInv, KeysStored

\* _keys: a request obtains the key, or is about to store one.
LEMMA BeginKeeps ==
  ASSUME IInv, NEW c \in Clients, NEW op \in {"put", "delete"}, NEW r \in Records,
         NEW x \in Contents, Begin(c, op, r, x)
  PROVE  IInv'
<1> DEFINE q == [at |-> IF vaultKey = 0 THEN "first" ELSE "write", op |-> op,
                 rec |-> r, digest |-> x, key |-> vaultKey, todo |-> {}]
<1>1. /\ req' = [req EXCEPT ![c] = q] /\ q \in Request
      /\ UNCHANGED <<vaultKey, minted, session, row, old, blind, audit>>
  BY DEF Begin, tables, IInv, TypeOK, Request, Steps, Operations
<1>2. /\ req'[c] = q /\ \A d \in Clients : d # c => req'[d] = req[d]
      /\ At(c, "idle") /\ req[c].todo = {}
  BY <1>1 DEF Begin, At, IInv, TypeOK, Shape
<1>3. TypeOK'
  BY <1>1 DEF IInv, TypeOK
<1>4. Shape'
  BY <1>2 DEF IInv, Shape, At
<1>5. AllTold' /\ IndexKey'
  BY <1>1, SameTables
<1>6. KeysStored'
  <2>1. vaultKey # 0 => vaultKey \in 1..minted
    BY DEF IInv, TypeOK, KeysStored
  <2>2. q.at = "write" => q.key \in 1..minted
    BY <2>1
  <2> QED BY <1>1, <1>2, <2>2 DEF IInv, KeysStored, Active, At
<1> QED BY <1>3, <1>4, <1>5, <1>6 DEF IInv

\* _master_key stores a key: it is the last one made, and the request uses it.
LEMMA StoreKeyKeeps ==
  ASSUME IInv, NEW c \in Clients, StoreKey(c)
  PROVE  IInv'
<1> DEFINE q == [req[c] EXCEPT !.at = "write", !.key = minted + 1]
<1>1. /\ req' = [req EXCEPT ![c] = q] /\ q \in Request
      /\ vaultKey' = minted + 1 /\ minted' = minted + 1 /\ minted \in Nat
      /\ UNCHANGED <<session, row, old, blind, audit>>
  <2>1. minted \in Nat /\ minted + 1 \in Nat /\ req[c] \in Request
    BY DEF IInv, TypeOK
  <2>2. q \in Request
    BY <2>1 DEF Request, Steps
  <2> QED BY <2>1, <2>2 DEF StoreKey, tables
<1>2. /\ req'[c] = q /\ \A d \in Clients : d # c => req'[d] = req[d]
      /\ At(c, "first") /\ req[c].todo = {} /\ req[c].op # "retire"
  BY <1>1 DEF StoreKey, At, IInv, TypeOK, Shape
<1>3. /\ q.at = "write" /\ q.key = minted + 1 /\ q.todo = {}
      /\ q.op = req[c].op /\ q.rec = req[c].rec
  BY <1>2 DEF IInv, TypeOK, Request
<1>4. TypeOK'
  BY <1>1 DEF IInv, TypeOK
<1>5. Shape'
  BY <1>2, <1>3 DEF IInv, Shape, At
<1>6. AllTold' /\ IndexKey'
  BY <1>1, SameTables
<1>7. KeysStored'
  <2>1. 1..minted \subseteq 1..minted' /\ minted' \in 1..minted' /\ minted' # 0
    BY <1>1
  <2>2. \A d \in Clients : At(d, "write")' => req'[d].key \in 1..minted'
    BY <1>1, <1>2, <1>3, <2>1 DEF IInv, KeysStored, At
  <2>3. \A i \in 1..Len(audit) : audit[i].key \in 1..minted' /\ audit[i].previous = i - 1
    BY <2>1 DEF IInv, KeysStored
  <2>4. \A r \in Records : Active(r)' => row'[r].key \in 1..minted'
    BY <1>1, <2>1 DEF IInv, KeysStored, Active
  <2> QED BY <1>1, <2>1, <2>2, <2>3, <2>4 DEF KeysStored
<1> QED BY <1>4, <1>5, <1>6, <1>7 DEF IInv

\* A request that ends, or goes on with its plan, and leaves the tables alone.
LEMMA EntryDoneKeeps ==
  ASSUME IInv, NEW c \in Clients, EntryDone(c),
         UNCHANGED <<vaultKey, minted, session, tables>>
  PROVE  IInv'
<1>1. /\ req' \in [Clients -> Request]
      /\ \A d \in Clients : d # c => req'[d] = req[d]
      /\ req'[c].todo = req[c].todo
      /\ req'[c].at = IF req[c].todo = {} THEN "idle" ELSE "retain"
  BY EntryDoneGives DEF IInv
<1>2. TypeOK'
  BY <1>1 DEF tables, IInv, TypeOK
<1>3. Shape'
  BY <1>1 DEF IInv, Shape, At
<1>4. AllTold' /\ IndexKey'
  BY SameTables DEF tables
<1>5. KeysStored'
  BY <1>1 DEF tables, IInv, KeysStored, Active, At
<1> QED BY <1>2, <1>3, <1>4, <1>5 DEF IInv

\* A first use that is refused.
LEMMA StoreKeyFailsKeeps ==
  ASSUME IInv, NEW c \in Clients, StoreKeyFails(c)
  PROVE  IInv'
<1>1. req[c].todo = {}
  BY DEF StoreKeyFails, IInv, Shape, At
<1> QED BY <1>1, EntryDoneKeeps DEF StoreKeyFails, EntryDone

\* put: the row, its words and the last event of the chain are of one key and
\* one digest.
LEMMA CommitPutKeeps ==
  ASSUME IInv, NEW c \in Clients, CommitPut(c)
  PROVE  IInv'
<1> DEFINE r == req[c].rec
           w == [present |-> TRUE, deleted |-> FALSE, key |-> req[c].key,
                 digest |-> req[c].digest]
           e == [op |-> "put", rec |-> r, digest |-> req[c].digest,
                 key |-> req[c].key, previous |-> Len(audit)]
<1>1. /\ r \in Records /\ w \in Row /\ e \in Event /\ audit \in Seq(Event)
      /\ req[c].key \in Nat /\ req[c].digest \subseteq Words
  BY DEF IInv, TypeOK, Request, Row, Event
<1>2. /\ row' = [row EXCEPT ![r] = w] /\ old' = old \ {r}
      /\ blind' = [blind EXCEPT ![r] = {<<v, req[c].key>> : v \in req[c].digest}]
      /\ audit' = Append(audit, e)
      /\ UNCHANGED <<vaultKey, minted, session>>
  BY DEF CommitPut, IndexWords, AppendAudit
<1>3. /\ req' \in [Clients -> Request]
      /\ \A d \in Clients : d # c => req'[d] = req[d]
      /\ req'[c].todo = req[c].todo
      /\ req'[c].at = IF req[c].todo = {} THEN "idle" ELSE "retain"
      /\ At(c, "write") /\ req[c].op = "put" /\ req[c].todo = {}
  BY EntryDoneGives DEF IInv, CommitPut, Shape, At
<1>4. row'[r] = w /\ \A s \in Records : s # r => row'[s] = row[s]
  BY <1>1, <1>2 DEF IInv, TypeOK
<1>a. {<<v, req[c].key>> : v \in req[c].digest} \subseteq Token
  BY <1>1 DEF Token
<1>5. TypeOK'
  BY <1>1, <1>2, <1>3, <1>a DEF IInv, TypeOK
<1>6. Shape'
  BY <1>3 DEF IInv, Shape, At
<1>7. AllTold'
  <2> SUFFICES ASSUME NEW s \in Records PROVE Tells(audit', row'[s], s)
    BY DEF AllTold
  <2>1. CASE s = r
    BY <2>1, <1>1, <1>2, <1>4, AppendTellsOwn
  <2>2. CASE s # r
    <3>1. Tells(audit, row[s], s) /\ row[s] \in Row
      BY DEF IInv, AllTold, TypeOK
    <3> QED BY <2>2, <3>1, <1>1, <1>2, <1>4, AppendTellsOthers
  <2> QED BY <2>1, <2>2
<1>8. IndexKey'
  <2> SUFFICES ASSUME NEW s \in Records, Active(s)'
               PROVE  blind'[s] = {<<v, row'[s].key>> : v \in row'[s].digest}
    BY DEF IndexKey
  <2>1. CASE s = r
    <3>1. blind'[s] = {<<v, req[c].key>> : v \in req[c].digest}
      BY <2>1, <1>1, <1>2 DEF IInv, TypeOK
    <3>2. row'[s].key = req[c].key /\ row'[s].digest = req[c].digest
      BY <2>1, <1>4
    <3> QED BY <3>1, <3>2
  <2>2. CASE s # r
    <3>1. blind'[s] = blind[s] /\ row'[s] = row[s]
      BY <2>2, <1>2, <1>4 DEF IInv, TypeOK
    <3>2. Active(s)
      BY <3>1 DEF Active
    <3> QED BY <3>1, <3>2 DEF IInv, IndexKey
  <2> QED BY <2>1, <2>2
<1>9. KeysStored'
  <2>1. req[c].key \in 1..minted
    BY <1>3 DEF IInv, KeysStored
  <2>2. \A s \in Records : Active(s)' => row'[s].key \in 1..minted
    BY <2>1, <1>4 DEF IInv, KeysStored, Active
  <2>3. \A i \in 1..Len(audit') : audit'[i].key \in 1..minted' /\ audit'[i].previous = i - 1
    BY <1>1, <1>2, <1>3, AppendKeepsKeys
  <2>4. \A d \in Clients : At(d, "write")' => req'[d].key \in 1..minted
    BY <1>3 DEF IInv, KeysStored, At
  <2>5. \A d \in Clients : At(d, "retain")' \/ req'[d].todo # {} => minted # 0
    BY <1>3 DEF IInv, KeysStored, At
  <2> QED BY <2>2, <2>3, <2>4, <2>5, <1>2 DEF IInv, KeysStored
<1> QED BY <1>5, <1>6, <1>7, <1>8, <1>9 DEF IInv

\* delete, of a caller or of a retention: the row is marked and the chain says so.
LEMMA CommitDeleteKeeps ==
  ASSUME IInv, NEW c \in Clients, CommitDelete(c)
  PROVE  IInv'
<1> DEFINE r == req[c].rec
           w == [row[r] EXCEPT !.deleted = TRUE]
           e == [op |-> "delete", rec |-> r, digest |-> SomeContent,
                 key |-> req[c].key, previous |-> Len(audit)]
<1>0. CASE ~Active(r)
  BY <1>0, EntryDoneKeeps DEF CommitDelete
<1>a. CASE Active(r)
  <2>1. /\ r \in Records /\ row[r] \in Row /\ e \in Event /\ audit \in Seq(Event)
        /\ req[c].key \in Nat
    BY IdleType DEF IInv, TypeOK, Request, Event
  <2>2. w \in Row /\ w.present /\ w.deleted
    BY <1>a, <2>1 DEF Row, Active
  <2>3. /\ row' = [row EXCEPT ![r] = w] /\ old' = old \ {r}
        /\ blind' = [blind EXCEPT ![r] = {}]
        /\ audit' = Append(audit, e)
        /\ UNCHANGED <<vaultKey, minted, session>>
    <3>1. {<<v, req[c].key>> : v \in {}} = {}
      OBVIOUS
    <3> QED BY <1>a, <3>1 DEF CommitDelete, IndexWords, AppendAudit
  <2>4. /\ req' \in [Clients -> Request]
        /\ \A d \in Clients : d # c => req'[d] = req[d]
        /\ req'[c].todo = req[c].todo
        /\ req'[c].at = IF req[c].todo = {} THEN "idle" ELSE "retain"
        /\ At(c, "write")
    BY EntryDoneGives DEF IInv, CommitDelete
  <2>5. row'[r] = w /\ \A s \in Records : s # r => row'[s] = row[s]
    BY <2>1, <2>3 DEF IInv, TypeOK
  <2>6. TypeOK'
    BY <2>1, <2>2, <2>3, <2>4 DEF IInv, TypeOK
  <2>7. Shape'
    BY <2>4 DEF IInv, Shape, At
  <2>8. AllTold'
    <3> SUFFICES ASSUME NEW s \in Records PROVE Tells(audit', row'[s], s)
      BY DEF AllTold
    <3>1. CASE s = r
      <4>1. Tells(Append(audit, e), w, e.rec)
        BY <2>1, <2>2, AppendTellsOwn
      <4> QED BY <3>1, <4>1, <2>3, <2>5
    <3>2. CASE s # r
      <4>1. Tells(audit, row[s], s) /\ row[s] \in Row
        BY DEF IInv, AllTold, TypeOK
      <4> QED BY <3>2, <4>1, <2>1, <2>3, <2>5, AppendTellsOthers
    <3> QED BY <3>1, <3>2
  <2>9. IndexKey'
    BY <2>1, <2>2, <2>3, <2>5 DEF IInv, TypeOK, IndexKey, Active
  <2>10. KeysStored'
    <3>1. \A s \in Records : Active(s)' => row'[s].key \in 1..minted
      BY <2>2, <2>5 DEF IInv, KeysStored, Active
    <3>2. \A i \in 1..Len(audit') :
            audit'[i].key \in 1..minted' /\ audit'[i].previous = i - 1
      BY <2>1, <2>3, <2>4, AppendKeepsKeys
    <3>3. \A d \in Clients : At(d, "write")' => req'[d].key \in 1..minted
      BY <2>4 DEF IInv, KeysStored, At
    <3>4. \A d \in Clients : At(d, "retain")' \/ req'[d].todo # {} => minted # 0
      BY <2>4 DEF IInv, KeysStored, At
    <3> QED BY <3>1, <3>2, <3>3, <3>4, <2>3 DEF IInv, KeysStored
  <2> QED BY <2>6, <2>7, <2>8, <2>9, <2>10 DEF IInv
<1> QED BY <1>0, <1>a

\* A plan takes the candidates.
LEMMA PlanKeeps ==
  ASSUME IInv, NEW c \in Clients, Plan(c)
  PROVE  IInv'
<1> DEFINE q == [Idle EXCEPT !.at = "retain", !.todo = Candidates]
<1>1. q \in Request /\ q.at = "retain" /\ q.todo = Candidates
  BY IdleType DEF Request, Steps, Candidates
<1>2. /\ req' = [req EXCEPT ![c] = q]
      /\ UNCHANGED <<vaultKey, minted, session, row, old, blind, audit>>
  BY DEF Plan, tables
<1>3. /\ req'[c] = q /\ \A d \in Clients : d # c => req'[d] = req[d]
      /\ Candidates' = Candidates
  BY <1>2 DEF IInv, TypeOK, Candidates, Active
<1>4. TypeOK'
  BY <1>1, <1>2 DEF IInv, TypeOK
<1>5. Shape'
  BY <1>1, <1>3 DEF IInv, Shape, At
<1>6. AllTold' /\ IndexKey'
  BY <1>2, SameTables
<1>7. KeysStored'
  <2>1. PICK r \in Candidates : TRUE
    BY DEF Plan
  <2>2. minted # 0
    BY <2>1 DEF Candidates, IInv, TypeOK, KeysStored
  <2> QED BY <1>1, <1>2, <1>3, <2>2 DEF IInv, KeysStored, Active, At
<1> QED BY <1>4, <1>5, <1>6, <1>7 DEF IInv

\* The next candidate of a plan: it is taken out of what is left to do.
LEMMA RetireKeeps ==
  ASSUME IInv, NEW c \in Clients, Retire(c)
  PROVE  IInv'
<1>1. PICK r \in req[c].todo :
        req' = [req EXCEPT ![c] =
          IF session
          THEN [Idle EXCEPT !.at = "write", !.op = "retire", !.rec = r,
                            !.key = vaultKey, !.todo = req[c].todo \ {r}]
          ELSE IF req[c].todo \ {r} = {} THEN Idle
               ELSE [req[c] EXCEPT !.todo = req[c].todo \ {r}]]
  BY DEF Retire
<1> DEFINE rest == req[c].todo \ {r}
<1>2. /\ At(c, "retain") /\ req[c] \in Request /\ r \in Records /\ rest \subseteq Records
      /\ vaultKey \in Nat
  BY DEF Retire, IInv, TypeOK, Request
<1>3. UNCHANGED <<vaultKey, minted, session, row, old, blind, audit>>
  BY DEF Retire, tables
<1>4. /\ req' \in [Clients -> Request]
      /\ \A d \in Clients : d # c => req'[d] = req[d]
      /\ \/ /\ At(c, "write")' /\ req'[c].op = "retire" /\ req'[c].rec = r
            /\ req'[c].key = vaultKey /\ req'[c].todo = rest
         \/ At(c, "idle")' /\ req'[c].todo = {} /\ rest = {}
         \/ At(c, "retain")' /\ req'[c].todo = rest
  <2>1. CASE session
    <3> DEFINE q == [Idle EXCEPT !.at = "write", !.op = "retire", !.rec = r,
                                 !.key = vaultKey, !.todo = rest]
    <3>1. /\ q \in Request /\ q.at = "write" /\ q.op = "retire" /\ q.rec = r
          /\ q.key = vaultKey /\ q.todo = rest
      BY <1>2, IdleType DEF Request, Steps, Operations
    <3>2. req' = [req EXCEPT ![c] = q]
      BY <1>1, <2>1
    <3> QED BY <3>1, <3>2 DEF IInv, TypeOK, At
  <2>2. CASE ~session /\ rest = {}
    <3>1. req' = [req EXCEPT ![c] = Idle]
      BY <1>1, <2>2
    <3> QED BY <3>1, <2>2, IdleType DEF IInv, TypeOK, At, Idle
  <2>3. CASE ~session /\ rest # {}
    <3> DEFINE q == [req[c] EXCEPT !.todo = rest]
    <3>1. q \in Request /\ q.at = "retain" /\ q.todo = rest
      BY <1>2 DEF Request, At
    <3>2. req' = [req EXCEPT ![c] = q]
      BY <1>1, <2>3
    <3> QED BY <3>1, <3>2 DEF IInv, TypeOK, At
  <2> QED BY <2>1, <2>2, <2>3
<1>5. TypeOK'
  BY <1>3, <1>4 DEF IInv, TypeOK
<1>6. Shape'
  BY <1>4 DEF IInv, Shape, At
<1>7. AllTold' /\ IndexKey'
  BY <1>3, SameTables
<1>8. KeysStored'
  <2>1. vaultKey \in 1..minted
    BY <1>2 DEF IInv, TypeOK, KeysStored
  <2> QED BY <2>1, <1>3, <1>4 DEF IInv, KeysStored, Active, At
<1> QED BY <1>5, <1>6, <1>7, <1>8 DEF IInv

\* Time, the session and a restart: no table changes but the ages.
LEMMA EnvironmentKeeps ==
  ASSUME IInv, (\E r \in Records : Expire(r)) \/ LockOrUnlock \/ Restart
  PROVE  IInv'
<1>1. CASE \E r \in Records : Expire(r)
  <2>1. PICK r \in Records : Expire(r)
    BY <1>1
  <2>2. /\ UNCHANGED <<vaultKey, minted, session, row, blind, audit, req>>
        /\ old' = old \cup {r}
    BY <2>1 DEF Expire
  <2>5. KeysStored'
    BY <2>2 DEF IInv, KeysStored, Active, At
  <2> QED BY <2>2, <2>5, SameTables DEF IInv, TypeOK, Shape, At
<1>2. CASE LockOrUnlock
  <2>1. /\ UNCHANGED <<vaultKey, minted, row, old, blind, audit, req>>
        /\ session' \in BOOLEAN
    BY <1>2 DEF LockOrUnlock, tables, IInv, TypeOK
  <2>2. KeysStored'
    BY <2>1 DEF IInv, KeysStored, Active, At
  <2> QED BY <2>1, <2>2, SameTables DEF IInv, TypeOK, Shape, At
<1>3. CASE Restart
  <2>1. /\ UNCHANGED <<vaultKey, minted, row, old, blind, audit>>
        /\ session' \in BOOLEAN /\ req' = [c \in Clients |-> Idle]
    BY <1>3 DEF Restart, tables
  <2>2. \A c \in Clients : req'[c].at = "idle" /\ req'[c].todo = {}
    BY <2>1 DEF Idle
  <2>3. KeysStored' /\ Shape'
    BY <2>1, <2>2 DEF IInv, KeysStored, Active, At, Shape
  <2> QED BY <2>1, <2>3, SameTables, IdleType DEF IInv, TypeOK
<1> QED BY <1>1, <1>2, <1>3

\* Every step of the store preserves the invariant.
LEMMA NextKeeps == IInv /\ [Next]_vars => IInv'
<1> SUFFICES ASSUME IInv, [Next]_vars PROVE IInv'
  OBVIOUS
<1>1. CASE UNCHANGED vars
  <2>1. UNCHANGED <<vaultKey, minted, session, row, old, blind, audit, req>>
    BY <1>1 DEF vars, tables
  <2>2. TypeOK' /\ Shape'
    BY <2>1 DEF IInv, TypeOK, Shape, At
  <2>3. KeysStored'
    BY <2>1 DEF IInv, KeysStored, Active, At
  <2> QED BY <2>1, <2>2, <2>3, SameTables DEF IInv
<1>2. ASSUME NEW c \in Clients,
             \/ StoreKey(c) \/ StoreKeyFails(c)
             \/ CommitPut(c) \/ CommitDelete(c) \/ CommitFails(c)
             \/ Plan(c) \/ Retire(c)
      PROVE  IInv'
  BY <1>2, StoreKeyKeeps, StoreKeyFailsKeeps, CommitPutKeeps, CommitDeleteKeeps,
     EntryDoneKeeps, PlanKeeps, RetireKeeps DEF CommitFails
<1>3. ASSUME NEW c \in Clients, NEW r \in Records,
             \/ \E x \in Contents : Begin(c, "put", r, x)
             \/ Begin(c, "delete", r, SomeContent)
      PROVE  IInv'
  BY <1>3, BeginKeeps, IdleType
<1> QED BY <1>1, <1>2, <1>3, EnvironmentKeeps DEF Next

-----------------------------------------------------------------------------
(* Theorems about every behaviour of the store. *)

\* The strengthened invariant holds in every state of every behaviour.
THEOREM StoreInvariant == Spec => []IInv
  BY InitIInv, NextKeeps, PTL DEF Spec

\* The state stays what the tables, the vault and the requests can hold.
THEOREM TypeCorrect == Spec => []TypeOK
<1>1. IInv => TypeOK
  BY DEF IInv
<1> QED BY <1>1, StoreInvariant, PTL

\* verify_integrity reports a healthy store whatever requests, failures, locks and
\* restarts came before, as long as no second master key was stored over the first.
THEOREM StoreVerifies == Spec => []IntegrityHolds
<1>1. IInv => IntegrityHolds
  <2> SUFFICES ASSUME IInv, minted <= 1 PROVE Healthy
    BY DEF IntegrityHolds
  <2>1. \A k \in 1..minted : k = vaultKey
    BY DEF IInv, TypeOK, KeysStored
  <2> QED BY <2>1 DEF IInv, KeysStored, Healthy, Readable
<1> QED BY <1>1, StoreInvariant, PTL

\* The chain tells of every record whether it is there and with which contents,
\* overlapping requests included.
THEOREM ChainTells == Spec => []AuditTellsRecords
<1>1. IInv => AuditTellsRecords
  BY DEF IInv, AllTold, Tells, AuditTellsRecords, EventsOf, Active
<1> QED BY <1>1, StoreInvariant, PTL

\* A search for a word hits the records it can decrypt that contain the word, and no
\* others, whatever versions were stored, deleted and overwritten before.
THEOREM SearchIsExact == Spec => []SearchExact
<1>1. IInv => SearchExact
  <2> SUFFICES ASSUME IInv, NEW w \in Words, NEW r \in Records
               PROVE  Hit(w, r) <=> Readable(r) /\ w \in row[r].digest
    BY DEF SearchExact
  <2>1. ASSUME Active(r)
        PROVE  <<w, vaultKey>> \in blind[r] <=> row[r].key = vaultKey /\ w \in row[r].digest
    <3>1. blind[r] = {<<v, row[r].key>> : v \in row[r].digest}
      BY <2>1 DEF IInv, IndexKey
    <3> QED BY <3>1
  <2> QED BY <2>1 DEF Hit, Readable
<1> QED BY <1>1, StoreInvariant, PTL
=============================================================================
