-------------------------------- MODULE Vault --------------------------------
(***************************************************************************)
(* The encrypted vault of sidecar/cyberforge_sidecar/vault.py: the header, *)
(* device key, keyring and record files on disk, the unwrapped keyring and *)
(* the sessions in memory, and the requests of several threads, which take *)
(* the vault's RLock one operation at a time.                              *)
(*                                                                         *)
(* An operation that replaces several files is one action per file, so     *)
(* that a crash or a failing write can fall between two of them.  A data   *)
(* key is its material, a number never used twice; an envelope remembers   *)
(* the key id it names and the material that sealed it, and opens only if  *)
(* the ring at hand maps that id to that material (AES-GCM authenticates). *)
(***************************************************************************)
EXTENDS Naturals

CONSTANTS
  Clients,    \* threads that call the vault
  NoClient,   \* the RLock is free
  Labels,     \* record labels ("provider:xai", "json:<namespace>:<key>")
  Values,     \* secrets
  NoValue,    \* the value of a label that has no record
  Unreadable, \* what a label yields when its record does not open
  Tokens,     \* session tokens
  MaxKey      \* bound: data keys minted in a behaviour

ASSUME VaultAssumption ==
  /\ NoClient \notin Clients
  /\ NoValue \notin Values
  /\ Unreadable \notin Values \cup {NoValue}
  /\ Labels # {}
  /\ MaxKey \in Nat \ {0}

VARIABLES
  header,     \* vault.header.json is on disk (the wrapped root key)
  deviceKey,  \* device-unlock.key is on disk
  keyring,    \* vault.keyring.json, NoRing while the file does not exist
  records,    \* vault.records.json
  ring,       \* the data keys in memory, NoRing while the vault is locked
  sessions,   \* the live session tokens
  owner,      \* the client inside an operation that holds the RLock
  req,        \* what each client is doing
  minted,     \* data keys generated so far
  torn        \* history: the multi-file updates a crash or failed write cut

disk == <<header, deviceKey, keyring, records>>
memory == <<ring, sessions, owner, req>>
vars == <<disk, memory, minted, torn>>

-----------------------------------------------------------------------------
KeyIds == 1..MaxKey
Ring == [keys : [KeyIds -> 0..MaxKey], active : 0..MaxKey]
NoRing == [keys |-> [i \in KeyIds |-> 0], active |-> 0]

Envelope == [keyId : 0..MaxKey, key : 0..MaxKey, value : Values \cup {NoValue}]
NoEnvelope == [keyId |-> 0, key |-> 0, value |-> NoValue]

\* The ring that holds the one key k under the id i.
OneKey(i, k) == [keys |-> [j \in KeyIds |-> IF j = i THEN k ELSE 0], active |-> i]

\* Mutant: an envelope that does not tell which key sealed it.
SealAnonymously(r, v) == [keyId |-> r.active, value |-> v]

Seal(r, v) == [keyId |-> r.active, key |-> r.keys[r.active], value |-> v]

Opens(e, r) == e.keyId \in KeyIds /\ e.key # 0 /\ r.keys[e.keyId] = e.key

\* Every record of the file decrypts under the ring r.
AllOpen(r) == \A l \in Labels : records[l] # NoEnvelope => Opens(records[l], r)

\* i is max(data_keys) + 1.
IsNextId(i, r) ==
  /\ \A j \in KeyIds : r.keys[j] # 0 => j < i
  /\ i = 1 \/ r.keys[i - 1] # 0

Unlocked == ring # NoRing

Free == owner = NoClient

\* The steps at which an operation is between two of its file writes.
Holding == {"header", "device", "keyring", "rotating"}

Steps == {"idle", "set", "delete", "rotate"} \cup Holding

Request == [at : Steps, label : Labels, value : Values \cup {NoValue}]

Idle == [at |-> "idle", label |-> CHOOSE l \in Labels : TRUE, value |-> NoValue]

TypeOK ==
  /\ header \in BOOLEAN /\ deviceKey \in BOOLEAN
  /\ keyring \in Ring /\ ring \in Ring
  /\ records \in [Labels -> Envelope]
  /\ sessions \subseteq Tokens
  /\ owner \in Clients \cup {NoClient}
  /\ req \in [Clients -> Request]
  /\ minted \in 0..MaxKey
  /\ torn \subseteq {"create", "key", "rotate"}

Init ==
  /\ header = FALSE /\ deviceKey = FALSE
  /\ keyring = NoRing /\ ring = NoRing
  /\ records = [l \in Labels |-> NoEnvelope]
  /\ sessions = {}
  /\ owner = NoClient
  /\ req = [c \in Clients |-> Idle]
  /\ minted = 0
  /\ torn = {}

-----------------------------------------------------------------------------
At(c, step) == req[c].at = step
Goto(c, step) == req' = [req EXCEPT ![c].at = step]
Done(c) == req' = [req EXCEPT ![c] = Idle]

\* A multi-file operation ends.
Release(c) == Done(c) /\ owner' = NoClient

\* Mutant: the keyring is never written.
PersistNothing == UNCHANGED keyring

PersistKeyring == keyring' = ring'

\* create(): four files in order, the RLock held throughout.
CreateHeader(c) ==
  /\ Free /\ At(c, "idle") /\ ~header
  /\ header' = TRUE
  /\ owner' = c /\ Goto(c, "header")
  /\ UNCHANGED <<deviceKey, keyring, records, ring, sessions, minted, torn>>

CreateDeviceKey(c) ==
  /\ At(c, "header")
  /\ deviceKey' = TRUE
  /\ Goto(c, "device")
  /\ UNCHANGED <<header, keyring, records, ring, sessions, owner, minted, torn>>

CreateKeyring(c) ==
  /\ At(c, "device") /\ minted < MaxKey
  /\ minted' = minted + 1
  /\ ring' = OneKey(1, minted + 1)
  /\ PersistKeyring
  /\ Goto(c, "keyring")
  /\ UNCHANGED <<header, deviceKey, records, sessions, owner, torn>>

CreateRecords(c, t) ==
  /\ At(c, "keyring") /\ t \notin sessions
  /\ records' = [l \in Labels |-> NoEnvelope]
  /\ sessions' = sessions \cup {t}
  /\ Release(c)
  /\ UNCHANGED <<header, deviceKey, keyring, ring, minted, torn>>

\* Mutant: the session is handed out before the keyring has been read.
InstallUnread(t) ==
  /\ ring' = keyring
  /\ sessions' = {t}

\* _install_root_key() and _new_session(): lock() first, which forgets every
\* session; a keyring that cannot be read leaves the vault locked.
InstallRootKey(t) ==
  /\ ring' = keyring
  /\ sessions' = IF keyring = NoRing THEN {} ELSE {t}

Unlock(c, t) ==
  /\ Free /\ At(c, "idle") /\ header
  /\ InstallRootKey(t)
  /\ UNCHANGED <<disk, owner, req, minted, torn>>

UnlockWithDeviceKey(c, t) ==
  /\ Free /\ At(c, "idle") /\ header /\ deviceKey
  /\ InstallRootKey(t)
  /\ UNCHANGED <<disk, owner, req, minted, torn>>

Lock(c) ==
  /\ Free /\ At(c, "idle") /\ sessions # {}
  /\ ring' = NoRing
  /\ sessions' = {}
  /\ UNCHANGED <<disk, owner, req, minted, torn>>

\* A session's sliding time-to-live runs out.
Expire(t) ==
  /\ t \in sessions
  /\ sessions' = sessions \ {t}
  /\ UNCHANGED <<disk, ring, owner, req, minted, torn>>

-----------------------------------------------------------------------------
\* validate_session() releases the RLock before the operation takes it again.
Validated(c, step, l, v) ==
  /\ Free /\ At(c, "idle") /\ sessions # {}
  /\ req' = [req EXCEPT ![c] = [at |-> step, label |-> l, value |-> v]]
  /\ UNCHANGED <<disk, ring, sessions, owner, minted, torn>>

BeginSet(c, l, v) == Validated(c, "set", l, v)
BeginDelete(c, l) == Validated(c, "delete", l, NoValue)
BeginRotate(c) == Validated(c, "rotate", req[c].label, NoValue)

\* _record_id() raises when the vault was locked in between, or the records file
\* cannot be written.
Refused(c) ==
  /\ Free
  /\ req[c].at \in {"set", "delete"} \/ (~Unlocked /\ At(c, "rotate"))
  /\ Done(c)
  /\ UNCHANGED <<disk, ring, sessions, owner, minted, torn>>

WriteRecord(c) ==
  /\ Free /\ Unlocked /\ At(c, "set")
  /\ records' = [records EXCEPT ![req[c].label] = Seal(ring, req[c].value)]
  /\ Done(c)
  /\ UNCHANGED <<header, deviceKey, keyring, ring, sessions, owner, minted, torn>>

\* Mutant: the keys are not needed to delete.
DeleteWithoutKeys(c) ==
  /\ Free /\ At(c, "delete")
  /\ records' = [records EXCEPT ![req[c].label] = NoEnvelope]
  /\ Done(c)
  /\ UNCHANGED <<header, deviceKey, keyring, ring, sessions, owner, minted, torn>>

DeleteRecord(c) ==
  /\ Free /\ Unlocked /\ At(c, "delete")
  /\ records' = [records EXCEPT ![req[c].label] = NoEnvelope]
  /\ Done(c)
  /\ UNCHANGED <<header, deviceKey, keyring, ring, sessions, owner, minted, torn>>

\* The new key is added and made active in memory before anything is read.
NewKey(i) ==
  /\ minted < MaxKey /\ IsNextId(i, ring)
  /\ minted' = minted + 1
  /\ ring' = [keys |-> [ring.keys EXCEPT ![i] = minted + 1], active |-> i]

\* Mutant: the records stay under the keys they had.
ResealNothing(r) == UNCHANGED records

\* Every record is encrypted anew under the ring r.
Reseal(r) ==
  records' = [l \in Labels |-> IF records[l] = NoEnvelope THEN NoEnvelope
                                ELSE Seal(r, records[l].value)]

\* rotate_data_key(), up to the replacement of the records file.
RotateRecords(c, i) ==
  /\ Free /\ Unlocked /\ At(c, "rotate")
  /\ NewKey(i)
  /\ AllOpen(ring')
  /\ Reseal(ring')
  /\ owner' = c /\ Goto(c, "rotating")
  /\ UNCHANGED <<header, deviceKey, keyring, sessions, torn>>

\* A record does not open, or the records file cannot be written: the exception
\* leaves the new key active in memory, and on disk nowhere.
RotateFails(c, i) ==
  /\ Free /\ Unlocked /\ At(c, "rotate")
  /\ NewKey(i)
  /\ torn' = torn \cup {"key"}
  /\ Done(c)
  /\ UNCHANGED <<disk, sessions, owner>>

\* The old keys are dropped in memory.
DropOldKeys == ring' = OneKey(ring.active, ring.keys[ring.active])

RotateKeyring(c) ==
  /\ At(c, "rotating")
  /\ DropOldKeys
  /\ PersistKeyring
  /\ Release(c)
  /\ UNCHANGED <<header, deviceKey, records, sessions, minted, torn>>

-----------------------------------------------------------------------------
\* The update a client that holds the RLock would leave half done.
Cut(c) ==
  IF req[c].at \in {"header", "device"} THEN {"create"}
  ELSE IF At(c, "rotating") THEN {"rotate"} ELSE {}

\* The next file write of a multi-file operation raises OSError: the exception
\* leaves the operation with what it has already done in memory.
WriteFails(c) ==
  /\ req[c].at \in Holding
  /\ \/ req[c].at \in {"header", "keyring"} /\ UNCHANGED <<ring, minted>>
     \/ /\ At(c, "device") /\ minted < MaxKey
        /\ minted' = minted + 1
        /\ ring' = OneKey(1, minted + 1)
     \/ At(c, "rotating") /\ DropOldKeys /\ UNCHANGED minted
  /\ torn' = torn \cup Cut(c)
  /\ Release(c)
  /\ UNCHANGED <<disk, sessions>>

\* The process dies, or shuts down through lock(), and is started again.
Crash ==
  /\ ring' = NoRing
  /\ sessions' = {}
  /\ owner' = NoClient
  /\ req' = [c \in Clients |-> Idle]
  /\ torn' = torn \cup UNION {Cut(c) : c \in Clients}
  /\ UNCHANGED <<disk, minted>>

Advance(c) ==
  \/ CreateDeviceKey(c) \/ CreateKeyring(c) \/ RotateKeyring(c)
  \/ \E t \in Tokens : CreateRecords(c, t)

Next ==
  \/ \E c \in Clients :
       \/ CreateHeader(c) \/ Advance(c) \/ WriteFails(c) \/ Lock(c)
       \/ \E t \in Tokens : Unlock(c, t) \/ UnlockWithDeviceKey(c, t)
       \/ \E l \in Labels : BeginDelete(c, l) \/ \E v \in Values : BeginSet(c, l, v)
       \/ BeginRotate(c) \/ Refused(c) \/ WriteRecord(c) \/ DeleteRecord(c)
       \/ \E i \in KeyIds : RotateRecords(c, i) \/ RotateFails(c, i)
  \/ \E t \in Tokens : Expire(t)
  \/ Crash

Spec == Init /\ [][Next]_vars

-----------------------------------------------------------------------------
(* What the vault promises.  torn remembers that a rotation was cut between    *)
(* its two file writes ("rotate"), or failed before the first ("key").         *)

RotationIntact == torn \cap {"key", "rotate"} = {}

\* At rest, the keyring on disk opens every record on disk, and each is under
\* the keyring's active key, so that dropping the older keys loses nothing:
\* whatever the interleaving of set_secret, delete_secret, rotate_data_key,
\* lock, unlock, expiry, crashes and failed writes, as long as none of these
\* cuts a rotation.
RecordsOpenable ==
  RotationIntact /\ Free =>
    \A l \in Labels : records[l] # NoEnvelope =>
      Opens(records[l], keyring) /\ records[l].keyId = keyring.active

\* An unlocked vault works with the keyring that is on disk: what it writes now
\* can be read after the next unlock.  (Except in the memory of a process whose
\* create() or rotation failed, which has keys that were never written.)
MemoryMatchesDisk ==
  torn = {} /\ Free /\ Unlocked => ring = keyring

\* A vault file set that create() left on disk can be opened by its password and
\* by its device key, unless create() itself was cut before the keyring was
\* written: then unlock fails and create refuses, for ever.
VaultOpens ==
  header /\ Free /\ "create" \notin torn => keyring # NoRing /\ deviceKey

\* Live sessions and keys come and go together: no token outlives lock(), a
\* failed unlock or a restart, although requests are still in flight.
SessionsNeedKeys == sessions # {} => Unlocked

\* A request that was validated before another thread's lock() changes nothing
\* on disk once the keys are gone.
NoWriteWhileLocked == [][records' # records => Unlocked]_vars

\* What docs/CRYPTOGRAPHY.md says of rotate_data_key: "Data-key rotation decrypts
\* and re-encrypts records transactionally under a new active key."  At rest the
\* keyring opens the records, although a rotation was cut between its files.
RotationTransactional == Free /\ "key" \notin torn => AllOpen(keyring)

\* The abstract vault: a map from labels to secrets, changed by nothing but the
\* set and delete requests made of it; lock, unlock, expiry, crash, restart and
\* rotation leave it alone.  It is lost only when a rotation is cut.
CurrentRing == IF \E c \in Clients : At(c, "rotating") THEN ring ELSE keyring

Secret(l) ==
  IF records[l] = NoEnvelope THEN NoValue
  ELSE IF Opens(records[l], CurrentRing) THEN records[l].value ELSE Unreadable

Secrets == [l \in Labels |-> IF RotationIntact THEN Secret(l) ELSE NoValue]

Pending == [c \in Clients |-> IF req[c].at \in {"set", "delete"} THEN req[c] ELSE Idle]

Store == INSTANCE SecretStore WITH
           secrets <- Secrets, pending <- Pending, lost <- ~RotationIntact

RefinesSecretStore == Store!Spec
=============================================================================
