----------------------------- MODULE VaultProofs -----------------------------
(***************************************************************************)
(* Proofs about Vault, for every set of clients, labels, values and tokens *)
(* and every number of keys.                                               *)
(***************************************************************************)
EXTENDS Vault, TLAPS

Rotating == \E c \in Clients : At(c, "rotating")

\* The RLock is held by the one client that is inside a multi-file operation.
OwnerInside == \A c \in Clients : owner = c <=> req[c].at \in Holding

\* The active key of a ring is one of its keys.
ActiveIsKey(r) == r # NoRing => r.active \in KeyIds /\ r.keys[r.active] # 0

NoRecords == records = [l \in Labels |-> NoEnvelope]

\* Nothing precedes the header; create() alone works between it and the keyring.
Creation ==
  /\ ~header => ring = NoRing /\ keyring = NoRing /\ "create" \notin torn
  /\ keyring = NoRing =>
       /\ NoRecords /\ sessions = {}
       /\ \A c \in Clients : req[c].at \in {"idle", "header", "device"}
  /\ \A c \in Clients :
       /\ req[c].at \in {"header", "device"} =>
            header /\ keyring = NoRing /\ ring = NoRing
       /\ At(c, "device") => deviceKey
       /\ At(c, "keyring") => NoRecords /\ ring = keyring
  /\ \/ ~header \/ "create" \in torn
     \/ \E c \in Clients : req[c].at \in {"header", "device"}
     \/ keyring # NoRing /\ deviceKey

\* The records are sealed with the active key of the ring that is current.
SealedWith(r) ==
  \A l \in Labels : records[l] # NoEnvelope =>
    Opens(records[l], r) /\ records[l].keyId = r.active

Sealed ==
  RotationIntact =>
    /\ Rotating => SealedWith(ring)
    /\ ~Rotating => SealedWith(keyring)
    /\ ~Rotating /\ keyring # NoRing /\ Unlocked => ring = keyring

RotatingUnlocked == Rotating => Unlocked

IInv ==
  /\ TypeOK
  /\ OwnerInside
  /\ ActiveIsKey(ring) /\ ActiveIsKey(keyring)
  /\ Creation
  /\ SessionsNeedKeys
  /\ RotatingUnlocked
  /\ Sealed

USE VaultAssumption

-----------------------------------------------------------------------------
(* Lemmas about the operators of Vault. *)

\* The absent keyring and the absent record are values of their types.
LEMMA NoneType == NoRing \in Ring /\ NoEnvelope \in Envelope
  BY DEF NoRing, Ring, NoEnvelope, Envelope

\* A ring with one key is a ring whose active key is that key.
LEMMA OneKeyType ==
  ASSUME NEW i \in KeyIds, NEW k \in 1..MaxKey
  PROVE  OneKey(i, k) \in Ring /\ OneKey(i, k) # NoRing /\ ActiveIsKey(OneKey(i,
      k))
  BY DEF OneKey, Ring, NoRing, KeyIds, ActiveIsKey

\* What _encrypt_record seals, _decrypt_record opens with the same ring.
LEMMA SealOpens ==
  ASSUME NEW r \in Ring, r # NoRing, ActiveIsKey(r), NEW v \in Values \cup
         {NoValue}
  PROVE  /\ Seal(r, v) \in Envelope
         /\ Seal(r, v) # NoEnvelope
         /\ Opens(Seal(r, v), r) /\ Seal(r, v).keyId = r.active
  BY DEF Seal, Ring, ActiveIsKey, Envelope, NoEnvelope, Opens

\* The key a rotation adds takes an id that no key has: what opened before opens
\* still.
LEMMA NewKeyKeeps ==
  ASSUME ring \in Ring, minted \in 0..MaxKey, NEW i \in KeyIds, NewKey(i)
  PROVE  /\ ring' \in Ring /\ ring' # NoRing /\ ActiveIsKey(ring')
         /\ minted' \in 0..MaxKey
         /\ \A e \in Envelope : Opens(e, ring) => Opens(e, ring')
  <1>1. ring.keys[i] = 0
    BY DEF NewKey, IsNextId, KeyIds
  <1>2. ring' \in Ring /\ ring' # NoRing /\ ActiveIsKey(ring')
    BY DEF NewKey, Ring, NoRing, KeyIds, ActiveIsKey
  <1>3. minted' \in 0..MaxKey
    BY DEF NewKey
  <1>4. ASSUME NEW e \in Envelope, Opens(e, ring) PROVE Opens(e, ring')
    BY <1>1, <1>4 DEF NewKey, Opens, Ring, Envelope
  <1> QED BY <1>2, <1>3, <1>4

\* A request record stays one.
LEMMA RequestType ==
  ASSUME req \in [Clients -> Request], NEW c \in Clients, NEW step \in Steps,
         Goto(c, step) \/ Done(c)
  PROVE  req' \in [Clients -> Request]
  <1>1. CASE Goto(c, step)
    <2>1. [req[c] EXCEPT !.at = step] \in Request
      BY DEF Request
    <2>2. req' = [req EXCEPT ![c] = [req[c] EXCEPT !.at = step]]
      BY <1>1 DEF Goto
    <2> QED BY <2>1, <2>2
  <1>2. CASE Done(c)
    BY <1>2 DEF Done, Idle, Request, Steps
  <1> QED BY <1>1, <1>2

-----------------------------------------------------------------------------
(* The invariant is inductive. *)

\* The initial state, no vault file and no keys, satisfies the invariant.
LEMMA InitIInv == Init => IInv
<1> SUFFICES ASSUME Init PROVE IInv
  OBVIOUS
<1> USE DEF Init
<1>1. Idle \in Request /\ Idle.at = "idle"
  BY DEF Idle, Request, Steps
<1>2. \A c \in Clients : req[c] = Idle
  OBVIOUS
<1>3. TypeOK
  <2>1. req \in [Clients -> Request]
    BY <1>1
  <2>2. records \in [Labels -> Envelope]
    BY NoneType
  <2>3. minted \in 0..MaxKey
    OBVIOUS
  <2> QED BY <2>1, <2>2, <2>3, NoneType DEF TypeOK
<1>4. OwnerInside
  BY <1>1, <1>2 DEF OwnerInside, Holding
<1>5. ActiveIsKey(ring) /\ ActiveIsKey(keyring)
  BY DEF ActiveIsKey
<1>6. Creation
  BY <1>1, <1>2 DEF Creation, NoRecords, At
<1>7. SessionsNeedKeys
  BY DEF SessionsNeedKeys
<1>8. ~Rotating
  BY <1>1, <1>2 DEF Rotating, At
<1>9. Sealed
  BY <1>8 DEF Sealed, SealedWith
<1> QED BY <1>3, <1>4, <1>5, <1>6, <1>7, <1>8, <1>9 DEF IInv, RotatingUnlocked

\* create() writing the header, its first file, preserves the invariant.
LEMMA CreateHeaderKeeps ==
  ASSUME IInv, NEW c \in Clients, CreateHeader(c)
  PROVE  IInv'
<1> USE DEF IInv, CreateHeader, At, Goto, Done, Idle, Steps, Holding, Free
<1>1. TypeOK'
  BY NoneType, RequestType DEF TypeOK
<1>2. OwnerInside'
  BY DEF TypeOK, Request, OwnerInside
<1>3. (ActiveIsKey(ring) /\ ActiveIsKey(keyring))'
  BY DEF TypeOK, ActiveIsKey, Ring, NoRing, KeyIds, OwnerInside,
      RotatingUnlocked, Rotating
<1>4. Creation'
  BY DEF TypeOK, Request, Creation, NoRecords, OwnerInside, SessionsNeedKeys,
      Unlocked, NoRing, NoEnvelope, KeyIds
<1>5. SessionsNeedKeys'
  BY DEF TypeOK, Request, SessionsNeedKeys, Unlocked, NoRing, Creation,
      OwnerInside, KeyIds, RotatingUnlocked, Rotating
<1>6. RotatingUnlocked'
  BY DEF TypeOK, Request, RotatingUnlocked, Rotating, Unlocked, OwnerInside,
      NoRing, KeyIds
<1>7. Sealed'
  BY DEF TypeOK, Request, Sealed, SealedWith, Rotating, RotationIntact,
      OwnerInside, Opens, Ring, NoRing, Envelope, NoEnvelope, KeyIds, Unlocked,
      Creation, NoRecords, ActiveIsKey
<1> QED BY <1>1, <1>2, <1>3, <1>4, <1>5, <1>6, <1>7

\* create() writing the device key file preserves the invariant.
LEMMA CreateDeviceKeyKeeps ==
  ASSUME IInv, NEW c \in Clients, CreateDeviceKey(c)
  PROVE  IInv'
<1> USE DEF IInv, CreateDeviceKey, At, Goto, Done, Idle, Steps, Holding, Free
<1>1. TypeOK'
  BY NoneType, RequestType DEF TypeOK
<1>2. OwnerInside'
  BY DEF TypeOK, Request, OwnerInside
<1>3. (ActiveIsKey(ring) /\ ActiveIsKey(keyring))'
  BY DEF TypeOK, ActiveIsKey, Ring, NoRing, KeyIds, OwnerInside,
      RotatingUnlocked, Rotating
<1>4. Creation'
  BY DEF TypeOK, Request, Creation, NoRecords, OwnerInside, SessionsNeedKeys,
      Unlocked, NoRing, NoEnvelope, KeyIds
<1>5. SessionsNeedKeys'
  BY DEF TypeOK, Request, SessionsNeedKeys, Unlocked, NoRing, Creation,
      OwnerInside, KeyIds, RotatingUnlocked, Rotating
<1>6. RotatingUnlocked'
  BY DEF TypeOK, Request, RotatingUnlocked, Rotating, Unlocked, OwnerInside,
      NoRing, KeyIds
<1>7. Sealed'
  <2>1. ~Rotating /\ ~Rotating'
    BY DEF Rotating, OwnerInside, TypeOK
  <2>2. SealedWith(keyring) => SealedWith(keyring)'
    BY DEF SealedWith
  <2> QED BY <2>1, <2>2 DEF Sealed, RotationIntact, Unlocked
<1> QED BY <1>1, <1>2, <1>3, <1>4, <1>5, <1>6, <1>7

\* create() sealing its first keyring preserves the invariant.
LEMMA CreateKeyringKeeps ==
  ASSUME IInv, NEW c \in Clients, CreateKeyring(c)
  PROVE  IInv'
<1> USE DEF IInv, CreateKeyring, PersistKeyring, At, Goto, Done, Idle, Steps,
    Holding, Free
<1>a. ring' \in Ring /\ ring' # NoRing /\ ActiveIsKey(ring') /\ minted' \in
    0..MaxKey
  <2>1. 1 \in KeyIds /\ minted + 1 \in 1..MaxKey /\ minted + 1 \in 0..MaxKey
    BY DEF TypeOK, KeyIds
  <2> QED BY <2>1, OneKeyType
<1>1. TypeOK'
  BY <1>a, RequestType DEF TypeOK
<1>2. OwnerInside'
  BY DEF TypeOK, Request, OwnerInside
<1>3. (ActiveIsKey(ring) /\ ActiveIsKey(keyring))'
  BY <1>a
<1>4. Creation'
  BY <1>a DEF TypeOK, Request, Creation, NoRecords, OwnerInside
<1>5. SessionsNeedKeys'
  BY <1>a DEF SessionsNeedKeys, Unlocked
<1>6. RotatingUnlocked'
  BY <1>a DEF RotatingUnlocked, Unlocked
<1>7. Sealed'
  BY DEF TypeOK, Request, Sealed, SealedWith, Rotating, RotationIntact,
      OwnerInside, Opens, Ring, NoRing, Envelope, NoEnvelope, KeyIds, Unlocked,
      Creation, NoRecords, ActiveIsKey
<1> QED BY <1>1, <1>2, <1>3, <1>4, <1>5, <1>6, <1>7

\* create() writing an empty records file preserves the invariant.
LEMMA CreateRecordsKeeps ==
  ASSUME IInv, NEW c \in Clients, NEW t \in Tokens, CreateRecords(c, t)
  PROVE  IInv'
<1> USE DEF IInv, CreateRecords, Release, At, Goto, Done, Idle, Steps, Holding,
    Free
<1>1. TypeOK'
  BY NoneType, RequestType DEF TypeOK
<1>2. OwnerInside'
  BY DEF TypeOK, Request, OwnerInside
<1>3. (ActiveIsKey(ring) /\ ActiveIsKey(keyring))'
  BY DEF TypeOK, ActiveIsKey, Ring, NoRing, KeyIds, OwnerInside,
      RotatingUnlocked, Rotating
<1>4. Creation'
  BY DEF TypeOK, Request, Creation, NoRecords, OwnerInside, SessionsNeedKeys,
      Unlocked, NoRing, NoEnvelope, KeyIds
<1>5. SessionsNeedKeys'
  BY DEF TypeOK, Request, SessionsNeedKeys, Unlocked, NoRing, Creation,
      OwnerInside, KeyIds, RotatingUnlocked, Rotating
<1>6. RotatingUnlocked'
  BY DEF TypeOK, Request, RotatingUnlocked, Rotating, Unlocked, OwnerInside,
      NoRing, KeyIds
<1>7. Sealed'
  BY DEF TypeOK, Request, Sealed, SealedWith, Rotating, RotationIntact,
      OwnerInside, Opens, Ring, NoRing, Envelope, NoEnvelope, KeyIds, Unlocked,
      Creation, NoRecords, ActiveIsKey
<1> QED BY <1>1, <1>2, <1>3, <1>4, <1>5, <1>6, <1>7

\* _install_root_key, the end of both unlocks, preserves the invariant.
LEMMA InstallKeeps ==
  ASSUME IInv, NEW t \in Tokens, Free, InstallRootKey(t), UNCHANGED <<disk,
         owner, req, minted, torn>>
  PROVE  IInv'
<1> USE DEF IInv, InstallRootKey, disk, At, Goto, Done, Idle, Steps, Holding,
    Free
<1>1. TypeOK'
  BY DEF TypeOK
<1>2. OwnerInside'
  BY DEF TypeOK, Request, OwnerInside
<1>3. (ActiveIsKey(ring) /\ ActiveIsKey(keyring))'
  BY DEF TypeOK, ActiveIsKey, Ring, NoRing, KeyIds, OwnerInside,
      RotatingUnlocked, Rotating
<1>4. Creation'
  BY DEF TypeOK, Request, Creation, NoRecords, OwnerInside, SessionsNeedKeys,
      Unlocked, NoRing, NoEnvelope, KeyIds
<1>5. SessionsNeedKeys'
  BY DEF TypeOK, Request, SessionsNeedKeys, Unlocked, NoRing, Creation,
      OwnerInside, KeyIds, RotatingUnlocked, Rotating
<1>6. RotatingUnlocked'
  BY DEF TypeOK, Request, RotatingUnlocked, Rotating, Unlocked, OwnerInside,
      NoRing, KeyIds
<1>7. Sealed'
  BY DEF TypeOK, Request, Sealed, SealedWith, Rotating, RotationIntact,
      OwnerInside, Opens, Ring, NoRing, Envelope, NoEnvelope, KeyIds, Unlocked,
      Creation, NoRecords, ActiveIsKey
<1> QED BY <1>1, <1>2, <1>3, <1>4, <1>5, <1>6, <1>7

\* lock() preserves the invariant: no rotation is in progress when it runs.
LEMMA LockKeeps ==
  ASSUME IInv, Free, ring' = NoRing, sessions' = {},
         UNCHANGED <<disk, owner, req, minted, torn>>
  PROVE  IInv'
<1> USE DEF IInv, disk, At, Goto, Done, Idle, Steps, Holding, Free
<1>1. TypeOK'
  BY NoneType DEF TypeOK
<1>2. OwnerInside'
  BY DEF TypeOK, Request, OwnerInside
<1>3. (ActiveIsKey(ring) /\ ActiveIsKey(keyring))'
  BY DEF TypeOK, ActiveIsKey, Ring, NoRing, KeyIds, OwnerInside,
      RotatingUnlocked, Rotating
<1>4. Creation'
  BY DEF TypeOK, Request, Creation, NoRecords, OwnerInside, SessionsNeedKeys,
      Unlocked, NoRing, NoEnvelope, KeyIds
<1>5. SessionsNeedKeys'
  BY DEF TypeOK, Request, SessionsNeedKeys, Unlocked, NoRing, Creation,
      OwnerInside, KeyIds, RotatingUnlocked, Rotating
<1>6. RotatingUnlocked'
  BY DEF TypeOK, Request, RotatingUnlocked, Rotating, Unlocked, OwnerInside,
      NoRing, KeyIds
<1>7. Sealed'
  BY DEF TypeOK, Request, Sealed, SealedWith, Rotating, RotationIntact,
      OwnerInside, Opens, Ring, NoRing, Envelope, NoEnvelope, KeyIds, Unlocked,
      Creation, NoRecords, ActiveIsKey
<1> QED BY <1>1, <1>2, <1>3, <1>4, <1>5, <1>6, <1>7

\* The expiry of a session token preserves the invariant.
LEMMA ExpireKeeps ==
  ASSUME IInv, NEW t \in Tokens, Expire(t)
  PROVE  IInv'
<1> USE DEF IInv, Expire, disk, At, Goto, Done, Idle, Steps, Holding, Free
<1>1. TypeOK'
  BY DEF TypeOK
<1>2. OwnerInside'
  BY DEF TypeOK, Request, OwnerInside
<1>3. (ActiveIsKey(ring) /\ ActiveIsKey(keyring))'
  BY DEF TypeOK, ActiveIsKey, Ring, NoRing, KeyIds, OwnerInside,
      RotatingUnlocked, Rotating
<1>4. Creation'
  BY DEF TypeOK, Request, Creation, NoRecords, OwnerInside, SessionsNeedKeys,
      Unlocked, NoRing, NoEnvelope, KeyIds
<1>5. SessionsNeedKeys'
  BY DEF TypeOK, Request, SessionsNeedKeys, Unlocked, NoRing, Creation,
      OwnerInside, KeyIds, RotatingUnlocked, Rotating
<1>6. RotatingUnlocked'
  BY DEF TypeOK, Request, RotatingUnlocked, Rotating, Unlocked, OwnerInside,
      NoRing, KeyIds
<1>7. Sealed'
  BY DEF TypeOK, Request, Sealed, SealedWith, Rotating, RotationIntact,
      OwnerInside, Opens, Ring, NoRing, Envelope, NoEnvelope, KeyIds, Unlocked,
      Creation, NoRecords, ActiveIsKey
<1> QED BY <1>1, <1>2, <1>3, <1>4, <1>5, <1>6, <1>7

\* A validated request that waits for the lock preserves the invariant.
LEMMA ValidatedKeeps ==
  ASSUME IInv, NEW c \in Clients, NEW step \in {"set", "delete", "rotate"}, NEW
         l \in Labels, NEW v \in Values \cup {NoValue}, Validated(c, step, l, v)
  PROVE  IInv'
<1> USE DEF IInv, Validated, disk, At, Goto, Done, Idle, Steps, Holding, Free
<1>1. TypeOK'
  BY DEF TypeOK, Request
<1>2. OwnerInside'
  BY DEF TypeOK, Request, OwnerInside
<1>3. (ActiveIsKey(ring) /\ ActiveIsKey(keyring))'
  BY DEF TypeOK, ActiveIsKey, Ring, NoRing, KeyIds, OwnerInside,
      RotatingUnlocked, Rotating
<1>4. Creation'
  BY DEF TypeOK, Request, Creation, NoRecords, OwnerInside, SessionsNeedKeys,
      Unlocked, NoRing, NoEnvelope, KeyIds
<1>5. SessionsNeedKeys'
  BY DEF TypeOK, Request, SessionsNeedKeys, Unlocked, NoRing, Creation,
      OwnerInside, KeyIds, RotatingUnlocked, Rotating
<1>6. RotatingUnlocked'
  BY DEF TypeOK, Request, RotatingUnlocked, Rotating, Unlocked, OwnerInside,
      NoRing, KeyIds
<1>7. Sealed'
  BY DEF TypeOK, Request, Sealed, SealedWith, Rotating, RotationIntact,
      OwnerInside, Opens, Ring, NoRing, Envelope, NoEnvelope, KeyIds, Unlocked,
      Creation, NoRecords, ActiveIsKey
<1> QED BY <1>1, <1>2, <1>3, <1>4, <1>5, <1>6, <1>7

\* A request that fails without writing preserves the invariant.
LEMMA RefusedKeeps ==
  ASSUME IInv, NEW c \in Clients, Refused(c)
  PROVE  IInv'
<1> USE DEF IInv, Refused, disk, At, Goto, Done, Idle, Steps, Holding, Free
<1>1. TypeOK'
  BY NoneType, RequestType DEF TypeOK
<1>2. OwnerInside'
  BY DEF TypeOK, Request, OwnerInside
<1>3. (ActiveIsKey(ring) /\ ActiveIsKey(keyring))'
  BY DEF TypeOK, ActiveIsKey, Ring, NoRing, KeyIds, OwnerInside,
      RotatingUnlocked, Rotating
<1>4. Creation'
  BY DEF TypeOK, Request, Creation, NoRecords, OwnerInside, SessionsNeedKeys,
      Unlocked, NoRing, NoEnvelope, KeyIds
<1>5. SessionsNeedKeys'
  BY DEF TypeOK, Request, SessionsNeedKeys, Unlocked, NoRing, Creation,
      OwnerInside, KeyIds, RotatingUnlocked, Rotating
<1>6. RotatingUnlocked'
  BY DEF TypeOK, Request, RotatingUnlocked, Rotating, Unlocked, OwnerInside,
      NoRing, KeyIds
<1>7. Sealed'
  BY DEF TypeOK, Request, Sealed, SealedWith, Rotating, RotationIntact,
      OwnerInside, Opens, Ring, NoRing, Envelope, NoEnvelope, KeyIds, Unlocked,
      Creation, NoRecords, ActiveIsKey
<1> QED BY <1>1, <1>2, <1>3, <1>4, <1>5, <1>6, <1>7

\* set() preserves the invariant: it seals with the key that is active.
LEMMA WriteRecordKeeps ==
  ASSUME IInv, NEW c \in Clients, WriteRecord(c)
  PROVE  IInv'
<1> USE DEF IInv, WriteRecord, At, Goto, Done, Idle, Steps, Holding, Free
<1>a. ring \in Ring /\ ring # NoRing /\ ActiveIsKey(ring)
  BY DEF TypeOK, Unlocked
<1>b. req[c].label \in Labels /\ req[c].value \in Values \cup {NoValue}
  BY DEF TypeOK, Request
<1>c. PICK e \in Envelope :
        /\ e # NoEnvelope /\ Opens(e, ring) /\ e.keyId = ring.active
        /\ records' = [records EXCEPT ![req[c].label] = e]
  BY <1>a, <1>b, SealOpens
<1>1. TypeOK'
  <2>1. records' \in [Labels -> Envelope]
    BY <1>b, <1>c DEF TypeOK
  <2>2. req' \in [Clients -> Request]
    BY RequestType DEF TypeOK
  <2> QED BY <2>1, <2>2 DEF TypeOK
<1>2. OwnerInside'
  BY DEF TypeOK, Request, OwnerInside
<1>3. (ActiveIsKey(ring) /\ ActiveIsKey(keyring))'
  BY DEF TypeOK, ActiveIsKey, Ring, NoRing, KeyIds, OwnerInside,
      RotatingUnlocked, Rotating
<1>4. Creation'
  BY DEF TypeOK, Request, Creation, NoRecords, OwnerInside, SessionsNeedKeys,
      Unlocked, NoRing, NoEnvelope, KeyIds
<1>5. SessionsNeedKeys'
  BY DEF TypeOK, Request, SessionsNeedKeys, Unlocked, NoRing, Creation,
      OwnerInside, KeyIds, RotatingUnlocked, Rotating
<1>6. RotatingUnlocked'
  BY DEF TypeOK, Request, RotatingUnlocked, Rotating, Unlocked, OwnerInside,
      NoRing, KeyIds
<1>7. Sealed'
  <2>1. ~Rotating /\ ~Rotating'
    BY DEF Rotating, OwnerInside, TypeOK
  <2>2. RotationIntact => SealedWith(keyring) /\ ring = keyring
    BY <2>1 DEF Sealed, Creation
  <2>3. SealedWith(keyring) /\ ring = keyring => SealedWith(keyring)'
    BY <1>b, <1>c DEF SealedWith, TypeOK
  <2> QED BY <2>1, <2>2, <2>3 DEF Sealed, RotationIntact
<1> QED BY <1>1, <1>2, <1>3, <1>4, <1>5, <1>6, <1>7

\* delete() preserves the invariant.
LEMMA DeleteRecordKeeps ==
  ASSUME IInv, NEW c \in Clients, DeleteRecord(c)
  PROVE  IInv'
<1> USE DEF IInv, DeleteRecord, At, Goto, Done, Idle, Steps, Holding, Free
<1>1. TypeOK'
  BY NoneType, RequestType DEF TypeOK
<1>2. OwnerInside'
  BY DEF TypeOK, Request, OwnerInside
<1>3. (ActiveIsKey(ring) /\ ActiveIsKey(keyring))'
  BY DEF TypeOK, ActiveIsKey, Ring, NoRing, KeyIds, OwnerInside,
      RotatingUnlocked, Rotating
<1>4. Creation'
  BY DEF TypeOK, Request, Creation, NoRecords, OwnerInside, SessionsNeedKeys,
      Unlocked, NoRing, NoEnvelope, KeyIds
<1>5. SessionsNeedKeys'
  BY DEF TypeOK, Request, SessionsNeedKeys, Unlocked, NoRing, Creation,
      OwnerInside, KeyIds, RotatingUnlocked, Rotating
<1>6. RotatingUnlocked'
  BY DEF TypeOK, Request, RotatingUnlocked, Rotating, Unlocked, OwnerInside,
      NoRing, KeyIds
<1>7. Sealed'
  BY DEF TypeOK, Request, Sealed, SealedWith, Rotating, RotationIntact,
      OwnerInside, Opens, Ring, NoRing, Envelope, NoEnvelope, KeyIds, Unlocked,
      Creation, NoRecords, ActiveIsKey
<1> QED BY <1>1, <1>2, <1>3, <1>4, <1>5, <1>6, <1>7

\* rotate_data_key adding a key and resealing the records with it preserves the
\* invariant.
LEMMA RotateRecordsKeeps ==
  ASSUME IInv, NEW c \in Clients, NEW i \in KeyIds, RotateRecords(c, i)
  PROVE  IInv'
<1> USE DEF IInv, RotateRecords, Reseal, At, Goto, Done, Idle, Steps, Holding,
    Free
<1>a. /\ ring' \in Ring /\ ring' # NoRing /\ ActiveIsKey(ring')
      /\ minted' \in 0..MaxKey
      /\ \A e \in Envelope : Opens(e, ring) => Opens(e, ring')
  BY NewKeyKeeps DEF TypeOK
<1>b. \A l \in Labels :
        /\ records'[l] \in Envelope
        /\ records'[l] # NoEnvelope =>
             Opens(records'[l], ring') /\ records'[l].keyId = ring'.active
  <2> TAKE l \in Labels
  <2>1. records[l].value \in Values \cup {NoValue}
    BY DEF TypeOK, Envelope
  <2> QED BY <2>1, <1>a, SealOpens, NoneType
<1>1. TypeOK'
  <2>1. records' \in [Labels -> Envelope]
    BY <1>b
  <2> QED BY <1>a, <2>1, RequestType DEF TypeOK
<1>2. OwnerInside'
  BY DEF TypeOK, Request, OwnerInside
<1>3. (ActiveIsKey(ring) /\ ActiveIsKey(keyring))'
  BY <1>a
<1>4. Creation'
  BY DEF TypeOK, Request, Creation, NoRecords, OwnerInside, SessionsNeedKeys,
      Unlocked, NoRing, NoEnvelope, KeyIds
<1>5. SessionsNeedKeys'
  BY <1>a DEF SessionsNeedKeys, Unlocked
<1>6. RotatingUnlocked'
  BY <1>a DEF RotatingUnlocked, Unlocked
<1>7. Sealed'
  <2>1. Rotating'
    BY DEF Rotating, TypeOK
  <2>2. SealedWith(ring)'
    BY <1>b DEF SealedWith
  <2> QED BY <2>1, <2>2 DEF Sealed
<1> QED BY <1>1, <1>2, <1>3, <1>4, <1>5, <1>6, <1>7

\* rotate_data_key failing after it added a key preserves the invariant.
LEMMA RotateFailsKeeps ==
  ASSUME IInv, NEW c \in Clients, NEW i \in KeyIds, RotateFails(c, i)
  PROVE  IInv'
<1> USE DEF IInv, RotateFails, disk, At, Goto, Done, Idle, Steps, Holding, Free
<1>a. /\ ring' \in Ring /\ ring' # NoRing /\ ActiveIsKey(ring')
      /\ minted' \in 0..MaxKey
      /\ \A e \in Envelope : Opens(e, ring) => Opens(e, ring')
  BY NewKeyKeeps DEF TypeOK
<1>1. TypeOK'
  <2>1. torn' \subseteq {"create", "key", "rotate"}
    BY DEF TypeOK
  <2> QED BY <1>a, <2>1, RequestType DEF TypeOK
<1>2. OwnerInside'
  BY DEF TypeOK, Request, OwnerInside
<1>3. (ActiveIsKey(ring) /\ ActiveIsKey(keyring))'
  BY <1>a
<1>4. Creation'
  BY DEF TypeOK, Request, Creation, NoRecords, OwnerInside, SessionsNeedKeys,
      Unlocked, NoRing, NoEnvelope, KeyIds
<1>5. SessionsNeedKeys'
  BY <1>a DEF SessionsNeedKeys, Unlocked
<1>6. RotatingUnlocked'
  BY <1>a DEF RotatingUnlocked, Unlocked
<1>7. Sealed'
  BY DEF Sealed, RotationIntact
<1> QED BY <1>1, <1>2, <1>3, <1>4, <1>5, <1>6, <1>7

\* rotate_data_key dropping the old keys preserves the invariant: every record
\* is sealed with the one that stays.
LEMMA RotateKeyringKeeps ==
  ASSUME IInv, NEW c \in Clients, RotateKeyring(c)
  PROVE  IInv'
<1> USE DEF IInv, RotateKeyring, DropOldKeys, PersistKeyring, Release, At, Goto,
    Done, Idle, Steps, Holding, Free
<1>a. /\ ring \in Ring /\ ring # NoRing /\ ring.active \in KeyIds
      /\ ring.keys[ring.active] \in 1..MaxKey
  BY DEF TypeOK, RotatingUnlocked, Rotating, Unlocked, ActiveIsKey, Ring
<1>b. ring' \in Ring /\ ring' # NoRing /\ ActiveIsKey(ring') /\ keyring' = ring'
  BY <1>a, OneKeyType
<1>c. SealedWith(ring) => SealedWith(ring)'
  BY <1>a DEF SealedWith, Opens, OneKey
<1>1. TypeOK'
  BY <1>b, RequestType DEF TypeOK
<1>2. OwnerInside'
  BY DEF TypeOK, Request, OwnerInside
<1>3. (ActiveIsKey(ring) /\ ActiveIsKey(keyring))'
  BY <1>b
<1>4. Creation'
  BY <1>b
  DEF TypeOK, Request, Creation, NoRecords, OwnerInside
<1>5. SessionsNeedKeys'
  BY <1>b DEF SessionsNeedKeys, Unlocked
<1>6. RotatingUnlocked'
  BY <1>b DEF RotatingUnlocked, Unlocked
<1>7. Sealed'
  <2>1. Rotating /\ ~Rotating'
    BY DEF Rotating, OwnerInside, TypeOK
  <2> QED BY <2>1, <1>b, <1>c DEF Sealed, RotationIntact, SealedWith
<1> QED BY <1>1, <1>2, <1>3, <1>4, <1>5, <1>6, <1>7

\* A failed write in create() or rotate_data_key preserves the invariant.
LEMMA WriteFailsKeeps ==
  ASSUME IInv, NEW c \in Clients, WriteFails(c)
  PROVE  IInv'
<1> USE DEF IInv, WriteFails, Cut, DropOldKeys, Release, disk, At, Goto, Done,
    Idle, Steps, Holding, Free
<1>a. ring' \in Ring /\ ActiveIsKey(ring') /\ minted' \in 0..MaxKey
  <2>1. CASE UNCHANGED <<ring, minted>>
    BY <2>1 DEF TypeOK
  <2>2. CASE At(c, "device") /\ minted < MaxKey
    BY <2>2, OneKeyType DEF TypeOK, KeyIds
  <2>3. CASE At(c, "rotating")
    <3>1. ring.active \in KeyIds /\ ring.keys[ring.active] \in 1..MaxKey
      BY <2>3 DEF TypeOK, RotatingUnlocked, Rotating, Unlocked, ActiveIsKey,
          Ring
    <3> QED BY <2>3, <3>1, OneKeyType DEF TypeOK
  <2> QED BY <2>1, <2>2, <2>3
<1>b. ring # NoRing => ring' # NoRing
  BY OneKeyType DEF OneKey, NoRing, RotatingUnlocked, Rotating, Unlocked,
      ActiveIsKey
<1>1. TypeOK'
  BY <1>a, RequestType DEF TypeOK
<1>2. OwnerInside'
  BY DEF TypeOK, Request, OwnerInside
<1>3. (ActiveIsKey(ring) /\ ActiveIsKey(keyring))'
  BY <1>a
<1>4. Creation'
  BY DEF TypeOK, Request, Creation, NoRecords, OwnerInside, SessionsNeedKeys,
      Unlocked, NoRing, NoEnvelope, KeyIds
<1>5. SessionsNeedKeys'
  BY <1>b DEF SessionsNeedKeys, Unlocked
<1>6. RotatingUnlocked'
  BY DEF TypeOK, Request, RotatingUnlocked, Rotating, Unlocked, OwnerInside,
      NoRing, KeyIds
<1>7. Sealed'
  BY DEF TypeOK, Request, Sealed, SealedWith, Rotating, RotationIntact,
      OwnerInside, Opens, Ring, NoRing, Envelope, NoEnvelope, KeyIds, Unlocked,
      Creation, NoRecords, ActiveIsKey, RotatingUnlocked
<1> QED BY <1>1, <1>2, <1>3, <1>4, <1>5, <1>6, <1>7

\* The end of the process at any step preserves the invariant.
LEMMA CrashKeeps ==
  ASSUME IInv, Crash
  PROVE  IInv'
<1> USE DEF IInv, Crash, Cut, disk, At, Goto, Done, Idle, Steps, Holding, Free
<1>1. TypeOK'
  <2>1. req' \in [Clients -> Request]
    BY DEF Request
  <2>2. \A c \in Clients : Cut(c) \subseteq {"create", "key", "rotate"}
    OBVIOUS
  <2>3. UNION {Cut(c) : c \in Clients} \subseteq {"create", "key", "rotate"}
    BY <2>2
  <2>4. torn' \subseteq {"create", "key", "rotate"}
    BY <2>3 DEF TypeOK
  <2> QED BY <2>1, <2>4, NoneType DEF TypeOK
<1>2. OwnerInside'
  BY DEF TypeOK, Request, OwnerInside
<1>3. (ActiveIsKey(ring) /\ ActiveIsKey(keyring))'
  BY DEF TypeOK, ActiveIsKey, Ring, NoRing, KeyIds, OwnerInside,
      RotatingUnlocked, Rotating
<1>4. Creation'
  BY DEF TypeOK, Request, Creation, NoRecords, OwnerInside, SessionsNeedKeys,
      Unlocked, NoRing, NoEnvelope, KeyIds
<1>5. SessionsNeedKeys'
  BY DEF TypeOK, Request, SessionsNeedKeys, Unlocked, NoRing, Creation,
      OwnerInside, KeyIds, RotatingUnlocked, Rotating
<1>6. RotatingUnlocked'
  BY DEF TypeOK, Request, RotatingUnlocked, Rotating, Unlocked, OwnerInside,
      NoRing, KeyIds
<1>7. Sealed'
  <2>1. ~Rotating'
    BY DEF Rotating
  <2>2. RotationIntact' => RotationIntact /\ ~Rotating
    BY DEF Rotating, RotationIntact
  <2> QED BY <2>1, <2>2 DEF Sealed, SealedWith, Opens, Unlocked
<1> QED BY <1>1, <1>2, <1>3, <1>4, <1>5, <1>6, <1>7

\* A step that changes nothing.
LEMMA StutterKeeps == IInv /\ UNCHANGED vars => IInv'
  BY DEF vars, disk, memory, IInv, TypeOK, OwnerInside, ActiveIsKey, Creation,
      NoRecords, At, SessionsNeedKeys, Unlocked, RotatingUnlocked, Rotating,
      Sealed, SealedWith, Opens, RotationIntact

\* Every step of the vault preserves the invariant.
LEMMA NextKeeps == IInv /\ [Next]_vars => IInv'
<1> SUFFICES ASSUME IInv, [Next]_vars PROVE IInv'
  OBVIOUS
<1>1. CASE UNCHANGED vars
  BY <1>1, StutterKeeps
<1>2. ASSUME NEW c \in Clients, Advance(c) PROVE IInv'
  BY <1>2, CreateDeviceKeyKeeps, CreateKeyringKeeps, RotateKeyringKeeps,
     CreateRecordsKeeps DEF Advance
<1>3. ASSUME NEW c \in Clients, NEW t \in Tokens,
             Unlock(c, t) \/ UnlockWithDeviceKey(c, t)
      PROVE  IInv'
  BY <1>3, InstallKeeps DEF Unlock, UnlockWithDeviceKey
<1>4. ASSUME NEW c \in Clients, Lock(c) PROVE IInv'
  BY <1>4, LockKeeps DEF Lock
<1>5. ASSUME NEW c \in Clients, NEW l \in Labels,
             BeginDelete(c, l) \/ \E v \in Values : BeginSet(c, l, v)
      PROVE  IInv'
  BY <1>5, ValidatedKeeps DEF BeginDelete, BeginSet
<1>6. ASSUME NEW c \in Clients, BeginRotate(c) PROVE IInv'
  <2>1. req[c].label \in Labels
    BY DEF IInv, TypeOK, Request
  <2> QED BY <1>6, <2>1, ValidatedKeeps DEF BeginRotate
<1>7. ASSUME NEW c \in Clients, NEW i \in KeyIds,
             RotateRecords(c, i) \/ RotateFails(c, i)
      PROVE  IInv'
  BY <1>7, RotateRecordsKeeps, RotateFailsKeeps
<1>8. ASSUME NEW c \in Clients,
             \/ CreateHeader(c) \/ WriteFails(c)
             \/ Refused(c) \/ WriteRecord(c) \/ DeleteRecord(c)
      PROVE  IInv'
  BY <1>8, CreateHeaderKeeps, WriteFailsKeeps, RefusedKeeps, WriteRecordKeeps,
     DeleteRecordKeeps
<1>9. ASSUME NEW t \in Tokens, Expire(t) PROVE IInv'
  BY <1>9, ExpireKeeps
<1> QED BY <1>1, <1>2, <1>3, <1>4, <1>5, <1>6, <1>7, <1>8, <1>9, CrashKeeps DEF
    Next

-----------------------------------------------------------------------------
(* Theorems about every behaviour of the vault. *)

\* The strengthened invariant holds in every state of every behaviour of
\* vault.py.
THEOREM VaultInvariant == Spec => []IInv
  BY InitIInv, NextKeeps, PTL DEF Spec

\* The state of the vault stays what vault.py can hold in files and in memory.
THEOREM TypeCorrect == Spec => []TypeOK
<1>1. IInv => TypeOK
  BY DEF IInv
<1> QED BY <1>1, VaultInvariant, PTL

\* At rest, outside a cut rotation, every record decrypts under the keyring on
\* disk and is under its active key: rotate_data_key drops no key still in use.
THEOREM RecordsStayOpenable == Spec => []RecordsOpenable
<1>1. IInv => RecordsOpenable
  <2> SUFFICES ASSUME IInv, RotationIntact, Free PROVE SealedWith(keyring)
    BY DEF RecordsOpenable, SealedWith
  <2>1. ~Rotating
    BY DEF IInv, TypeOK, OwnerInside, Rotating, At, Holding, Free, Request
  <2> QED BY <2>1 DEF IInv, Sealed
<1> QED BY <1>1, VaultInvariant, PTL

\* An unlocked vault at rest works with the keyring that is on disk: nothing is
\* ever sealed with a key that the next unlock would not find.
THEOREM MemoryAgrees == Spec => []MemoryMatchesDisk
<1>1. IInv => MemoryMatchesDisk
  <2> SUFFICES ASSUME IInv, torn = {}, Free, Unlocked PROVE ring = keyring
    BY DEF MemoryMatchesDisk
  <2>1. \A c \in Clients : req[c].at \notin Holding
    BY DEF IInv, TypeOK, OwnerInside, Free
  <2>2. ~Rotating
    BY <2>1 DEF Rotating, At, Holding
  <2>3. keyring # NoRing
    BY <2>1 DEF IInv, Creation, Unlocked
  <2> QED BY <2>2, <2>3 DEF IInv, Sealed, RotationIntact
<1> QED BY <1>1, VaultInvariant, PTL

\* A vault that create() finished can be opened, whatever happened to it since.
THEOREM VaultCanBeOpened == Spec => []VaultOpens
<1>1. IInv => VaultOpens
  <2> SUFFICES ASSUME IInv, header, Free, "create" \notin torn
               PROVE  keyring # NoRing /\ deviceKey
    BY DEF VaultOpens
  <2>1. \A c \in Clients : req[c].at \notin Holding
    BY DEF IInv, TypeOK, OwnerInside, Free
  <2> QED BY <2>1 DEF IInv, Creation, Holding
<1> QED BY <1>1, VaultInvariant, PTL

\* No session token outlives the keys: lock(), a failed unlock and a restart
\* leave none.
THEOREM SessionsHaveKeys == Spec => []SessionsNeedKeys
<1>1. IInv => SessionsNeedKeys
  BY DEF IInv
<1> QED BY <1>1, VaultInvariant, PTL

\* Every step that changes the records file is taken with the keys in memory.
LEMMA WritesNeedKeys == IInv /\ [Next]_vars => [records' # records =>
    Unlocked]_vars
<1> SUFFICES ASSUME IInv, Next, records' # records PROVE Unlocked
  BY DEF vars
<1>1. ASSUME NEW c \in Clients, NEW t \in Tokens, CreateRecords(c, t) PROVE
    FALSE
  BY <1>1 DEF CreateRecords, IInv, Creation, NoRecords
<1> QED
  BY <1>1 DEF Next, Advance, CreateHeader, CreateDeviceKey, CreateKeyring,
      RotateKeyring, WriteFails, Lock, Unlock, UnlockWithDeviceKey, BeginDelete,
      BeginSet, BeginRotate, Validated, Refused, WriteRecord, DeleteRecord,
      RotateRecords, RotateFails, Expire, Crash, disk

\* A request validated before another thread's lock() changes nothing on disk
\* once the keys are gone.
THEOREM LockedVaultUntouched == Spec => NoWriteWhileLocked
  BY VaultInvariant, WritesNeedKeys, PTL DEF Spec, NoWriteWhileLocked

-----------------------------------------------------------------------------
(* The vault implements SecretStore. *)

\* A delete is performed as the storing of no value.
DeletesAskNone == \A c \in Clients : At(c, "delete") => req[c].value = NoValue

\* What a request asks of the store, or that it asks nothing of it.
Asked(r) == IF r.at \in {"set", "delete"} THEN r ELSE Idle

\* Requests that delete were begun without a value, and keep none.
LEMMA DeletesKeep == TypeOK /\ DeletesAskNone /\ [Next]_vars => DeletesAskNone'
<1> SUFFICES ASSUME TypeOK, DeletesAskNone, [Next]_vars,
                    NEW c \in Clients, req'[c].at = "delete"
             PROVE  req'[c].value = NoValue
  BY DEF DeletesAskNone, At
<1>1. SUFFICES ASSUME req'[c] # req[c] PROVE req'[c].value = NoValue
  BY DEF DeletesAskNone, At
<1>2. ASSUME NEW d \in Clients, NEW p \in Holding, Goto(d, p) PROVE FALSE
  BY <1>1, <1>2 DEF Goto, TypeOK, Request, Holding
<1>3. ASSUME NEW d \in Clients, Done(d) PROVE FALSE
  BY <1>1, <1>3 DEF Done, TypeOK, Idle
<1>5. ASSUME NEW d \in Clients, CreateHeader(d) \/ Advance(d) \/ WriteFails(d) PROVE FALSE
  <2>1. Done(d) \/ \E p \in Holding : Goto(d, p)
    BY <1>5 DEF CreateHeader, Advance, WriteFails, CreateDeviceKey, CreateKeyring,
                CreateRecords, RotateKeyring, Release, Holding
  <2> QED BY <1>2, <1>3, <2>1
<1>6. ASSUME NEW d \in Clients, Refused(d) \/ WriteRecord(d) \/ DeleteRecord(d) PROVE FALSE
  BY <1>3, <1>6 DEF Refused, WriteRecord, DeleteRecord
<1>7. ASSUME NEW d \in Clients, NEW i \in KeyIds, RotateRecords(d, i) \/ RotateFails(d, i)
      PROVE  FALSE
  <2>1. Done(d) \/ Goto(d, "rotating")
    BY <1>7 DEF RotateRecords, RotateFails
  <2> QED BY <1>2, <1>3, <2>1 DEF Holding
<1>8. ~Crash
  BY <1>1 DEF Crash, Idle
<1>9. ASSUME NEW d \in Clients, NEW t \in Tokens,
             Unlock(d, t) \/ UnlockWithDeviceKey(d, t)
      PROVE  FALSE
  BY <1>1, <1>9 DEF Unlock, UnlockWithDeviceKey
<1>10. ASSUME NEW d \in Clients, Lock(d) PROVE FALSE
  BY <1>1, <1>10 DEF Lock
<1>11. ASSUME NEW t \in Tokens, Expire(t) PROVE FALSE
  BY <1>1, <1>11 DEF Expire
<1>12. ~UNCHANGED vars
  BY <1>1 DEF vars, memory
<1>13. Next
  BY <1>12
<1>14. PICK d \in Clients :
         \/ \E l \in Labels : BeginDelete(d, l) \/ \E v \in Values : BeginSet(d, l, v)
         \/ BeginRotate(d)
  BY <1>5, <1>6, <1>7, <1>8, <1>9, <1>10, <1>11, <1>13 DEF Next
<1>15. CASE \E l \in Labels : BeginDelete(d, l)
  BY <1>1, <1>15 DEF BeginDelete, Validated, TypeOK
<1>16. CASE \E l \in Labels, v \in Values : BeginSet(d, l, v)
  BY <1>1, <1>16 DEF BeginSet, Validated, TypeOK
<1>17. CASE BeginRotate(d)
  BY <1>1, <1>17 DEF BeginRotate, Validated, TypeOK
<1> QED BY <1>14, <1>15, <1>16, <1>17

\* Outside a cut rotation every record opens, and yields what was sealed.
LEMMA SecretsShown ==
  ASSUME IInv
  PROVE  Secrets = [l \in Labels |-> IF RotationIntact THEN records[l].value ELSE NoValue]
<1> SUFFICES ASSUME RotationIntact, NEW l \in Labels
             PROVE  Secret(l) = records[l].value
  BY DEF Secrets
<1>1. SealedWith(CurrentRing)
  BY DEF CurrentRing, IInv, Sealed, Rotating
<1> HIDE DEF CurrentRing
<1>2. records[l] # NoEnvelope => Opens(records[l], CurrentRing)
  BY <1>1 DEF SealedWith
<1> QED BY <1>2 DEF Secret, NoEnvelope

\* A step that leaves what the records hold alone leaves the secrets alone.
LEMMA SecretsSame ==
  ASSUME IInv, IInv', \A l \in Labels : records'[l].value = records[l].value,
         RotationIntact' <=> RotationIntact
  PROVE  Secrets' = Secrets /\ (~RotationIntact)' = ~RotationIntact
<1>1. Secrets' = [l \in Labels |-> IF RotationIntact' THEN records'[l].value ELSE NoValue]
  <2>1. (IInv => Secrets = [l \in Labels |-> IF RotationIntact THEN records[l].value
                                                             ELSE NoValue])'
    BY SecretsShown, PTL
  <2> QED BY <2>1
<1> QED BY <1>1, SecretsShown

\* The request of one client changes, and what it asks of the store with it.
LEMMA PendingChange ==
  ASSUME TypeOK, NEW c \in Clients, NEW r, req' = [req EXCEPT ![c] = r]
  PROVE  Pending' = [Pending EXCEPT ![c] = Asked(r)]
BY DEF Pending, Asked, TypeOK

\* A client that ends what it did asks nothing any more.
LEMMA PendingDone ==
  ASSUME TypeOK, NEW c \in Clients, Done(c)
  PROVE  Pending' = [Pending EXCEPT ![c] = Idle]
BY PendingChange DEF Done, Asked, Idle

\* A client that asked nothing and asks nothing.
LEMMA PendingSame ==
  ASSUME TypeOK, NEW c \in Clients, req[c].at \notin {"set", "delete"},
         Done(c) \/ \E p \in Holding : Goto(c, p)
  PROVE  Pending' = Pending
<1>1. Pending[c] = Idle
  BY DEF Pending
<1>2. CASE Done(c)
  BY <1>1, <1>2, PendingDone DEF Pending
<1>3. ASSUME NEW p \in Holding, Goto(c, p) PROVE Pending' = Pending
  <2>1. PICK r : r = [req[c] EXCEPT !.at = p]
    OBVIOUS
  <2>2. req' = [req EXCEPT ![c] = r] /\ r.at = p
    BY <1>3, <2>1 DEF Goto, TypeOK, Request
  <2>3. Asked(r) = Idle
    BY <2>2 DEF Asked, Holding
  <2> QED BY <1>1, <2>2, <2>3, PendingChange DEF Pending
<1> QED BY <1>2, <1>3

\* The idle request of the vault is that of the store.
LEMMA SameIdle == Store!Idle = Idle
BY DEF Store!Idle, Idle

\* What the store sees when nothing happens to it.
StoreSame == UNCHANGED <<Secrets, Pending, ~RotationIntact>>

\* create(), the unlocks, lock(), expiry, and the two halves of a rotation that
\* succeeds: the store does not move.
LEMMA HiddenStep ==
  ASSUME IInv, IInv',
         \/ \E c \in Clients : CreateHeader(c) \/ Advance(c) \/ Lock(c)
         \/ \E c \in Clients, t \in Tokens : Unlock(c, t) \/ UnlockWithDeviceKey(c, t)
         \/ \E c \in Clients, i \in KeyIds : RotateRecords(c, i)
         \/ \E t \in Tokens : Expire(t)
  PROVE  StoreSame
<1>1. SUFFICES /\ \A l \in Labels : records'[l].value = records[l].value
               /\ torn' = torn /\ Pending' = Pending
  BY <1>1, SecretsSame DEF StoreSame, RotationIntact
<1>t. TypeOK
  BY DEF IInv
<1>2. ASSUME NEW c \in Clients, CreateHeader(c) \/ CreateDeviceKey(c) \/ CreateKeyring(c)
                                \/ RotateKeyring(c)
      PROVE  records' = records /\ torn' = torn /\ Pending' = Pending
  <2>1. req[c].at \notin {"set", "delete"} /\ (Done(c) \/ \E p \in Holding : Goto(c, p))
    BY <1>2 DEF CreateHeader, CreateDeviceKey, CreateKeyring, RotateKeyring, At, Release,
                Holding
  <2>2. Pending' = Pending
    BY <1>t, <2>1, PendingSame
  <2> QED BY <1>2, <2>2 DEF CreateHeader, CreateDeviceKey, CreateKeyring, RotateKeyring
<1>3. ASSUME NEW c \in Clients, NEW t \in Tokens, CreateRecords(c, t)
      PROVE  records' = records /\ torn' = torn /\ Pending' = Pending
  <2>1. NoRecords /\ req[c].at = "keyring"
    BY <1>3 DEF CreateRecords, IInv, Creation, At
  <2>2. Pending' = Pending
    BY <1>3, <1>t, <2>1, PendingSame DEF CreateRecords, Release
  <2> QED BY <1>3, <2>1, <2>2 DEF CreateRecords, NoRecords
<1>4. ASSUME NEW c \in Clients, NEW i \in KeyIds, RotateRecords(c, i)
      PROVE  /\ \A l \in Labels : records'[l].value = records[l].value
             /\ torn' = torn /\ Pending' = Pending
  <2>1. Pending' = Pending
    <3>1. req[c].at \notin {"set", "delete"} /\ Goto(c, "rotating") /\ "rotating" \in Holding
      BY <1>4 DEF RotateRecords, At, Holding
    <3> QED BY <1>t, <3>1, PendingSame
  <2>2. \A l \in Labels : records'[l].value = records[l].value
    BY <1>4 DEF RotateRecords, Reseal, Seal, NoEnvelope
  <2> QED BY <1>4, <2>1, <2>2 DEF RotateRecords
<1>5. ASSUME NEW c \in Clients, Lock(c)
      PROVE  records' = records /\ torn' = torn /\ Pending' = Pending
  BY <1>5 DEF Lock, disk, Pending
<1>6. ASSUME NEW c \in Clients, NEW t \in Tokens, Unlock(c, t) \/ UnlockWithDeviceKey(c, t)
      PROVE  records' = records /\ torn' = torn /\ Pending' = Pending
  BY <1>6 DEF Unlock, UnlockWithDeviceKey, disk, Pending
<1>7. ASSUME NEW t \in Tokens, Expire(t)
      PROVE  records' = records /\ torn' = torn /\ Pending' = Pending
  BY <1>7 DEF Expire, disk, Pending
<1> QED BY <1>2, <1>3, <1>4, <1>5, <1>6, <1>7 DEF Advance

\* A validated set, delete or rotation is a call of the store, or nothing to it.
LEMMA CallStep ==
  ASSUME IInv, IInv', NEW c \in Clients,
         \/ \E l \in Labels : BeginDelete(c, l) \/ \E v \in Values : BeginSet(c, l, v)
         \/ BeginRotate(c)
  PROVE  StoreSame \/ Store!Call(c)
<1>1. PICK r : /\ req' = [req EXCEPT ![c] = r]
               /\ r \in Store!Requests \/ r.at = "rotate"
               /\ req[c].at = "idle" /\ records' = records /\ torn' = torn
  BY DEF BeginDelete, BeginSet, BeginRotate, Validated, At, disk, Store!Requests
<1>2. Pending' = [Pending EXCEPT ![c] = Asked(r)]
  BY <1>1, PendingChange DEF IInv
<1>3. Pending[c] = Idle
  BY <1>1 DEF Pending
<1>4. Secrets' = Secrets /\ (~RotationIntact)' = ~RotationIntact
  BY <1>1, SecretsSame DEF RotationIntact
<1>5. CASE r \in Store!Requests
  <2>1. Asked(r) = r
    BY <1>5 DEF Asked, Store!Requests
  <2> QED BY <1>2, <1>3, <1>4, <1>5, <2>1, SameIdle DEF Store!Call
<1>6. CASE r.at = "rotate"
  <2>1. Asked(r) = Idle
    BY <1>6 DEF Asked
  <2>2. Pending' = Pending
    BY <1>2, <1>3, <2>1 DEF Pending
  <2> QED BY <1>4, <2>2 DEF StoreSame
<1> QED BY <1>1, <1>5, <1>6

\* A set or delete that takes effect is performed by the store, once.
LEMMA PerformStep ==
  ASSUME IInv, IInv', DeletesAskNone, NEW c \in Clients, WriteRecord(c) \/ DeleteRecord(c)
  PROVE  Store!Perform(c)
<1>1. /\ req[c].at \in {"set", "delete"} /\ Done(c) /\ torn' = torn
      /\ req[c].label \in Labels /\ records \in [Labels -> Envelope]
  BY DEF WriteRecord, DeleteRecord, At, IInv, TypeOK, Request
<1>2. Pending[c] = req[c] /\ req[c] # Idle
  BY <1>1 DEF Pending, Idle
<1>3. Pending' = [Pending EXCEPT ![c] = Idle]
  BY <1>1, PendingDone DEF IInv
<1>4. \A l \in Labels :
        records'[l].value = IF l = req[c].label THEN req[c].value ELSE records[l].value
  <2>1. CASE WriteRecord(c)
    BY <1>1, <2>1 DEF WriteRecord, Seal
  <2>2. CASE DeleteRecord(c)
    BY <1>1, <2>2 DEF DeleteRecord, NoEnvelope, DeletesAskNone
  <2> QED BY <2>1, <2>2
<1>5. /\ Secrets = [l \in Labels |-> IF RotationIntact THEN records[l].value ELSE NoValue]
      /\ Secrets' = [l \in Labels |-> IF RotationIntact THEN records'[l].value ELSE NoValue]
  <2>1. (IInv => Secrets = [l \in Labels |-> IF RotationIntact THEN records[l].value
                                                             ELSE NoValue])'
    BY SecretsShown, PTL
  <2> QED BY <1>1, <2>1, SecretsShown DEF RotationIntact
<1>6. Secrets' = IF ~RotationIntact THEN Secrets
                 ELSE [Secrets EXCEPT ![req[c].label] = req[c].value]
  BY <1>1, <1>4, <1>5
<1>7. (~RotationIntact)' = ~RotationIntact
  BY <1>1 DEF RotationIntact
<1> QED BY <1>2, <1>3, <1>6, <1>7, SameIdle DEF Store!Perform

\* A request that ends without effect is dropped; a rotation that is cut loses the map.
LEMMA DropStep ==
  ASSUME IInv, IInv', NEW c \in Clients,
         Refused(c) \/ WriteFails(c) \/ \E i \in KeyIds : RotateFails(c, i)
  PROVE  Store!Drop(c) \/ Store!Lose
<1>1. Done(c) /\ records' = records /\ torn \subseteq torn'
  BY DEF Refused, WriteFails, RotateFails, Release, disk
<1>2. Pending' = [Pending EXCEPT ![c] = Idle]
  BY <1>1, PendingDone DEF IInv
<1>3. CASE RotationIntact' <=> RotationIntact
  BY <1>1, <1>2, <1>3, SecretsSame, SameIdle DEF Store!Drop
<1>4. CASE ~(RotationIntact' <=> RotationIntact)
  <2>1. RotationIntact /\ ~RotationIntact'
    BY <1>1, <1>4 DEF RotationIntact
  <2>2. Secrets' = [l \in Labels |-> NoValue]
    BY <2>1 DEF Secrets
  <2>3. /\ \A d \in Clients : Pending'[d] \in {Pending[d], Idle}
        /\ DOMAIN Pending' = Clients
    BY <1>2 DEF Pending
  <2> QED BY <2>1, <2>2, <2>3, SameIdle DEF Store!Lose
<1> QED BY <1>3, <1>4

\* A crash drops every request; in the middle of a rotation it loses the map.
LEMMA CrashStep ==
  ASSUME IInv, IInv', Crash
  PROVE  Store!Restart \/ Store!Lose
<1>1. records' = records /\ torn \subseteq torn'
  BY DEF Crash, disk
<1>2. Pending' = [c \in Clients |-> Idle]
  BY DEF Crash, Pending, Idle
<1>3. CASE RotationIntact' <=> RotationIntact
  BY <1>1, <1>2, <1>3, SecretsSame, SameIdle DEF Store!Restart
<1>4. CASE ~(RotationIntact' <=> RotationIntact)
  <2>1. RotationIntact /\ ~RotationIntact'
    BY <1>1, <1>4 DEF RotationIntact
  <2>2. Secrets' = [l \in Labels |-> NoValue]
    BY <2>1 DEF Secrets
  <2>3. /\ \A d \in Clients : Pending'[d] \in {Pending[d], Idle}
        /\ DOMAIN Pending' = Clients
    BY <1>2
  <2> QED BY <2>1, <2>2, <2>3, SameIdle DEF Store!Lose
<1> QED BY <1>3, <1>4

\* Every step of the vault is one of the store, or nothing to it.
LEMMA StepRefines ==
  ASSUME IInv, IInv', DeletesAskNone, [Next]_vars
  PROVE  Store!Next \/ StoreSame
<1>1. CASE UNCHANGED vars
  <2>1. Pending' = Pending
    BY <1>1 DEF vars, memory, Pending
  <2>2. records' = records /\ torn' = torn
    BY <1>1 DEF vars, disk
  <2> QED BY <2>1, <2>2, SecretsSame DEF StoreSame, RotationIntact
<1>2. CASE \/ \E c \in Clients : CreateHeader(c) \/ Advance(c) \/ Lock(c)
           \/ \E c \in Clients, t \in Tokens : Unlock(c, t) \/ UnlockWithDeviceKey(c, t)
           \/ \E c \in Clients, i \in KeyIds : RotateRecords(c, i)
           \/ \E t \in Tokens : Expire(t)
  BY <1>2, HiddenStep
<1>3. ASSUME NEW c \in Clients,
             \/ \E l \in Labels : BeginDelete(c, l) \/ \E v \in Values : BeginSet(c, l, v)
             \/ BeginRotate(c)
      PROVE  Store!Next \/ StoreSame
  BY <1>3, CallStep DEF Store!Next
<1>4. ASSUME NEW c \in Clients, WriteRecord(c) \/ DeleteRecord(c)
      PROVE  Store!Next
  BY <1>4, PerformStep DEF Store!Next
<1>5. ASSUME NEW c \in Clients,
             Refused(c) \/ WriteFails(c) \/ \E i \in KeyIds : RotateFails(c, i)
      PROVE  Store!Next
  BY <1>5, DropStep DEF Store!Next
<1>6. CASE Crash
  BY <1>6, CrashStep DEF Store!Next
<1> QED BY <1>1, <1>2, <1>3, <1>4, <1>5, <1>6 DEF Next

\* The vault is an implementation of SecretStore: to its callers it is a map that
\* changes only when a set or a delete somebody asked for takes effect, once; lock,
\* unlock, expiry, crashes, failed writes and rotations leave it alone, and it is lost
\* only, and openly, when a rotation is cut.
THEOREM VaultImplementsStore == Spec => RefinesSecretStore
<1>1. Init => Store!Init /\ DeletesAskNone
  <2> SUFFICES ASSUME Init PROVE Store!Init /\ DeletesAskNone
    OBVIOUS
  <2>1. RotationIntact /\ Secrets = [l \in Labels |-> NoValue]
    BY DEF Init, RotationIntact, Secrets, Secret
  <2>2. Pending = [c \in Clients |-> Idle]
    BY DEF Init, Pending, Idle
  <2>3. DeletesAskNone
    BY DEF Init, DeletesAskNone, At, Idle
  <2> QED BY <2>1, <2>2, <2>3, SameIdle DEF Store!Init
<1>2. IInv /\ IInv' /\ DeletesAskNone /\ [Next]_vars
        => [Store!Next]_<<Secrets, Pending, ~RotationIntact>>
  BY StepRefines DEF StoreSame
<1>3. IInv => TypeOK
  BY DEF IInv
<1> QED
  BY <1>1, <1>2, <1>3, VaultInvariant, DeletesKeep, PTL DEF Spec, RefinesSecretStore, Store!Spec
=============================================================================
