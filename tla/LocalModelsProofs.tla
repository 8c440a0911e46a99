--------------------------- MODULE LocalModelsProofs ---------------------------
(***************************************************************************)
(* Proofs about LocalModels, for every set of models and worker threads    *)
(* and any number of clear and of encrypted files.                         *)
(***************************************************************************)
EXTENDS LocalModels, FiniteSetTheorems, TLAPS

\* The steps at which a thread holds ModelManager._lock.
Inside == {"read", "engine", "close", "erase"}

\* The manager's lock is held by the one thread that is inside.
ManagerInside ==
  /\ manager = {} \/ \E t \in Threads : manager = {t}
  /\ \A t \in Threads : t \in manager <=> call[t].at \in Inside

\* The thread inside has a clear file of its own: it is no runtime's, and a load does
\* not replace a runtime; an engine starts on verified weights only.
RunInHand ==
  \A t \in manager :
    /\ call[t].run \in (1..made) \ orphans
    /\ \A m \in Models : runtime[m] # call[t].run
    /\ call[t].at \in {"read", "engine"} => runtime[call[t].model] = 0
    /\ call[t].at = "engine" => weights[call[t].run] = "pinned"

\* No two models share a runtime, and none lives on a file of a process that died.
RuntimesApart ==
  /\ \A m \in Models : runtime[m] # 0 => runtime[m] \notin orphans
  /\ \A m, n \in Models : runtime[m] # 0 /\ runtime[m] = runtime[n] => m = n

\* The clear file of an install or an import is this process's.
StagedInHand ==
  /\ \A d \in downloads : d.file \in (1..made) \ orphans
  /\ call[Loop].at \in {"write", "metadata"} => call[Loop].run \in (1..made) \ orphans

\* Until there is a key in the vault nothing has been encrypted; what is about to be
\* encrypted will be under the key that is in the vault, or that is put there with it.
KeyInHand ==
  /\ atRest = 0 => downloads = {} /\ \A m \in Models : file[m] = Absent
  /\ call[Loop].at = "write" => call[Loop].key \in {0, atRest}
  /\ call[Loop].at = "metadata" => file[call[Loop].model] # Absent

IInv ==
  /\ TypeOK
  /\ ManagerInside
  /\ RunInHand
  /\ RuntimesApart
  /\ StagedInHand
  /\ KeyInHand
  /\ PinnedOnly
  /\ ClearFilesOwned
  /\ EngineKept
  /\ StoredKeyOpens

USE LocalModelsAssumption

-----------------------------------------------------------------------------
(* Lemmas about the calls of threads. *)

\* The record of a thread that does nothing.
LEMMA IdleType ==
  /\ Idle \in Call /\ Idle.at = "idle" /\ Idle.key = 0
  /\ \A p \in Points : [Idle EXCEPT !.at = p] \in Call
  /\ \A p \in Points : [Idle EXCEPT !.at = p].at = p
<1>1. (CHOOSE m \in Models : TRUE) \in Models
  BY DEF LocalModelsAssumption
<1>2. 0 \in 0..MaxClear /\ 0 \in 0..MaxWrites
  BY DEF LocalModelsAssumption
<1> QED BY <1>1, <1>2 DEF Idle, Call, Points, Contents

\* A thread that returns is idle, or goes on with the shutdown.
LEMMA ReturnOutside ==
  ASSUME call \in [Threads -> Call], NEW t \in Threads, Return(t)
  PROVE  \E r \in Call : call' = [call EXCEPT ![t] = r] /\ r.at \in {"idle", "stopping"}
<1>1. CASE call[t].last
  BY <1>1, IdleType DEF Return, Points
<1>2. CASE ~call[t].last
  BY <1>2, IdleType DEF Return
<1> QED BY <1>1, <1>2

\* A thread that goes on keeps the rest of its call.
LEMMA GotoKeeps ==
  ASSUME call \in [Threads -> Call], NEW t \in Threads, NEW p \in Points, Goto(t, p)
  PROVE  \E r \in Call :
           /\ call' = [call EXCEPT ![t] = r] /\ r.at = p
           /\ r.run = call[t].run /\ r.model = call[t].model /\ r.write = call[t].write
           /\ r.key = call[t].key
<1> DEFINE r == [call[t] EXCEPT !.at = p]
<1>1. r \in Call /\ r.at = p
  BY DEF Call
<1>2. call' = [call EXCEPT ![t] = r]
  BY DEF Goto
<1> QED BY <1>1, <1>2 DEF Call

\* Only the thread that holds the manager's lock is inside.
LEMMA HolderAlone ==
  ASSUME IInv, NEW t \in Threads, call[t].at \in Inside
  PROVE  manager = {t}
  BY DEF IInv, ManagerInside

\* What a step leaves of the invariant when it touches neither the runtimes nor the
\* manager's lock, nor the call of a thread inside.
LEMMA ManagerKept ==
  ASSUME IInv, call' \in [Threads -> Call],
         UNCHANGED <<orphans, engines, manager>>,
         1..made \subseteq 1..made',
         \A n \in 1..made : weights'[n] \in {weights[n], "pinned"},
         \A t \in Threads : call[t].at \in Inside \/ call'[t].at \in Inside => call'[t] = call[t],
         \A t \in Threads : call'[t].at = "generate" => call'[t].run \in open
  PROVE  (ManagerInside /\ RunInHand /\ RuntimesApart /\ PinnedOnly /\ EngineKept)'
<1> USE DEF engines
<1>1. manager \subseteq Threads
  BY DEF IInv, TypeOK
<1>2. \A t \in manager : call[t].at \in Inside /\ call'[t] = call[t]
  BY <1>1 DEF IInv, ManagerInside
<1>3. ManagerInside'
  BY DEF IInv, ManagerInside
<1>4. RunInHand'
  BY <1>1, <1>2 DEF IInv, RunInHand
<1>5. PinnedOnly'
  BY DEF IInv, TypeOK, PinnedOnly
<1> QED BY <1>3, <1>4, <1>5 DEF IInv, RuntimesApart, EngineKept

\* Those who answer for a clear file still do when runtimes, downloads and the manager's
\* lock stay, and no call with a file in hand changes.
LEMMA OwnersKept ==
  ASSUME IInv, UNCHANGED <<runtime, manager>>, downloads \subseteq downloads',
         \A t \in Threads : \/ call'[t] = call[t]
                            \/ t \notin manager /\ call[t].at \notin {"write", "metadata"},
         NEW n, Owned(n)
  PROVE  Owned(n)'
<1>1. manager \subseteq Threads /\ Loop \in Threads
  BY DEF IInv, TypeOK, Threads
<1>2. CASE \E t \in manager : call[t].run = n
  BY <1>1, <1>2 DEF Owned
<1>3. CASE call[Loop].at \in {"write", "metadata"} /\ call[Loop].run = n
  BY <1>1, <1>3 DEF Owned
<1> QED BY <1>2, <1>3 DEF Owned

\* A step of one thread leaves the owners of clear files as they are, but for the
\* runtimes and the thread inside.
LEMMA OwnersElse ==
  ASSUME IInv, downloads' = downloads, NEW t \in Threads, NEW r \in Call,
         call' = [call EXCEPT ![t] = r], call[t].at \notin {"write", "metadata"},
         NEW n, Owned(n)
  PROVE  \/ Owned(n)'
         \/ \E m \in Models : runtime[m] = n
         \/ \E s \in manager : call[s].run = n
<1>1. CASE call[Loop].at \in {"write", "metadata"} /\ call[Loop].run = n
  <2>1. call'[Loop] = call[Loop]
    BY <1>1 DEF IInv, TypeOK
  <2> QED BY <1>1, <2>1 DEF Owned
<1>2. CASE \E d \in downloads : d.file = n
  BY <1>2 DEF Owned
<1> QED BY <1>1, <1>2 DEF Owned

\* A step of a thread that is outside before and after, and touches neither files nor
\* runtimes, preserves the invariant.
LEMMA OutsideKeeps ==
  ASSUME IInv, NEW t \in Threads, NEW r \in Call,
         call' = [call EXCEPT ![t] = r],
         call[t].at \notin Inside \cup {"write", "metadata"},
         r.at \notin Inside \cup {"write", "metadata"},
         r.at = "generate" => r.run \in open,
         UNCHANGED <<disk, downloads, files, engines, manager>>,
         unlocked' \in BOOLEAN, session' \in SUBSET Threads
  PROVE  IInv'
<1>1. TypeOK'
  BY DEF IInv, TypeOK, disk, files, engines
<1>2. (ManagerInside /\ RunInHand /\ RuntimesApart /\ PinnedOnly /\ EngineKept)'
  BY <1>1, ManagerKept DEF IInv, TypeOK, EngineKept, files
<1>3. KeyInHand' /\ StagedInHand'
  BY DEF IInv, TypeOK, KeyInHand, StagedInHand, disk, files
<1>4. StoredKeyOpens'
  BY DEF IInv, StoredKeyOpens, disk
<1>5. ClearFilesOwned'
  <2>1. \A s \in Threads : \/ call'[s] = call[s]
                           \/ s \notin manager /\ call[s].at \notin {"write", "metadata"}
    BY DEF IInv, TypeOK, ManagerInside
  <2>2. \A n \in clear \ orphans : Owned(n)'
    BY <2>1, OwnersKept DEF IInv, ClearFilesOwned, engines
  <2> QED BY <2>2 DEF ClearFilesOwned, files
<1> QED BY <1>1, <1>2, <1>3, <1>4, <1>5 DEF IInv

-----------------------------------------------------------------------------
(* The invariant is inductive. *)

\* The initial state, no files and no runtimes, satisfies the invariant.
LEMMA InitIInv == Init => IInv
<1> SUFFICES ASSUME Init PROVE IInv
  OBVIOUS
<1>0. \A t \in Threads : call[t] = Idle
  BY DEF Init
<1>1. TypeOK
  <2>1. Cardinality(manager) <= 1
    BY FS_EmptySet DEF Init
  <2>2. Absent \in [data : Contents, write : 0..MaxWrites, key : 0..MaxWrites]
    BY DEF Absent, Contents
  <2>3. Loop \in Threads
    BY DEF Threads
  <2> QED BY <2>1, <2>2, <2>3, IdleType DEF Init, TypeOK, Contents
<1>2. ManagerInside
  BY <1>0, IdleType DEF Init, ManagerInside, Inside
<1>3. KeyInHand /\ StagedInHand
  BY <1>0, IdleType DEF Init, KeyInHand, StagedInHand, Threads
<1>4. EngineKept
  BY <1>0, IdleType DEF Init, EngineKept
<1> QED BY <1>1, <1>2, <1>3, <1>4 DEF Init, IInv, RunInHand, RuntimesApart, PinnedOnly,
      ClearFilesOwned, StoredKeyOpens

\* The calls that begin, wait, give up or generate are outside the manager's lock.
LEMMA OutsideStepsKeep ==
  ASSUME IInv, NEW t \in Threads, NEW m \in Models,
         \/ t = Loop /\ (LoadRequest(m) \/ UnloadRequest(m))
         \/ t = Loop /\ (Shutdown \/ UnloadAll \/ Stopped)
         \/ t \in Workers /\ (Datapull(t, m) \/ PrepareLocalModels(t) \/ FindRuntime(t, m))
         \/ LoadReturns(t) \/ Generate(t) \/ Generated(t)
  PROVE  IInv'
<1>0. call \in [Threads -> Call] /\ Loop \in Threads
  BY DEF IInv, TypeOK, Threads
<1>a. UNCHANGED <<disk, downloads, files, engines, manager>>
  BY DEF LoadRequest, UnloadRequest, Shutdown, UnloadAll, Stopped, Datapull,
         PrepareLocalModels, FindRuntime, LoadReturns, Generate, Generated
<1>b. unlocked' \in BOOLEAN /\ session' \in SUBSET Threads
  BY DEF LoadRequest, UnloadRequest, Shutdown, UnloadAll, Stopped, Datapull,
         PrepareLocalModels, FindRuntime, LoadReturns, Generate, Generated,
         vault, IInv, TypeOK, Threads
<1>c. call[t].at \notin Inside \cup {"write", "metadata"}
  BY DEF LoadRequest, UnloadRequest, Shutdown, UnloadAll, Stopped, Datapull,
         PrepareLocalModels, FindRuntime, LoadReturns, Generate, Generated, LoopFree, Inside
<1> SUFFICES \E r \in Call :
               /\ call' = [call EXCEPT ![t] = r]
               /\ r.at \notin Inside \cup {"write", "metadata"}
               /\ r.at = "generate" => r.run \in open
  BY <1>a, <1>b, <1>c, OutsideKeeps
<1>1. CASE t = Loop /\ LoadRequest(m)
  <2>1. [Idle EXCEPT !.at = "load", !.model = m] \in Call
    BY IdleType DEF Call, Points
  <2> QED BY <1>1, <2>1, IdleType DEF LoadRequest, Inside, Call
<1>2. CASE t = Loop /\ UnloadRequest(m)
  <2>1. [Idle EXCEPT !.at = "unload", !.model = m] \in Call
    BY IdleType DEF Call, Points
  <2> QED BY <1>2, <2>1, IdleType DEF UnloadRequest, Inside, Call
<1>3. CASE t = Loop /\ UnloadAll
  <2>1. PICK n \in Models : call' = [call EXCEPT ![Loop] =
          [Idle EXCEPT !.at = "unload", !.model = n, !.last = TRUE]]
    BY <1>3 DEF UnloadAll
  <2>2. [Idle EXCEPT !.at = "unload", !.model = n, !.last = TRUE] \in Call
    BY IdleType DEF Call, Points
  <2> QED BY <1>3, <2>1, <2>2, IdleType DEF Inside, Call
<1>4. CASE t \in Workers /\ Datapull(t, m)
  <2>1. [Idle EXCEPT !.at = "session", !.model = m] \in Call
    BY IdleType DEF Call, Points
  <2> QED BY <1>4, <2>1, IdleType DEF Datapull, Inside, Call
<1>5. CASE t \in Workers /\ FindRuntime(t, m)
  <2>1. [Idle EXCEPT !.at = "wait", !.model = m, !.run = runtime[m]] \in Call
    BY IdleType DEF Call, Points, IInv, TypeOK
  <2> QED BY <1>5, <2>1, IdleType DEF FindRuntime, Inside, Call
<1>6. CASE \E p \in {"stopping", "stopped", "load"} : Goto(t, p)
  BY <1>0, <1>6, GotoKeeps DEF Points, Inside
<1>7. CASE Goto(t, "generate") /\ call[t].run \in open
  <2>1. "generate" \in Points
    BY DEF Points
  <2> QED BY <1>0, <1>7, <2>1, GotoKeeps DEF Inside
<1>8. CASE Return(t)
  BY <1>0, <1>8, ReturnOutside DEF Inside
<1> QED BY <1>1, <1>2, <1>3, <1>4, <1>5, <1>6, <1>7, <1>8
    DEF Shutdown, Stopped, PrepareLocalModels, LoadReturns, Generate, Generated

\* Unlocking, expiry and locking of the vault preserve the invariant.
LEMMA VaultStepsKeep ==
  ASSUME IInv, UserUnlocks \/ Expire \/ LockVault
  PROVE  IInv'
<1>1. UNCHANGED <<disk, downloads, files, engines, manager, call>>
  BY DEF UserUnlocks, Expire, LockVault
<1>2. unlocked' \in BOOLEAN /\ session' \in SUBSET Threads
  BY DEF UserUnlocks, Expire, LockVault, IInv, TypeOK, Threads
<1>3. TypeOK'
  BY <1>1, <1>2 DEF IInv, TypeOK, disk, files, engines
<1>4. (ManagerInside /\ RunInHand /\ RuntimesApart /\ StagedInHand /\ PinnedOnly)'
  BY <1>1 DEF IInv, ManagerInside, RunInHand, RuntimesApart, StagedInHand, PinnedOnly, files, engines
<1>5. (KeyInHand /\ ClearFilesOwned /\ EngineKept /\ StoredKeyOpens)'
  BY <1>1 DEF IInv, KeyInHand, ClearFilesOwned, Owned, EngineKept, StoredKeyOpens, disk, files, engines
<1> QED BY <1>3, <1>4, <1>5 DEF IInv

-----------------------------------------------------------------------------
(* install and import_local: the key, the file, the metadata. *)

\* _model_key: a new key only if there is none, so that what was encrypted stays readable.
LEMMA KeyStays ==
  ASSUME IInv, writes < MaxWrites \/ atRest # 0
  PROVE  /\ ModelKey \in 0..MaxWrites /\ ModelKey # 0
         /\ atRest # 0 => ModelKey = atRest
  BY DEF ModelKey, IInv, TypeOK

\* Runs and clear files are numbered from 1.
LEMMA RunsNumbered ==
  ASSUME TypeOK
  PROVE  /\ clear \subseteq 1..MaxClear /\ open \subseteq 1..MaxClear
         /\ 0 \notin clear /\ 0 \notin open
  BY DEF TypeOK

\* A new clear file is nobody's.
LEMMA NewFile ==
  ASSUME TypeOK, MakeClear
  PROVE  /\ made' \in 1..MaxClear /\ made' \in 0..MaxClear /\ made' \in 1..made'
         /\ 1..made \subseteq 1..made' /\ made' \notin 1..made
         /\ made' \notin clear /\ made' \notin open /\ made' \notin orphans
         /\ clear' = clear \cup {made'} /\ clear' \subseteq 1..made' /\ open \subseteq 1..made'
         /\ orphans \subseteq clear'
  BY DEF TypeOK, MakeClear

\* The key that an install takes before its download is the vault's.
LEMMA BeginInstallKeeps ==
  ASSUME IInv, NEW m \in Models, BeginInstall(m)
  PROVE  IInv'
<1> USE DEF BeginInstall, LoopFree
<1>0. Loop \in Threads /\ TypeOK
  BY DEF Threads, IInv
<1>a. atRest' \in 0..MaxWrites /\ atRest' # 0 /\ (atRest # 0 => atRest' = atRest)
  BY KeyStays
<1>b. PICK d \in Download : /\ d.key = atRest' /\ d.file = made'
                           /\ downloads' = downloads \cup {d}
  <2>1. [model |-> m, key |-> ModelKey, file |-> made'] \in Download
    BY <1>0, <1>a, NewFile DEF Download
  <2> QED BY <2>1
<1>c. /\ made' \notin orphans /\ clear' = clear \cup {made'} /\ 1..made \subseteq 1..made'
      /\ made' \in 1..made'
  BY <1>0, NewFile
<1>1. TypeOK'
  <2>1. downloads' \in SUBSET Download
    BY <1>b DEF IInv, TypeOK
  <2>2. /\ orphans' \subseteq clear' /\ clear' \subseteq 1..made' /\ made' \in 0..MaxClear
        /\ open' \subseteq 1..made'
    BY <1>0, NewFile DEF engines
  <2> QED BY <1>a, <2>1, <2>2 DEF IInv, TypeOK, engines, vault
<1>2. (ManagerInside /\ RunInHand /\ RuntimesApart /\ PinnedOnly /\ EngineKept)'
  BY <1>1, <1>c, ManagerKept DEF IInv, TypeOK, EngineKept
<1>3. KeyInHand' /\ StagedInHand'
  <2>1. KeyInHand'
    BY <1>0, <1>a DEF IInv, KeyInHand
  <2>2. StagedInHand'
    BY <1>0, <1>b, <1>c DEF IInv, StagedInHand
  <2> QED BY <2>1, <2>2
<1>4. StoredKeyOpens'
  BY <1>a, <1>b DEF IInv, KeyInHand, StoredKeyOpens
<1>5. ClearFilesOwned'
  <2>1. \A n \in clear \ orphans : Owned(n)'
    BY <1>b, OwnersKept DEF IInv, ClearFilesOwned, engines
  <2>2. PICK n : n = made'
    OBVIOUS
  <2>3. Owned(n)'
    BY <1>b, <2>2 DEF Owned
  <2> QED BY <1>c, <2>1, <2>2, <2>3 DEF ClearFilesOwned
<1> QED BY <1>1, <1>2, <1>3, <1>4, <1>5 DEF IInv

\* A download that fails gives its key up, and takes its clear file with it.
LEMMA DownloadFailsKeeps ==
  ASSUME IInv, NEW d \in downloads, DownloadFails(d)
  PROVE  IInv'
<1> USE DEF DownloadFails, LoopFree
<1>0. Loop \in Threads
  BY DEF Threads
<1>1. TypeOK'
  BY <1>0 DEF IInv, TypeOK, StagedInHand, disk, engines, vault
<1>2. (ManagerInside /\ RunInHand /\ RuntimesApart /\ PinnedOnly /\ EngineKept)'
  BY <1>1, ManagerKept DEF IInv, TypeOK, EngineKept
<1>3. KeyInHand' /\ StagedInHand'
  BY <1>0 DEF IInv, TypeOK, KeyInHand, StagedInHand, disk
<1>4. StoredKeyOpens'
  BY DEF IInv, TypeOK, StoredKeyOpens, disk
<1>5. ClearFilesOwned'
  BY DEF IInv, ClearFilesOwned, Owned, engines
<1> QED BY <1>1, <1>2, <1>3, <1>4, <1>5 DEF IInv

\* A download that ends hands its key and its clear file on to the encryption.
LEMMA DownloadedKeeps ==
  ASSUME IInv, NEW d \in downloads, Downloaded(d)
  PROVE  IInv'
<1> USE DEF Downloaded, LoopFree
<1>0. Loop \in Threads /\ d \in Download
  BY DEF Threads, IInv, TypeOK
<1> DEFINE r == [Idle EXCEPT !.at = "write", !.model = d.model, !.run = d.file, !.key = d.key]
<1>a. r \in Call /\ r.at = "write" /\ r.run = d.file /\ r.key = d.key
  <2>1. d.model \in Models /\ d.file \in 0..MaxClear /\ d.key \in 0..MaxWrites
    BY <1>0 DEF Download
  <2>2. r \in Call
    BY <2>1, IdleType DEF Call, Points
  <2>3. r.at = "write" /\ r.run = d.file /\ r.key = d.key
    BY DEF Idle
  <2> QED BY <2>2, <2>3
<1>b. call' = [call EXCEPT ![Loop] = r]
  OBVIOUS
<1> HIDE DEF r
<1>d. d.file \in (1..made) \ orphans
  BY DEF IInv, StagedInHand
<1>e. weights' \in [1..MaxClear -> Contents]
        /\ \A n \in 1..MaxClear : weights'[n] \in {weights[n], "pinned"}
  BY DEF IInv, TypeOK, Contents
<1>f. 1..made \subseteq 1..MaxClear
  BY DEF IInv, TypeOK
<1>1. TypeOK'
  BY <1>0, <1>a, <1>b, <1>e DEF IInv, TypeOK, disk, engines, vault
<1>2. (ManagerInside /\ RunInHand /\ RuntimesApart /\ PinnedOnly /\ EngineKept)'
  BY <1>0, <1>1, <1>a, <1>b, <1>e, <1>f, ManagerKept DEF IInv, TypeOK, EngineKept, Inside
<1>3. KeyInHand' /\ StagedInHand'
  <2>1. KeyInHand'
    BY <1>0, <1>a, <1>b DEF IInv, TypeOK, KeyInHand, StoredKeyOpens, disk
  <2>2. StagedInHand'
    BY <1>0, <1>a, <1>b, <1>d DEF IInv, TypeOK, StagedInHand
  <2> QED BY <2>1, <2>2
<1>4. StoredKeyOpens'
  BY DEF IInv, TypeOK, StoredKeyOpens, disk
<1>5. ClearFilesOwned'
  <2>1. \A n \in clear \ orphans : Owned(n)'
    <3>1. SUFFICES ASSUME NEW n \in clear \ orphans PROVE Owned(n)'
      OBVIOUS
    <3>2. Owned(n)
      BY DEF IInv, ClearFilesOwned
    <3>3. call'[Loop] = r
      BY <1>0, <1>b DEF IInv, TypeOK
    <3>4. CASE \E e \in downloads : e.file = n
      BY <1>a, <3>3, <3>4 DEF Owned
    <3>5. CASE \E s \in manager : call[s].run = n
      <4>1. \A s \in manager : s # Loop /\ call'[s] = call[s]
        BY <1>0, <1>b DEF IInv, TypeOK, ManagerInside, Inside
      <4> QED BY <3>5, <4>1 DEF Owned
    <3> QED BY <3>2, <3>4, <3>5 DEF Owned, engines
  <2> QED BY <2>1 DEF ClearFilesOwned
<1> QED BY <1>1, <1>2, <1>3, <1>4, <1>5 DEF IInv

\* An import makes a clear file of its own.
LEMMA BeginImportKeeps ==
  ASSUME IInv, NEW m \in Models, BeginImport(m)
  PROVE  IInv'
<1> USE DEF BeginImport, LoopFree
<1>0. Loop \in Threads /\ TypeOK
  BY DEF Threads, IInv
<1> DEFINE r == [Idle EXCEPT !.at = "write", !.model = m, !.run = made']
<1>a. r \in Call /\ r.at = "write" /\ r.run = made' /\ r.key = 0
  <2>1. made' \in 0..MaxClear
    BY <1>0, NewFile
  <2>2. r \in Call
    BY <2>1, IdleType DEF Call, Points
  <2>3. r.at = "write" /\ r.run = made' /\ r.key = 0
    BY DEF Idle
  <2> QED BY <2>2, <2>3
<1>b. call' = [call EXCEPT ![Loop] = r]
  OBVIOUS
<1>c. /\ made' \notin orphans /\ clear' = clear \cup {made'} /\ 1..made \subseteq 1..made'
      /\ made' \in 1..MaxClear /\ made' \notin 1..made /\ made' \in 1..made'
  BY <1>0, NewFile
<1> HIDE DEF r
<1>d. PICK c \in {"pinned", "other"} : weights' = [weights EXCEPT ![made'] = c]
  OBVIOUS
<1>e. weights' \in [1..MaxClear -> Contents] /\ \A n \in 1..made : weights'[n] = weights[n]
  BY <1>c, <1>d DEF IInv, TypeOK, Contents
<1>1. TypeOK'
  <2>1. /\ orphans' \subseteq clear' /\ clear' \subseteq 1..made' /\ made' \in 0..MaxClear
        /\ open' \subseteq 1..made'
    BY <1>0, NewFile DEF engines
  <2> QED BY <1>0, <1>a, <1>b, <1>e, <2>1 DEF IInv, TypeOK, disk, engines, vault
<1>2. (ManagerInside /\ RunInHand /\ RuntimesApart /\ PinnedOnly /\ EngineKept)'
  BY <1>0, <1>1, <1>a, <1>b, <1>c, <1>e, ManagerKept DEF IInv, TypeOK, EngineKept, Inside
<1>3. KeyInHand' /\ StagedInHand'
  <2>1. KeyInHand'
    BY <1>0, <1>a, <1>b DEF IInv, TypeOK, KeyInHand, disk
  <2>2. StagedInHand'
    BY <1>0, <1>a, <1>b, <1>c DEF IInv, TypeOK, StagedInHand
  <2> QED BY <2>1, <2>2
<1>4. StoredKeyOpens'
  BY DEF IInv, TypeOK, StoredKeyOpens, disk
<1>5. ClearFilesOwned'
  <2>1. \A s \in Threads : \/ call'[s] = call[s]
                           \/ s \notin manager /\ call[s].at \notin {"write", "metadata"}
    BY <1>0, <1>b DEF IInv, TypeOK, ManagerInside, Inside
  <2>2. \A n \in clear \ orphans : Owned(n)'
    BY <2>1, OwnersKept DEF IInv, ClearFilesOwned, engines
  <2>3. PICK n : n = made'
    OBVIOUS
  <2>4. Owned(n)'
    BY <1>0, <1>a, <1>b, <2>3 DEF Owned, IInv, TypeOK
  <2> QED BY <1>c, <2>2, <2>3, <2>4 DEF ClearFilesOwned
<1> QED BY <1>1, <1>2, <1>3, <1>4, <1>5 DEF IInv

\* The file is replaced by one under the vault's key.
LEMMA EncryptKeeps ==
  ASSUME IInv, Encrypt
  PROVE  IInv'
<1> USE DEF Encrypt
<1>0. Loop \in Threads
  BY DEF Threads
<1>a. PICK r \in Call : /\ call' = [call EXCEPT ![Loop] = r] /\ r.at = "metadata"
                      /\ r.model = call[Loop].model /\ r.run = call[Loop].run
  BY <1>0, GotoKeeps DEF IInv, TypeOK, Points
<1>b. /\ call[Loop].model \in Models /\ call[Loop].key \in {0, atRest}
      /\ call[Loop].run \in (1..made) \ orphans
  BY <1>0 DEF IInv, TypeOK, Call, KeyInHand, StagedInHand
<1>c. writes' \in 0..MaxWrites /\ writes' # 0 /\ weights[call[Loop].run] \in Contents
  BY <1>b DEF IInv, TypeOK
<1>d. atRest' \in 0..MaxWrites /\ atRest' # 0 /\ (atRest # 0 => atRest' = atRest)
  BY <1>b, KeyStays DEF IInv, TypeOK
<1>e. file' = [file EXCEPT ![call[Loop].model] =
                 [data |-> weights[call[Loop].run], write |-> writes', key |-> atRest']]
  <2>1. (IF call[Loop].key = 0 THEN ModelKey ELSE call[Loop].key) = atRest'
    BY <1>b
  <2> QED BY <2>1
<1> HIDE DEF Encrypt
<1>f. /\ UNCHANGED <<metadata, downloads, files, engines, manager, vault>>
      /\ call[Loop].at = "write"
  BY DEF Encrypt
<1>1. TypeOK'
  BY <1>0, <1>a, <1>b, <1>c, <1>d, <1>e, <1>f DEF IInv, TypeOK, files, engines, vault
<1>2. (ManagerInside /\ RunInHand /\ RuntimesApart /\ PinnedOnly /\ EngineKept)'
  BY <1>0, <1>1, <1>a, <1>f, ManagerKept DEF IInv, TypeOK, EngineKept, Inside, files
<1>3. KeyInHand' /\ StagedInHand'
  <2>1. KeyInHand'
    BY <1>0, <1>a, <1>b, <1>c, <1>d, <1>e DEF IInv, TypeOK, KeyInHand, Absent
  <2>2. StagedInHand'
    BY <1>0, <1>a, <1>b, <1>f DEF IInv, TypeOK, StagedInHand, files
  <2> QED BY <2>1, <2>2
<1>4. StoredKeyOpens'
  BY <1>0, <1>b, <1>c, <1>d, <1>e, <1>f DEF IInv, TypeOK, KeyInHand, StoredKeyOpens, Absent
<1>5. ClearFilesOwned'
  BY <1>0, <1>a, <1>f DEF IInv, TypeOK, ManagerInside, Inside, ClearFilesOwned, Owned, files, engines
<1> QED BY <1>1, <1>2, <1>3, <1>4, <1>5 DEF IInv

\* The end of an import or an install, with or without an exception, takes the clear file.
LEMMA StagedEnds ==
  ASSUME IInv, EncryptFails \/ WriteMetadata
  PROVE  IInv'
<1>0. Loop \in Threads
  BY DEF Threads
<1>a. PICK r \in Call : call' = [call EXCEPT ![Loop] = r] /\ r.at \in {"idle", "stopping"}
  BY <1>0, ReturnOutside DEF IInv, TypeOK, EncryptFails, WriteMetadata
<1>b. /\ UNCHANGED <<file, atRest, writes, downloads, weights, orphans, made, engines, manager, vault>>
      /\ clear' = clear \ {call[Loop].run} /\ call[Loop].at \in {"write", "metadata"}
      /\ \/ metadata' = metadata
         \/ metadata' = metadata \cup {call[Loop].model} /\ call[Loop].at = "metadata"
  BY DEF EncryptFails, WriteMetadata, disk
<1>c. call[Loop].model \in Models /\ call[Loop].run \notin orphans
  BY <1>0, <1>b DEF IInv, TypeOK, Call, StagedInHand
<1>1. TypeOK'
  BY <1>0, <1>a, <1>b, <1>c DEF IInv, TypeOK, engines, vault
<1>2. (ManagerInside /\ RunInHand /\ RuntimesApart /\ PinnedOnly /\ EngineKept)'
  BY <1>0, <1>1, <1>a, <1>b, ManagerKept DEF IInv, TypeOK, EngineKept, Inside
<1>3. KeyInHand' /\ StagedInHand'
  BY <1>0, <1>a, <1>b DEF IInv, TypeOK, KeyInHand, StagedInHand
<1>4. StoredKeyOpens'
  BY <1>0, <1>b DEF IInv, TypeOK, KeyInHand, StoredKeyOpens
<1>5. ClearFilesOwned'
  BY <1>0, <1>a, <1>b DEF IInv, TypeOK, ManagerInside, Inside, ClearFilesOwned, Owned, engines
<1> QED BY <1>1, <1>2, <1>3, <1>4, <1>5 DEF IInv

-----------------------------------------------------------------------------
(* load: the lock, a clear file, the verified weights, the runtime. *)

\* A set of threads with one member has one.
LEMMA OneOwner == \A t : Cardinality({t}) <= 1 /\ Cardinality({}) <= 1
<1>1. Cardinality({}) = 0
  BY FS_EmptySet
<1>2. \A t : Cardinality({t}) = 1
  BY FS_Singleton
<1> QED BY <1>1, <1>2

\* A load that enters takes the lock from nobody, and a clear file that nothing else uses.
LEMMA LoadEntersKeeps ==
  ASSUME IInv, NEW t \in Threads, LoadEnters(t)
  PROVE  IInv'
<1> USE DEF LoadEnters, LoadRefused, Inside
<1>p. TypeOK
  BY DEF IInv
<1> DEFINE r == [call[t] EXCEPT !.at = "read", !.run = made', !.key = ModelKey,
                                !.write = file[call[t].model].write]
<1>0. call[t] \in Call /\ call[t].model \in Models
  BY DEF IInv, TypeOK, Call
<1>a. atRest' = atRest /\ ModelKey = atRest
  BY <1>0 DEF ModelKey, IInv, KeyInHand
<1>b. /\ made' \in 1..MaxClear /\ made' \in 0..MaxClear /\ made' \in 1..made'
      /\ made' \notin clear /\ made' \notin open /\ made' \notin orphans
      /\ clear' \subseteq 1..made' /\ open' \subseteq 1..made' /\ 1..made \subseteq 1..made'
  BY <1>p, NewFile DEF engines
<1>c. r \in Call /\ r.at = "read" /\ r.run = made' /\ r.model = call[t].model
  <2>1. file[call[t].model].write \in 0..MaxWrites /\ ModelKey \in 0..MaxWrites
    BY <1>0, <1>a DEF IInv, TypeOK
  <2> QED BY <1>0, <1>b, <2>1 DEF Call, Points
<1>d. call' = [call EXCEPT ![t] = r]
  BY DEF IInv, TypeOK
<1>e. manager = {} /\ manager' = {t} /\ clear' = clear \cup {made'}
  BY DEF MakeClear
<1> HIDE DEF r
<1>1. TypeOK'
  <2>1. call' \in [Threads -> Call]
    BY <1>c, <1>d DEF IInv, TypeOK
  <2>2. orphans' \subseteq clear'
    BY <1>e DEF IInv, TypeOK
  <2>3. manager' \in SUBSET Threads /\ Cardinality(manager') <= 1
    BY <1>e, OneOwner
  <2> QED BY <1>a, <1>b, <2>1, <2>2, <2>3 DEF IInv, TypeOK, engines, vault
<1>2. ManagerInside'
  BY <1>c, <1>d DEF IInv, TypeOK, ManagerInside
<1>3. RunInHand'
  BY <1>0, <1>b, <1>c, <1>d DEF IInv, TypeOK, RunInHand, engines, EngineKept
<1>4. RuntimesApart'
  BY DEF IInv, RuntimesApart, engines
<1>5. KeyInHand' /\ StagedInHand'
  BY <1>a, <1>b, <1>c, <1>d DEF IInv, TypeOK, KeyInHand, StagedInHand, Threads
<1>6. PinnedOnly'
  BY DEF IInv, PinnedOnly, engines
<1>7. ClearFilesOwned'
  <2>1. ASSUME NEW n \in clear \ orphans
        PROVE  Owned(n)' \/ (\E m \in Models : runtime[m] = n) \/ (\E s \in manager : call[s].run = n)
    BY <1>c, <1>d, <2>1, OwnersElse DEF IInv, ClearFilesOwned
  <2>2. \A n \in clear \ orphans : Owned(n)'
    BY <1>e, <2>1 DEF Owned, engines
  <2>3. PICK n : n = made'
    OBVIOUS
  <2>4. Owned(n)'
    BY <1>c, <1>d, <1>e, <2>3 DEF Owned, IInv, TypeOK
  <2> QED BY <1>e, <2>2, <2>3, <2>4 DEF ClearFilesOwned
<1>8. EngineKept'
  BY <1>c, <1>d DEF IInv, TypeOK, EngineKept, engines
<1>9. StoredKeyOpens'
  BY <1>a DEF IInv, StoredKeyOpens
<1> QED BY <1>1, <1>2, <1>3, <1>4, <1>5, <1>6, <1>7, <1>8, <1>9 DEF IInv

\* What is decrypted for an engine has been verified.
LEMMA DecryptKeeps ==
  ASSUME IInv, NEW t \in Threads, Decrypt(t)
  PROVE  IInv'
<1> USE DEF Decrypt, Verified, Inside
<1>0. call[t] \in Call /\ call[t].model \in Models /\ manager = {t}
  BY HolderAlone DEF IInv, TypeOK, Call
<1>a. PICK r \in Call : /\ call' = [call EXCEPT ![t] = r] /\ r.at = "engine"
                      /\ r.run = call[t].run /\ r.model = call[t].model
  BY GotoKeeps DEF IInv, TypeOK, Points
<1>b. call[t].run \in (1..made) \ orphans /\ call[t].run \in 1..MaxClear
  BY <1>0 DEF IInv, RunInHand, TypeOK
<1>c. weights' \in [1..MaxClear -> Contents] /\ weights'[call[t].run] = "pinned"
        /\ \A n \in 1..MaxClear : weights'[n] \in {weights[n], "pinned"}
  BY <1>b DEF IInv, TypeOK, Contents
<1>1. TypeOK'
  BY <1>a, <1>c DEF IInv, TypeOK, disk, engines, vault
<1>2. ManagerInside'
  BY <1>0, <1>a DEF IInv, TypeOK, ManagerInside
<1>3. RunInHand'
  BY <1>0, <1>a, <1>b, <1>c DEF IInv, TypeOK, RunInHand, engines
<1>4. RuntimesApart'
  BY DEF IInv, RuntimesApart, engines
<1>5. KeyInHand' /\ StagedInHand'
  BY <1>a DEF IInv, TypeOK, KeyInHand, StagedInHand, disk, Threads
<1>6. PinnedOnly'
  BY <1>c DEF IInv, TypeOK, PinnedOnly, engines
<1>7. ClearFilesOwned'
  <2>1. ASSUME NEW n \in clear \ orphans
        PROVE  Owned(n)' \/ (\E m \in Models : runtime[m] = n) \/ (\E s \in manager : call[s].run = n)
    BY <1>a, <2>1, OwnersElse DEF IInv, ClearFilesOwned
  <2>2. call'[t].run = call[t].run
    BY <1>a DEF IInv, TypeOK
  <2>3. \A n \in clear \ orphans : Owned(n)'
    BY <1>0, <2>1, <2>2 DEF Owned, engines
  <2> QED BY <2>3 DEF ClearFilesOwned
<1>8. EngineKept'
  BY <1>a DEF IInv, TypeOK, EngineKept, engines
<1>9. StoredKeyOpens'
  BY DEF IInv, StoredKeyOpens, disk
<1> QED BY <1>1, <1>2, <1>3, <1>4, <1>5, <1>6, <1>7, <1>8, <1>9 DEF IInv

\* A load that fails takes its clear file with it.
LEMMA LoadFailsKeeps ==
  ASSUME IInv, NEW t \in Threads, LoadFails(t)
  PROVE  IInv'
<1> USE DEF LoadFails, Inside
<1>0. call[t] \in Call /\ manager = {t}
  BY HolderAlone DEF IInv, TypeOK
<1>a. PICK r \in Call : call' = [call EXCEPT ![t] = r] /\ r.at \in {"idle", "stopping"}
  BY ReturnOutside DEF IInv, TypeOK
<1>b. call[t].run \notin orphans /\ \A m \in Models : runtime[m] # call[t].run
  BY <1>0 DEF IInv, RunInHand
<1>1. TypeOK'
  BY <1>a, <1>b, OneOwner DEF IInv, TypeOK, disk, engines, vault
<1>2. ManagerInside'
  BY <1>0, <1>a DEF IInv, TypeOK, ManagerInside
<1>3. RunInHand'
  BY DEF RunInHand
<1>4. RuntimesApart'
  BY DEF IInv, RuntimesApart, engines
<1>5. KeyInHand' /\ StagedInHand'
  BY <1>a DEF IInv, TypeOK, KeyInHand, StagedInHand, disk, Threads
<1>6. PinnedOnly'
  BY DEF IInv, PinnedOnly, engines
<1>7. ClearFilesOwned'
  <2>1. ASSUME NEW n \in clear \ orphans
        PROVE  Owned(n)' \/ (\E m \in Models : runtime[m] = n) \/ (\E s \in manager : call[s].run = n)
    BY <1>a, <2>1, OwnersElse DEF IInv, ClearFilesOwned
  <2>2. \A n \in (clear \ {call[t].run}) \ orphans : Owned(n)'
    BY <1>0, <2>1 DEF Owned, engines
  <2> QED BY <2>2 DEF ClearFilesOwned
<1>8. EngineKept'
  BY <1>a, <1>b DEF IInv, TypeOK, EngineKept, engines
<1>9. StoredKeyOpens'
  BY DEF IInv, StoredKeyOpens, disk
<1> QED BY <1>1, <1>2, <1>3, <1>4, <1>5, <1>6, <1>7, <1>8, <1>9 DEF IInv

\* A load that succeeds publishes a runtime with its clear file and verified weights, in
\* place of none.
LEMMA LoadedKeeps ==
  ASSUME IInv, NEW t \in Threads, Loaded(t)
  PROVE  IInv'
<1> USE DEF Loaded, Inside
<1>0. call[t] \in Call /\ manager = {t}
  BY HolderAlone DEF IInv, TypeOK
<1>a. PICK r \in Call : call' = [call EXCEPT ![t] = r] /\ r.at \in {"idle", "stopping"}
  BY ReturnOutside DEF IInv, TypeOK
<1>b. PICK m \in Models, n \in 1..made :
        /\ m = call[t].model /\ n = call[t].run /\ n \notin orphans
        /\ runtime[m] = 0 /\ weights[n] = "pinned"
        /\ \A k \in Models : runtime[k] # n
  <2>1. call[t].model \in Models /\ call[t].run \in (1..made) \ orphans
    BY <1>0 DEF IInv, RunInHand, TypeOK, Call
  <2> QED BY <1>0, <2>1 DEF IInv, RunInHand
<1>c. runtime' = [runtime EXCEPT ![m] = n] /\ open' = open \cup {n}
  BY <1>b
<1>d. n \in 0..MaxClear /\ n # 0
  BY <1>b DEF IInv, TypeOK
<1>e. runtime' \in [Models -> 0..MaxClear] /\ open' \subseteq 1..made
  <2>1. runtime \in [Models -> 0..MaxClear] /\ open \subseteq 1..made
    BY DEF IInv, TypeOK
  <2> QED BY <1>b, <1>c, <1>d, <2>1
<1>1. TypeOK'
  <2>1. orphans' \subseteq clear' /\ clear' \subseteq 1..made'
    BY <1>b DEF IInv, TypeOK
  <2> QED BY <1>a, <1>e, <2>1, OneOwner DEF IInv, TypeOK, disk, vault
<1>2. ManagerInside'
  BY <1>0, <1>a DEF IInv, TypeOK, ManagerInside
<1>3. RunInHand'
  BY DEF RunInHand
<1>4. RuntimesApart'
  <2>1. \A k \in Models : runtime'[k] = IF k = m THEN n ELSE runtime[k]
    BY <1>b, <1>c DEF IInv, TypeOK
  <2> QED BY <1>b, <2>1 DEF IInv, RuntimesApart
<1>5. KeyInHand' /\ StagedInHand'
  BY <1>a DEF IInv, TypeOK, KeyInHand, StagedInHand, disk, Threads
<1>6. PinnedOnly'
  BY <1>b, <1>c DEF IInv, PinnedOnly
<1>7. ClearFilesOwned'
  <2>1. ASSUME NEW k \in clear \ orphans
        PROVE  Owned(k)' \/ (\E j \in Models : runtime[j] = k) \/ (\E s \in manager : call[s].run = k)
    BY <1>a, <2>1, OwnersElse DEF IInv, ClearFilesOwned
  <2>2. \A j \in Models : runtime[j] # 0 => runtime'[j] = runtime[j]
    BY <1>b, <1>c DEF IInv, TypeOK
  <2>3. runtime'[m] = n
    BY <1>b, <1>c DEF IInv, TypeOK
  <2>4. 0 \notin clear
    BY DEF IInv, TypeOK
  <2>5. \A k \in clear \ orphans : Owned(k)'
    BY <1>0, <1>b, <2>1, <2>2, <2>3, <2>4 DEF Owned
  <2> QED BY <2>5 DEF ClearFilesOwned
<1>8. EngineKept'
  BY <1>a, <1>b, <1>c DEF IInv, TypeOK, EngineKept
<1>9. StoredKeyOpens'
  BY DEF IInv, StoredKeyOpens, disk
<1> QED BY <1>1, <1>2, <1>3, <1>4, <1>5, <1>6, <1>7, <1>8, <1>9 DEF IInv

-----------------------------------------------------------------------------
(* unload, shutdown and restart. *)

\* An unload takes the runtime out of the manager's hands, into its own.
LEMMA UnloadKeeps ==
  ASSUME IInv, Unload
  PROVE  IInv'
<1> USE DEF Unload, Inside
<1>0. Loop \in Threads /\ call[Loop] \in Call /\ call[Loop].model \in Models
  BY DEF Threads, IInv, TypeOK, Call
<1>a. PICK m \in Models : m = call[Loop].model /\ runtime' = [runtime EXCEPT ![m] = 0]
  BY <1>0
<1>b. \A k \in Models : runtime'[k] = IF k = m THEN 0 ELSE runtime[k]
  BY <1>a DEF IInv, TypeOK
<1>c. PICK r \in Call :
        /\ call' = [call EXCEPT ![Loop] = r]
        /\ \/ runtime[m] = 0 /\ manager' = {} /\ r.at \in {"idle", "stopping"}
           \/ runtime[m] # 0 /\ manager' = {Loop} /\ r.at = "close" /\ r.run = runtime[m]
  <2>1. CASE runtime[m] = 0
    BY <1>0, <1>a, <2>1, ReturnOutside DEF IInv, TypeOK
  <2>2. CASE runtime[m] # 0
    <3>1. [call[Loop] EXCEPT !.at = "close", !.run = runtime[m]] \in Call
      BY <1>0, <1>a DEF Call, Points, IInv, TypeOK
    <3> QED BY <1>0, <1>a, <2>2, <3>1 DEF IInv, TypeOK, Call
  <2> QED BY <2>1, <2>2
<1>d. runtime[m] # 0 => runtime[m] \in (1..made) \ orphans
  BY <1>a DEF IInv, TypeOK, EngineKept, RuntimesApart
<1>1. TypeOK'
  <2>1. call' \in [Threads -> Call]
    BY <1>c DEF IInv, TypeOK
  <2>2. runtime' \in [Models -> 0..MaxClear]
    <3>1. runtime \in [Models -> 0..MaxClear] /\ 0 \in 0..MaxClear
      BY DEF IInv, TypeOK
    <3>2. runtime' = [runtime EXCEPT ![m] = 0]
      BY <1>a
    <3> HIDE DEF Unload
    <3> QED BY <3>1, <3>2
  <2>3. manager' \in SUBSET Threads /\ Cardinality(manager') <= 1
    BY <1>0, <1>c, OneOwner
  <2> QED BY <2>1, <2>2, <2>3 DEF IInv, TypeOK, disk, files, vault
<1>2. ManagerInside'
  BY <1>0, <1>c DEF IInv, TypeOK, ManagerInside
<1>3. RunInHand'
  BY <1>0, <1>b, <1>c, <1>d DEF IInv, TypeOK, RunInHand, RuntimesApart, files
<1>4. RuntimesApart'
  BY <1>b DEF IInv, RuntimesApart, files
<1>5. KeyInHand' /\ StagedInHand'
  BY <1>0, <1>c DEF IInv, TypeOK, KeyInHand, StagedInHand, disk, files
<1>6. PinnedOnly'
  BY DEF IInv, PinnedOnly, files
<1>7. ClearFilesOwned'
  <2>1. ASSUME NEW k \in clear \ orphans
        PROVE  Owned(k)' \/ (\E j \in Models : runtime[j] = k) \/ (\E s \in manager : call[s].run = k)
    BY <1>0, <1>c, <2>1, OwnersElse DEF IInv, ClearFilesOwned
  <2>2. 0 \notin clear
    BY RunsNumbered DEF IInv
  <2>3. runtime[m] # 0 => call'[Loop].run = runtime[m] /\ Loop \in manager'
    BY <1>0, <1>c DEF IInv, TypeOK
  <2>4. \A k \in clear \ orphans : Owned(k)'
    BY <1>b, <2>1, <2>2, <2>3 DEF Owned
  <2> QED BY <2>4 DEF ClearFilesOwned, files
<1>8. EngineKept'
  BY <1>0, <1>b, <1>c DEF IInv, TypeOK, EngineKept, files
<1>9. StoredKeyOpens'
  BY DEF IInv, StoredKeyOpens, disk
<1> QED BY <1>1, <1>2, <1>3, <1>4, <1>5, <1>6, <1>7, <1>8, <1>9 DEF IInv

\* A runtime is closed when nobody generates with it and nobody can find it any more.
LEMMA CloseKeeps ==
  ASSUME IInv, Close
  PROVE  IInv'
<1> USE DEF Close, Inside
<1>0. Loop \in Threads /\ call[Loop] \in Call /\ manager = {Loop}
  BY HolderAlone DEF Threads, IInv, TypeOK
<1>a. PICK r \in Call : call' = [call EXCEPT ![Loop] = r] /\ r.at = "erase" /\ r.run = call[Loop].run
  BY <1>0, GotoKeeps DEF IInv, TypeOK, Points
<1>b. \A m \in Models : runtime[m] # call[Loop].run
  BY <1>0 DEF IInv, RunInHand
<1>1. TypeOK'
  BY <1>0, <1>a DEF IInv, TypeOK, disk, files, vault
<1>2. ManagerInside'
  BY <1>0, <1>a DEF IInv, TypeOK, ManagerInside
<1>3. RunInHand'
  BY <1>0, <1>a DEF IInv, TypeOK, RunInHand, files
<1>4. RuntimesApart'
  BY DEF IInv, RuntimesApart, files
<1>5. KeyInHand' /\ StagedInHand'
  BY <1>0, <1>a DEF IInv, TypeOK, KeyInHand, StagedInHand, disk, files
<1>6. PinnedOnly'
  BY DEF IInv, PinnedOnly, files
<1>7. ClearFilesOwned'
  <2>1. ASSUME NEW n \in clear \ orphans
        PROVE  Owned(n)' \/ (\E m \in Models : runtime[m] = n) \/ (\E s \in manager : call[s].run = n)
    BY <1>0, <1>a, <2>1, OwnersElse DEF IInv, ClearFilesOwned
  <2>2. call'[Loop].run = call[Loop].run
    BY <1>0, <1>a DEF IInv, TypeOK
  <2>3. \A n \in clear \ orphans : Owned(n)'
    BY <1>0, <2>1, <2>2 DEF Owned
  <2> QED BY <2>3 DEF ClearFilesOwned, files
<1>8. EngineKept'
  BY <1>0, <1>a, <1>b DEF IInv, TypeOK, EngineKept, Generating, files
<1>9. StoredKeyOpens'
  BY DEF IInv, StoredKeyOpens, disk
<1> QED BY <1>1, <1>2, <1>3, <1>4, <1>5, <1>6, <1>7, <1>8, <1>9 DEF IInv

\* The clear file of a closed runtime goes, and the lock with it.
LEMMA EraseKeeps ==
  ASSUME IInv, Erase
  PROVE  IInv'
<1> USE DEF Erase, Inside
<1>0. Loop \in Threads /\ call[Loop] \in Call /\ manager = {Loop}
  BY HolderAlone DEF Threads, IInv, TypeOK
<1>a. PICK r \in Call : call' = [call EXCEPT ![Loop] = r] /\ r.at \in {"idle", "stopping"}
  BY <1>0, ReturnOutside DEF IInv, TypeOK
<1>b. call[Loop].run \notin orphans /\ \A m \in Models : runtime[m] # call[Loop].run
  BY <1>0 DEF IInv, RunInHand
<1>1. TypeOK'
  BY <1>0, <1>a, <1>b, OneOwner DEF IInv, TypeOK, disk, engines, vault
<1>2. ManagerInside'
  BY <1>0, <1>a DEF IInv, TypeOK, ManagerInside
<1>3. RunInHand'
  BY DEF RunInHand
<1>4. RuntimesApart'
  BY DEF IInv, RuntimesApart, engines
<1>5. KeyInHand' /\ StagedInHand'
  BY <1>0, <1>a DEF IInv, TypeOK, KeyInHand, StagedInHand, disk
<1>6. PinnedOnly'
  BY DEF IInv, PinnedOnly, engines
<1>7. ClearFilesOwned'
  <2>1. ASSUME NEW n \in clear \ orphans
        PROVE  Owned(n)' \/ (\E m \in Models : runtime[m] = n) \/ (\E s \in manager : call[s].run = n)
    BY <1>0, <1>a, <2>1, OwnersElse DEF IInv, ClearFilesOwned
  <2>2. \A n \in (clear \ {call[Loop].run}) \ orphans : Owned(n)'
    BY <1>0, <2>1 DEF Owned, engines
  <2> QED BY <2>2 DEF ClearFilesOwned
<1>8. EngineKept'
  BY <1>0, <1>a, <1>b DEF IInv, TypeOK, EngineKept, engines
<1>9. StoredKeyOpens'
  BY DEF IInv, StoredKeyOpens, disk
<1> QED BY <1>1, <1>2, <1>3, <1>4, <1>5, <1>6, <1>7, <1>8, <1>9 DEF IInv

\* A restart forgets calls and runtimes; the clear files that are left are orphans.
LEMMA RestartKeeps ==
  ASSUME IInv, Restart
  PROVE  IInv'
<1> USE DEF Restart
<1>a. \A t \in Threads : call'[t].at = "idle"
  BY IdleType
<1>b. Loop \in Threads
  BY DEF Threads
<1>1. TypeOK'
  <2>1. call' \in [Threads -> Call]
    BY IdleType
  <2>2. runtime' \in [Models -> 0..MaxClear]
    OBVIOUS
  <2>3. downloads' \in SUBSET Download
    OBVIOUS
  <2>4. manager' \in SUBSET Threads /\ Cardinality(manager') <= 1
    BY OneOwner
  <2>5. open' \subseteq 1..made' /\ orphans' \subseteq clear'
    OBVIOUS
  <2> QED BY <2>1, <2>2, <2>3, <2>4, <2>5 DEF IInv, TypeOK, disk
<1>2. ManagerInside'
  BY <1>a DEF ManagerInside, Inside
<1>3. RunInHand'
  BY DEF RunInHand
<1>4. RuntimesApart'
  BY DEF RuntimesApart
<1>5. KeyInHand' /\ StagedInHand'
  BY <1>a, <1>b DEF IInv, KeyInHand, StagedInHand, disk
<1>6. PinnedOnly'
  BY DEF PinnedOnly
<1>7. ClearFilesOwned'
  BY DEF ClearFilesOwned
<1>8. EngineKept'
  BY <1>a DEF EngineKept
<1>9. StoredKeyOpens'
  BY DEF IInv, StoredKeyOpens, disk
<1> QED BY <1>1, <1>2, <1>3, <1>4, <1>5, <1>6, <1>7, <1>8, <1>9 DEF IInv

-----------------------------------------------------------------------------
\* Every step preserves the invariant.
LEMMA NextKeeps == IInv /\ [Next]_vars => IInv'
<1> SUFFICES ASSUME IInv, [Next]_vars PROVE IInv'
  OBVIOUS
<1>0. Loop \in Threads /\ Workers \subseteq Threads
  BY DEF Threads
<1>1. CASE Install
  BY <1>1, BeginInstallKeeps, DownloadFailsKeeps, DownloadedKeeps, BeginImportKeeps DEF Install
<1>2. ASSUME NEW m \in Models, LoadRequest(m) \/ UnloadRequest(m) PROVE IInv'
  BY <1>0, <1>2, OutsideStepsKeep
<1>3. ASSUME NEW w \in Workers, NEW m \in Models, Datapull(w, m) \/ FindRuntime(w, m) PROVE IInv'
  BY <1>0, <1>3, OutsideStepsKeep
<1>4. ASSUME NEW w \in Workers, PrepareLocalModels(w) PROVE IInv'
  BY <1>0, <1>4, OutsideStepsKeep DEF LocalModelsAssumption
<1>5. ASSUME NEW t \in Threads, Proceed(t) PROVE IInv'
  <2>1. CASE LoadReturns(t) \/ Generate(t) \/ Generated(t)
    BY <2>1, OutsideStepsKeep DEF LocalModelsAssumption
  <2>2. CASE LoadEnters(t) \/ Decrypt(t) \/ LoadFails(t) \/ Loaded(t)
    BY <2>2, LoadEntersKeeps, DecryptKeeps, LoadFailsKeeps, LoadedKeeps
  <2> QED BY <1>5, <2>1, <2>2 DEF Proceed
<1>6. CASE LoopProceeds
  <2>1. CASE UnloadAll \/ Stopped
    BY <1>0, <2>1, OutsideStepsKeep DEF LocalModelsAssumption
  <2>2. CASE Encrypt \/ EncryptFails \/ WriteMetadata
    BY <2>2, EncryptKeeps, StagedEnds
  <2>3. CASE Unload \/ Close \/ Erase
    BY <2>3, UnloadKeeps, CloseKeeps, EraseKeeps
  <2> QED BY <1>6, <2>1, <2>2, <2>3 DEF LoopProceeds
<1>7. CASE Shutdown
  BY <1>0, <1>7, OutsideStepsKeep DEF LocalModelsAssumption
<1>8. CASE UserUnlocks \/ Expire \/ LockVault
  BY <1>8, VaultStepsKeep
<1>9. CASE Restart
  BY <1>9, RestartKeeps
<1>10. CASE UNCHANGED vars
  <2>1. TypeOK'
    BY <1>10 DEF vars, disk, files, engines, vault, IInv, TypeOK
  <2>2. (ManagerInside /\ RunInHand /\ RuntimesApart /\ StagedInHand /\ PinnedOnly)'
    BY <1>10 DEF vars, disk, files, engines, IInv, ManagerInside, RunInHand, RuntimesApart,
                 StagedInHand, PinnedOnly
  <2>3. (KeyInHand /\ ClearFilesOwned /\ EngineKept /\ StoredKeyOpens)'
    BY <1>10 DEF vars, disk, files, engines, IInv, KeyInHand, ClearFilesOwned, Owned,
                 EngineKept, StoredKeyOpens
  <2> QED BY <2>1, <2>2, <2>3 DEF IInv
<1> QED BY <1>1, <1>2, <1>3, <1>4, <1>5, <1>6, <1>7, <1>8, <1>9, <1>10 DEF Next

\* The invariant holds throughout: who holds the manager's lock, which clear file and
\* which key each call has in hand, and what runtimes live on.
THEOREM ManagerInvariant == Spec => []IInv
<1>1. Init => IInv
  BY InitIInv
<1>2. IInv /\ [Next]_vars => IInv'
  BY NextKeeps
<1> QED BY <1>1, <1>2, PTL DEF Spec

\* No engine ever works with weights that are not the pinned ones.
THEOREM EnginesArePinned == Spec => []PinnedOnly
<1>1. IInv => PinnedOnly
  BY DEF IInv
<1> QED BY <1>1, ManagerInvariant, PTL

\* Clear weights are on disk only for a runtime, for the thread inside the manager's
\* lock, or left by a process that died.
THEOREM ClearFilesHaveOwners == Spec => []ClearFilesOwned
<1>1. IInv => ClearFilesOwned
  BY DEF IInv
<1> QED BY <1>1, ManagerInvariant, PTL

\* Nobody generates with a closed engine, and every runtime handed out is open.
THEOREM GenerationsKeepEngines == Spec => []EngineKept
<1>1. IInv => EngineKept
  BY DEF IInv
<1> QED BY <1>1, ManagerInvariant, PTL

\* Every encrypted file opens with the key in the vault.
THEOREM FilesOpen == Spec => []StoredKeyOpens
<1>1. IInv => StoredKeyOpens
  BY DEF IInv
<1> QED BY <1>1, ManagerInvariant, PTL
=============================================================================
