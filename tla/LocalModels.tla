----------------------------- MODULE LocalModels -----------------------------
(***************************************************************************)
(* ModelManager and LocalModelRuntime of                                   *)
(* sidecar/cyberforge_sidecar/models.py: weights that are encrypted on     *)
(* disk, in a clear temporary file while they are downloaded or imported   *)
(* and while a runtime uses them, and checked against a pinned digest on   *)
(* the way in and on the way out.                                          *)
(*                                                                         *)
(* The endpoints load, unload and import run inside the event loop and     *)
(* block it; an install awaits its download; a DATAPULL loads, and         *)
(* everything generates, in worker threads.  ModelManager._lock serializes *)
(* loads and unloads, each runtime has a lock of its own, and generate     *)
(* looks a runtime up without any.                                         *)
(*                                                                         *)
(* Clear files are numbered as they are made, and a runtime by its own.    *)
(***************************************************************************)
EXTENDS Naturals, FiniteSets

CONSTANTS
  Models,     \* MODEL_PROFILES
  Workers,    \* threads of the default executor
  Loop,       \* the event loop
  MaxClear,   \* bound: clear files made, by loads, installs and imports
  MaxWrites   \* bound: encrypted files written

ASSUME LocalModelsAssumption ==
  /\ Models # {} /\ Loop \notin Workers
  /\ MaxClear \in Nat \ {0} /\ MaxWrites \in Nat \ {0}

Threads == Workers \cup {Loop}

VARIABLES
  file,      \* models_dir/<profile>.cfgm: contents, write number and key
  metadata,  \* models whose metadata.json has been written
  atRest,    \* the vault's record models/at-rest-key; 0: none
  writes,
  downloads, \* the installs in progress: the model, the key and the clear file of each
  clear,     \* clear files that exist ...
  weights,   \* ... and what is in them
  orphans,   \* those left by a process that died
  made,      \* how many there have been
  runtime,   \* _runtimes and _clear_paths: the run of a loaded model, or 0
  open,      \* runs whose engine is there (_conversation or _llama is set)
  manager,   \* owner of ModelManager._lock, or {}
  call,      \* what each thread is doing
  unlocked,  \* the vault's keys are in memory
  session    \* whose session token is live: an unlock ends all others

disk == <<file, metadata, atRest, writes>>
files == <<clear, weights, orphans, made>>
engines == <<runtime, open>>
vault == <<unlocked, session>>
vars == <<disk, downloads, files, engines, manager, call, vault>>

-----------------------------------------------------------------------------
Contents == {"none", "pinned", "other"}

Absent == [data |-> "none", write |-> 0, key |-> 0]

Points ==
  {"idle",
   "session",     \* DATAPULL has taken a session token and retrieves sources
   "load",        \* validated, about to enter the manager's lock
   "read",        \* has the lock, a clear file and the stream's tag
   "engine",      \* weights decrypted and verified; the engine starts
   "unload",      \* about to enter the manager's lock
   "close",       \* has the lock; waits for the runtime's
   "erase",       \* runtime closed; the clear file goes
   "wait",        \* has looked the runtime up; waits for its lock
   "generate",    \* has the runtime's lock
   "write",       \* import or install: about to encrypt its clear file
   "metadata",    \* encrypted file replaced; metadata are due, and the clear file goes
   "stopping",    \* unload_all
   "stopped"}     \* the process has shut down

Call == [at : Points, model : Models, run : 0..MaxClear, write : 0..MaxWrites,
         key : 0..MaxWrites, last : BOOLEAN]

Download == [model : Models, key : 0..MaxWrites, file : 1..MaxClear]

Idle == [at |-> "idle", model |-> CHOOSE m \in Models : TRUE, run |-> 0, write |-> 0,
         key |-> 0, last |-> FALSE]

TypeOK ==
  /\ file \in [Models -> [data : Contents, write : 0..MaxWrites, key : 0..MaxWrites]]
  /\ metadata \subseteq Models
  /\ atRest \in 0..MaxWrites /\ writes \in 0..MaxWrites
  /\ downloads \in SUBSET Download
  /\ orphans \subseteq clear /\ clear \subseteq 1..made /\ made \in 0..MaxClear
  /\ weights \in [1..MaxClear -> Contents]
  /\ runtime \in [Models -> 0..MaxClear] /\ open \subseteq 1..made
  /\ manager \in SUBSET Threads /\ Cardinality(manager) <= 1
  /\ call \in [Threads -> Call]
  /\ unlocked \in BOOLEAN /\ session \in SUBSET Threads

Init ==
  /\ file = [m \in Models |-> Absent] /\ metadata = {} /\ atRest = 0 /\ writes = 0
  /\ downloads = {}
  /\ clear = {} /\ weights = [n \in 1..MaxClear |-> "none"] /\ orphans = {} /\ made = 0
  /\ runtime = [m \in Models |-> 0] /\ open = {}
  /\ manager = {} /\ call = [t \in Threads |-> Idle]
  /\ unlocked = TRUE /\ session = {Loop}

LoopFree == call[Loop].at = "idle"
Validated(t) == t \in session

Goto(t, p) == call' = [call EXCEPT ![t].at = p]
Return(t) == call' = [call EXCEPT ![t] = IF @.last THEN [Idle EXCEPT !.at = "stopping"] ELSE Idle]

\* Mutant: a key is made for every use.
ModelKeyFresh == writes + 1

\* _model_key: the stored key, or the first one.  A key is numbered by the write it precedes.
ModelKey == IF atRest = 0 THEN writes + 1 ELSE atRest

-----------------------------------------------------------------------------
(* install and import_local *)

\* A clear file of a new name, with nothing in it yet.
MakeClear ==
  /\ made < MaxClear
  /\ made' = made + 1
  /\ clear' = clear \cup {made'}

\* The coroutine takes the key, makes the clear file and awaits the download.
BeginInstall(m) ==
  /\ LoopFree /\ Validated(Loop) /\ unlocked /\ writes < MaxWrites
  /\ atRest' = ModelKey
  /\ MakeClear
  /\ downloads' = downloads \cup {[model |-> m, key |-> ModelKey, file |-> made']}
  /\ UNCHANGED <<file, metadata, writes, weights, orphans, engines, manager, call, vault>>

\* Mutant: the clear file is removed by an install that ends, not by one that fails.
DownloadFailsLeaving(d) ==
  /\ LoopFree
  /\ downloads' = downloads \ {d}
  /\ UNCHANGED <<disk, files, engines, manager, call, vault>>

\* A transfer that fails or is cancelled, or whose digest is not the pinned one: "finally".
DownloadFails(d) ==
  /\ LoopFree
  /\ downloads' = downloads \ {d}
  /\ clear' = clear \ {d.file}
  /\ UNCHANGED <<disk, weights, orphans, made, engines, manager, call, vault>>

Downloaded(d) ==
  /\ LoopFree
  /\ downloads' = downloads \ {d}
  /\ weights' = [weights EXCEPT ![d.file] = "pinned"]
  /\ call' = [call EXCEPT ![Loop] =
       [Idle EXCEPT !.at = "write", !.model = d.model, !.run = d.file, !.key = d.key]]
  /\ UNCHANGED <<disk, clear, orphans, made, engines, manager, vault>>

\* The source's digest is the pinned one; it is read a second time for the clear copy
\* that is encrypted, and may have changed.  The key is taken after the copy.
BeginImport(m) ==
  /\ LoopFree /\ Validated(Loop) /\ writes < MaxWrites
  /\ MakeClear
  /\ \E d \in {"pinned", "other"} : weights' = [weights EXCEPT ![made'] = d]
  /\ call' = [call EXCEPT ![Loop] = [Idle EXCEPT !.at = "write", !.model = m, !.run = made']]
  /\ UNCHANGED <<disk, downloads, orphans, engines, manager, vault>>

\* An install has its key; an import takes it now, for which a vault without one
\* needs a session.
MayTakeKey == unlocked /\ (atRest = 0 => Validated(Loop))

\* encrypt_file_aes_gcm writes another file and renames it, so that a reader
\* finds the old file or the new one.
Encrypt ==
  LET c == call[Loop] IN
  /\ c.at = "write" /\ writes < MaxWrites
  /\ c.key = 0 => MayTakeKey
  /\ atRest' = IF c.key = 0 THEN ModelKey ELSE atRest
  /\ writes' = writes + 1
  /\ file' = [file EXCEPT ![c.model] =
       [data |-> weights[c.run], write |-> writes', key |-> IF c.key = 0 THEN ModelKey ELSE c.key]]
  /\ Goto(Loop, "metadata")
  /\ UNCHANGED <<metadata, downloads, files, engines, manager, vault>>

\* The clear file goes with the exception ...
EncryptFails ==
  /\ call[Loop].at = "write"
  /\ clear' = clear \ {call[Loop].run}
  /\ Return(Loop)
  /\ UNCHANGED <<disk, downloads, weights, orphans, made, engines, manager, vault>>

\* ... and at the end, whether the metadata could be written or not.
WriteMetadata ==
  /\ call[Loop].at = "metadata"
  /\ metadata' \in {metadata, metadata \cup {call[Loop].model}}
  /\ clear' = clear \ {call[Loop].run}
  /\ Return(Loop)
  /\ UNCHANGED <<file, atRest, writes, downloads, weights, orphans, made, engines, manager, vault>>

-----------------------------------------------------------------------------
(* load *)

\* The endpoint /v1/models/load.
LoadRequest(m) ==
  /\ LoopFree /\ Validated(Loop)
  /\ call' = [call EXCEPT ![Loop] = [Idle EXCEPT !.at = "load", !.model = m]]
  /\ UNCHANGED <<disk, downloads, files, engines, manager, vault>>

\* execute_datapull takes a session of its own, which ends every other one ...
Datapull(w, m) ==
  /\ LoopFree /\ call[w].at = "idle"
  /\ unlocked' = TRUE /\ session' = {w}
  /\ call' = [call EXCEPT ![w] = [Idle EXCEPT !.at = "session", !.model = m]]
  /\ UNCHANGED <<disk, downloads, files, engines, manager>>

\* ... and uses it after its retrievals, when it may have ended in turn.
PrepareLocalModels(w) ==
  /\ LoopFree /\ call[w].at = "session"
  /\ IF /\ file[call[w].model] # Absent /\ runtime[call[w].model] = 0
        /\ Validated(w)
     THEN Goto(w, "load") ELSE Return(w)
  /\ UNCHANGED <<disk, downloads, files, engines, manager, vault>>

LoadRefused(m) == runtime[m] # 0 \/ file[m] = Absent \/ ~unlocked

\* Refused, already loaded, or no room for a clear file.
LoadReturns(t) ==
  /\ call[t].at = "load" /\ manager = {}
  /\ Return(t)
  /\ UNCHANGED <<disk, downloads, files, engines, manager, vault>>

\* The lock, a fresh clear file, and the first opening of the encrypted file.
LoadEnters(t) ==
  /\ call[t].at = "load" /\ manager = {} /\ ~LoadRefused(call[t].model)
  /\ manager' = {t}
  /\ atRest' = ModelKey
  /\ MakeClear
  /\ call' = [call EXCEPT ![t].at = "read", ![t].run = made', ![t].key = ModelKey,
                          ![t].write = file[call[t].model].write]
  /\ UNCHANGED <<file, metadata, writes, downloads, weights, orphans, engines, vault>>

\* What the second opening finds authenticates if it is the same file under the same key.
Decrypts(t) ==
  LET f == file[call[t].model] IN f.write = call[t].write /\ f.key = call[t].key

\* Mutant: the digest is not checked again.
VerifiedByName(t) == TRUE

Verified(t) == file[call[t].model].data = "pinned"

Decrypt(t) ==
  /\ call[t].at = "read" /\ Decrypts(t) /\ Verified(t)
  /\ weights' = [weights EXCEPT ![call[t].run] = file[call[t].model].data]
  /\ Goto(t, "engine")
  /\ UNCHANGED <<disk, downloads, clear, orphans, made, engines, manager, vault>>

\* Mutant: the lock is not released when the load raises.
LoadFailsHolding(t) ==
  /\ \/ call[t].at = "read" /\ ~(Decrypts(t) /\ Verified(t))
     \/ call[t].at = "engine"
  /\ clear' = clear \ {call[t].run}
  /\ Return(t)
  /\ UNCHANGED <<disk, downloads, weights, orphans, made, engines, manager, vault>>

\* Authentication, digest or engine fail: the clear file goes with the exception.
LoadFails(t) ==
  /\ \/ call[t].at = "read" /\ ~(Decrypts(t) /\ Verified(t))
     \/ call[t].at = "engine"
  /\ clear' = clear \ {call[t].run}
  /\ manager' = {}
  /\ Return(t)
  /\ UNCHANGED <<disk, downloads, weights, orphans, made, engines, vault>>

\* The runtime is published; a status that cannot be read then raises, and the
\* exception takes the clear file of the runtime that stays.
Loaded(t) ==
  /\ call[t].at = "engine"
  /\ open' = open \cup {call[t].run}
  /\ runtime' = [runtime EXCEPT ![call[t].model] = call[t].run]
  /\ clear' \in {clear, clear \ {call[t].run}}
  /\ manager' = {}
  /\ Return(t)
  /\ UNCHANGED <<disk, downloads, weights, orphans, made, vault>>

-----------------------------------------------------------------------------
(* generate *)

Generating(n) == \E t \in Threads : call[t].at = "generate" /\ call[t].run = n

\* ModelManager.generate looks the runtime up without the manager's lock.
FindRuntime(w, m) ==
  /\ call[w].at = "idle" /\ call[Loop].at \notin {"stopping", "stopped"} /\ ~call[Loop].last
  /\ runtime[m] # 0
  /\ call' = [call EXCEPT ![w] = [Idle EXCEPT !.at = "wait", !.model = m, !.run = runtime[m]]]
  /\ UNCHANGED <<disk, downloads, files, engines, manager, vault>>

\* A runtime that was closed meanwhile answers "not loaded".
Generate(w) ==
  /\ call[w].at = "wait" /\ ~Generating(call[w].run)
  /\ IF call[w].run \in open THEN Goto(w, "generate") ELSE Return(w)
  /\ UNCHANGED <<disk, downloads, files, engines, manager, vault>>

Generated(w) ==
  /\ call[w].at = "generate"
  /\ Return(w)
  /\ UNCHANGED <<disk, downloads, files, engines, manager, vault>>

-----------------------------------------------------------------------------
(* unload, unload_all *)

UnloadRequest(m) ==
  /\ LoopFree /\ Validated(Loop)
  /\ call' = [call EXCEPT ![Loop] = [Idle EXCEPT !.at = "unload", !.model = m]]
  /\ UNCHANGED <<disk, downloads, files, engines, manager, vault>>

Unload ==
  LET m == call[Loop].model IN
  /\ call[Loop].at = "unload" /\ manager = {}
  /\ runtime' = [runtime EXCEPT ![m] = 0]
  /\ IF runtime[m] = 0
     THEN Return(Loop) /\ UNCHANGED manager
     ELSE /\ manager' = {Loop}
          /\ call' = [call EXCEPT ![Loop].at = "close", ![Loop].run = runtime[m]]
  /\ UNCHANGED <<disk, downloads, files, open, vault>>

\* Mutant: close does not wait for a generation.
CloseAtOnce ==
  /\ call[Loop].at = "close"
  /\ open' = open \ {call[Loop].run}
  /\ Goto(Loop, "erase")
  /\ UNCHANGED <<disk, downloads, files, runtime, manager, vault>>

\* close waits for a generation that is under way.
Close ==
  /\ call[Loop].at = "close" /\ ~Generating(call[Loop].run)
  /\ open' = open \ {call[Loop].run}
  /\ Goto(Loop, "erase")
  /\ UNCHANGED <<disk, downloads, files, runtime, manager, vault>>

Erase ==
  /\ call[Loop].at = "erase"
  /\ clear' = clear \ {call[Loop].run}
  /\ manager' = {}
  /\ Return(Loop)
  /\ UNCHANGED <<disk, downloads, weights, orphans, made, engines, vault>>

\* The server lets requests end, then the lifespan unloads whatever is loaded ...
Shutdown ==
  /\ \A t \in Threads : call[t].at = "idle"
  /\ downloads = {}
  /\ Goto(Loop, "stopping")
  /\ UNCHANGED <<disk, downloads, files, engines, manager, vault>>

UnloadAll ==
  /\ call[Loop].at = "stopping"
  /\ \E m \in Models :
       /\ runtime[m] # 0
       /\ call' = [call EXCEPT ![Loop] = [Idle EXCEPT !.at = "unload", !.model = m, !.last = TRUE]]
  /\ UNCHANGED <<disk, downloads, files, engines, manager, vault>>

\* ... and locks the vault.
Stopped ==
  /\ call[Loop].at = "stopping" /\ \A m \in Models : runtime[m] = 0
  /\ Goto(Loop, "stopped")
  /\ unlocked' = FALSE /\ session' = {}
  /\ UNCHANGED <<disk, downloads, files, engines, manager>>

-----------------------------------------------------------------------------
(* The vault and the process *)

UserUnlocks ==
  /\ LoopFree /\ Loop \notin session
  /\ unlocked' = TRUE /\ session' = {Loop}
  /\ UNCHANGED <<disk, downloads, files, engines, manager, call>>

Expire ==
  /\ session # {} /\ session' = {}
  /\ UNCHANGED <<disk, downloads, files, engines, manager, call, unlocked>>

LockVault ==
  /\ LoopFree /\ Validated(Loop)
  /\ unlocked' = FALSE /\ session' = {}
  /\ UNCHANGED <<disk, downloads, files, engines, manager, call>>

\* The process dies, or is started again after it has stopped: files stay.
Restart ==
  /\ orphans' = clear
  /\ downloads' = {}
  /\ runtime' = [m \in Models |-> 0] /\ open' = {}
  /\ manager' = {} /\ call' = [t \in Threads |-> Idle]
  /\ unlocked' = FALSE /\ session' = {}
  /\ UNCHANGED <<disk, clear, weights, made>>

Install == \/ \E m \in Models : BeginInstall(m) \/ BeginImport(m)
           \/ \E d \in downloads : DownloadFails(d) \/ Downloaded(d)

\* The steps of a thread that has been called.
Proceed(t) == LoadReturns(t) \/ LoadEnters(t) \/ Decrypt(t) \/ LoadFails(t) \/ Loaded(t)
              \/ Generate(t) \/ Generated(t)

LoopProceeds == Encrypt \/ EncryptFails \/ WriteMetadata \/ Unload \/ Close \/ Erase
                \/ UnloadAll \/ Stopped

Next ==
  \/ Install
  \/ \E m \in Models : LoadRequest(m) \/ UnloadRequest(m)
  \/ \E w \in Workers, m \in Models : Datapull(w, m) \/ FindRuntime(w, m)
  \/ \E w \in Workers : PrepareLocalModels(w)
  \/ \E t \in Threads : Proceed(t)
  \/ LoopProceeds
  \/ Shutdown
  \/ UserUnlocks \/ Expire \/ LockVault \/ Restart

Spec == Init /\ [][Next]_vars

\* A thread that can go on does, and one that competes for a lock gets it in the end.
Fairness ==
  /\ SF_vars(Proceed(Loop) \/ LoopProceeds)
  /\ \A w \in Workers : SF_vars(Proceed(w) \/ PrepareLocalModels(w))

FairSpec == Spec /\ Fairness

-----------------------------------------------------------------------------
\* Whatever a runtime works with is what the profile pins: import_local may have
\* encrypted something else, and an install may replace the file under a load.
PinnedOnly == \A n \in open : weights[n] = "pinned"

\* Somebody answers for a clear file: a loaded runtime, an install that awaits its
\* download, the thread that is loading or unloading, or the import or install that
\* is being encrypted.
Owned(n) ==
  \/ \E m \in Models : runtime[m] = n
  \/ \E d \in downloads : d.file = n
  \/ \E t \in manager : call[t].run = n
  \/ call[Loop].at \in {"write", "metadata"} /\ call[Loop].run = n

\* Clear weights are on disk only for a loaded runtime and while they are loaded,
\* unloaded, downloaded or imported, whatever fails; files of a process that died
\* are apart.
ClearFilesOwned == \A n \in clear \ orphans : Owned(n)

\* Nobody generates with an engine that has been closed, and what the manager
\* hands out is open.
EngineKept ==
  /\ \A t \in Threads : call[t].at = "generate" => call[t].run \in open
  /\ \A m \in Models : runtime[m] # 0 => runtime[m] \in open

\* Every encrypted file, and every one still to be written by an install that has
\* its key since before the download, opens with the key in the vault; metadata
\* describe a file that is there.
StoredKeyOpens ==
  /\ \A m \in Models : /\ file[m] # Absent => file[m].key = atRest
                       /\ m \in metadata => file[m] # Absent
  /\ \A d \in downloads : d.key = atRest

\* Calls end: a load waits for an unload, which waits for a generation, which
\* waits for no one.
CallsEnd ==
  \A t \in Threads : call[t].at # "idle" ~> call[t].at \in {"idle", "stopped"}
=============================================================================
