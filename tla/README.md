# A TLA+ verification of CyberForge

CyberForge is a desktop application (Flutter, `lib/`, `bin/`) over a local
service (FastAPI, `sidecar/cyberforge_sidecar/`). The service keeps provider
keys in an encrypted vault, records in an encrypted SQLite database with a
redacted projection in Weaviate, runs simulations over described attack
surfaces, and asks local and remote models for opinions in councils and
role-separated debates.

This directory holds TLA+ models of the parts of the service where
interleavings, crashes and failures decide whether it is correct, the TLC
configurations that check them, and TLAPS proofs. `PROJECT.json` names, for
every definition, the lines of source it models, and for every property a mutant
of the model that breaks it.

## 1. Inventory

### The service (`sidecar/cyberforge_sidecar`)

| Component | State | Operations | Hard behaviour | What makes it correct |
|---|---|---|---|---|
| Vault (`vault.py`) | header, device key, keyring and record files; root, index and data keys in memory; sessions | create, unlock, unlock_with_device_key, lock, validate_session, set/delete/get, rotate_data_key | several files per operation, crashes and failed writes between them; check and write take the lock separately; keys in memory against keys on disk | the keyring on disk opens every record; no session without keys; only set and delete change a secret |
| Encrypted store (`storage.py`) | tables records, blind_tokens, sync_queue, audit_chain; the master key in the vault | put, get, search, delete, pending_sync, mark_synced, mark_sync_failed | two databases without a common transaction; coroutines that await thread calls; first use of the master key | a record that is not queued is indexed as SQLite has it; the queue drains; audit events form one chain |
| Weaviate index (`storage.py`) | client, mode | initialize, upsert, delete, search | client published before its gates have run; retries; servers that come and go | a client in place is a ready one; a healthy server is connected to in the end |
| Memory governance (`memory_governance*.py`) | none of its own | retention plan and apply, rebuild, integrity, provenance, compaction | a plan acted on later; a snapshot queued later; reads that are not one transaction | holds are respected; a rebuild never revives a deleted record; graphs are the nearest records |
| Provider council (`providers.py`) | the module's system prompt | deliberate, analyze | clients read the prompt when their task starts; answers and failures in any order | opinions stay with their model; the audit of a round agrees with its consensus |
| Role council (`role_council.py`, `advanced_research.py`) | `_ROLE_LOCK`, the swapped prompt | deliberate_role, the debate's rounds | a global swapped across awaits; failure and cancellation | each role's clients get its directive, nobody else does, and it is taken back |
| Scanner (`scanner.py`) | none | validate, simulate, propagate, scan | bounded numeric algorithms; a council beside the debates | scores stay in range; propagation reaches what is reachable |
| Model manager (`models.py`, the streams of `crypto.py`) | loaded runtimes, encrypted and clear files of weights, the at-rest key | install, import, load, generate, unload | unload against generate; verify-then-read; clear files left by failures and crashes | no generation on a closed engine; runtimes work with pinned weights; clear weights only while needed |
| Research (`research.py`, `advanced_research.py`, `research_api.py`) | the report signer's key | analyze, sign, persist | session checked after the work; numeric edges | the frontier answers every budget; no control makes it worse; an answer is stored exactly when it is to be |
| Infrastructure map (`infrastructure*.py`) | none | normalize, review, packet for the scanner | ids normalized before they are compared; limits of two components | what was reviewed is what is simulated |
| DATAPULL, AMCCS (`datapull.py`, `amccs.py`) | none | decompose, run shards, fuse | worker threads that unlock the vault again; shards that fail | ranges given either way round are covered; failed shards say nothing |
| Cryptography (`crypto.py`) | none | envelopes, file streams, recovery identity | chunk order and truncation | what is opened is what was sealed |
| Others (`api.py`, `storage_api.py`, `simcom.py`, `surface_lattice.py`, `phishing_rod*.py`, `guardrails.py`, `config.py`, `prompt_library.py`, `news.py`, `cli.py`) | settings; SIMCOM's last report | routing, parsing, rendering, redaction | `cli.py` writes the vault from a second process | |

Calls: the HTTP endpoints call every other component. The store keeps its
master key in the vault (`_master_key`), the coordinator calls store and index
from coroutines with `asyncio.to_thread`, governance calls the store directly,
the debates call the provider council under `_ROLE_LOCK` and the scanner calls
it without, the providers read their keys from the vault, and the model manager
reads its wrapping key from the vault.

### The desktop (`lib/`, `bin/`, `extensions/`)

Simulation and risk engines (seeded, numeric), a council of model adapters,
scenario files, a worker that starts and stops a Python llama process, a backend
bootstrap, a client of the service, and widgets. The browser extension sends
page snapshots to `phishing_rod_api.py`.

## 2. Modules

| Module | Models | Composes |
|---|---|---|
| `SecretStore` | what a caller of the vault relies on | |
| `Vault` | `vault.py` | refines `SecretStore` |
| `VaultProofs` | theorems about `Vault` | extends `Vault` |
| `RecordStore` | `storage.py` (master key, rows, audit chain, blind index), retention and `verify_integrity` of `memory_governance.py` | |
| `RecordStoreProofs` | theorems about `RecordStore` | extends `RecordStore` |
| `MemoryStore` | `storage.py` (queue, coordinator), with the deletions and rebuilds of `memory_governance.py` | |
| `MemoryStoreProofs` | theorems about `MemoryStore` and `IndexClient` | extends `MemoryStore`, `IndexClient` |
| `IndexClient` | `WeaviateIndex` initialization in `storage.py` | |
| `MemoryGraph` | search of `storage.py`, provenance graph and compaction of `memory_governance.py` | extends `Scores` |
| `MemoryGraphProofs` | theorems about `MemoryGraph` | extends `MemoryGraph`, `ScoresProofs` |
| `RoleCouncil` | `role_council.py`, `advanced_research._role_separated_debate`, the councils of `providers.py` and `scanner.py` | |
| `Scores` | what the scoring code has in common: bounds, stable sort, votes | |
| `ScoresProofs` | lemmas about sets of numbers, filters, stable sort, slices, recursion and sums | extends `Scores` |
| `Council` | consensus of `providers.py`, metrics of `role_council.py`, fusion of `amccs.py` | extends `Scores` |
| `Deliberation` | the requests that ask several models: debates and DATAPULL | extends `Council` |
| `CouncilProofs` | theorems about `Deliberation` and `RoleCouncil` | extends `Deliberation`, `RoleCouncil`, `ScoresProofs` |
| `TwinGraph` | validation and simulation of `scanner.py` | extends `Scores` |
| `InfrastructureMap` | `infrastructure.py` | extends `TwinGraph` |
| `Research` | `research.py` and the endpoints of `research_api.py` and `infrastructure_api.py` | extends `InfrastructureMap` |
| `ResearchProofs` | theorems about the requests of `Research`, what the twin computes, and maps | extends `Research`, `ScoresProofs` |
| `LocalModels` | `models.py`, with the file streams of `crypto.py`, the lifespan of `api.py` and the session of DATAPULL | |
| `LocalModelsProofs` | theorems about `LocalModels` | extends `LocalModels` |
| `MC*` | instances for TLC | |

### Vault

The four files are `header`, `deviceKey`, `keyring` and `records`; the memory
is `ring` and `sessions`; `owner` is the holder of the RLock inside an operation
of several file writes and `req` what each thread is doing. A data key is a
number that is never used twice (`minted`). An envelope carries the id of the
key it names and the key that sealed it, and `Opens` under a ring that maps the
id to the key, which is what AES-GCM with the id in its associated data gives.
The index key is made once, by create, and is in the keyring like the data keys;
the id of a record is the hash of its label, so a record is its label here.

`create` is four actions and `rotate_data_key` two, one per file write;
`WriteFails` is an `OSError` at any of them but the first, and what the
operation has by then done in memory stays done, as in the code.
`RotateFails` is a rotation that raises at line 243 or 251: the new key is
already active. `Crash` is the death of the process, or its shutdown, which calls
`lock()`. `Validated` is `validate_session`, which releases the RLock before the
operation takes it again, so that other threads' steps fall in between. Files
are replaced whole (`_atomic_json` writes, syncs and renames). `torn` is a
history variable: which updates of several files were cut.

`get_secret` and `status` change nothing but the sessions that have expired;
they appear in `Secret`, the value a reader gets.

### RecordStore

`vaultKey` is the master key in the vault, a number that is never made twice;
`row`, `blind` and `audit` are the three tables. A row, a word in the index and an
audit event carry the key they were encrypted or hashed with, so "it
authenticates" is "its key is the one in the vault". Contents are sets of words;
`blind` has, for each record, its words with the key, which put and delete replace
(`IndexWords`), and `Hit` is a search for one word. `old` are the records
beyond their retention window, which a put or a deletion ends; `Holds` are the
contents whose metadata hold the record.

A request is two or three steps: obtain the key (`Begin`), store the one it has
made if there was none (`StoreKey`, which overwrites: `set_json` knows no
"if absent"), and the transaction (`CommitPut`, `CommitDelete` or `CommitFails`).
`_append_audit` is part of the transaction and reads the last row inside it.
`Plan` is `retention_plan`, `Retire` takes up the next of its candidates, which
is then deleted by the same `CommitDelete`; a failure or an ended session is
noted and the loop goes on. `Restart` keeps SQLite and the vault. Requests overlap
freely, on records and on the first use of the key; `minted` counts the master keys
that were stored.

`RecordStore`, `MemoryStore` and `MemoryGraph` share the table `records` and
nothing else: no decision of one depends on what another adds to it. They are
separate so that each can be checked whole.

### MemoryStore

`active`, `queue` and `stamp` are the tables `records` and `sync_queue`,
`index` is what Weaviate holds, `connected` is `client is not None`, `up` is
whether Weaviate answers, `session` whether the caller's session is live. The
contents of a record are the clock reading of the put that stored it. `req` holds
each request between two of its awaited calls: a SQLite transaction is one
action, `weaviate.upsert` is two (delete, insert), `mark_synced` is one, `sync`
takes a snapshot of the queue and deals with one entry after the other.
A deletion is its transaction and then `Removed`, which looks for a client.
`mark_sync_failed` only counts and is the end of the failing step. `Restart`
keeps SQLite and Weaviate and nothing else. A rebuild is a SELECT followed by
the INSERTs; Python's sqlite3 opens the transaction at the first INSERT, so the
two are separate steps. Requests overlap freely. Three history variables say where
the code promises less: `crossed`, the records that two requests have worked on
at a time, `overtaken`, those deleted between the two halves of a rebuild, and
`wiped`, that somebody has deleted the collection in Weaviate.

### IndexClient

`mode` and `client` are the fields of `WeaviateIndex`; the thread that runs
`_initialize_sync` is one step per connection attempt and one per gate check,
because the event loop sees the fields in between. `requested` is
`CYBERFORGE_WEAVIATE_MODE`, `health` the environment. `CloseRaises` is a client whose
closing raises after it failed the gates: the client is gone all the same, and the
exception leaves `initialize_weaviate` before the next server is tried; `raised`
notes it.

### RoleCouncil

`prompt` is `providers.DEFENSIVE_SYSTEM_PROMPT` as the sequence of directives
appended to it; `queue` is `_ROLE_LOCK` with its waiters in order, which is how
`asyncio.Lock` serves them. `BuildPrompt` is `_role_prompt`, outside the lock;
`SwapPrompt` enters `_trusted_prompt`; `Ask` is the start of one client's task,
where it reads the prompt; `RoleDone` and `RoundFails` leave it. The names that other
modules have too begin with `Role` here, and with `Client` in `IndexClient`.

### MemoryGraph

One request, a search, a provenance graph or a compaction, and other requests
that put and delete records between its reads. A record is its rank among the
ids; `created` and `updated` are the orders of the two columns. A search is the
steps of `StorageCoordinator.search`: hits from SQLite, hits from Weaviate (any
list of ids, since its index may be stale), one read per hit that SQLite has not
found, one per neighbourhood, and the selection by maximal marginal relevance;
its scores are millionths, rounded down. `provenance_graph` reads
everything in one transaction and is one step, a breadth-first search with the
code's queue, in which a record may stand twice. A compaction reads its sources
one by one, each id once, and puts a record that names them. `seen` (what records were since
the request began) and `touched` (which others have written) are history variables.

### Scores, TwinGraph, InfrastructureMap, Research

`TwinGraph` is what `scanner.py` computes from a packet: validation, the logit of
a surface, three rounds of pressure along links, findings, paths and the overall
risk, in integers: percentages in, thousandths out. The logistic function is a
straight line in the model, of which the properties use only that it grows and
is bounded; rounding is down at each division. `localMicro` is what a loaded local
model adds to the logit of a surface, a number between -0.5 and 0.5: `Scan` takes it
from what the model says, for the surfaces it answers for, and `Simulate`, the fast
simulation of the analysis, has none. `InfrastructureMap` normalizes and reviews a
map and turns it into a packet; its rules, six for each node and two for each edge, are
records that say whether they find fault, and the findings are those that do. `Research` has the two endpoints, one action for
what runs between two awaits, with a session that may end at any time; only the
last step of an analysis looks at it, and only if `auto_persist_research` is on
(`autoPersist`) and a token was sent (`ToPersist`). The signature's bytes and the debate's
contents do not come back into the results and are not in the model.

### Council, Deliberation

`Council` holds the pure functions on answers: consensus and disagreement, the
quality and contradiction of a round, ranges, votes and fusion of shards.
`Deliberation` runs them: a scan asks the selected clients once, a debate in each of
its rounds, a DATAPULL deals its shards over the configured ones. Tasks end in any
order, with an answer or a failure; `gather` keeps the order of its arguments.
What is configured may differ each time it is asked. The offline calibrator is
computed from the packet that it is given: a scan's has the simulation, a debate's
has it wrapped as `scenarioAndSimulation`, where the calibrator does not find it and
ranks nothing. An answer whose lists are no lists makes an opinion a failure; a
shard keeps it, and the fusion raises (stage "failed"). The offline lattice is computed
as in the code; what it draws from its seeded generator is a constant. `RoleCouncil` has the locking of the same debates
and nothing of their contents.

### LocalModels

`file`, `metadata` and `atRest` are on disk, `clear` the temporary files with clear
`weights`, of loads and also of installs and imports, `runtime` and `open` the manager's runtimes and which of
them have an engine, `manager` the owner of `ModelManager._lock`. The event loop
is a thread like the workers, except that the synchronous endpoints block it:
nothing else of the service starts while it is in `load` or `unload`. A load is
four steps (lock, clear file and tag; decrypt and verify; engine; publish), since
an install may replace the encrypted file in between. An install makes its clear file
before its download, awaits that, and then encrypts it and writes the metadata like an
import, whose clear copy may differ from what was hashed; the file goes when either
ends, however it ends. A load whose status cannot be read after the runtime is
published raises and takes the clear file with it (`Loaded`). `generate` looks its
runtime up without the manager's lock and then takes the runtime's. A DATAPULL
takes a session of its own, which ends every other one. `orphans` are clear files
of a process that died: the code does not look for them on start, so they stay.

## 3. Runs

| Run | Bounds | What it shows |
|---|---|---|
| `vault` | 2 threads, 2 labels, 2 values, 2 tokens, 3 data keys | `TypeOK`, `RecordsOpenable`, `MemoryMatchesDisk`, `VaultOpens`, `SessionsNeedKeys`, `NoWriteWhileLocked`, `RefinesSecretStore` |
| `cut_rotation` | the same | counterexample, section 6 |
| `record_store` | 2 records, 2 contents that share one of 2 words, one of them a hold, 2 requests, 3 audit events | `TypeOK`, `IntegrityHolds`, `AuditTellsRecords`, `SearchExact` |
| `memory_store` | 2 requests that overlap on 2 records, or 1 request on 3 records; one record unreadable, 3 ticks, syncs of 2 entries | `IndexFollows`, `QueueMatchesRecords`, `SyncDrains` |
| `memory_ghost` | the same | counterexample, section 6 |
| `memory_graph` | graphs of at most 4 references between 4 records, one of them possibly gone; searches and compactions of 3 records of which one is written meanwhile | `HitsWereThere`, `MatchesReturned`, `GraphFaithful`, `CompactionFaithful` |
| `role_council` | 2 debates of 2 rounds, 1 scan, 2 models | `PromptRestored`, `RoleReachesClients`, `DebatesEnd` |
| `council_debate` | 1 model | counterexample, section 6 |
| `deliberation` | 2 local models, 1 remote, the offline one; a scan; debates of 3 local rounds or 1 remote; 4 shards in both modes under 4 policies | `OpinionsKeepTheirModel`, `AuditMatchesCouncil`, `TraceReplays`, `RangeCovers` |
| `research` | all lists of at most 2 links between 2 surfaces of 3 profiles, chains and a ring of 5, up to 15 links into one surface; maps of 1 to 7 nodes, with no local model and with two that say different things of their surfaces | `LinkOrderIrrelevant`, `PressureStaysNear`, `ControlsNeverHurt`, `FrontierAnswersBudgets`, `AnsweredIsStored`, `TwinKeepsMap`, `MapControlsNeverHurt` |
| `index_client` | 3 requests, modes auto, remote and embedded | `ClientReady`, `EventuallyConnected` |
| `local_models` | 1 model, the event loop and 2 workers, 3 clear files, 2 encrypted files | `PinnedOnly`, `ClearFilesOwned`, `EngineKept`, `StoredKeyOpens`, `CallsEnd` |

`MaxKey` bounds the data keys of a behaviour; three allow two successful
rotations, or a failed one between two, with create's key. Two labels are enough
for a rotation to meet a record and an absence; two threads for every check
and act to be separated by another's step; the proofs cover any number.
`MaxClock` bounds puts, deletions and rebuilds; three are a put, a deletion that
overlaps it, and a rebuild of what is left. `MaxEvent` bounds successful
transactions: three are a put, a deletion and a put of one record, or two puts
and a retention; the proofs have no such bound. In `memory_graph` the depth and
source limits are 2 instead of 8 and 200, so that graphs and lists exceed them;
`MaxTouched` lets one record be put and deleted any number of times while the request runs.
In `research`, five surfaces make a chain one longer than three rounds carry
pressure, and the limits on surfaces, links, nodes and edges are small enough to
be exceeded. In `local_models`, three clear files are two of installs or imports and
one of a load, or one and two loads, of which an unload meets the first, and two
encrypted files one that replaces another under a load; locks and
sessions are shared whatever the model, so one model is enough to contend.
`memory_store` is two instances in one (`overlapping` in `MCMemoryStore`), since two
requests on three records are too many states for liveness: with two records requests
cross in every way, with three a sync takes two of the queue's entries, of which the
first may be unreadable for ever. Both have outages, rebuilds and all else.

`CHECK_DEADLOCK` is off in `research`, `deliberation` and `memory_graph`: their
behaviours are single requests, which end.

`TypeOK` of each module states its types. Every proof carries it in its inductive
invariant; two runs check it as well.

### What the properties say of the code

- `RecordsOpenable`: rotation re-encrypts under the new key and then drops the
  old ones; no order of writes, locks, crashes and failed unlocks leaves a
  record under a dropped key, unless a rotation itself is cut.
- `MemoryMatchesDisk`: an unlocked vault never seals with keys that the next
  unlock will not find.
- `VaultOpens`: a header on disk means a vault that opens, unless create was cut.
- `SessionsNeedKeys`, `NoWriteWhileLocked`: the check-then-act of the endpoints
  is harmless with respect to `lock()`.
- `RefinesSecretStore`: seen from outside, the vault is a map changed only by the
  requests made of it, each at most once.
- `IntegrityHolds`: a key is in the vault before anything is encrypted with it,
  in every order of requests, ended sessions and restarts included. Only a second
  master key, stored over the first where two first uses overlap, makes anything
  unverifiable.
- `AuditTellsRecords`: rows change only in transactions that also append to the
  chain, so the chain alone tells which records there are; this needs no
  assumption on overlap.
- `SearchExact`: put and delete replace the words of the earlier version, all of them,
  under the key that the row has, so a word hits a record if and only if the record has
  it and opens.
- `IndexFollows`: SQLite and Weaviate agree on everything that is neither queued
  nor in flight, through crashes and outages, on every record that no two
  requests have worked on at a time.
- `QueueMatchesRecords`: a rebuild, retention and puts leave queue entries that
  ask for what SQLite holds, of every record and however they overlap, but for a record
  deleted in the middle of a rebuild.
- `SyncDrains`: entries that can be read leave the queue while syncs are asked for,
  with overlapping requests, deleted collections and more entries than a sync takes, if
  fewer records are unreadable than that; section 6 says what happens without the
  condition.
- `HitsWereThere`: a search mixes reads of several moments, and still returns only
  records that were there since it began, each once and in one version.
- `MatchesReturned`: neither the fusion of the two rankings nor the expansion nor
  the marginal relevance drops a match while there is room for it.
- `GraphFaithful`: the breadth-first search with its repeated queue entries gives
  shortest distances, has no record twice, cuts off the farthest and only at the
  caller's limit, and is honest about its edges.
- `CompactionFaithful`: a compaction refers to each source once, in the order asked and as
  it was, and every other record stays as it is: none is deleted or overwritten by it, at
  any moment.
- `ClientReady`, `EventuallyConnected`: failed attempts leave no client behind, and none
  is final but two kinds that the property names: the gates failed for the one server that
  is configured, or closing a client raised.
- `PromptRestored`, `RoleReachesClients`, `DebatesEnd`: the swapped prompt reaches
  those it is for and is taken back in every case.
- `OpinionsKeepTheirModel`: consensus, whose ties go to whoever comes first, does not
  depend on who was fastest.
- `AuditMatchesCouncil`: the disagreement of a council (`providers.py`) and the
  contradictions of its audit (`role_council.py`) tell the same story of a round, although
  each has its own filter of failures and its own measure. Evidence quality counts a
  failure as zero, as in the code, and is not part of either.
- `TraceReplays`: the trace of changed minds leads from each model's first answer to
  its last, over rounds in which it failed.
- `RangeCovers`: the fused range is the hull of what the shards said, either way
  round, and exists if any shard gave one.
- `LinkOrderIrrelevant`, `PressureStaysNear`: pressure follows the links as a graph,
  three steps far, and not as a list.
- `ControlsNeverHurt`, `MapControlsNeverHurt`: however pressure saturates, more
  control never makes the scenario or the map riskier, for maps also whatever a local
  model says of the surfaces, as long as it says the same of them with the control.
- `FrontierAnswersBudgets`: for every budget the best option is on the frontier.
- `AnsweredIsStored`: with the setting on, whoever sends a bearer gets a stored run or an
  error; what is answered as ephemeral is not stored.
- `TwinKeepsMap`: no node is merged and no edge lost between review and simulation.
- `PinnedOnly`: nothing that `import_local` may have encrypted unseen, and no file
  replaced between the two openings of a load, reaches an engine.
- `ClearFilesOwned`: clear weights belong to a runtime, to an install that awaits its
  download, or to the load, unload, import or install at work, whatever fails, so that
  an orderly shutdown leaves none.
- `EngineKept`: unload waits for a generation, and a generation that lost its runtime
  does not start.
- `StoredKeyOpens`: the at-rest key is made once, although installs hold it over
  their download.
- `CallsEnd`: the chain of locks from the event loop to a generation has an end.

## 4. Fairness

- `MemoryStore`: a request in flight goes on, and some client keeps asking for a
  sync; the application offers the endpoint and does not call it by itself, so
  this is an assumption on the operator. `SyncDrains` further
  assumes that Weaviate stays up and a session live from some time on.
- `IndexClient`: requests keep arriving. Each competes with others for an
  `asyncio.Lock`, which is first come, first served: strong fairness stands for
  that.
- `RoleCouncil`: the event loop runs what is ready, the lock's queue is part of
  the model, and a provider call ends at its timeout. Failing or being cancelled
  is never obliged.
- `LocalModels`: threads that compete for a lock get it in the end (strong fairness
  of the steps of one thread; Python's locks do not starve a waiter for ever when
  others keep releasing them), and a generation ends. Nobody is obliged to call.

`Vault`, `RecordStore`, `MemoryGraph`, `Research` and `Deliberation` have safety
properties only and assume no fairness.

## 5. Proofs

Eight modules hold theorems: one beside each module they are about, two of them about
two modules, and `ScoresProofs` with the lemmas that several need. Every theorem
is for all values of the constants that the modules' assumptions allow: any number of
threads, requests, records, contents, models, keys, ticks, surfaces, links, rounds. None
of the bounds of section 3 is in them. The structure is the same throughout: the
properties that the runs check are seldom inductive, since they speak of what is
at rest or has been returned; `IInv` adds what requests in flight have in hand;
`Init => IInv` is a lemma, so is "this action keeps `IInv`" for each action
(`...Keeps`), with one step per conjunct that the action can disturb; the theorem
`Spec => []IInv` combines them, and each property follows from `IInv`. What TLC
found of the candidate invariants came first: an `IInv` was checked on the bounds
of its run before it was proved.
Every safety property that a passing run checks has its theorem here, and so has
the refinement of `SecretStore`; the properties of the runs that expect a violation are
false of the code and have none.

| Module | Theorems | States |
|---|---|---|
| `VaultProofs` | `TypeCorrect`, `RecordsStayOpenable`, `MemoryAgrees`, `VaultCanBeOpened`, `SessionsHaveKeys`, `LockedVaultUntouched`, `VaultImplementsStore` | all properties of the run `vault` |
| `RecordStoreProofs` | `TypeCorrect`, `StoreVerifies`, `ChainTells`, `SearchIsExact` | all properties of the run `record_store` |
| `MemoryStoreProofs` | `ProjectionFollowsRecord`, `EntriesMatchRecords` | the invariants of the run `memory_store` |
| `MemoryStoreProofs` | `ClientIsReady` | the invariant of the run `index_client` |
| `CouncilProofs` | `OpinionsAreTheirModels`, `AuditAgrees`, `TraceTellsChanges`, `FusedRangeCovers` | the invariants of the run `deliberation` |
| `CouncilProofs` | `BaseIsRestored`, `DirectiveReachesClients` | the invariants of the run `role_council` |
| `LocalModelsProofs` | `EnginesArePinned`, `ClearFilesHaveOwners`, `GenerationsKeepEngines`, `FilesOpen` | the invariants of the run `local_models` |
| `MemoryGraphProofs` | `TypeCorrect`, `SearchReturnsRecords`, `SearchMissesNothing`, `CompactionNamesSources`, `GraphsAreFaithful` | the invariants of the run `memory_graph` |
| `ResearchProofs` | `LinksInAnyOrder`, `PressureIsLocal`, `OffersHelp`, `BudgetsAnswered`, `AnswersAreStored`, `MapsAreKept`, `ControlsOfMapsHelp` | all properties of the run `research` |

### Vault

`VaultInvariant`: the properties speak of a vault at rest, and a rotation in
progress has the records under a key that is only in memory. `IInv` adds

- `OwnerInside`: the owner of the RLock is exactly the thread between two file
  writes, so at most one is;
- `ActiveIsKey`: the active id of a ring names one of its keys, so what is sealed
  can be opened;
- `Creation`: what each step of create has left on disk and in memory;
- `Sealed`: all records are under the active key of one ring, the one in memory
  while a rotation is between its files and the one on disk otherwise, and the
  two are equal outside a rotation;
- `RotatingUnlocked`: nothing locks the vault under a rotation.

The lemmas `SealOpens`, `NewKeyKeeps` and `OneKeyType` say what the helpers give.

`VaultImplementsStore` proves the refinement of `SecretStore`. `SecretsShown` says,
under `IInv`, that the secrets a reader sees are the values in the records file
unless a rotation was cut, so a key change is invisible (`SecretsSame`).
Each action is then one of the map's or a stutter: `CallStep` (a request that
passed its check), `PerformStep` (the one write), `DropStep` (a request
that ends without effect, or a rotation that is cut), `CrashStep`, and `HiddenStep` for
the rest: create, rotation, sessions and locks. `DeletesAskNone`, that a deletion in flight asks for no
value, is an invariant of its own that only the refinement needs.

### RecordStore

`StoreInvariant`, whose `IInv` has

- `Shape`: what a request has in hand at each step; only a retention has a plan;
- `AllTold`: `AuditTellsRecords` record by record, in a form that says what one
  more event does to it;
- `IndexKey`: the index has the words of an active record, all of them and no others,
  hashed with the key of its row;
- `KeysStored`: the key in the vault is the last one made, and rows, events and
  requests about to write use keys that were stored. `IntegrityHolds` alone is not
  inductive: a request could be about to write with a key that was never stored.

`SearchIsExact` needs `IndexKey` in both directions: a word of an earlier version must
not be there, and one under an older key must not be hit, also where first uses
overlap.

### MemoryStore

`QueueInvariant`. `IndexFollows` leaves out the records in flight, and those are the
ones a step changes. `IInv` has

- `Exclusive`: on a record nobody has crossed, at most one request is at work; each
  step that takes up a record must show that it crosses or keeps this;
- `Stamped`: no record is newer than the clock, so a new put differs from all;
- `InHand`: what a request has read fits what SQLite holds until it acts on it
  (`RecordInHand`), and the entries of a snapshot or a rebuild that it has still to
  do are the queue's, one for each record (`TodoInHand`); a record that a rebuild has
  selected is active, unless it has been overtaken;
- `UnqueuedFollows`: `IndexFollows` for records at work too. It can be stated because
  a request leaves its entry in the queue until the index has followed.

### IndexClient

`InitializationInvariant`: `OneHolder`, one request is inside the lock;
`Attempt`, the client being tried is the one that mode names and has not passed its
gates; `NothingLost`, where `initialize_weaviate` would begin again there is no client
to be overwritten. `ClientReady` does not look inside an initialization, and
without `Attempt` nothing would be known of the client that its end leaves behind.
A close that raises keeps all of it, since the client is gone before the exception.

### RoleCouncil

`RoleLockInvariant`: `Queued`, the lock's queue has each debate that waits or asks
once, which is why its head is the only one that asks; `HolderAsks`, who asks has
its prompt installed and the base in hand to restore; `OwnDirective`, a built
prompt ends with the directive of its own round; `SeenInstalled`, a client of a
debate has read what the debate installed. The lemma `RemoveAtProperties` says what
the queue is without the waiter that was cancelled, wherever it stood.

### Deliberation

`DeliberationInvariant`: the properties speak of opinions, rounds and traces that are
there, `DeliberationIInv` also of the tasks under way:

- `TasksKnown`: the k-th result is pending or that of the k-th task, which is what
  `gather` keeps although tasks end in any order; a debate's tasks are in the order of
  its clients, so no client is asked twice in a round;
- `RoundsKnown`: so are the opinions of each round that was kept;
- `PreviousKnown`: `previous_vectors` has what each model last said, not what it said in
  the last round, which it may have failed;
- `TraceKnown`: `TraceReplays` for each client in a form (`Replays`) that says what one
  more round does to it, whether the client has spoken, turned, or both for the first
  time.

`AuditAgrees`: the council and its audit look at the same pairs of answers, whatever each
does to find them (`SuccessfulOfRound`, `PairsOf`); a pair's contradiction covers 55 of 100
parts of what the disagreement counts (`ContradictionCovers`); and the first of the sorted
contradictions is the greatest (`GreatestFirst`), so no average exceeds it
(`RoundAgrees`). `FusedRangeCovers` is about one step: the range is the least and
the greatest of all bounds that shards gave (`MinOfFinite`, `MaxOfFinite`), whichever
way round.

### LocalModels

`ManagerInvariant`: `ManagerInside`, the lock's owner is the one thread between two
of its steps; `RunInHand`, that thread's clear file is nobody's runtime, and holds
pinned weights before an engine starts on it, though the encrypted file may be
replaced under it; `RuntimesApart`, no two models share a runtime and none lives on
an orphan; `StagedInHand`, the clear file of an install or import is this process's;
`KeyInHand`, what the event loop is about to write is encrypted under the
key in the vault, which is there before anything is encrypted.

### MemoryGraph

`GraphInvariant`. The results are computed by filters, sorts and slices of sequences,
so most of the proof is about those, for sequences of any length (those that say nothing
of searches are in `ScoresProofs`):

- `LeastOfSet` and `GreatestOfSet`: a set of naturals has a least element, and a
  bounded one a greatest, from the library's theorem on well-founded sets; they stand
  in for the induction that the installed provers cannot do;
- `RanksNumber`: the ranks of a finite set of places are 1 to its size, each once;
  hence `ItemsProperties` (a filter has the items of the places it keeps, in their order)
  and `SortedProperties` (the stable sort has the items of its argument, each as
  often), with which ranking and cutting lose and repeat nothing;
- `OnceProperties`, `UptoProperties`, `ReverseProperties`, `ConcatProperties`,
  `TailProperties`, `OneMoreItem`;
- `PlacesExist` and `ChosenProperties`: the selection by marginal relevance, which is a
  recursive function, exists, takes no candidate twice, and takes all while there is
  room;
- `SqliteHitsProperties`, `NeighboursProperties`, `ExpandedProperties`,
  `SelectedProperties`: the same for each step of a search.

`IInv` then says of the request at work: what it has found it has found once
(`FoundOnce`) and as it was since it began (`AllSeen`); nothing is written before its
first read (`NothingYet`); while there is room, every record that matches and was left
alone is among the found from the first step on (`MatchesFound`: index, expansion and
selection only add); and a compaction's sources are split between those to read and
those read (`SourcesInHand`), in the order asked (`OnceInOrder`, `OrderKept`). That no
other record is touched is preserved by every step with it (`WriteLeavesOthers`,
`StaysUntouched`), in the middle of a compaction too. `MatchesReturned` and `CompactionFaithful` speak of a
request that has returned and say nothing before.

`GraphsAreFaithful` is about one step, whose loop the model has as the recursive function
`Walk`. `AllNumbers` (from `LeastOfSet`) is induction over a set of numbers, and
`IterationExists` says with it that a function can be applied again and again, so that
`Walk` and `Within` are what their equations say (`WalkProperties`,
`WithinProperties`). The loop's invariant is `BreadthFirst`: a record is expanded once
(`EachOnce`); no entry is nearer than it says or beyond the limit (`InReach`); nodes are no
farther than the queue (`NodesFirst`), which is in the order of depth and has at most two
depths (`QueueInOrder`); the neighbours of an expanded node are known, as near as they are
to it (`NeighboursKnown`); edges touch expanded nodes (`EdgesFound`). `DropKeeps` and
`ExpandKeeps` are the two cases of a round, the first for the repeated entries, which may
go because their record is a node that is no farther. From `NearFirst`, whoever is within n
references is a node no farther than that or an entry as near still waits, follow the
distances, the order of what is cut and completeness. `WalkEnds` counts entries to show that
the model's bound on rounds cuts nothing, so a graph is truncated at the caller's limit only.
`AnswersFaithful` adds that nobody writes between the read and the answer.

### Research

`ResearchInvariant`, whose `IInv` has `Asked` (what the request is, and which stages are
an analysis's), `StoredLast` (nothing is stored but by the step that answers),
`SimulatedScenario` (both simulations are of the packet as it was validated),
`MeasuredScenario` (sensitivities and candidates are measured on that packet, at hotspots
of that simulation, and stay what they are while the session may end) and `ReviewedMap`
(the review is that of the request's map, the risk that of the packet made of it). With
it, each property is a statement about what the twin computes from a packet or a map, for
any number of surfaces, links, nodes and rounds. Those are proved along the computation:

- Validation and rows. `NormalizedIs`, `ValidLinksAre`, `ValidateIs`: what is accepted is
  normal, and validation changes nothing in it (`ReadyStays`). `RowsAre` says which
  surface each row is, the last with its id where there are links; `RowsAlike` that
  packets with the same ids have their rows at the same places.
- More pressure in, more risk out. `Milder` compares two surfaces field by field.
  From it, one operator after the other: `ClampGrows`, `SurfaceGrows` (probability and
  impact), `PressureGrows`, `AddedGrows` (by `TotalGrows`, sums of any length),
  `RaiseGrows`, `SpreadGrows`, `PropagatedGrows` (all rounds), `RiskGrows`. The overall
  risk is made of the greatest risks, and sorting may put surfaces at other places in the
  two simulations: `RanksGrow` says that the k-th greatest grows when every item does, by
  counting the places above it. `OverallGrows` and `SimulateGrows` conclude.
- `OffersHelp`: a candidate and the two ends of a sensitivity are a packet that is milder
  or not than the scenario in one field (`VaryGrows`, `FieldMilder`, `ActionHelps`).
- `BudgetsAnswered`: candidates are sorted by effect, those that one dominates are dropped,
  the rest are sorted by cost and cut at 24, which cuts nothing: six hotspots have 24
  candidates at most (`CandidatesAre`). For a candidate take, among those that cost no
  more and reduce no less, one whose reduction exceeds its cost by most
  (`SomeUndominated`): it cannot be dominated, so it is there (`FrontierIs`).
- `LinksInAnyOrder`: links that join surfaces are filtered and summed, and a sum does not
  depend on the direction it is taken in (`TotalReversed`); a round adds all links to what
  stood before it (`AddedReversed`), so all rounds are the same (`PropagatedReversed`).
- `PressureIsLocal`: after r rounds, the two simulations agree at every row outside
  `Near(links, u, r)` (`PropagatedNear`): a link into such a row comes from outside
  `Near(links, u, r - 1)` (`SpreadNear`). Ids may repeat and findings are sorted, so the
  theorem compares what is listed for an id (`ListedFor`).
- `MapsAreKept`: the ids of an accepted map are unique after stripping, so the packet has a
  row for every node, and the map's edges pass the same filter as the packet's links
  (`PacketIs`, `PacketKept`).
- `AnswersAreStored` follows from `StoredLast`: the step that answers stores if and only if
  the setting and the token ask for it.
- `ControlsOfMapsHelp`: one more control on a node makes its surface milder (`ShareGrows`,
  by the cardinality of the controls), and every rule finds fault only where it did
  before (`RulesExcuse`, rule by rule in `NodeRulesExcuse` and `EdgeRulesExcuse`), so the
  sum of weights does not grow (`FoundWeight`, `WeightGrows`). The pressure divides it by the
  integer square root, of which `RootIs` shows that there is one. What the local model says
  is bounded and the same for both maps, so it leaves a milder surface milder.

Recursive functions (`Total`, `Propagated`, `Near`) are the equations of a `CHOOSE`.
That there is a function with such equations is `IterationExists` and `RecursionIs`
of `ScoresProofs`; what all its values have in common is then shown with `AllNumbers`, on a
set of numbers instead of a predicate.

### Only model-checked

- Liveness (`SyncDrains`, `EventuallyConnected`, `DebatesEnd`, `CallsEnd`): fairness and
  `ENABLED` are out of the prover's reach.

## 6. Where the documentation and the code disagree

| Run | The documentation | The code |
|---|---|---|
| `cut_rotation` | CRYPTOGRAPHY.md:22, rotation is transactional | `vault.py:251` and `256` replace two files; between them no key on disk opens the records |
| `memory_ghost` | MEMORY_GOVERNANCE_AND_COUNCIL_V2.md:65, deleted records are queued for removal from Weaviate | `storage.py:594` removes the entry of a later request |
| `council_debate` | role_council.py:105, no request observes another's directive | `role_council.py:257` reads the prompt before it takes the lock |

More that the models led to, without a run of their own:

- A rotation that fails before its first write keeps its key active in memory
  (`vault.py:238`), so the next secret is sealed with a key that no file holds;
  CRYPTOGRAPHY.md:22 says that rotation is transactional. The premise of
  `RecordsOpenable` and `MemoryMatchesDisk` leaves this case out (`torn` has
  "key").
- Two first requests each make a master key (`storage.py:246` to `249`), and the later
  one is stored over the earlier, with which a record is encrypted; nobody can read it
  again. ENCRYPTED_STORAGE_AND_MEMORY.md:15 says that the key is stored in the vault.
  `IntegrityHolds` speaks of one key.
- A retention deletes what its plan said without looking again (`memory_governance.py:290`),
  so a record put on hold after the plan is deleted. test_memory_governance.py:91 expects a
  held record to be there after a retention, with the hold from before.
- Entries that always fail keep their place in the queue (`storage.py:589`;
  `mark_sync_failed` leaves `queued_at` alone): with as many unreadable records as a sync
  takes entries, those behind are never replayed. ENCRYPTED_STORAGE_AND_MEMORY.md:89 says
  that failed projections are recorded for later replay. The premise of `SyncDrains` leaves
  this out.
- A rebuild queues what a SELECT before its transaction found (`memory_governance.py:424`),
  over the removal of a record that was deleted since; a sync then drops the entry and
  leaves the projection, against line 65 of MEMORY_GOVERNANCE_AND_COUNCIL_V2.md.
  `QueueMatchesRecords` excepts such records (`overtaken`).
- In modes remote and embedded the mode is set before the gates (`storage.py:672`), and
  line 946 only tries again in two others: after one failure of the gates the sidecar does
  without Weaviate, and line 89 of the same document is not kept. `EventuallyConnected`
  names this case.
- In a debate the offline calibrator looks for the simulation where `role_council.py:247`
  does not put it (`providers.py:385`), and names no surface, although its answer says
  that it prioritizes the highest modeled ones (`providers.py:408`).
- In mode auto, closing a client that failed its gates may raise out of
  `initialize_weaviate` (`storage.py:919`); the mode then names that server, and nobody
  tries again. `EventuallyConnected` names this case too.
- A scan convenes its council without the lock (`scanner.py:304`), so that
  `PromptIsolated` fails with one debate and one scan too.
- Line 594 of `storage.py` also loses queued upserts when two puts overlap.
- After the collection was deleted (`Wipe`), a sync replays the queue, which is
  empty (`storage.py:968`); ENCRYPTED_STORAGE_AND_MEMORY.md:70 has it reconstruct
  the index, which only a rebuild does.
- A DATAPULL ends the session of the user who asked for it (`datapull.py:92` to
  `97`, `vault.py` forgets all sessions on unlock), and with it a research run
  under way is not stored (`research_api.py:40`): the caller gets an error and no
  result.
- A map of 1025 to 2048 nodes is within the limits of the map and passes its review,
  and is then refused by the scanner, whose limit is 1024 surfaces; edges beyond 8192
  are dropped without a word (`ScanFails`, and the premise of `TwinKeepsMap`).
- RESEARCH_ANALYSIS.md:46 describes the difference of the deep and the coarse
  simulation; the overall risk does not depend on the number of worlds, so it is
  always 0. Line 63 describes influence per unit of change; where a bound cuts the
  change, it is still divided by twice the delta.
- A vector that one model repeats is counted twice in the votes. An offline shard's
  range, meant as a share, may exceed one. Shards that fail are not replaced by the
  offline lattice, so a DATAPULL may end with no successful shard.
- A search for one record type may return neighbours of other types: the temporal
  expansion does not look at the type. A provenance graph may call itself truncated
  when only repeated entries are left in the queue, and two records at the limit of
  depth that refer to each other are reported without the edge.
- A runtime whose engine fails after it was entered is never exited.

## 7. Not modelled, and the plan

Not modelled, and why:

- `surface_lattice.py`: machine metrics and prompt texts; it changes no state.
- How the micro-scan (`scanner.py:557` to `605`) comes to its number for a surface: the
  text that a loaded model writes is outside. The number, its bound and its place in the
  logit are in `TwinGraph` (`localMicro`).
- `simcom.py`: parses, calls and prints; its last report is read and assigned
  without an await in between.
- `phishing_rod.py`, `guardrails.py`, `prompt_library.py`, `news.py`, `config.py`:
  regular expressions, weighted sums, files and environment.
- `cli.py`: `vault create`, `unlock` and `set-provider` from a second process over
  the vault's files. There is no lock between processes, so an overlap loses
  updates; a model would say no more than that.
- The Dart backend, engines and widgets: a second program beside the service, with
  counterparts of `TwinGraph` and `Council`. Its `LocalLlamaWorker` has a process
  handle that callbacks share (listed under the hazards).
- HTTP, wording, rendering, cryptographic strength, the bytes of signatures, seeded
  Monte-Carlo samples, floating-point rounding. Sums of floats in another order may
  differ in their last bit, which the integers of the models do not.
- A second process on the database in `RecordStore`.
- What a cut `create` leaves (`vault.py:119`): `unlock` fails and `create` refuses, for
  which no document has a promise. `VaultOpens` leaves it out by `torn`, as
  `RecordsOpenable` leaves out failed rotations.

Next, in this order:

1. The desktop's worker and its process handle; the second process over the
   vault's files.
2. `IndexFollows` for records that requests have crossed on, once `mark_synced` compares
   what it removes.
