# Uru: TLA+ models and proofs

Uru is an Obsidian plugin (TypeScript, `main.ts` and `src/`) that keeps a local
semantic index of a vault. A Python *sidecar* (`sidecar/uru_sidecar/`) hosts the
Khora library and supervises two `llama-server` processes; the plugin starts the
sidecar, sends it notes over loopback HTTP, and asks it questions. Paths below
are relative to the repository.

Khora is vendored in `khora/`. The sidecar opens it with the `vectorcypher` engine
on one SQLite file and a LanceDB directory, with entity extraction off
(`sidecar/uru_sidecar/config.py`); the library itself can do more.

This directory holds TLA+ modules that model the parts of Uru and of Khora where
the order of events decides whether the index is right, TLC configurations that check them on
small instances, and TLAPS proofs for instances of any size.

## 1. The system

| component | state | operations | talks to |
|---|---|---|---|
| **Indexer** `src/indexing/indexer.ts` | `store` (the hash map), `pending` timers, `running`, `cancelRequested` | `fullIndex`, `rememberWithRetry`, `waitForHealth`, `registerVaultEvents`, `debounce`, `reindexOne`, `handleDelete`, `handleRename`, `stop`, `cancelPending`, `flush` | vault events in, `/remember` `/forget` out, HashStore |
| **Index state file** `src/indexing/hashStore.ts` | `entries` in memory, `index-state.json`, `index-state.json.tmp` | `load`, `save`, `set`, `delete`, `get`, `knownPaths` | the file system |
| **Plugin shell** `main.ts` | settings (`data.json`), `manager`, `indexer`, `bootPromise`, `reindexInFlight` | `runBackend`, `restartBackend`, `runSetup`, `startIndexer`, `stopIndexer`, `reindex`, `deleteData`, `onunload` | all others |
| **Vault registry** `src/vaultRegistry.ts`, `src/paths.ts` | `vaults.json`, `vaults/<key>`, `runtime/`, shared by every open vault | `touchVault`, `removeVault`, `otherActiveVaults`, `pruneOrphanVaultData` | the file system, other Obsidian windows |
| **Sidecar manager** `src/sidecar/manager.ts` | child process, lock file, heartbeat, restart counter | `start`, `takeOverExisting`, `awaitReady`, `scheduleRestart`, `stop` | the sidecar process |
| **Sidecar client** `src/sidecar/client.ts` | port and token of one process | `remember`, `forget`, `recall`, `chat`, `health` | the sidecar's HTTP server |
| **Sidecar runtime** `sidecar/uru_sidecar/{app,lifecycle,__main__}.py` | `status`, Khora handle, in-flight count, activity clock | start-up, routes, idle and parent watchdogs, shutdown | Khora, llama supervision |
| **llama supervision** `sidecar/uru_sidecar/{llama,proxy}.py` | two child processes | start, wait until ready, restart, stop; the proxy forwards to them | `llama-server` |
| **Bootstrap** `src/bootstrap/{uv,gpu}.ts` | stamps, downloads in `runtime/` | `ensureBackend`, GPU probe | network, `uv` |
| **Views, settings tab** `src/views/*`, `src/settings.ts` | chat transcript, search results, widgets | send, search, uninstall row | client, shell |
| **Khora: embedded store** `khora/src/khora/storage/{temporal/sqlite_lance.py,backends/sqlite_lance/}` | `documents`, `khora_chunks`, `chunks` in SQLite, two LanceDB tables, one shared connection | `create_chunks_batch`, `delete_chunks_by_document`, `create_document`, `update_document`, `delete_document` | engine, coordinator |
| **Khora: remember and forget** `khora/.../engines/vectorcypher/engine.py`, `storage/coordinator.py`, `engines/_forget_cascade.py` | on PostgreSQL and Neo4j: documents, chunks, `:Chunk` nodes, entities in two stores | `remember` (create, replace), `forget` (cascade) | storage backends |
| **Khora: deferred ingestion** `khora/src/khora/khora.py` | `_processor_queue`, workers, batch handles, `_chunk_semaphore` | `submit_batch`, `wait`, `start`/`stop_pending_processor`, the orphan scan | engine, documents table |
| **Khora: dream runs** `khora/src/khora/dream/` | `khora_dream_runs` (checkpoint, mirror queue), undo files | run, resume, drain, `dream_undo` | PostgreSQL, Neo4j |
| **Khora: the rest** | - | retrieval, extraction, other engines and backends, filters, hooks, CLI | not modelled (section 6) |

What is hard in it:

* JavaScript runs one coroutine at a time but switches at every `await`. Vault
  events, timers, a full run and the backend's life cycle interleave there, and
  nothing cancels a coroutine whose owner was replaced.
* The plugin can be killed between any two steps; what the next start does
  depends on three things written at different moments: `index-state.json`,
  `data.json` and the sidecar's database.
* A call can fail after it took effect; calls of two coroutines are applied in
  either order.
* Every open vault is another process; all share `vaults.json` and `runtime/`
  without a lock.
* The sidecar may die and be replaced by one on another port under a run.
* Restart chains, exit handlers and stops of several `SidecarManager` objects live
  at once and share one lock file; each may kill the other's process.
* Khora writes several stores without a transaction over them: each call is a
  series of awaits, any of which may fail or be the last; callers interleave at
  every one. On the embedded stack they also share one SQLite connection, so that
  a commit or a rollback of one call takes the others' statements with it.
* A queue item, a worker and a handle live in memory and the rows they stand for
  on disk; a stop or a crash cuts them apart.
* A dream operation is committed in one store and mirrored to another; crashes,
  resumptions and undos fall in between.
* The sidecar has five ways to end (idle, parent gone, `/shutdown`, SIGTERM, a
  crash), which overlap with its boot, with requests and with a worker thread
  that restarts a `llama-server`.

What makes each modelled part correct: the **Indexer** never believes Khora holds
a text it did not accept, a completed run covers the vault, an interrupted run
is found out, a stop stops, a run ends, and Khora follows the edits. The **state
file** is the old or the new one, whatever fails. The **registry** lists a vault
once, and cleanup takes nothing that another vault uses. The **manager** runs one
sidecar per database, none after a stop, and replaces one that died. The
**runtime** never counts a request as idleness, brings its `llama-server`s back or
says that it cannot, leaves none behind, and ends with Obsidian. **remember** and
**forget** leave, when they return, exactly the text they were given, or nothing,
to be found, on either stack, whatever failed before. **Deferred ingestion** gives
each document of a batch one result, `wait()` returns, COMPLETED means indexed once.
A **dream run** loses no mirror, and neither it nor an undo leaves the stores apart
without saying so.

## 2. Modules

### `Indexer` - `indexer.ts`, `main.ts`, calls of `client.ts`

An action is the code between two `await`s of one coroutine.

| TLA+ | code |
|---|---|
| `live`, `path`, `content` | the vault; `path[f]` is `TFile.path`, which Obsidian changes in place on a rename |
| `ignored` | paths the compiled ignore globs match |
| `store[g]`, `gen` | the HashStore of the Indexer made by boot `g`, and the current one. Retired ones stay, because their coroutines still hold them |
| `timers` | debounce timers; `tracked` says that `pending` still has the id |
| `cancel`, `task[s]`, `run` | `cancelRequested`; the frames of handler coroutines; the frame of `doReindex`/`fullIndex`/`rememberWithRetry` |
| `disk`, `flag`, `flagDisk` | `index-state.json`; `settings.indexInterrupted` in memory and in `data.json` |
| `backend`, `epoch`, `call[a]`, `khora` | the manager's state, the number of the sidecar process, the request of each coroutine, the text Khora holds for each path |
| `acked`, `quiet`, `indexed`, `saver` | history only; no guard reads them. `saver` is the Indexer that wrote `index-state.json` last, or was loaded from it |

*Vault*: `Create`, `Modify`, `Delete`, `Rename` do what the registered handler
does up to its first `await`; `EditIgnore` is `applyIgnorePatterns`.
*Handlers*: `Fire` (timer), `TaskRead` (after `cachedRead`), `TaskRemembered`,
`TaskForgot` (after the call; a rename goes on to re-index).
*Run*: `Reindex`, `RunBegin` (flag saved, client captured, deletions and files
listed), `RunRefused` (no client), `RunForget`/`RunForgot` (deletions),
`RunRead` with `Gate` (the content-hash gate), `RunAborted` (a read throws),
`RunNote`, `RunAttempt`, `RunForgotFirst`, `RunRemembered`, `RunRetry`,
`RunGaveUp`, `RunNothing`, `RunEnd`, `RunUnflag` (last `saveSettings`), `Stop`.
*Calls*: `ServerApply` takes effect and is answered, `ServerRefuse` meets no
process with that port and token, `ServerFail` is an error of a live sidecar
that may have taken effect.
*Backend*: `SidecarCrash`, `SidecarRespawn`, `SidecarReady`, `ManagerStop`,
`Boot`, `StartIndexer` (retire, flush, load), `Close` (quit, which flushes, or
kill, which does not), `Open`.

Data that no property tells apart is abstract: a text is its own hash, Khora is
one text per path, the order of the file list is any order, waiting times are
left out (a timer may fire at any moment). `Sessions` gives the budgets of edits,
renames, failing calls and runs, one record per kind of history. `HashStore.save` is one step here and
does not fail; the next module opens it up.

### `HashStore` - `hashStore.ts`

`load` and `save` system call by system call: `SaveOpen`, `SaveWrite`,
`SaveFsync`, `SaveRename`, each of which may throw; `Crash` between any two;
`PowerLoss`, which brings back the directory as it was at some moment since the
last commit and may lose unsynced data. The file system is external and is
modelled as a journaling one: directory changes become durable in order, and
`fsync` makes durable all that preceded it. `short` records that a `writeSync`
stored less than it was given; the code does not look at the result, so every
promise of the module is made for behaviours in which that has not happened.
`promise` and `previous` are history variables: the maps a load may return.

### `VaultRegistry` - `vaultRegistry.ts`, `deleteData`, `doRunBackend`

Each vault is a window (a process). `touchVault` and `removeVault` are a read,
the truncation and the fill of `vaults.json`, with the file unparsable in
between; `deleteData` is the removal of the vault's directory, `RemoveRead` and
the write, `Check` (the second look at the registry), `PruneRead`/`PruneOne`.
`Preflight` is the settings tab's button, whose answer may be stale when the
dialog is confirmed. `Reinstall` loses `data.json` and with it the key.
`Modes` lists the kinds of history a run looks at: the vaults that are opened,
whether the file operations of two windows may interleave (`exclusive`), and
whether a write may fail and a window die halfway (`faults`).

### `SidecarManager` - `manager.ts`, `runBackend`, `restartBackend`, `onunload`

| TLA+ | code |
|---|---|
| `mgr[m]` | one `SidecarManager`: `stoppedByUs`, `restartAttempts`, `proc`, `spawnError`. Every boot makes a new one; handlers and chains of the old ones live on |
| `chain[c]` | a coroutine in `start` or in the sleep of `scheduleRestart`, and whether a boot waits for it |
| `proc[p]` | a `ChildProcess` and the process it stands for; `sig`: ended by a signal |
| `stop[s]` | the frame of one call of `stop()`, the process it waits for and whether the caller boots again |
| `cur`, `due`, `lock` | `this.manager`; a `bootPromise` that has not come to `startSidecar`; `uru-sidecar.lock` |
| `unseen`, `crossed`, `gone` | history only: a process that came up when another `start` had already looked for sidecars; a manager whose `stop()` was called between the first step of one of its starts and the spawn; a manager one of whose `stop()`s has returned |

`TakeLock` and `TakeOrphans` are `takeOverExisting`, `Spawn`/`SpawnFails` the rest
of `start` up to `awaitReady`, `ReadyOk`/`ReadyThrows` its end with the `catch` of
`start` and of `scheduleRestart`; `ExitEvent` is the exit handler, `Schedule` and
`Wake` are the two halves of `scheduleRestart`, `BeginStop` and `StopEnd` those of
`stop`. `RunBackend`, `Boot`, `BootDropped`, `Stop`, `Unload` are the plugin's side,
`Close`/`Open` Obsidian's. Two details carry weight. Node leaves `exitCode` null
for a process that a signal ended (`HasExitCode`), and `start` takes back
`stoppedByUs` only after the awaits of the take-over. Starts and stops may fall in
that gap like anywhere else; what the code does not promise there is excepted by name
in the properties (`unseen`, `crossed`). POSIX only.
Waiting times are left out. Slots of processes and managers are used again once
nothing refers to them, so the model bounds how many live at once and not how
long a behaviour is. A `llama-server` is part of its sidecar here.

### `SidecarRuntime` - `__main__.py`, `lifecycle.py`, `app.py`, `llama.py`

| TLA+ | code |
|---|---|
| `status`, `inflight`, `idle` | `status`, `_inflight`, `idle_seconds() > idle_timeout` |
| `boot`, `sup`, `stopper[a]` | the frames of `boot`, of `run_supervisor` with its worker thread, and of each `stop()`: the idle watchdog's, the parent watchdog's, the route's, the lifespan's |
| `llama[s]` | the process of `_chat` and of `_embed` |
| `req[r]` | a request: in its handler, between headers and body, in its body generator |
| `server` | uvicorn (external): serving, draining after SIGTERM, in the end of the lifespan, exited |
| `slept`, `parent` | the clock jumped during the watchdog's sleep; Obsidian is there |
| `awake`, `loose` | history only |

An action is what a coroutine of the event loop does between two awaits;
`SupSpawn`, `SupReady` and `SupFails` are the worker thread in
`LlamaServer.restart`. `/health` touches the clock and is not counted
(`Heartbeat`). The middleware is `Arrive` and `Answer`, the guard inside a
streaming body `BodyBegin` and `BodyEnd`; a client that leaves before the body
begins is `Vanish`. `IdleTimeout` does not fall between headers and body: a touch
precedes that gap, and the timeout is two minutes. `LifespanEnds` cancels the four
tasks, also a `stop()` that one of them is in. Not here: a crash of the Python
process, a sidecar started without a parent, and an idle timeout of 0.

### `Memory`

What the callers of `remember` and `forget` count on, on either stack, document by
document: `Touch` (a call begins, the document is torn) and `Settle` (a call
returns and exactly its text, or nothing, is found). Nothing else changes a
document. Two modules are shown to implement it (`ImplementsMemory`), each with a
mapping of its stores to `held` and `found`. A document is torn from the beginning
of a call until a call returns that nothing disturbed: no other call on the same
document, and no rollback of its statements by another call.

### `EmbeddedStore` - the database behind a vault

| TLA+ | code |
|---|---|
| `row` | the `documents` table, written through SQLAlchemy, a transaction per call |
| `mem`, `disk`, `lock` | `khora_chunks` as the shared aiosqlite connection sees it and as committed; whether that connection has SQLite's write lock |
| `vec` | `khora_chunks_vec` in LanceDB |
| `op[c]` | the frame of a `remember` (create or replace) or a `forget` |
| `clean`, `leaky` | history: documents whose last call succeeded undisturbed; documents a cut or contested wipe may have left something of |

One action per await: `Begin` (lookup), `Insert` (create, its race and its
duplicate), `Wipe`, `Commit`, `DeleteVectors` (the two halves of
`delete_chunks_by_document` and the commit between), `InsertRows`, `AddVectors`
(`create_chunks_batch`), `OldDelete`, `OldInsert`, `OldVectors` (the same on the
table `chunks`, which a replace fills beside `khora_chunks`; a forget empties it first
in `coordinator.delete_document`; only its statements and its foreign key matter),
`Complete`, `MarkFailed`, `delete_document`. SQLite is
external: a failing statement is undone (`Undone`) or takes the transaction with
it (`RolledBack`), everybody's. `executemany` is a statement per row: when a later row
fails the earlier ones stay executed, uncommitted and with the lock held (a chunk that
is not `whole`), for the next commit of any call to make permanent. A writer of the documents table waits for a call
that is about to commit and gives up when none is (`Stuck`, `busy_timeout`).
Embedding and chunking fail without effect. What one call writes for a text counts
as one chunk, or as part of one.

### `Documents` - remember and forget with entities

The PostgreSQL and Neo4j stack: `row`, `khora` (copies of each text in
`khora_chunks`), `nodes` (`:Chunk` nodes), `vec` and `graph` (entities with their
ids, sources and retirement). One action per store call: a create inserts, writes,
mirrors, upserts entities in two stores, links and completes; a replace wipes,
writes, prefetches, commits its transaction, retires, remaps, strips and upserts; a
forget lists orphans and survivors, deletes and strips them in two stores, and
deletes nodes, chunks and row. An entity keeps the newest `SourceCap` (100) of its
source documents: `Upsert` pushes older ones out, which ones is left open, and `out`
remembers them (history). A failing mirror degrades and does not raise.
`clean`, `scarred` are history: documents whose last call succeeded undisturbed;
documents one of whose forgets was cut half way or one of whose calls a forget ran
beside. Relationships go the way of entities and are left out; Neo4j's list of sources
is a set here, though the code may append an id that is there already.

### `PendingProcessor` - deferred ingestion

`sub` is a `submit_batch` call staging its documents one by one; `handle` the
`BatchHandle` with its countdown; `queue` and `wk` the processor's queue and pool;
`proc` the processor task (off, scanning for orphans, draining); `sem` the chunk
semaphore. A worker passes the per-batch gate, loads the row, clears what a failed
attempt left, writes window by window under the semaphore (a window may fail before its chunks are
written or after), stores the status, reports. Failing calls, deletions of rows, stops and crashes come from one budget.
A batch submits one content per document, so that the batch is the version; a
document it names a second time is passed over (`seen_external_ids`). `tainted` is
history: documents two items were at, that were queued when another batch had just
completed them, or whose worker was cut. Documents without chunks and ARCHIVED rows are
left out.

### `Dream` - apply runs on PostgreSQL and Neo4j

`pg` and `graph` are what each store hides; `runs` is `khora_dream_runs` with the
checkpoint `last` and `graph_mirror_pending`; `proc` is the attempt that holds the
namespace lock: `Plan`, drain (`ReadPending`, `DrainOne`, `DrainClear`), the loop
(`Pass`, `PassAudit`, `OverBudget`, `Apply`, `MirrorOp`, `ClearOp`), `WriteUndo`,
`Finish`. The plan is made before the drain; the planners look for merges in the graph,
which `list_entities` prefers, and for edges in PostgreSQL. `Resume` re-enters a crashed run under its checkpoint with a plan made
anew. `Undo` and `Unmirror` are `dream_undo`, which takes no lock. `due` and `torn`
are history.

### `MC*`, `*Proofs`

`MC*` give the instances for TLC (plans, sessions, symmetry sets).
`*Proofs` hold the theorems. An operator whose comment starts with "Mutant" is a
plausible mistake in the definition that follows it; it is used by no
specification and shows that a property can tell the mistake.

## 3. Runs

| run | instance | properties | what it shows |
|---|---|---|---|
| `runs` | 2 notes, 2 paths (one may be ignored), 2 texts, 1 handler; 2 runs, 1 edit, 1 rename, 1 failing call, or 1 run and then 3 edits (2 of them renames) with nothing failing | `CompletedRunCoversVault`, `LossIsBounded`, `StopsAfterCurrentNote`, `StaysInStep` | what a run's completion, its periodic save (while the file is the current Indexer's) and the stop command promise, with a handler and an edit in every gap; Khora follows creates, edits, deletes and renames when handlers do not overlap |
| `crashes` | 1 note, 2 texts, 2 sidecar processes, 2 runs, 1 edit, 1 failing call | `RunIsFlaggedOnDisk`, `ForcedRunHeals`, `EntriesWereAcknowledged`, and under `FairSpec` `RunEnds` | crashes, respawns, restarts, quits and kills at every point of two runs; a run ends even if the sidecar never comes back |
| `store` | 3 maps and the empty one | `FileIsWhole`, `LoadIsOldOrNew`, `CommittedFileStays` | saves are atomic |
| `registry` | 2 vaults at once with every fault, or 3 that take turns; 3 keys | `OneEntryPerVault`, `RuntimeIsThere`, `CleanupSparesOthers` | the registry is never wrong about who a key belongs to; an uninstall confirmed on a stale answer takes nothing another vault uses |
| `manager` | 2 processes, 2 managers, 2 chains, 1 stop, 1 delay | `OneSidecar`, `StoppedIsGone`, `NeverSilentlyDown` | one sidecar per database, none after a stop, none silently missing, starts and stops falling anywhere |
| `runtime` | 2 requests, 2 servers | `InflightIsExact`, `ExitLeavesNothing`, `IdleSparesRequests`, `SleepIsForgiven`, and under `FairSpec` `SupervisorHeals`, `FollowsItsParent` | what the sidecar promises its requests, its children and its parent |
| `embedded` | 2 documents, 2 texts; 1 caller with 5 calls and 3 troubles, or 2 callers with 3 calls and 2 troubles | `OnlyHalfBatchesStayPending`, `NothingIsLeftBehind`, `ImplementsMemory` | the database of a vault is sound after failures, crashes and two calls at once |
| `documents` | 3 documents, 2 texts, an entity that one text mentions and that keeps 2 sources; 1 caller with 5 calls or 2 with 3, 2 troubles | `SettledIsExact`, `ForgottenSourcesNothing`, `MentionedIsThere`, `ImplementsMemory` | the same on PostgreSQL and Neo4j, with shared entities; a full list of sources costs the documents that were pushed out and no other |
| `processor` | 2 workers, 2 windows, both caps 1; 1 batch of 2 documents, one of them named twice, with 1 trouble, or 2 batches of the same one with 2 | `ResultsExact`, `TokensReturned`, `CompletedIsIndexed`, `RetryLeavesNoDuplicates`, and under fairness `WaitReturns` | deferred ingestion reports every document once and completes what it indexed |
| `dream` | 1 merge, 1 edge and an audit in 3 orders, 2 run ids, 3 attempts, 2 undos, 3 troubles | `LagIsQueued`, `QuietRunConverged`, `UndoConverges`, `PlanIsCarriedOut`, `CheckpointAdvances` | crashes, resumptions and undos at every point of a run |
| `claim_in_step` | 1 note, 2 handlers | `StaysInStep` (violated) | finding 1 |
| `claim_resumed` | the instance of `dream` in small | `ResumeCarriesOut` (violated) | finding 2 |

The ranges of each module's variables are stated as its `TypeOK` (`ManagerTypeOK` in
`SidecarManager`). The runs leave it out, where it would only repeat what the other
properties evaluate; it is proved for every module that has one.

**Bounds.** `SaveEvery` is 2 (10 in the code) and `Retries` 2 (3 in the
code): what matters is a note before and a note at the save, a try that is not
the last and one that is. Two notes and two paths are enough for a rename onto a
path another note held, for a deletion beside a note that stays, and for a stop
between two notes. Two sidecar processes allow a crash or a restart under a run and
a forced run after it; the properties of `crashes` that are proved (section 4) do
not depend on that, and `ForcedRunHeals` was also checked with three. One failing
call can hit each call of a note. The budgets only cut behaviours short.
`CHECK_DEADLOCK FALSE` stands where the system may stop: nobody has to edit, and
the bounds run out. `HashStore` needs no bound and never stops. In the registry
keys run out. Two processes, two managers and two chains are the process of an
old manager and the one that replaces it, with a restart of each manager or two
of one under way. One `stop()` at a time and one delay (5 in the code) keep the instance
small: with two of either it has 7 or 10 million states, in which the same properties
hold, and the theorems of section 4 hold for any number of each. Two requests
are enough for one to end while another is in any of its phases. A sidecar may
exit and Obsidian may stay closed, so both runs allow a stop.

Five calls of one caller are a create, a replace, a forget and the same document
again, with a failure or a crash in up to three of them; three calls of two callers
are any two that overlap and a third that finds what they left. Two documents show
that a call on one does nothing to the other; a third does not fit in the list of an
entity that keeps two sources (100 in the code). One entity and a text without it are
all the ways a replace can gain, keep or drop one. With both caps 1 every worker
waits at some time; two windows are a first and a last one. Two run ids and three
attempts are a crashed run, its resumption and a later run that heals.

**Symmetry** is used for safety properties only and only where no constant tells
the permuted values apart: notes and texts in `runs` (one path may be ignored, so
paths are not alike), vaults and keys in `registry`, documents, texts and callers in
`embedded`, documents and callers in `documents` (the texts mention different
entities), run ids in `dream`. `crashes`, `runtime` and `processor` check liveness and
use none.

**Fairness.** `crashes`: weak fairness of a run's steps, of each handler's steps and
of each call's answer: JavaScript resumes a coroutine whose promise is settled,
timers fire, and every request ends, by an answer, a refused connection or a
time-out (`requestUrl` on loopback). Nothing is assumed of the user, of failing
calls, of crashes or of the restart of a dead sidecar. `runtime`: the event loop
and the worker thread go on, a `llama-server` loads or ends (`wait_ready` has a
deadline), a request ends some day and the parent watchdog looks every two
seconds; nothing is assumed of the idle watchdog or of the user. `processor`: each
worker's steps and the end of the orphan scan are weakly fair, because the event
loop resumes a task whose await is settled and `asyncio.Semaphore` wakes its
waiters; nothing is assumed of the callers, of stops or of failures. `WaitReturns`
does not speak of a batch whose item a stop took from a worker: that one's `wait()`
does hang (section 5).

## 4. Theorems

TLC's runs are small; these hold for every value of the constants that satisfies the
named assumptions. All of these say that sentinels are not ordinary values and that
bounds are natural numbers (`ConstantsAssumption`, `StoreAssumption`,
`RegistryAssumption`, `RuntimeAssumption`, `EmbeddedAssumption`,
`DocumentsAssumption`, `ProcessorAssumption`, `DreamAssumption`); beyond that, that
the requests of a sidecar, and the documents and workers of the processor, are finite
sets, because they are counted. Most properties are not inductive. What follows
names, for each theorem, what its invariant adds and why.

**`IndexerProofs`**

* `TypeCorrectness`. `TypeOK` alone lets a coroutine without an Indexer index `store`
  outside its domain, or send a request without a path. `WellFormed` excludes that,
  and `ClosedIsEmpty` says that no coroutine survives the closing of Obsidian.
* `InterruptionIsFlagged` (`RunIsFlaggedOnDisk`), by the same invariant: `RunBegin`
  saves the flag before the first call, only `RunUnflag` writes it again, and `Open`
  reads it while no run is under way.
* `StoreIsHonest` (`EntriesWereAcknowledged`), with any number of handlers, failing
  calls, crashes and boots. It needs `AnswersAreTrue`: the request a coroutine waits
  on carries the text it is going to record, and an `ok` it may see stands for a text
  Khora accepted.
* `CompletionIsTrue` (`CompletedRunCoversVault`) and `ForcedRunRepairs`
  (`ForcedRunHeals`). `Walk` is the loop invariant of `fullIndex`: every note is
  blank, still to be read, still to be sent, or held by the store (in a forced run,
  by Khora too), and every entry belongs to a note or to a path still to be forgotten.
  It holds as long as nothing else was at work; `Coherent` gives what that means step
  by step: which call the run's coroutine waits for in each phase, that two notes never
  share a path, that no handler is at work while the vault is `quiet`, that deletions
  come before the gate and the gate before the sends.
* `StopIsHeard` (`StopsAfterCurrentNote`), from `RunCalls`: in a phase that waits, the
  call is for the note in hand.
* `KillCostsLittle` (`LossIsBounded`), for any `SaveEvery`, runs, handlers and boots.
  `LossInv` counts: what is unsaved is at most `done % SaveEvery` while the current
  Indexer runs, and nothing otherwise.

**`HashStoreProofs`**: `StoreTypeCorrectness`, `FileStaysWhole` (`FileIsWhole`),
`SavesAreAtomic` (`LoadIsOldOrNew`) and `CommittedFilesStay`. The invariant adds
`TmpIsWhole` (the rename is reached only with the whole map, synced, in the temporary
file) and `FilesArePromised` (every directory state a power failure may bring back
holds a whole, synced file that was promised).

**`VaultRegistryProofs`**

* `RegistryHasOneEntry` (`OneEntryPerVault`), with `SnapshotsHaveOneEntry` (what a
  window has read and is about to write has one entry per vault too) and
  `KeyWhileRunning`.
* `RuntimeStays` (`RuntimeIsThere`) and `DatabasesAreSpared` (`CleanupSparesOthers`),
  for any number of vaults. `TurnInv` holds where windows take turns and none is
  killed: one window is at the files at a time, keys are apart, the registry and every
  snapshot about to be written name all vaults with a database, and so what is about to
  be pruned is nobody's.

**`SidecarProofs`**, of the runtime for any finite set of requests

* `TypeCorrect`, `CountIsExact` (`InflightIsExact`).
* `DogSparesRequests` (`IdleSparesRequests`) and `DogForgivesSleep`
  (`SleepIsForgiven`), with `IdleIsHonest`: the timeout the watchdog may act on passed
  with the machine awake and no answer between its headers and its body.
* `NothingIsLeft` (`ExitLeavesNothing`), from `BootIsFirst`, `BeforeTheEnd` and
  `AfterTheEnd`: which of `boot`, the supervisor and the four `stop()` may be under way
  before and after the lifespan ends, and that a `stop()` nothing raced with has taken
  both servers.

and of the manager for any processes, managers, chains and number of delays

* `ManagerTypeCorrect` and `NobodyMissing` (`NeverSilentlyDown`). A chain under way has a
  manager (`Chained`), a death still to be heard of has one to hear it (`Heard`), a
  manager's process is its own (`Holds`), and a manager whose process is gone has used up
  its delays or has a chain that is not merely the end of a boot that has spawned already
  (`Replaced`): without this last part a boot that fails could take its own excuse away.
* `NeverTwo` (`OneSidecar`) and `StopIsFinal` (`StoppedIsGone`), whatever comes between
  two awaits. `SingleInv`: every start that has yet to spawn will look for a process that
  is not `unseen` (`Seen`), and a look ends what it finds. A process whose manager was
  not crossed is the one its manager has (`Owned`) and the one each of its `stop()`s waits
  for (`Awaited`), so that none is there once one has returned (`NoneLeft`); and a manager
  that is being stopped, or was, has no start under way and says so to every restart
  still asleep (`Calm`).

**`EmbeddedStoreProofs`**, for any documents, texts and callers on the shared connection

* `OnlyHalfBatchesStay` (`OnlyHalfBatchesStayPending`). The property is inductive once
  calls are known to be records: a step that changes what the connection sees takes its
  own call to a commit, no step takes another call away from one, and a failure that does
  undoes the change, but for the rows of a batch that went before the one that failed.
* `NothingStaysBehind` (`NothingIsLeftBehind`) and the refinement `StoreRefines`
  (`ImplementsMemory`). `DocInv` says of each document how far an undisturbed call has
  come (`OnTrack`), that what is not leaky holds chunks and vectors of its row only
  (`Traceless`), and that a clean document is whole (`Sound`); `Fresh` says that the id
  a call will give its row is nobody's yet. For the refinement each step is shown to be
  a `Touch`, a `Settle` or a stutter of `Memory`.
* `StoreTypes` (`TypeOK`). That every chunk names an inserted document and a text needs
  that a call past its insert has an id and that no forget inserts (`Knows`).

**`DocumentsProofs`**, for any documents, texts, entities and callers

* `SettlesExactly` (`SettledIsExact`) and the refinement `DocumentsRefine`
  (`ImplementsMemory`), from `CallInv` (who is at which document, in which step of which
  kind of call) and `OwnDocs` (what the call alone on a document has made of it).
* `ForgetsAll` (`ForgottenSourcesNothing`) and `CascadeSparesOthers`
  (`MentionedIsThere`), from `EntityInv`: whatever a sound document sources in the
  graph it sources in pgvector, or was pushed out there (`Backed`), which is what a forget
  decides by, and so what a forget has found to be its own alone is nobody else's, except
  of those that were pushed out (`Spared`). It holds for any `SourceCap`.
* `DocumentTypes` (`TypeOK`). The bounds of the model are a counting argument: a call has
  a number of its own, and a document has had at most as many ids as there are numbers of
  calls that have begun and are not about to insert it (`Numbers`).

**`PendingProcessorProofs`**, for any plans, batches, windows and caps

* `TypeCorrect` and `TokensComeBack` (`TokensReturned`).
* `CompletedStaysIndexed` (`CompletedIsIndexed`) and `RetriesLeaveNoDuplicates`
  (`RetryLeavesNoDuplicates`). `Links` ties items, batches and rows by the incarnation of
  the document; `AloneInv` says that at most one item is at an untainted document, none
  when it is COMPLETED, and that a worker has written the windows before its own, once.
* `ResultsStayExact` (`ResultsExact`), from `HandleOK` (the countdown) and `MatchOK`
  (what a batch waits for is in the queue, with a worker, or was lost to a stop, in one
  place only).

**`DreamProofs`**: `MirrorLagIsQueued` (`LagIsQueued`), `QuietRunsConverge`,
`UndosConverge`, `CheckpointNeverGoesBack` and `DreamTypes`, for any items, plans,
orders, run ids and bounds, from one inductive invariant. It needs, besides the
types and the properties themselves: `PendingKeyed` (an entry is cleared by its
number, and a number is used only above the checkpoint, so that a resumed run
never clears an entry of its former life), `ClearedIsMirrored` (an entry is cleared
only once its item is hidden in the graph or shown again in PostgreSQL),
`UndoIsAccounted` (an undo that meets a queued entry leaves the item torn) and
`QuietSoFar` (as long as nothing was reported, what is not converged is on the list
of the drain, or is the operation about to be mirrored). `PlansAreCarriedOut`
(`PlanIsCarriedOut`) has an invariant of its own: a first attempt finds no checkpoint
(`FirstLife`), and what it still owes of its plan lies ahead of it (`Ahead`). That the
planner leaves out what is hidden already (`SelectSeq`) is not used.

The invariants were checked by TLC before they were proved. Three proofs failed at
first because a property said too much for instances larger than those of section 3:
`LossIsBounded` without `saver` is false from the second boot on; a document whose call merely ran beside another
document's forget can lose an entity for good, which made `scarred` what it is; and
the case of `tainted` with which section 5 ends on deferred ingestion takes three
batches of one document.

**Only model-checked:** liveness (`RunEnds`, `SupervisorHeals`, `FollowsItsParent`,
`WaitReturns`), which is out of the prover's reach, and `StaysInStep`. The latter is
false of the code as soon as two handlers overlap (`claim_in_step`), a timer fires while
the backend is stopped (it is lost), or a note is deleted while a first run sends it (it
stays in Khora, where a second run does not look for it); the run `runs` checks it where
one handler, one life of the backend and one run in which no call fails meet edits in any
order, and no theorem is stated for so narrow a case. The other invariants, action
properties and refinements of the passing runs are proved.

## 5. Where code and documents disagree

1. `claim_in_step`. `handleDelete` does not wait for a `reindexOne` of the same
   note. The `/remember` may be applied after the `/forget`, and a deleted note
   stays searchable (`README.md:15` says deletes and renames are handled).
2. `claim_resumed`. A crashed dream run is resumed with a plan made anew, from which
   its committed operations are gone, and skips as many entries of the new plan as
   the old one had committed. The rest of the first plan is passed over
   (`khora/docs/dream-phase.md` says that a resumed run goes on after the last
   committed operation).

A property that holds of the code sometimes needs an exception that the repository's own
words do not make. Taken without it TLC refutes each of these:

* `MentionedIsThere` without `PushedOut`: an entity keeps 100 sources (`pgvector.py:83`,
  `neo4j.py:1740`). The forget of the last document on a full list finds an orphan and
  deletes the entity, which the documents that were pushed out still mention
  (`_forget_cascade.py:17`: shared entities survive).
* `MentionedIsThere` without `scarred`: a forget decides what is an orphan from a list,
  and deletes by id without another look. A document remembered in between has become a
  source of the entity and loses it (`_forget_cascade.py:18`: a referenced entity is
  never deleted).
* `WaitReturns` without `lost`: `stop_pending_processor` takes items from the workers and
  puts them nowhere. After the restart that its docstring offers, their `wait()` never
  returns (`khora/docs/api-reference.md:327`).
* `CompletedIsIndexed` without `tainted`: the batch path never sets PROCESSING, so that
  the guard against a second submission (`khora.py:1907`, `1975`) does not see the first;
  the document is processed twice and a stale whole-row update overwrites the newer
  content.
* `CleanupSparesOthers` without `Orderly`: two windows that start together both read
  `vaults.json` and both write it. One entry is lost, and an uninstall in the other vault
  prunes the first one's database (`README.md:55` says that cleanup never does).
* `FileIsWhole` without `short`: `save` does not look at what `writeSync` returns. On a
  full disk a short write is followed by the rename, and the next start finds a torn file
  (`hashStore.ts:87`: never a torn one).
* `StoppedIsGone` without `crossed`: a `stop()` during the take-over of a start is undone
  by the assignment that follows it. `OneSidecar` without `unseen`: of two starts that
  overlap the second cannot see the sidecar of the first, and two run.

Also met, and reachable in the models, but without a run of their own: a failing
`/forget` in `handleDelete` drops the entry, so no later run can find the
document; a rename during `/remember` files the entry under the new path; a
coroutine of a retired Indexer saves its old store over the current file, and a kill
then costs all that the current one had saved, until its next save (`LossIsBounded`
leaves this case out through `saver`); a note that becomes ignored within the debounce time is sent; a note that was emptied
keeps its old text in Khora; `deleteData` removes the runtime when its second
look at the registry is "unknown"; a `vaults.json` that was cut short is never
repaired; and `load` unlinks the temporary file it has just recovered a first
save from, so that a crash before the next save starts from nothing.

Of runs: a resumed run that is stopped before its first note clears the flag of
the earlier, unfinished run (`settings.ts:36`: cleared only on clean
completion); `fullIndex` keeps the client it began with, so that after a
crash-restart every retry goes to the old port (`indexer.ts:241` says that
retries ride that out). A forced run
forgets an unchanged note before it sends it again; killed in between, the entry in
the store makes the resumed run skip the note (`CHANGELOG.md:113`: indexing resumes
where it left off).

Of the manager: a boot whose sidecar never became ready ends it with SIGTERM. Node
leaves `exitCode` null then, so the `stop()` of "Repair Uru", of the restart command or
of the uninstall waits for an `exit` event that has already come and never returns
(`README.md:111`: Repair is for a backend that misbehaves). A restart whose `start` throws
while its child is alive leaves `stoppedByUs` set, and the restart that the child's death
should bring is dropped when it wakes (`NeverSilentlyDown` does not speak of managers that
count as stopped); a
restart whose sidecar ends early is scheduled twice, by the exit handler and by
the `catch`, and the second chain kills the healthy sidecar of the first; the set-up
dialog's Retry replaces a manager without stopping it, and the two may go on
killing each other's sidecar; a boot that failed by an early exit whose
background restart succeeds shows "ok" without an Indexer.

Of the runtime: the plugin's heartbeat resets the activity clock, so that an idle
shutdown never comes while the plugin is loaded (`README.md:104` says that closing
the panels is enough); a request that arrives after the
idle watchdog began to stop is cut off; a boot that ends during a `stop()`
overwrites "stopping"; and the lifespan cancels a `stop()` that a watchdog began,
or a worker thread starts a server after it, and then a `llama-server` is left to
PDEATHSIG or the Windows job, which macOS does not have.

Of the embedded store: a replace whose document is forgotten meanwhile has its
INSERT refused by the foreign key of `chunks`, and nobody rolls back. The connection
keeps its transaction and the write lock, and every write of the documents table
(each new note) fails after five seconds, until a known note is replaced or
forgotten and its commit frees the lock. A failing statement that rolls the
transaction back undoes another call's executed statement, whose own commit then
succeeds on nothing. A wipe whose LanceDB delete fails, or that is cut before it,
leaves vectors that no later wipe removes, because it asks LanceDB only when it
deleted rows (`sqlite_lance/vector.py:417` expects the next compaction to do it); they
take places of a search's over-fetch. A batch of rows that fails half way
(`sqlite_lance.py:310`) leaves its first rows executed with the lock held, and the next
commit of any call makes them permanent, under a document that is marked failed, until
that document is remembered or forgotten again.

Of remember and forget on the other stack: an entity that was retired and is
mentioned again stays retired in the graph; a forget that was cut between pgvector and
Neo4j and is followed by another deletes an entity that is still mentioned; a transaction that fails in a replace leaves the
old row COMPLETED over new chunks; a remember that is a duplicate returns while the
first is still being processed.

Of deferred ingestion: orphans are looked for once per start, run without
the chunk semaphore and on top of what their first attempt wrote. A document forgotten
while it is processed leaves chunks. With three batches, a document that another batch
completes between a batch's staging and its queueing is queued all the same: its row
says COMPLETED while the worker clears it, and stays so if the worker is cut there.

Of dream runs: an operation skipped for its budget is lost once a later one advances
the checkpoint; a resumed attempt overwrites the undo file with its own records only;
an undo of an operation that is still queued is mirrored again by a later drain; a
second undo of a merge with edges returns True; a cancelled run is finalised
"completed" (`khora/docs/dream-phase.md:436` says "cancelled"). On PostgreSQL and Neo4j
`get_entities_batch` reads the graph as well, whose entities carry no embedding, so that
the dedupe planner's second look at its candidates (`dedupe_entities.py:305`) finds
nothing to compare and proposes no merge; the model says what becomes of merges that
are planned.

## 6. Not modelled, and the plan

Of Uru, next in this order:

1. `Views` (`chatView.ts`, `recallView.ts`): results that arrive out of order,
   a second send while one is under way, a view closed under an answer.
2. `Bootstrap` (`uv.ts`, `gpu.ts`): stamped installs cut short, two windows
   installing at once; it refines the one step `VaultRegistry` has for it.
3. The proxy (`proxy.py`) in `SidecarRuntime`: a completion under way while its
   server is restarted on another port.
4. `Indexer`'s `SidecarCrash`, `SidecarRespawn`, `SidecarReady` and `ManagerStop`
   are what the manager promises: an abstract `Backend` that both
   `SidecarManager` and `Indexer` are shown to implement. Its one text per path is
   what `Memory` promises for calls that nothing disturbs.
5. Proofs: the refinements of 2 and 4.

Most of the repository's lines are Khora, and most of Khora is out of reach of a
model of states and steps:

* retrieval (`retriever.py`, `query/engine.py`): ranking and fusion of floating-point
  scores, without state; nothing that can be enumerated tells a right ranking from a
  wrong one;
* extraction and chunking: prompts, the parsing of LLM answers, text splitting;
* other engines (`chronicle`) and backends (SurrealDB, Memgraph, Neptune, AGE): the
  interface that `Documents` and `EmbeddedStore` model, written again; the sidecar
  opens none of them;
* filters, hooks, telemetry, configuration, CLI: predicate compilation, dispatch,
  metrics, options.

Left out as well: `remember_batch` and sessions; in `Dream` the dry runs and the
paths for other backends; the matching of globs and the ETA (no state); argument
parsing, models and serialisation of the sidecar; layout of views and settings.
