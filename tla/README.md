# The Harness: a TLA+ verification project

The Harness keeps the work of a research agent in an event log. A policy
proposes actions, a runtime validates them and commits events to a SQLite event
store, a pure reducer folds the events into snapshots, a worker executes tools
and commits their results, and a context compiler turns a snapshot into a
prompt. Beside it, `rfsn_kv` keeps pages of a model's key-value cache. This
directory holds TLA+ models of that code, TLC configurations that check them on
small instances, and proofs that TLAPS checks.

Paths and line numbers below are those of the repository (`rfsn_agent/...`,
`rfsn_kv/...`). `PROJECT.json` maps every definition to its lines.

## 1. Inventory

| Component | State it keeps | Operations | Module | Status |
|---|---|---|---|---|
| Event store (`store.py`, `events.py`) | tables of events, idempotency keys, snapshots; one snapshot cache per store object; one connection per thread | `init_trajectory`, `get_latest_snapshot`, the unvalidated thread-safe read, `commit_events`, `save_snapshot`, `replay`, `close` | `EventStore`, `TrajectoryLog` | modelled |
| Reducer and domain (`reducer.py`, `domain.py`) | none: snapshot x event -> snapshot or `InvariantError` | fourteen handlers | `Reducer`, `Replay` | modelled |
| Runtime and actions (`runtime.py`, `actions.py`, `security.py`) | the locals of a run | `execute`, `step`, `run`, validation and planning of actions | `Runtime` | modelled |
| Result normalizer (`normalizer.py`) | locals of a call | `normalize` | `Runtime` | modelled |
| Tool worker (`tool_worker.py`) | leases in memory, asyncio tasks | `start`, `stop`, `process_pending` and all it awaits | `ToolWorker` | modelled |
| Page residency (`residency.py`) | an immutable list of resident pages | `load`, `unload`, `pin`, `touch`, `evict`, `evict_all` | `Residency` | modelled |
| Page table (`page_table.py`) | an immutable sorted list of ranges | `with_entry`, `without_entries`, `lookup`, `range_query` | `PageTable` | modelled |
| Prefix index (`prefix_index.py`) | immutable lists of branches and nodes | `register_branch`, `fork_branch`, `gc`, `get_common_prefix` | `PrefixIndex` | modelled |
| Page store (`persistence.py`, `pages.py`, `integrity.py`) | table `kv_pages`, pages clients hold | `put_page`, `get_page`, `delete_page`, creation, verification, repair | `PageStore` | modelled |
| Schema migrations (in `store.py`) | the version, rows of every table | `_ensure_schema`, v1 to v4 | `Migration` | modelled |
| Content-addressed store (`cas.py`), offload of large strings (`store.py`) | object files, their directories, temporary files | `put`, `delete`, `get`, `exists`, `put_blob` | `ContentStore` | modelled |
| Context compiler (`context.py`) | none: a function of a snapshot | sections, budgets, eviction, handles, common prefix | `Context`, `Prompt` | partly |
| Codecs (`codecs/`, `kernels/`) | none | grouping, quantization, packing | `Codec` | partly |
| Model adapter, evaluation, common helpers | none | HTTP, metrics, hashing, ids, clocks | | not modelled |

**How they interact.** All agent components meet in the event store. Each reads
a snapshot, decides from it, and calls `commit_events` with the snapshot as its
optimistic lock and an idempotency key per event. `EventStore` models that call
in steps. `Runtime`, the normalizer in it, and `ToolWorker` use it as their
contract: the first two see a commit as one atomic step against the head of the
log; `ToolWorker` keeps the parts of the store it is sensitive to (the
unvalidated cache, the order COMMIT then invalidation, the connection left
inside a transaction). `Runtime` and `Replay` extend `Reducer` and use its
handlers; `Prompt` applies the compiler to the snapshots of `Replay`, as
`Runtime.step` compiles the snapshot it has read. `ContentStore` is what
`commit_events` and `put_blob` do with large strings, and `Migration` what the
constructor of a store does first. The structures of `rfsn_kv` never call each
other and share nothing with the agent.

**What is hard.** Threads of one store object share its cache, processes share
only the database. A reader can put an old snapshot back in the cache after a
commit has dropped it. A caller may lose the answer and retry. A process may die
anywhere. Decisions are made on snapshots that are stale at commit time. The
worker decides per task, after its own read, and is cancelled while threads go
on. The reducer indexes claims and links both ways through several handlers. The
KV structures depend on long sequences of legal calls. Power may fail between the
steps of a put, and a process in the middle of an upgrade. `PROJECT.json` lists
40 such hazards at their lines.

**What makes each part correct.**

- Store: every key commits once; batches are whole; only a client that has seen
  the head extends it; what was acknowledged is durable; no snapshot shows
  uncommitted state; a checkpoint never makes a trajectory unreadable; one
  signer per trajectory; clients that retry get through.
- Reducer: claims and links index each other; the last verdict shows; nothing
  semantic is forgotten; a replay gives the committed snapshot.
- Content store: no object is seen half written; a committed event finds its
  objects.
- Migrations: the history, the checkpoints and the answers to known keys survive;
  it is known which databases are refused.
- Compiler: a prompt fits its budget and evicts from the bottom, no more than
  needed; what it leaves out has a handle if there is room; its head is stable.
- Worker: no result before the dependencies succeeded; no double execution;
  what can be executed eventually is.
- Runtime, normalizer: the tool budget holds across runs; validation refuses
  what the reducer would refuse; a submission ends the run; a committed
  normalization is complete.
- KV: pinned pages stay and the coldest one leaves; searches are exact;
  reference counts are exact; contents are not lost; a codec displaces nothing and
  its error is bounded.

## 2. Modules and their correspondence to the code

### TrajectoryLog, EventStore

`TrajectoryLog` is what the store promises: one history per trajectory, extended
by a whole batch of new keys, one of those a client may submit, by a client that
has observed all of it. It has no transactions, caches, checkpoints or
signatures.

`EventStore` is `SQLiteEventStore`. The variables `log`, `idem` and
`checkpoints` are the three tables, `writer`, `txEvents` and `txRows` the open
transaction, `cache` the `_snapshot_cache` of each store object. `pc`, `target`,
`found`, `view`, `todo`, `answer` and `receipts` are the locals of a thread.
What happens between two reads of the database, or under the cache's lock, is
one action.

| Actions | Code |
|---|---|
| `InitTrajectory` | `init_trajectory` with its genesis checkpoint |
| `ReadCache`, `CacheHit`, `CacheMiss`, `Replay`, `FillCache` | `get_latest_snapshot`: look in the cache, validate it against the head, load and replay, fill the cache |
| `PeekCache`, `PeekMiss`, `PeekLoad`, `OfferCache` | `_get_latest_snapshot_thread_safe`, which does not validate |
| `SubmitBusy`, `SubmitUnloadable`, `SubmitReplay`, `SubmitMixed`, `SubmitStale`, `SubmitBegin` | the ways `commit_events` ends before its loop, and its entry |
| `StageEvent`, `StageRepeat`, `StageConflict`, `StageRejected` | one iteration of the loop |
| `CommitTx`, `InvalidateCache` | COMMIT with the automatic checkpoint, then the cache |
| `SaveSnapshot`, `Close`, `Crash` | `save_snapshot`, `close`, the death of a process |

Abstractions: a snapshot is the trajectory, the hashes folded into it and the
last signer; a hash is a fresh number; a signature is the key that made it. What
a hash covers is kept where it matters: `Material` is what `checkpoint_hash` is
computed over and `CheckpointOK` recomputes it from the row.

### Migration

Opening a database of any version: `Begin` is BEGIN IMMEDIATE with the look at
the version, `Migrate` one migration, `Fail` its `SchemaMigrationError` with
ROLLBACK, `Finish` COMMIT, `RefuseNewer` the refusal of a newer version, `Exit`
the end of the process at any point. A row has its envelope twice, in columns
and in JSON, because the migrations write them differently: `V2Event` chains the
columns only. A hash is the tuple of what it covers, so that a hash that was not
recomputed differs from one that was. `Replays` is the validation of the v2 and
v3 migrations: all events are reduced onto the latest checkpoint.

### ContentStore

A put in its steps: `FindExisting` (the early return), `WriteTemp` (mkdir of the
object's directory, mkstemp, write, fsync), `Rename`, `Flush` (fsync of that
directory, with every object in it), with `PutFails` and `Leave` for exceptions
and dying processes. `Begin` and `Commit` are the transaction of `commit_events`
around the puts of a batch. `file` is what processes see, `disk` the names the
directories on the disk have, and `dirs` says which directories the base
directory on the disk is sure to know: those that outlived a power loss, as no
code fsyncs the base directory. `PowerLoss` lets any difference between what
processes and disk see go either way, tears files whose data was not synced, and
takes any new directories with all that is in them. `borrowed` and `swept` are
history: the objects that lack a durable name, or their place, because of one of
the two gaps in `put`. Some strings are `Disposable`: no event has them, and
clients may delete them.

### Reducer, Replay

A handler of `Reducer` is a set-valued operator of a snapshot, an event and the
clock: the snapshots it may return, none when it raises. A claim
has a text, which a revision may change with or without the status. Collections
whose order nobody reads are sets; verification records and submissions, whose last element
counts, are sequences. The timestamps that two handlers take from the wall clock
are kept, as the state hash covers them. `Replay` commits events to a log and
lets a second store (or the same one after a restart) rebuild the snapshot event
by event, at other times.

### Context, Prompt

`Context` translates the compiler as operators on a snapshot: `CollectSegments`
with one operator per section, `WithinSections` and `Evicted` for
`_allocate_tokens`, `AddRetrievalHandles`, `CompileContext`, and
`CommonPrefixTokens` for `compute_epoch`. A segment is its kind, the records its
lines are made of (of a claim also its text), its tokens and its sources. The
cap on candidate previews is a field of the configuration, and
`PromptAssumption` asks that it is never reached: the order of candidates, which
decides which ones it cuts, is not kept. The task constraints are always there,
because `init_trajectory` gives every trajectory a budget. The loops are recursive functions
over positions, and what survives them is taken out of the list by `At` of
`Subsequences`; the properties in `Prompt` state what they compute without loops. `Prompt` has no
actions of its own: it looks at the prompts of every snapshot of a `Replay`.

### Runtime

One record per `Runtime.run`: phase, the snapshot it read, the action, tries and
step. `Decide` is read, compile, policy and `validate_action`; `CommitAction`,
`CommitRefused` and `CommitStale` are the outcomes of the commit; `NextStep` the
end of the iteration, with the snapshot re-read. `NormalizeRead`,
`NormalizeScan`, `NormalizeCommit` and `NormalizeRefused` are `normalize`, whose
snapshot and events are two reads. Whether a path or query is safe, a text is
filled or a link well formed is an attribute of the action. `Sessions` says who
is at work together.

### ToolWorker

What runs between two awaits is one action. `Start`, `FirstRead`, `Claim`,
`Reread`, `RunTool`, `SecondRead`, then `Commit`, `CommitStale`,
`CommitReplayed` or `CommitRaises`, and `Invalidate` are one pass of
`_process_trajectory` with a child per invocation. `Load` and `LateOffer` are
the thread behind a read, which fills the cache even if its task was cancelled.
`Stop` cancels a pass; `DetachedCommit` and `DetachedInvalidate` are the commit
thread that goes on. `InvokeTool`, `InvalidatePolicy` and `Expire` are the
policy and the deadlines. The model has one trajectory: passes of different
trajectories share no lease.

### Residency, PageTable, PrefixIndex, PageStore

Managers are immutable in the code; the value the client holds is the state.
`Kept` of `Subsequences` is the list comprehension with a condition, as a
recursive function (`At`): the library's `SelectSeq` hides its recursion in an
operator that no prover can unfold.
`Lookup` is the binary search itself, as a recursive function. `RangeQuery`
keeps its early exit. `PrefixIndex` lets clients bring fresh nodes, with any
count (`Given`, as the code keeps the count of the nodes it is handed) or, as the
tests do, nodes of another branch; the index may start with nodes of no branch,
which the constructor takes and `GC` removes if they count nothing. `GetBranch` finds the first branch of an id,
which may come back. In `PageStore` a hash is the data it is the hash of, so
that a page whose data was offloaded, and whose reference has no column, is a
row whose hash does not fit.

### Codec

`QuantizeCodec`, byte by byte: groups, indices between the least and the greatest
byte of a group, packing of two indices in a byte, the stream without lengths,
and the decoder that cuts it. Pages of every length up to a bound are enumerated
by appending bytes.

### MC modules

`MCEventStore`, `MCToolWorker`, `MCReplay`, `MCRuntime` give the constants that
are functions or sets of records. `MCEventStore` lets a cast of threads be at
work in a behaviour, so that one run holds the races within one store object and
those between processes. `MCStorage` holds the four KV structures, the codec, the
content store and the migrations; because they share nothing, a behaviour
exercises one of them, and the state space is the sum, not the product. It also
says which databases old versions of the code left (`Databases`), for any set of
histories (`Logs`).

## 3. Runs

| Run | Instance | What it shows |
|---|---|---|
| `store` | 1 trajectory, log of 3, checkpoint every 2; the cast is 2 threads of 1 store object, one of them peeking, with overlapping, repeated and refused batches, saves and crashes; or 3 processes, one of them signing, that have requests in common | types; `UniqueKeys`, `IndexMatchesLog`, `AcknowledgedIsDurable`, `SnapshotsAreCommitted`, `UnsignedHeadLoadable`, `OneSignerPerTrajectory`, `CommitsOnlyOnHead`, `ReadYourWrites`; refinement `ImplementsLog` |
| `store_progress` | 2 trajectories, 2 threads, `MCFairSpec` | `EveryJobSucceeds` |
| `tool_results` | a chain of two invocations, the second with a deadline; two passes that race, or one that is cancelled and restarted | types, `DependenciesFirst` |
| `tool_progress` | three invocations, the third needs the others, `FairSpec` | `EveryExecutableCompletes` |
| `replay` | work (log of 5, replayed), evidence (log of 8), or prompts (log of 10, 4 configurations) | types, `ClaimIndexConsistent`, `VerdictsCurrent`, `ReplayReproducesHead`, `HistoryIsKept`; `EvictsFromTheBottom`, `NothingSilentlyLost`, `StablePrefixKept` |
| `runtime` | a run of 6 steps alone; two runs that race for 2 tool calls; a run with two normalizers | types, `ToolBudgetKept`, `RaisesOnlyForReusedIds`, `SubmissionEndsRun`, `NormalizationIsComplete` |
| `storage` | 3 pages and a budget of 2; 6 positions, 4 entries; 3 branches, 4 nodes, one of which is handed over with a count of 0; 2 page ids; pages of 5 bytes, groups of 2 and 3, both widths; 2 writers, 3 strings in 2 directories, batches of none and of two; 2 openers with different keys, databases of versions 0 to 3 and 5 with up to 3 events and every set of checkpoints | types; `PinnedStay`, `ColdestLeaves`, `LookupIsExact`, `RangeQueryIsExact`, `RefCountsExact`, `SharedIsCommonPrefix`, `UnreadableIsOffloaded`, `RoundTrip`, `ObjectsAreWhole`, `ReferencesResolve`, `UpgradeKeepsHistory`, `RefusalsExplained` |
| `store_replay_lock` | violation | see 4 |
| `store_signed_checkpoint` | violation | see 4 |
| `tool_lease` | violation | see 4 |
| `replay_clock` | violation | see 4 |
| `old_database` | violation | see 4 |

**Bounds and why they are enough.** Two threads are the least that race; a third
process adds a second signer while two unsigned ones still compete for the lock.
With a checkpoint every 2 events a log of 3 has heads at, before and after a
checkpoint (the code's 50 only makes the log longer). The evidence log of 8
holds candidate, item, claim, two links and two verifications of one of them,
and a pruning. The log of 10 has two items, of which one supports and one
contradicts the claim, two results and a task; the configurations are exceeded
by almost everything, by little, in single sections, and never. Six steps take a
run from a candidate to a verified link. In `tool_results` one commit at a time
outlives its pass (`MaxDetached`). The bounds of `storage` give gaps, ties of
timestamps, pages pinned twice, all pages pinned, nodes that are collected, odd
and even table sizes, forks of forks, full,
short, odd and even last groups, a put that finds what another has renamed and
not flushed, a directory with two objects beside one with a single object, either
of which a power loss may take, and upgrades from every version that die half way. `store` uses one
trajectory; trajectories meet only in the write lock, which `store_progress`
covers, and the theorems hold for any number. In `store` a thread outside the
cast does nothing: the casts share nothing but the database, and what a third
party could commit between two steps of a race is committed by one of the cast.
Every property has a mutant of the code under which its run fails.

**Deadlock.** It is checked in every run except `replay` and `replay_clock`,
whose logs simply fill up.

**Fairness.** `EventStore!Fairness`: a thread in a call goes on (threads are
scheduled, SQLite answers), and a client is in the loop of `Runtime.step`
(`runtime.py` 103-141), which re-reads and resubmits after `StaleContextError`;
reading and submitting are strongly fair because another thread's transaction
disables them now and then, and `busy_timeout` waits for it. The code bounds
the retries; the property says that nothing but the bound stops a client.
`ToolWorker!Fairness`: the event loop runs every runnable task, threads end, and
each tool returns or raises. Neither the policy nor a deadline is forced.
`tool_progress` starts with every invocation in the log: with a policy that goes
on committing, the liveness fails, see the first observation below.

## 4. Where the code disagrees with what it says

Shown by a run (quotes are in `PROJECT.json`):

1. `store_replay_lock`: when all keys of a batch are known, `commit_events`
   returns its receipts from inside `BEGIN IMMEDIATE` (`store.py` 370). The
   connection keeps the write lock.
2. `store_signed_checkpoint`: `_insert_snapshot` hashes `last_signature` and
   does not store it (`store.py` 1485). After the first automatic checkpoint of
   a signed trajectory no store can load its head.
3. `tool_lease`: a pass releases the leases of every pending invocation, also of
   those it did not obtain (`tool_worker.py` 147), so a tool can run twice.
4. `replay_clock`: revised claims and new links get the time of the reduction
   (`reducer.py` 310), so replays differ and so do their state hashes.
5. `old_database`: the v2 migration chains the columns and not the JSON of the
   events, so that its validation refuses a version 1 database with two events
   (`store.py` 1704, 1227); and as v2 and v3 reduce all events onto the latest
   checkpoint, a database with a checkpoint after an event cannot be upgraded.
   `RefusalsExplained` says that these and newer versions are the only refusals
   among databases whose strings are in their rows; a version 2 database with
   offloaded strings is refused too, as v3 reads its events without a content
   store (`store.py` 1275, 1413).

Met while modelling and present in the models, without a run of their own:

- `_get_latest_snapshot_thread_safe` never validates the cache (`store.py` 162);
  a slow reader that puts an old snapshot back, or a commit by another process,
  hides new invocations from every later poll.
- A batch of known and new keys fails the assertion in `store.py` 359 and is
  reported as `StoreError`; the `IdempotencyConflictError` of 366-369 cannot be
  reached.
- `process_pending` counts results whose commit was refused as stale
  (`tool_worker.py` 152; its docstring says "number of results committed").
- A run whose submission is followed by another run's goes on
  (`runtime.py` 174); hence the "unless" in `SubmissionEndsRun`.
- After the v2 migration `idempotency_keys` is empty (`store.py` 980): a client
  that retries across the upgrade is not recognized, and gets
  `StaleContextError` or the reducer's refusal instead of its receipt.
- `put` returns early for an object it finds, before anybody has flushed its name
  (`cas.py` 87): an event that refers to it may lose it in a power failure; hence
  `borrowed` in `ReferencesResolve`.
- `put` makes the directory of an object (`cas.py` 79) and the constructor the
  base directory (60); only the former is fsynced (89), after the rename, and its
  own name in the base directory never is. `_fsync_dir` says "Flush the directory
  entry so the rename is durable" (`cas.py` 136), which the first object of a new
  directory does not get: a power loss after COMMIT may take it. Hence `swept` in
  `ReferencesResolve`; without that exception TLC finds the loss in a few steps.
- Rollbacks leave objects, and crashes temporary files, that nothing collects.
- The invalidation of the cache lists the keys and then deletes them one by one
  (`store.py` 132-136). The model has it as one step. If another thread drops the
  same key in between, `commit_events` gets a `KeyError` after its COMMIT, its
  ROLLBACK fails, and a batch that is committed is reported as failed; a retry is
  answered from the idempotency table.
- `save_snapshot` does not check the `event_count` it is given (`store.py` 765).
  Nothing in `src` calls it but a test, with the right count, which is what
  `SaveSnapshot` passes; with a wrong one the checkpoint would make heads
  unloadable.
- `NormalizeRefused` after a batch that was committed before leaves its connection
  inside a transaction (`store.py` 370): see 1 above; `Runtime` does not follow
  what later commits of that connection do.
- Retrieval handles have priority 60 and are added or dropped after the eviction,
  before any candidate preview (40) would go (`context.py` 735): the order of
  priorities does not hold for them, and a larger budget may lose them. Hence
  `EvictsFromTheBottom` is about the other sections.
- The task constraints, which a comment calls "reserved, never pruned"
  (`context.py` 498), are evicted like any other section, last of all: when the
  prompt's budget is smaller than they are. The configurations of `replay` all
  have room for them; `EvictsFromTheBottom`, which is proved for every
  configuration, says that they go exactly if they do not fit.
- Every tool call changes the line of the budget in the first segment, which ends
  the reuse of the whole prompt; hence the premise of `StablePrefixKept`.
- `max_tool_results = 0` keeps every result: `[-0:]` is the whole list.
- The last group of a 4-bit page comes back one byte longer if it is short and
  odd (`quantize.py` 190): `RoundTrip` says exactly when.
- `load` grows past `max_resident_pages` when all pages are pinned
  (`residency.py` 127); `ColdestLeaves` says that it does so only then.
- `with_entry` accepts overlapping entries (`page_table.py` 80); hence the
  premise of `LookupIsExact`.
- `register_branch` adds known nodes a second time, with the count it is given
  (`prefix_index.py` 255); hence the premise of `RefCountsExact`. The counts start
  at what the client says, not at the number of branches: a node handed over with
  1 counts its branches, one with 0 one less. `fork_branch`
  makes the first new node the root also after a shared prefix (341).
- `put_page` accepts an offloaded page that `get_page` can never return
  (`persistence.py` 163): `UnreadableIsOffloaded` says what still holds.

## 5. Proofs

All theorems hold for every value of the constants that satisfies the named
assumption of the module (`StoreAssumption`, `WorkerAssumption`,
`ReplayAssumption`, `RuntimeAssumption`, `StorageAssumption`). These fix the
kinds of the constants and little else: no batch has a string that may be
deleted; the ids the normalizer makes are candidate ids; a key that a database
was signed with is the key of some opener (`KeysKnown`: one whose key nobody has
cannot be opened by anybody). TLC evaluates them in every run. Two theorems have
a hypothesis of their own, which the run that checks their property meets:

- `ReplayIsExact` assumes `ClockFree`: no replayed log has a `claim_revised` or
  an `evidence_linked`. `replay_clock` is the counterexample without it.
- `NormalizationComplete` assumes `OwnCandidates`: no policy proposes a candidate
  under an id of the normalizer. Otherwise a candidate of the policy's counts as
  the normalizer's.

### The event store

| Theorem | Module | Argument |
|---|---|---|
| `TypesInvariant`, `TypeCorrect` | `EventStoreProofs` | `TypeInv` = `TypeOK`, every trajectory with a checkpoint has a latest one (the `CHOOSE` in `LatestRow` needs it), and staged events exist only while a thread in the loop owns the transaction |
| `ExactlyOnce`: `Spec => []UniqueKeys` | `EventStoreProofs` | `KeyInv` = `UniqueKeys`, every key of the log has its row, and the staged keys are different from each other and from the log's. `UniqueKeys` alone is not inductive: COMMIT appends the staged events unseen. The second look-up in the loop gives the third part, the write lock keeps it until COMMIT |
| `TablesAgree`: `Spec => []IndexMatchesLog`; `Durable`: `Spec => []AcknowledgedIsDurable` | `EventStoreProofs` | `IndexInv`: every event has its row, every row its event, the staged rows are those of the staged events numbered from the end of the log on, and receipts are copies of committed rows. The third part is needed at COMMIT, which publishes both tables unseen; durability follows because the log and the table only grow |
| `OnlyCommittedSnapshots`: `Spec => []SnapshotsAreCommitted`; `NoLostUpdate`: `Spec => CommitsOnlyOnHead` | `EventStoreProofs` | `SnapInv`: snapshots in caches, reads and hands are prefixes of the log, and so are checkpoints (a load starts from one); a read holds a snapshot of the trajectory it will cache it under; a thread in the loop has seen the whole log. A load rebuilds the whole log (`LoadedHeadWhole`), so that a prefix as long as the head is the head |
| `OneSigner`: `Spec => []OneSignerPerTrajectory`; `UnsignedHeadsLoad`: `Spec => []UnsignedHeadLoadable` | `EventStoreChainProofs` | The hashes of log and staged events form a chain, and every event has the signer of the one before it. A checkpoint's material is that of its snapshot if no signer had to be stored, so an unsigned one passes its validation |
| `ReadsYourWrites`: `Spec => ReadYourWrites` | `EventStoreChainProofs` | Whatever a read ends with (`ReadReturns`), the very snapshot the thread had before its commit included, is as long as the thread's receipts ask: a hit has been compared with the head, a miss replays it, and both the log and the receipts of a thread in a read stay as long |
| `StoreImplementsLog`: `Spec => ImplementsLog` | `EventStoreChainProofs` | The refinement mapping shows the committed log. Initial states map to initial ones; COMMIT maps to the abstract commit of a whole batch (what is staged is the batch up to where the loop is, with new keys, on the head the thread has seen); every other step stutters |

### The reducer, replay and the runtime

| Theorem | Module | Argument |
|---|---|---|
| `ReduceFits` | `ReducerProofs` | `Fits`, handler by handler: ids of candidates, items, claims, links are unique; claims list exactly their links; a link shows the last record on it, and records name links. Each part needs the others: a verification rewrites one link, and leaves the claims' lists right only because ids are unique |
| `ReplayTypes`, `ClaimsAndLinksAgree`, `LastVerdictShown` | `ReplayProofs` | The head, and the snapshot that the replay has rebuilt so far, fit |
| `NothingForgotten`: `Spec => HistoryIsKept` | `ReplayProofs` | From `ReduceChanges`: the only causes of a smaller collection |
| `ReplayIsExact` | `ReplayProofs` | The rebuilt snapshot is what the reductions so far gave when they were committed; without the clock a handler is a function |
| `NothingLost`: `Spec => []NothingSilentlyLost` | `ReplayProofs` | `PromptInv`: the head fits and all that a prompt counts of it is finite, so that the tokens of the handles are a number. Handles that are added are the sources of all that was omitted |
| `EvictionByPriority`: `Spec => []EvictsFromTheBottom` | `ReplayProofs` | The loop's invariant (`Bottom`): what has left is a bottom part by priority, and nothing left while all fitted. In each round exactly one segment goes first (`OneGoesFirst`), and the tokens of what is left strictly decrease with it, or stop. A segment then survives exactly if it fits with all before it |
| `PrefixIsStable`: `Spec => StablePrefixKept` | `ReplayProofs` | The leading kinds come first in the list (`CollectedLead`) and are the last to be evicted, so that what the sections and the prompt afford of them depends on these segments alone (`WithinAgree`, `FitAgree`). Two prompts therefore begin alike, and hold no leading segment behind that beginning (`Begins`) |
| `RuntimeTypes` | `RuntimeProofs` | `WorkInv`: the head fits, what runs and normalizers have seen is an earlier version of it, what a run is about to commit was validated against what it has seen, and what a normalizer is about to commit is what it missed |
| `ToolBudget`: `Spec => []ToolBudgetKept` | `RuntimeProofs` | Validation compared the calls with the budget, and a commit succeeds only if the head has not moved since |
| `RaisesForReuse`: `Spec => []RaisesOnlyForReusedIds` | `RuntimeProofs` | For every action that validation accepts, the reducer accepts the event planned for it, unless it reuses an id; a run invokes under the id of a step only once (`Invoked`) |
| `SubmissionEnds`: `Spec => []SubmissionEndsRun` | `RuntimeProofs` | `Hidden`: while a run works, every submission of its own is followed by one of another run. The list of authors grows with the log, and the log has a last submission |
| `NormalizationComplete` | `RuntimeProofs` | The list of what is missing was made for the snapshot's sequence or for a later one, and then the commit is refused |

### The worker

| Theorem | Module | Argument |
|---|---|---|
| `DependenciesRespected`: `Spec => []DependenciesFirst` | `ToolWorkerProofs` | `DependencyInv`: besides the log, every success or timeout held by a child task, a batch or a detached commit has dependencies that succeeded in the present log. It is preserved because success is monotone in the log: a stale snapshot shows less, never more |
| `WorkerTypes` | `ToolWorkerProofs` | The shapes of `DependencyInv`, with the leases, caches and reader threads |

### Contents, pages and old databases (`StorageProofs`)

| Theorem | Argument |
|---|---|
| `NeverHalfWritten`: `Spec => []ObjectsAreWhole` | `WholeInv`: a writer that renames has synced its file |
| `CommittedReferencesResolve`: `Spec => []ReferencesResolve` | `ReferenceInv`: what an open transaction refers to is flushed and in place, or borrowed, or swept, or disposable; an object whose directory is about to be flushed is in place, and a flush mends the borrowed and swept objects it finds; COMMIT publishes the references of its transaction |
| `NoContentLost`: `Spec => []UnreadableIsOffloaded` | `HeldInv`: rows and pages that clients hold verify, or are offloaded and their content is in the content store; one row for an id |
| `PinsHold`: `Spec => PinnedStay`; `ColdestFirst`: `Spec => ColdestLeaves` | `ResidentInv`: a page is resident once, so that the entry that is removed or rewritten is the page's only one; a victim exists as soon as one entry is not pinned |
| `LookupFinds`: `Spec => []LookupIsExact` | `TableInv`: sorted by position. By induction on the width of the range, the search finds the pages that cover the position among the entries of the range; without overlaps an entry that starts after the position, or ends before it, rules out all on its side |
| `RangeQueryFinds`: `Spec => []RangeQueryIsExact` | The entry that ends the loop starts at or after the end of the range, and so do all after it |
| `ReferenceCounts`: `Spec => []RefCountsExact` | `IndexCovers` (the nodes of all chains are in the index, where nodes of branches alone may be twice) and `CountsRight` (what the client gave and one per further branch): a new branch is one more user of exactly the nodes whose count grows, and a collection takes only nodes of no branch |
| `SharedPrefix`: `Spec => []SharedIsCommonPrefix` | `ChainsAgree`: if two chains have a node in common it is at the same place and everything before it is the same. A chain that continues an old beginning with new nodes keeps this |
| `RefusalsHaveReasons`, `HistorySurvivesUpgrades` | `UpgradeIsSound`: the database is `Sound` (events, checkpoints and keys have the hashes that its version calls for, and from version 3 on they are a chain signed by one key that some opener has), it has the history it had, and an open transaction is sound, with the same history, and further. For each migration one lemma: it fails if the database is `Doomed`, and otherwise gives a sound one with the same history. For histories of any length and any sets of checkpoints |
| `PagesReturn`: `Spec => []RoundTrip` | A rounded quotient is off by half at most (`RoundedIsNear`), on the way in and on the way out; with 8 bits less than one remains. Chunks that are all full but the last are put at multiples of their size and cut there again (`ChunksInPlace`, `ChunksAreCut`); this is used twice, for the stream and for the page. The padding is counted group by group (`BytesBack`) |
| `StorageTypes` | All of these together |

**What the provers cannot do, and how far that reaches.** Liveness needs ENABLED
and fairness. The library's induction theorems have an operator as a parameter;
`SubsequenceProofs` proves induction for a *set* of numbers (`Induction`, from the
well-foundedness of inclusion among finite sets) and recursion for a function of
steps (`Recursion`), which can be cited like any lemma. With them come the facts
about `At` and `Kept`, token sums, both loops of `_allocate_tokens`, the binary
search, the counts, the hash chains and the stream of the codec. Only what recurses through an operator
(`SelectSeq`) cannot be unfolded at all; the folds of the library unfold to a
recursive function for each operator they are given.

**Model-checked only:** the liveness properties `EveryJobSucceeds` and
`EveryExecutableCompletes`. Every invariant and every action property that a
passing run checks is a theorem.

## 6. What is not modelled, and why

The model adapter is a stateless HTTP client and evaluation a loop over scenarios.
Canonical JSON and hashing appear as injective. The tensor codec computes on
floating-point arrays of an optional library. Of the compiler, the rendering to
one string, roles, deduplication by content and the tokenizers are left out:
tokens are counted in lines. Listing trajectories and events only reads.
Migrations of databases whose events have offloaded strings, all of which v3
refuses, and page contents that `KVPage.resolve_content` asks a content store for
through a method it does not have, are left out. Wording of
errors, provenance and timestamps of headers are left out. In `PrefixIndex`,
`with_decremented_ref` has no caller.

## 7. Plan

Done, in this order: `EventStore` with `TrajectoryLog`; its types and
exactly-once proofs; `ToolWorker` and its proof; `Reducer` and `Replay`;
`Runtime`; the KV structures; `ContentStore`, `Migration`, `Codec`; `Context`
with `Prompt`; whole batches in `TrajectoryLog`; the proofs about the tables, the
snapshots and the content store; the refinement of `TrajectoryLog`, signers,
loadable heads and read-your-writes; the reducer, replay and the runtime; every
structure of `MCStorage`; the context compiler; the codec.

Next: `ToolWorker` over the detailed store instead of its contract.
