----------------------------- MODULE EventStore -----------------------------
(***************************************************************************)
(* SQLiteEventStore (src/rfsn_agent/store.py): an append-only event log    *)
(* per trajectory, kept in one SQLite database that several store objects  *)
(* (processes) open, each used by several threads.                         *)
(*                                                                         *)
(* A thread reads a snapshot, proposes a batch of events against it, and   *)
(* commits the batch in one BEGIN IMMEDIATE transaction: the idempotency   *)
(* table is consulted first, then the optimistic lock, then every event is *)
(* chained to the head, reduced and staged, then the batch is published    *)
(* and the snapshot cache of the store object is invalidated.              *)
(*                                                                         *)
(* Abstractions.  A snapshot is the trajectory it belongs to, the sequence *)
(* of event hashes folded into it and the signer of the last of them: the  *)
(* state_hash of the code is a function of these.  event_hash is a fresh   *)
(* number, because event_id is a fresh uuid and the hash covers it.  A     *)
(* signature is the key that made it.  SQLite is external: a write         *)
(* transaction is exclusive, its writes are published by COMMIT and lost   *)
(* by ROLLBACK, by closing the connection and by a crash.                  *)
(***************************************************************************)
EXTENDS Integers, Sequences, FiniteSets

CONSTANTS
    Trajectories,    \* trajectory ids
    Stores,          \* SQLiteEventStore objects, one per process
    Threads,         \* threads, each with a connection of its own
    StoreOf,         \* the store object a thread uses
    KeyOf,           \* signing_key of a store object, or NoKey
    NoKey,           \* signing_key = None, and the signature of an unsigned event
    Keys,            \* idempotency keys
    Requests,        \* request contents: request_hash tells them apart
    Rejected,        \* the requests whose event the reducer refuses
    Jobs,            \* the batches a thread may submit
    Peekers,         \* threads that read through _get_latest_snapshot_thread_safe
    Savers,          \* threads that call save_snapshot
    Crashing,        \* store objects whose process may crash
    Resubmitters,    \* threads that submit again after a success
    CheckpointEvery, \* 50 in the code
    MaxLen,          \* bound on the length of a log
    NoThread, NoSnapshot

ASSUME StoreAssumption ==
    /\ StoreOf \in [Threads -> Stores]
    /\ Rejected \subseteq Requests
    /\ Peekers \subseteq Threads
    /\ Savers \subseteq Threads
    /\ Crashing \subseteq Stores
    /\ Resubmitters \subseteq Threads
    /\ CheckpointEvery \in Nat \ {0}
    /\ MaxLen \in Nat
    /\ NoThread \notin Threads
    /\ Jobs \in [Threads -> SUBSET Seq([key : Keys, request : Requests])]

Signers == {KeyOf[s] : s \in Stores} \cup {NoKey}

\* An event as stored: envelope and request; the sequence is its position.
Event == [key : Keys, request : Requests, hash : Nat, prev : Nat,
          signer : Signers, prevSigner : Signers]

\* last_event_hash = None
NoHash == 0

Snapshot == [trajectory : Trajectories, applied : Seq(Nat), signer : Signers]

\* A row of idempotency_keys, and the CommitReceipt read back from it.
Receipt == [trajectory : Trajectories, key : Keys, request : Requests,
            sequence : Nat, hash : Nat]

\* A row of harness_snapshots.  signerColumn is the last_signature column,
\* material what checkpoint_hash is a hash of.
Checkpoint == [snapshot : Snapshot, count : Nat, signerColumn : Signers,
               material : Nat \X Nat \X Signers \X Nat]

VARIABLES
    log,          \* harness_events, per trajectory, in sequence order
    idem,         \* idempotency_keys
    checkpoints,  \* harness_snapshots
    minted,       \* event hashes handed out so far
    writer,       \* the thread whose connection has the write transaction open
    txEvents,     \* events inserted by the open transaction
    txRows,       \* idempotency rows inserted by the open transaction
    cache,        \* _snapshot_cache of each store object
    pc,           \* where a thread is in the call it is making
    target,       \* trajectory_id of the read a thread is making
    found,        \* the local snapshot of that read
    view,         \* the snapshot a thread last got back
    todo,         \* proposals its commit has still to process
    answer,       \* how its last commit ended
    receipts      \* the receipts it last got back

dbVars   == <<log, idem, checkpoints, minted>>
txVars   == <<writer, txEvents, txRows>>
readVars == <<target, found, view>>
callVars == <<todo, answer, receipts>>
vars == <<dbVars, txVars, cache, pc, readVars, callVars>>

PCs == {"idle", "validate", "replay", "fill", "load", "offer", "loop", "invalidate"}
Successes == {"committed", "replayed"}
Answers == Successes \cup {"none", "busy", "stale", "conflict", "error"}

TypeOK ==
    /\ log \in [Trajectories -> Seq(Event)]
    /\ idem \subseteq Receipt
    /\ checkpoints \subseteq Checkpoint
    /\ minted \in Nat
    /\ writer \in Threads \cup {NoThread}
    /\ txEvents \in Seq(Event)
    /\ txRows \subseteq Receipt
    /\ cache \in [Stores -> [Trajectories -> Snapshot \cup {NoSnapshot}]]
    /\ pc \in [Threads -> PCs]
    /\ target \in [Threads -> Trajectories]
    /\ found \in [Threads -> Snapshot \cup {NoSnapshot}]
    /\ view \in [Threads -> Snapshot \cup {NoSnapshot}]
    /\ todo \in [Threads -> Seq([key : Keys, request : Requests])]
    /\ answer \in [Threads -> Answers]
    /\ receipts \in [Threads -> SUBSET Receipt]

Init ==
    /\ log = [tr \in Trajectories |-> <<>>]
    /\ idem = {}
    /\ checkpoints = {}
    /\ minted = 0
    /\ writer = NoThread
    /\ txEvents = <<>>
    /\ txRows = {}
    /\ cache = [s \in Stores |-> [tr \in Trajectories |-> NoSnapshot]]
    /\ pc = [t \in Threads |-> "idle"]
    /\ \E tr \in Trajectories : target = [t \in Threads |-> tr]
    /\ found = [t \in Threads |-> NoSnapshot]
    /\ view = [t \in Threads |-> NoSnapshot]
    /\ todo = [t \in Threads |-> <<>>]
    /\ answer = [t \in Threads |-> "none"]
    /\ receipts = [t \in Threads |-> {}]

-----------------------------------------------------------------------------
(* Hashes, signatures and the envelope checks of the reducer.              *)
(*                                                                         *)
(* Here and below, an operator named Mutant_<definition>_<bug> is that     *)
(* definition with a plausible bug.  No specification uses it: it shows    *)
(* that the properties notice.                                             *)

Hashes(events) == [i \in DOMAIN events |-> events[i].hash]

LastHash(events) == IF events = <<>> THEN NoHash ELSE events[Len(events)].hash

LastSigner(events) == IF events = <<>> THEN NoKey ELSE events[Len(events)].signer

HashOf(snapshot) ==
    IF snapshot.applied = <<>> THEN NoHash ELSE snapshot.applied[Len(snapshot.applied)]

Mutant_SignatureOK_Keyless(s, event) == KeyOf[s] = NoKey \/ event.signer = KeyOf[s]

\* verify_signature: a store with a key wants its own signature on every
\* event, a store without one wants none.
SignatureOK(s, event) == event.signer = KeyOf[s]

\* _validate_envelope: event is the (n+1)-st, after a snapshot whose last
\* event hash and signer are given.
EnvelopeOK(n, lastHash, lastSigner, event) ==
    /\ n = 0 => event.prev = NoHash
    /\ n > 0 => event.prev # NoHash
    /\ event.prev = lastHash
    /\ (event.signer # NoKey \/ lastSigner # NoKey) =>
          /\ n = 0 => event.prevSigner = NoKey
          /\ n > 0 => event.prevSigner # NoKey
          /\ event.prevSigner = lastSigner

-----------------------------------------------------------------------------
(* Checkpoints, and the head rebuilt from the latest of them.              *)

Mutant_Material_Swapped(snapshot, signerColumn, count) ==
    <<Len(snapshot.applied), HashOf(snapshot), count, signerColumn>>

Material(snapshot, signerColumn, count) ==
    <<Len(snapshot.applied), HashOf(snapshot), signerColumn, count>>

\* _insert_snapshot hashes the snapshot's last_signature but does not write
\* the last_signature column, which stays NULL.
CheckpointRow(snapshot, count) ==
    [snapshot |-> snapshot, count |-> count, signerColumn |-> NoKey,
     material |-> Material(snapshot, snapshot.signer, count)]

RowsOf(tr) == {row \in checkpoints : row.snapshot.trajectory = tr}

Exists(tr) == RowsOf(tr) # {}

SequenceOf(row) == Len(row.snapshot.applied)

LatestRow(tr) ==
    CHOOSE row \in RowsOf(tr) : \A r \in RowsOf(tr) : SequenceOf(r) <= SequenceOf(row)

\* _validate_checkpoint_row
CheckpointOK(row, events) ==
    LET n == SequenceOf(row) IN
    /\ n <= Len(events)
    /\ row.count = n
    /\ row.material = Material(row.snapshot, row.signerColumn, row.count)
    /\ row.snapshot.signer = row.signerColumn
    /\ n > 0 => /\ events[n].hash = HashOf(row.snapshot)
                /\ events[n].signer = row.snapshot.signer

\* Whether store object s can rebuild the head of tr.
Loadable(s, tr) ==
    /\ Exists(tr)
    /\ LET row == LatestRow(tr)
           n == SequenceOf(row)
       IN /\ CheckpointOK(row, log[tr])
          /\ \A i \in (n + 1)..Len(log[tr]) :
                LET before == SubSeq(log[tr], 1, i - 1) IN
                /\ SignatureOK(s, log[tr][i])
                /\ EnvelopeOK(i - 1, LastHash(before), LastSigner(before), log[tr][i])

Mutant_LoadedHead_Uncommitted(tr) ==
    [trajectory |-> tr,
     applied |-> Hashes(log[tr] \o txEvents),
     signer |-> LastSigner(log[tr] \o txEvents)]

\* The snapshot _load_trajectory_head, replay and _load return.
LoadedHead(tr) ==
    LET row == LatestRow(tr)
        after == SubSeq(log[tr], SequenceOf(row) + 1, Len(log[tr]))
    IN [trajectory |-> tr,
        applied |-> row.snapshot.applied \o Hashes(after),
        signer |-> IF after = <<>> THEN row.snapshot.signer ELSE LastSigner(after)]

Mutant_AtHead_SignatureOnly(snapshot, tr) == snapshot.signer = LastSigner(log[tr])

\* _load_trajectory_head_projection: the head as the event table shows it.
AtHead(snapshot, tr) ==
    /\ Len(snapshot.applied) = Len(log[tr])
    /\ HashOf(snapshot) = LastHash(log[tr])
    /\ snapshot.signer = LastSigner(log[tr])

-----------------------------------------------------------------------------
(* init_trajectory                                                         *)

Genesis(tr) == [trajectory |-> tr, applied |-> <<>>, signer |-> NoKey]

InitTrajectory(t, tr) ==
    /\ pc[t] = "idle" /\ writer = NoThread
    /\ ~ Exists(tr)
    /\ checkpoints' = checkpoints \cup {CheckpointRow(Genesis(tr), 0)}
    /\ view' = [view EXCEPT ![t] = Genesis(tr)]
    /\ UNCHANGED <<log, idem, minted, txVars, cache, pc, target, found, callVars>>

-----------------------------------------------------------------------------
(* get_latest_snapshot                                                     *)

\* The cache is read; a hit is compared with the head in a later statement.
ReadCache(t, tr) ==
    /\ pc[t] = "idle" /\ t \notin Peekers
    /\ Exists(tr)
    /\ target' = [target EXCEPT ![t] = tr]
    /\ found' = [found EXCEPT ![t] = cache[StoreOf[t]][tr]]
    /\ pc' = [pc EXCEPT ![t] =
                 IF cache[StoreOf[t]][tr] = NoSnapshot THEN "replay" ELSE "validate"]
    /\ UNCHANGED <<dbVars, txVars, cache, view, callVars>>

Mutant_CacheHit_Unchecked(t) ==
    /\ pc[t] = "validate"
    /\ view' = [view EXCEPT ![t] = found[t]]
    /\ found' = [found EXCEPT ![t] = NoSnapshot]
    /\ pc' = [pc EXCEPT ![t] = "idle"]
    /\ UNCHANGED <<dbVars, txVars, cache, target, callVars>>

\* The cached snapshot is still the head: it is returned.
CacheHit(t) ==
    /\ pc[t] = "validate"
    /\ AtHead(found[t], target[t])
    /\ view' = [view EXCEPT ![t] = found[t]]
    /\ found' = [found EXCEPT ![t] = NoSnapshot]
    /\ pc' = [pc EXCEPT ![t] = "idle"]
    /\ UNCHANGED <<dbVars, txVars, cache, target, callVars>>

\* The head has moved on: the entry is dropped and the log replayed.
CacheMiss(t) ==
    /\ pc[t] = "validate"
    /\ ~ AtHead(found[t], target[t])
    /\ cache' = [cache EXCEPT ![StoreOf[t]][target[t]] = NoSnapshot]
    /\ found' = [found EXCEPT ![t] = NoSnapshot]
    /\ pc' = [pc EXCEPT ![t] = "replay"]
    /\ UNCHANGED <<dbVars, txVars, target, view, callVars>>

Replay(t) ==
    /\ pc[t] = "replay"
    /\ IF Loadable(StoreOf[t], target[t])
       THEN /\ found' = [found EXCEPT ![t] = LoadedHead(target[t])]
            /\ pc' = [pc EXCEPT ![t] = "fill"]
       ELSE /\ found' = [found EXCEPT ![t] = NoSnapshot]
            /\ pc' = [pc EXCEPT ![t] = "idle"]
    /\ UNCHANGED <<dbVars, txVars, cache, target, view, callVars>>

\* The replayed snapshot is cached, whatever was committed meanwhile.
FillCache(t) ==
    /\ pc[t] = "fill"
    /\ cache' = [cache EXCEPT ![StoreOf[t]][target[t]] = found[t]]
    /\ view' = [view EXCEPT ![t] = found[t]]
    /\ found' = [found EXCEPT ![t] = NoSnapshot]
    /\ pc' = [pc EXCEPT ![t] = "idle"]
    /\ UNCHANGED <<dbVars, txVars, target, callVars>>

-----------------------------------------------------------------------------
(* _get_latest_snapshot_thread_safe                                        *)

\* A cached snapshot is returned as it is.
PeekCache(t, tr) ==
    /\ pc[t] = "idle" /\ t \in Peekers
    /\ cache[StoreOf[t]][tr] # NoSnapshot
    /\ view' = [view EXCEPT ![t] = cache[StoreOf[t]][tr]]
    /\ UNCHANGED <<dbVars, txVars, cache, pc, target, found, callVars>>

PeekMiss(t, tr) ==
    /\ pc[t] = "idle" /\ t \in Peekers
    /\ Exists(tr)
    /\ cache[StoreOf[t]][tr] = NoSnapshot
    /\ target' = [target EXCEPT ![t] = tr]
    /\ pc' = [pc EXCEPT ![t] = "load"]
    /\ UNCHANGED <<dbVars, txVars, cache, found, view, callVars>>

PeekLoad(t) ==
    /\ pc[t] = "load"
    /\ IF Loadable(StoreOf[t], target[t])
       THEN /\ found' = [found EXCEPT ![t] = LoadedHead(target[t])]
            /\ pc' = [pc EXCEPT ![t] = "offer"]
       ELSE /\ found' = [found EXCEPT ![t] = NoSnapshot]
            /\ pc' = [pc EXCEPT ![t] = "idle"]
    /\ UNCHANGED <<dbVars, txVars, cache, target, view, callVars>>

\* The cache is overwritten unless it holds the same head already.
OfferCache(t) ==
    /\ pc[t] = "offer"
    /\ cache' = [cache EXCEPT ![StoreOf[t]][target[t]] = found[t]]
    /\ view' = [view EXCEPT ![t] = found[t]]
    /\ found' = [found EXCEPT ![t] = NoSnapshot]
    /\ pc' = [pc EXCEPT ![t] = "idle"]
    /\ UNCHANGED <<dbVars, txVars, target, callVars>>

-----------------------------------------------------------------------------
(* commit_events                                                           *)

Mutant_Entry_NewestOnly(rows, tr, key) ==
    {r \in rows : /\ r.trajectory = tr /\ r.key = key
                  /\ \A q \in rows : q.trajectory = tr => q.sequence <= r.sequence}

\* The idempotency row of a key, as a set with at most one member.
Entry(rows, tr, key) == {r \in rows : r.trajectory = tr /\ r.key = key}

\* A row that answers the proposal itself, not another request with its key.
SameRequest(rows, tr, p) == \E r \in Entry(rows, tr, p.key) : r.request = p.request

SomeCommitted(tr, b) == \E i \in DOMAIN b : Entry(idem, tr, b[i].key) # {}

AllCommitted(tr, b) == \A i \in DOMAIN b : SameRequest(idem, tr, b[i])

Mutant_HeadUnmoved_AnyPrefix(snapshot) ==
    Len(LoadedHead(snapshot.trajectory).applied) >= Len(snapshot.applied)

\* The optimistic lock: expected_sequence and expected_head_hash are those of
\* the caller's snapshot.
HeadUnmoved(snapshot) ==
    LET head == LoadedHead(snapshot.trajectory) IN
    /\ Len(head.applied) = Len(snapshot.applied)
    /\ HashOf(head) = HashOf(snapshot)

Finish(t, outcome) ==
    /\ pc' = [pc EXCEPT ![t] = "idle"]
    /\ todo' = [todo EXCEPT ![t] = <<>>]
    /\ answer' = [answer EXCEPT ![t] = outcome]

\* ROLLBACK (or COMMIT, once the writes are published).
EndTransaction ==
    /\ writer' = NoThread
    /\ txEvents' = <<>>
    /\ txRows' = {}

MaySubmit(t, b) ==
    /\ pc[t] = "idle" /\ view[t] # NoSnapshot
    /\ b # <<>>
    /\ t \in Resubmitters \/ answer[t] \notin Successes
    /\ Len(log[view[t].trajectory]) + Len(b) <= MaxLen

\* BEGIN IMMEDIATE fails: another connection has the write lock, or this one
\* still has a transaction open.  The exception reaches the caller.
SubmitBusy(t, b) ==
    /\ MaySubmit(t, b)
    /\ writer # NoThread
    /\ Finish(t, "busy")
    /\ receipts' = [receipts EXCEPT ![t] = {}]
    /\ UNCHANGED <<dbVars, txVars, cache, readVars>>

\* The transaction is open; the head cannot be loaded: ROLLBACK.
SubmitUnloadable(t, b) ==
    /\ MaySubmit(t, b) /\ writer = NoThread
    /\ ~ Loadable(StoreOf[t], view[t].trajectory)
    /\ Finish(t, "error")
    /\ receipts' = [receipts EXCEPT ![t] = {}]
    /\ UNCHANGED <<dbVars, txVars, cache, readVars>>

\* Every proposal was committed before: the receipts are returned from inside
\* the transaction, which is neither committed nor rolled back.
SubmitReplay(t, b) ==
    LET tr == view[t].trajectory IN
    /\ MaySubmit(t, b) /\ writer = NoThread
    /\ Loadable(StoreOf[t], tr)
    /\ AllCommitted(tr, b)
    /\ writer' = t
    /\ Finish(t, "replayed")
    /\ receipts' = [receipts EXCEPT ![t] = UNION {Entry(idem, tr, b[i].key) : i \in DOMAIN b}]
    /\ UNCHANGED <<dbVars, txEvents, txRows, cache, readVars>>

\* Some proposal was committed before and not all were: the first one that
\* differs decides.  A key used by another request is a conflict, a new key
\* fails the assertion, which is reported as a plain StoreError.
SubmitMixed(t, b) ==
    LET tr == view[t].trajectory
        Bad(i) == ~ SameRequest(idem, tr, b[i])
    IN
    /\ MaySubmit(t, b) /\ writer = NoThread
    /\ Loadable(StoreOf[t], tr)
    /\ SomeCommitted(tr, b)
    /\ \E i \in DOMAIN b :
          /\ Bad(i) /\ \A j \in 1..(i - 1) : ~ Bad(j)
          /\ Finish(t, IF Entry(idem, tr, b[i].key) = {} THEN "error" ELSE "conflict")
    /\ receipts' = [receipts EXCEPT ![t] = {}]
    /\ UNCHANGED <<dbVars, txVars, cache, readVars>>

\* StaleContextError: ROLLBACK.
SubmitStale(t, b) ==
    LET tr == view[t].trajectory IN
    /\ MaySubmit(t, b) /\ writer = NoThread
    /\ Loadable(StoreOf[t], tr)
    /\ ~ SomeCommitted(tr, b)
    /\ ~ HeadUnmoved(view[t])
    /\ Finish(t, "stale")
    /\ receipts' = [receipts EXCEPT ![t] = {}]
    /\ UNCHANGED <<dbVars, txVars, cache, readVars>>

\* The batch goes ahead: the loop over the proposals starts.
SubmitBegin(t, b) ==
    LET tr == view[t].trajectory IN
    /\ MaySubmit(t, b) /\ writer = NoThread
    /\ Loadable(StoreOf[t], tr)
    /\ ~ SomeCommitted(tr, b)
    /\ HeadUnmoved(view[t])
    /\ writer' = t
    /\ todo' = [todo EXCEPT ![t] = b]
    /\ pc' = [pc EXCEPT ![t] = "loop"]
    /\ receipts' = [receipts EXCEPT ![t] = {}]
    /\ UNCHANGED <<dbVars, txEvents, txRows, cache, readVars, answer>>

\* The event of one iteration, chained to the head the transaction has built.
NextEvent(t, tr, p) ==
    LET sofar == log[tr] \o txEvents IN
    [key |-> p.key, request |-> p.request,
     hash |-> minted + Len(txEvents) + 1,
     prev |-> LastHash(sofar),
     signer |-> KeyOf[StoreOf[t]],
     prevSigner |-> LastSigner(sofar)]

\* reduce_event accepts the event: its envelope, then its own preconditions.
Reducible(tr, event) ==
    LET sofar == log[tr] \o txEvents IN
    /\ EnvelopeOK(Len(sofar), LastHash(sofar), LastSigner(sofar), event)
    /\ event.request \notin Rejected

Mutant_NextRow_OldSequence(tr, event) ==
    [trajectory |-> tr, key |-> event.key, request |-> event.request,
     sequence |-> Len(log[tr]) + Len(txEvents), hash |-> event.hash]

Mutant_NextRow_PreviousHash(tr, event) ==
    [trajectory |-> tr, key |-> event.key, request |-> event.request,
     sequence |-> Len(log[tr]) + Len(txEvents) + 1, hash |-> event.prev]

\* _upsert_idempotency_entry with the receipt of the event.
NextRow(tr, event) ==
    [trajectory |-> tr, key |-> event.key, request |-> event.request,
     sequence |-> Len(log[tr]) + Len(txEvents) + 1, hash |-> event.hash]

\* An iteration that inserts its event and its idempotency row.
StageEvent(t) ==
    LET tr == view[t].trajectory
        p == Head(todo[t])
        event == NextEvent(t, tr, p)
    IN
    /\ pc[t] = "loop" /\ todo[t] # <<>>
    /\ Entry(idem \cup txRows, tr, p.key) = {}
    /\ Reducible(tr, event)
    /\ txEvents' = Append(txEvents, event)
    /\ txRows' = txRows \cup {NextRow(tr, event)}
    /\ todo' = [todo EXCEPT ![t] = Tail(@)]
    /\ UNCHANGED <<dbVars, writer, cache, pc, readVars, answer, receipts>>

\* The same proposal occurs earlier in the batch: its receipt is used again.
StageRepeat(t) ==
    /\ pc[t] = "loop" /\ todo[t] # <<>>
    /\ SameRequest(idem \cup txRows, view[t].trajectory, Head(todo[t]))
    /\ todo' = [todo EXCEPT ![t] = Tail(@)]
    /\ UNCHANGED <<dbVars, txVars, cache, pc, readVars, answer, receipts>>

\* The key occurs earlier in the batch with another request: ROLLBACK.
StageConflict(t) ==
    LET tr == view[t].trajectory
        p == Head(todo[t])
    IN
    /\ pc[t] = "loop" /\ todo[t] # <<>>
    /\ Entry(idem \cup txRows, tr, p.key) # {}
    /\ ~ SameRequest(idem \cup txRows, tr, p)
    /\ EndTransaction
    /\ Finish(t, "conflict")
    /\ UNCHANGED <<dbVars, cache, readVars, receipts>>

Mutant_StageRejected_KeepsPrefix(t) ==
    LET tr == view[t].trajectory
        p == Head(todo[t])
    IN
    /\ pc[t] = "loop" /\ todo[t] # <<>>
    /\ Entry(idem \cup txRows, tr, p.key) = {}
    /\ ~ Reducible(tr, NextEvent(t, tr, p))
    /\ todo' = [todo EXCEPT ![t] = <<>>]
    /\ UNCHANGED <<dbVars, txVars, cache, pc, readVars, answer, receipts>>

\* The reducer refuses the event: ROLLBACK of the whole batch.
StageRejected(t) ==
    LET tr == view[t].trajectory
        p == Head(todo[t])
    IN
    /\ pc[t] = "loop" /\ todo[t] # <<>>
    /\ Entry(idem \cup txRows, tr, p.key) = {}
    /\ ~ Reducible(tr, NextEvent(t, tr, p))
    /\ EndTransaction
    /\ Finish(t, "error")
    /\ UNCHANGED <<dbVars, cache, readVars, receipts>>

Mutant_EventCount_Committed(tr) == Len(log[tr])

\* get_event_count, on the connection that has the transaction open.
EventCount(tr) == Len(log[tr]) + Len(txEvents)

\* The checkpoint the transaction adds when the head is a multiple of 50.
AutoCheckpoint(tr) ==
    LET base == LoadedHead(tr)
        head == [trajectory |-> tr,
                 applied |-> base.applied \o Hashes(txEvents),
                 signer |-> LastSigner(txEvents)]
    IN IF Len(head.applied) % CheckpointEvery = 0
       THEN {CheckpointRow(head, EventCount(tr))}
       ELSE {}

\* The loop is over: COMMIT publishes the batch.
CommitTx(t) ==
    LET tr == view[t].trajectory IN
    /\ pc[t] = "loop" /\ todo[t] = <<>>
    /\ log' = [log EXCEPT ![tr] = @ \o txEvents]
    /\ idem' = idem \cup txRows
    /\ checkpoints' = checkpoints \cup AutoCheckpoint(tr)
    /\ minted' = minted + Len(txEvents)
    /\ receipts' = [receipts EXCEPT ![t] = txRows]
    /\ EndTransaction
    /\ pc' = [pc EXCEPT ![t] = "invalidate"]
    /\ UNCHANGED <<cache, readVars, todo, answer>>

\* _invalidate_snapshot_cache, and the return to the caller.
InvalidateCache(t) ==
    /\ pc[t] = "invalidate"
    /\ cache' = [cache EXCEPT ![StoreOf[t]][view[t].trajectory] = NoSnapshot]
    /\ Finish(t, "committed")
    /\ UNCHANGED <<dbVars, txVars, readVars, receipts>>

-----------------------------------------------------------------------------
(* save_snapshot, close, and the crash of a process.                       *)

\* A checkpoint of the caller's snapshot, if it is the head and has none.
SaveSnapshot(t) ==
    /\ pc[t] = "idle" /\ t \in Savers /\ writer = NoThread
    /\ view[t] # NoSnapshot
    /\ AtHead(view[t], view[t].trajectory)
    /\ \A row \in RowsOf(view[t].trajectory) : SequenceOf(row) # Len(view[t].applied)
    /\ checkpoints' = checkpoints \cup {CheckpointRow(view[t], Len(view[t].applied))}
    /\ UNCHANGED <<log, idem, minted, txVars, cache, pc, readVars, callVars>>

\* close() drops the thread's connection, and what it has open with it.
Close(t) ==
    /\ pc[t] = "idle" /\ writer = t
    /\ EndTransaction
    /\ UNCHANGED <<dbVars, cache, pc, readVars, callVars>>

Crash(s) ==
    LET Mine(t) == StoreOf[t] = s
        Reset(f, v) == [t \in Threads |-> IF Mine(t) THEN v ELSE f[t]]
    IN
    /\ s \in Crashing
    /\ IF writer # NoThread /\ writer \in Threads /\ Mine(writer)
       THEN EndTransaction
       ELSE UNCHANGED txVars
    /\ cache' = [cache EXCEPT ![s] = [tr \in Trajectories |-> NoSnapshot]]
    /\ pc' = Reset(pc, "idle")
    /\ found' = Reset(found, NoSnapshot)
    /\ view' = Reset(view, NoSnapshot)
    /\ todo' = Reset(todo, <<>>)
    /\ answer' = Reset(answer, "none")
    /\ receipts' = Reset(receipts, {})
    /\ UNCHANGED <<dbVars, target>>

-----------------------------------------------------------------------------

Submit(t, b) ==
    \/ SubmitBusy(t, b) \/ SubmitUnloadable(t, b) \/ SubmitReplay(t, b)
    \/ SubmitMixed(t, b) \/ SubmitStale(t, b) \/ SubmitBegin(t, b)

\* A step of a call that has started: the thread will take it.
Continue(t) ==
    \/ CacheHit(t) \/ CacheMiss(t) \/ Replay(t) \/ FillCache(t)
    \/ PeekLoad(t) \/ OfferCache(t)
    \/ StageEvent(t) \/ StageRepeat(t) \/ StageConflict(t) \/ StageRejected(t)
    \/ CommitTx(t) \/ InvalidateCache(t)

Read(t, tr) == ReadCache(t, tr) \/ PeekCache(t, tr) \/ PeekMiss(t, tr)

Next ==
    \/ \E t \in Threads :
          \/ \E tr \in Trajectories : InitTrajectory(t, tr) \/ Read(t, tr)
          \/ \E b \in Jobs[t] : Submit(t, b)
          \/ Continue(t)
          \/ SaveSnapshot(t)
          \/ Close(t)
    \/ \E s \in Stores : Crash(s)

Spec == Init /\ [][Next]_vars

\* A thread that has entered a call runs it to its end.  Between calls it is in
\* the loop of Runtime.step (runtime.py 103-141): read, propose, commit, and
\* again after a failure, so that it keeps reading and keeps submitting.
Fairness ==
    /\ \A tr \in Trajectories : WF_vars(\E t \in Threads : InitTrajectory(t, tr))
    /\ \A t \in Threads :
          /\ WF_vars(Continue(t))
          /\ SF_vars(\E tr \in Trajectories : Read(t, tr))
          /\ SF_vars(\E b \in Jobs[t] : Submit(t, b))

FairSpec == Spec /\ Fairness

-----------------------------------------------------------------------------
(* Safety.                                                                 *)

KeysOf(events) == {events[i].key : i \in DOMAIN events}

\* Exactly once: no two events of a trajectory carry the same idempotency key,
\* however often a request is retried, raced or repeated within a batch
\* (commit_events, the two idempotency look-ups).
UniqueKeys ==
    \A tr \in Trajectories : \A i, j \in DOMAIN log[tr] :
        log[tr][i].key = log[tr][j].key => i = j

\* The idempotency table and the event table tell the same story: each event
\* has the row of its key, with its own sequence, hash and request, and each
\* row has its event (_upsert_idempotency_entry under the batch's COMMIT).
IndexMatchesLog ==
    idem = UNION {{[trajectory |-> tr, key |-> log[tr][i].key, request |-> log[tr][i].request,
                    sequence |-> i, hash |-> log[tr][i].hash] : i \in DOMAIN log[tr]} :
                  tr \in Trajectories}

\* Durability of an acknowledgement: a receipt a caller holds, from a commit or
\* from a replay, names an event that is in the log at that sequence with that
\* hash, across rollbacks, closes and crashes of any process.
AcknowledgedIsDurable ==
    \A t \in Threads : \A r \in receipts[t] :
        /\ r.sequence \in DOMAIN log[r.trajectory]
        /\ LET e == log[r.trajectory][r.sequence] IN
           e.key = r.key /\ e.request = r.request /\ e.hash = r.hash

IsCommittedPrefix(snapshot) ==
    LET n == Len(snapshot.applied) IN
    /\ n <= Len(log[snapshot.trajectory])
    /\ snapshot.applied = Hashes(SubSeq(log[snapshot.trajectory], 1, n))

\* Nobody ever sees uncommitted state: every snapshot in a cache, in a running
\* read or in a caller's hands is the reduction of a prefix of the committed
\* log, whatever transactions were rolled back (the cache is only filled from
\* reads, and only dropped by commits).
SnapshotsAreCommitted ==
    /\ \A s \in Stores, tr \in Trajectories :
          cache[s][tr] # NoSnapshot =>
             cache[s][tr].trajectory = tr /\ IsCommittedPrefix(cache[s][tr])
    /\ \A t \in Threads :
          /\ found[t] # NoSnapshot => IsCommittedPrefix(found[t])
          /\ view[t] # NoSnapshot => IsCommittedPrefix(view[t])

\* No commit makes a trajectory unreadable: whatever has been committed and
\* checkpointed, some store object can still rebuild the head, and what it
\* rebuilds is the whole log (_validate_checkpoint_row, _load_trajectory_head).
HeadLoadable ==
    \A tr \in Trajectories : Exists(tr) =>
        /\ \E s \in Stores : Loadable(s, tr)
        /\ LoadedHead(tr).applied = Hashes(log[tr])

\* The same for a trajectory that is not signed: its checkpoints, automatic or
\* saved by any process from a snapshot read at any time, fit the log.
UnsignedHeadLoadable ==
    \A tr \in Trajectories : Exists(tr) /\ LastSigner(log[tr]) = NoKey =>
        /\ \E s \in Stores : Loadable(s, tr)
        /\ LoadedHead(tr).applied = Hashes(log[tr])

\* A trajectory is signed throughout by one key or not at all, although store
\* objects with different keys, or none, write to the same database
\* (_validate_envelope and verify_signature; "the entire chain must be signed
\* consistently", reducer.py 113-114).
OneSignerPerTrajectory ==
    \A tr \in Trajectories : \A i, j \in DOMAIN log[tr] :
        log[tr][i].signer = log[tr][j].signer

\* A thread that is in no call holds no transaction: commit_events leaves the
\* connection as it found it.
NoTransactionLeftOpen ==
    \A t \in Threads : writer = t => pc[t] # "idle"

-----------------------------------------------------------------------------
(* What a step may not do.                                                 *)

\* No lost update: the log of a trajectory only grows by the commit of a thread
\* whose snapshot is the whole log so far (the optimistic lock, kept from the
\* check to COMMIT by the write lock).
CommitsOnlyOnHead ==
    [][\A tr \in Trajectories : log'[tr] # log[tr] =>
          \E t \in Threads :
             /\ pc[t] = "loop" /\ pc'[t] = "invalidate"
             /\ view[t].trajectory = tr
             /\ view[t].applied = Hashes(log[tr])]_vars

\* A call of get_latest_snapshot returns view'[t] in this step: a thread that
\* raises or crashes has no snapshot to return.
ReadReturns(t) ==
    pc[t] \in {"validate", "fill"} /\ pc'[t] = "idle" /\ view'[t] # NoSnapshot

\* Read your writes: the snapshot get_latest_snapshot returns contains every
\* event the thread holds a receipt for, although other threads put older
\* snapshots back in the shared cache after the commit has dropped them, among
\* them the one the thread itself had read before it committed.
ReadYourWrites ==
    [][\A t \in Threads : ReadReturns(t) =>
          \A r \in receipts[t] :
             r.trajectory = target[t] => r.sequence <= Len(view'[t].applied)]_vars

-----------------------------------------------------------------------------
(* Liveness and refinement.                                                *)

\* Optimistic concurrency makes progress: every thread that keeps re-reading
\* and submitting its batch gets it committed (or its receipts replayed), in
\* spite of stale snapshots, polluted caches and a write lock found busy.
EveryJobSucceeds ==
    \A t \in Threads : Jobs[t] # {} => <>(answer[t] \in Successes)

\* The store implements an atomic, idempotent, optimistically locked log.
Log == INSTANCE TrajectoryLog WITH
    Clients <- Threads,
    Batches <- Jobs,
    history <- [tr \in Trajectories |->
                   [i \in DOMAIN log[tr] |->
                       [key |-> log[tr][i].key, request |-> log[tr][i].request]]],
    basis <- [t \in Threads |->
                 IF view[t] = NoSnapshot THEN {}
                 ELSE {[trajectory |-> view[t].trajectory, length |-> Len(view[t].applied)]}]

ImplementsLog == Log!Spec
=============================================================================
