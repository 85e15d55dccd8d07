-------------------------- MODULE EventStoreProofs --------------------------
(***************************************************************************)
(* Theorems about EventStore, for every number of store objects, threads,  *)
(* trajectories, keys and jobs, and every bound: types, and exactly-once   *)
(* commits.  No key is ever logged twice, the idempotency table tells the  *)
(* story of the event table, and what was acknowledged stays.  Snapshots   *)
(* and checkpoints are prefixes of the committed log, and nobody commits   *)
(* but on the head.                                                        *)
(***************************************************************************)
EXTENDS EventStore, TLAPS, SequenceTheorems

-----------------------------------------------------------------------------
(* What the operators of the module return.                                *)

\* The last hash, the last signer and the hashes of a sequence of events.
LEMMA EventSeqTypes ==
    ASSUME NEW events \in Seq(Event)
    PROVE  /\ LastHash(events) \in Nat
           /\ LastSigner(events) \in Signers
           /\ Hashes(events) \in Seq(Nat)
           /\ Len(Hashes(events)) = Len(events)
<1>1. Len(events) \in Nat /\ DOMAIN events = 1..Len(events)
  BY LenProperties
<1>2. \A i \in 1..Len(events) : events[i] \in Event
  BY ElementOfSeq
<1>3. Hashes(events) = [i \in 1..Len(events) |-> events[i].hash]
  BY <1>1 DEF Hashes
<1>4. Hashes(events) \in [1..Len(events) -> Nat]
  BY <1>2, <1>3 DEF Event
<1>5. Hashes(events) \in Seq(Nat) /\ Len(Hashes(events)) = Len(events)
  BY <1>1, <1>3, <1>4
<1>6. CASE events = <<>>
  BY <1>5, <1>6 DEF LastHash, LastSigner, NoHash, Signers
<1>7. CASE events # <<>>
  <2>1. events[Len(events)] \in Event
    BY <1>1, <1>2, <1>7, EmptySeq
  <2> QED BY <1>5, <1>7, <2>1 DEF LastHash, LastSigner, Event
<1> QED BY <1>6, <1>7

\* The hash of a snapshot is one of the hashes it is made of, or none.
LEMMA HashOfType ==
    ASSUME NEW snapshot \in Snapshot
    PROVE  HashOf(snapshot) \in Nat /\ Len(snapshot.applied) \in Nat
<1>1. snapshot.applied \in Seq(Nat)
  BY DEF Snapshot
<1>2. Len(snapshot.applied) \in Nat
  BY <1>1, LenProperties
<1>3. CASE snapshot.applied = <<>>
  BY <1>2, <1>3 DEF HashOf, NoHash
<1>4. CASE snapshot.applied # <<>>
  <2>1. Len(snapshot.applied) \in 1..Len(snapshot.applied)
    BY <1>1, <1>2, <1>4, EmptySeq
  <2> QED BY <1>1, <1>2, <1>4, <2>1, ElementOfSeq DEF HashOf
<1> QED BY <1>3, <1>4

\* _insert_snapshot writes a well-typed row for a well-typed snapshot.
LEMMA CheckpointRowType ==
    ASSUME NEW snapshot \in Snapshot, NEW count \in Nat
    PROVE  /\ CheckpointRow(snapshot, count) \in Checkpoint
           /\ CheckpointRow(snapshot, count).snapshot = snapshot
<1>1. snapshot.signer \in Signers /\ NoKey \in Signers
  BY DEF Snapshot, Signers
<1> QED BY <1>1, HashOfType DEF CheckpointRow, Checkpoint, Material

-----------------------------------------------------------------------------
(* The invariant behind the types: a trajectory with checkpoints has a     *)
(* latest one, and the open transaction belongs to the thread in the loop. *)

CheckpointsHaveLatest ==
    \A tr \in Trajectories : Exists(tr) =>
        \E row \in RowsOf(tr) : \A r \in RowsOf(tr) : SequenceOf(r) <= SequenceOf(row)

TransactionOwned ==
    /\ \A t \in Threads : pc[t] = "loop" =>
          writer = t /\ view[t] # NoSnapshot /\ Exists(view[t].trajectory)
    /\ \A t \in Threads : pc[t] = "invalidate" => view[t] # NoSnapshot
    /\ txEvents # <<>> \/ txRows # {} => \E t \in Threads : pc[t] = "loop"

TypeInv == TypeOK /\ CheckpointsHaveLatest /\ TransactionOwned

\* The latest checkpoint of a trajectory that has one is one of its rows.
LEMMA LatestRowFact ==
    ASSUME CheckpointsHaveLatest, NEW tr \in Trajectories, Exists(tr)
    PROVE  /\ LatestRow(tr) \in RowsOf(tr)
           /\ \A r \in RowsOf(tr) : SequenceOf(r) <= SequenceOf(LatestRow(tr))
BY DEF CheckpointsHaveLatest, LatestRow

\* _load_trajectory_head returns a well-typed snapshot.
LEMMA LoadedHeadType ==
    ASSUME TypeOK, CheckpointsHaveLatest, NEW tr \in Trajectories, Exists(tr)
    PROVE  LoadedHead(tr) \in Snapshot
<1> DEFINE row == LatestRow(tr)
           after == SubSeq(log[tr], SequenceOf(row) + 1, Len(log[tr]))
<1>1. row \in Checkpoint
  BY LatestRowFact DEF RowsOf, TypeOK
<1>2. row.snapshot \in Snapshot
  BY <1>1 DEF Checkpoint
<1>3. row.snapshot.applied \in Seq(Nat) /\ row.snapshot.signer \in Signers
  BY <1>2 DEF Snapshot
<1>4. SequenceOf(row) \in Nat
  BY <1>2, HashOfType DEF SequenceOf
<1>5. log[tr] \in Seq(Event) /\ Len(log[tr]) \in Nat
  BY LenProperties DEF TypeOK
<1>6. \A i \in (SequenceOf(row) + 1)..Len(log[tr]) : log[tr][i] \in Event
  BY <1>4, <1>5, ElementOfSeq
<1>7. after \in Seq(Event)
  BY <1>4, <1>5, <1>6, SubSeqProperties
<1>8. row.snapshot.applied \o Hashes(after) \in Seq(Nat)
  BY <1>3, <1>7, EventSeqTypes, ConcatProperties
<1>9. LastSigner(after) \in Signers
  BY <1>7, EventSeqTypes
<1> QED BY <1>3, <1>8, <1>9 DEF LoadedHead, Snapshot

-----------------------------------------------------------------------------
(* Types and the shape of transactions are invariant.                      *)

\* Checkpoints are only added, and adding one keeps a latest row.
LEMMA AddCheckpoint ==
    ASSUME TypeOK, CheckpointsHaveLatest, NEW row \in Checkpoint,
           checkpoints' = checkpoints \cup {row}
    PROVE  /\ (checkpoints \subseteq Checkpoint)'
           /\ CheckpointsHaveLatest'
           /\ \A tr \in Trajectories : Exists(tr) => Exists(tr)'
<1>1. \A r \in Checkpoint : SequenceOf(r) \in Nat
  BY HashOfType DEF SequenceOf, Checkpoint
<1>2. \A tr : RowsOf(tr)' = RowsOf(tr) \cup
                 {r \in {row} : r.snapshot.trajectory = tr}
  BY DEF RowsOf
<1>3. \A tr \in Trajectories : Exists(tr) => Exists(tr)'
  BY <1>2 DEF Exists
<1>4. ASSUME NEW tr \in Trajectories, Exists(tr)'
      PROVE  \E m \in RowsOf(tr)' : \A r \in RowsOf(tr)' : SequenceOf(r) <= SequenceOf(m)
  <2>1. CASE ~ Exists(tr)
    <3>1. RowsOf(tr)' = {row}
      BY <1>2, <1>4, <2>1 DEF Exists
    <3> QED BY <1>1, <3>1
  <2>2. CASE Exists(tr)
    <3>1. PICK m \in RowsOf(tr) : \A r \in RowsOf(tr) : SequenceOf(r) <= SequenceOf(m)
      BY <2>2 DEF CheckpointsHaveLatest
    <3>2. RowsOf(tr) \subseteq Checkpoint
      BY DEF RowsOf, TypeOK
    <3>3. CASE RowsOf(tr)' = RowsOf(tr)
      BY <3>1, <3>3
    <3>4. CASE RowsOf(tr)' = RowsOf(tr) \cup {row} /\ SequenceOf(row) <= SequenceOf(m)
      BY <3>1, <3>4
    <3>5. CASE RowsOf(tr)' = RowsOf(tr) \cup {row} /\ ~ (SequenceOf(row) <= SequenceOf(m))
      <4>1. \A r \in RowsOf(tr) : SequenceOf(r) <= SequenceOf(row)
        BY <1>1, <3>1, <3>2, <3>5
      <4> QED BY <1>1, <3>5, <4>1
    <3> QED BY <1>2, <3>3, <3>4, <3>5
  <2> QED BY <2>1, <2>2
<1>5. CheckpointsHaveLatest'
  BY <1>4 DEF CheckpointsHaveLatest, SequenceOf
<1> QED BY <1>3, <1>5 DEF TypeOK

\* A step that writes no checkpoint leaves every trajectory as it was.
LEMMA SameCheckpoints ==
    ASSUME CheckpointsHaveLatest, UNCHANGED checkpoints
    PROVE  /\ CheckpointsHaveLatest'
           /\ \A tr \in Trajectories : Exists(tr)' = Exists(tr)
BY DEF CheckpointsHaveLatest, Exists, RowsOf, SequenceOf

\* A new database is well typed.
LEMMA InitTypeInv == Init => TypeInv
<1> SUFFICES ASSUME Init PROVE TypeInv
  OBVIOUS
<1>1. TypeOK
  BY EmptySeq DEF Init, TypeOK, PCs, Answers
<1>2. CheckpointsHaveLatest
  BY DEF Init, CheckpointsHaveLatest, Exists, RowsOf
<1>3. TransactionOwned
  BY DEF Init, TransactionOwned
<1> QED BY <1>1, <1>2, <1>3 DEF TypeInv

\* The reads touch neither the database nor a transaction.
LEMMA ReadStepTypeInv ==
    ASSUME TypeInv, NEW t \in Threads, NEW tr \in Trajectories,
           \/ ReadCache(t, tr) \/ PeekCache(t, tr) \/ PeekMiss(t, tr)
           \/ CacheHit(t) \/ CacheMiss(t) \/ Replay(t) \/ FillCache(t)
           \/ PeekLoad(t) \/ OfferCache(t)
    PROVE  TypeInv'
<1> USE StoreAssumption DEF TypeInv
<1> USE DEF dbVars, txVars, readVars, callVars, PCs
<1>1. UNCHANGED <<dbVars, txVars, callVars>> /\ pc[t] # "loop"
  BY DEF ReadCache, PeekCache, PeekMiss, CacheHit, CacheMiss, Replay, FillCache,
         PeekLoad, OfferCache
<1>2. StoreOf[t] \in Stores
  OBVIOUS
<1>3. /\ pc' \in [Threads -> PCs]
      /\ \A u \in Threads : u # t => pc'[u] = pc[u]
      /\ pc'[t] \notin {"loop", "invalidate"}
      /\ target' \in [Threads -> Trajectories]
      /\ cache' \in [Stores -> [Trajectories -> Snapshot \cup {NoSnapshot}]]
      /\ found' \in [Threads -> Snapshot \cup {NoSnapshot}]
      /\ view' \in [Threads -> Snapshot \cup {NoSnapshot}]
      /\ \A u \in Threads : u # t => view'[u] = view[u]
  <2>1. CASE ReadCache(t, tr)
    BY <1>2, <2>1 DEF ReadCache, TypeOK
  <2>2. CASE PeekCache(t, tr)
    BY <1>2, <2>2 DEF PeekCache, TypeOK
  <2>3. CASE PeekMiss(t, tr)
    BY <2>3 DEF PeekMiss, TypeOK
  <2>4. CASE CacheHit(t)
    BY <2>4 DEF CacheHit, TypeOK
  <2>5. CASE CacheMiss(t)
    BY <1>2, <2>5 DEF CacheMiss, TypeOK
  <2>6. CASE Replay(t)
    <3>1. Loadable(StoreOf[t], target[t]) => LoadedHead(target[t]) \in Snapshot
      BY LoadedHeadType DEF Loadable, TypeOK
    <3>2. PICK x \in Snapshot \cup {NoSnapshot}, q \in {"fill", "idle"} :
             found' = [found EXCEPT ![t] = x] /\ pc' = [pc EXCEPT ![t] = q]
      BY <2>6, <3>1 DEF Replay
    <3>3. UNCHANGED <<cache, target, view>>
      BY <2>6 DEF Replay
    <3> QED BY <3>2, <3>3 DEF TypeOK
  <2>7. CASE FillCache(t)
    BY <1>2, <2>7 DEF FillCache, TypeOK
  <2>8. CASE PeekLoad(t)
    <3>1. Loadable(StoreOf[t], target[t]) => LoadedHead(target[t]) \in Snapshot
      BY LoadedHeadType DEF Loadable, TypeOK
    <3>2. PICK x \in Snapshot \cup {NoSnapshot}, q \in {"offer", "idle"} :
             found' = [found EXCEPT ![t] = x] /\ pc' = [pc EXCEPT ![t] = q]
      BY <2>8, <3>1 DEF PeekLoad
    <3>3. UNCHANGED <<cache, target, view>>
      BY <2>8 DEF PeekLoad
    <3> QED BY <3>2, <3>3 DEF TypeOK
  <2>9. CASE OfferCache(t)
    BY <1>2, <2>9 DEF OfferCache, TypeOK
  <2> QED BY <2>1, <2>2, <2>3, <2>4, <2>5, <2>6, <2>7, <2>8, <2>9
<1>4. TypeOK'
  BY <1>1, <1>3 DEF TypeOK
<1>5. CheckpointsHaveLatest' /\ \A r \in Trajectories : Exists(r)' = Exists(r)
  BY <1>1, SameCheckpoints
<1>6. TransactionOwned'
  <2>1. (\A u \in Threads : pc[u] = "loop" =>
           writer = u /\ view[u] # NoSnapshot /\ Exists(view[u].trajectory))'
    <3>1. \A x : Exists(x)' = Exists(x)
      BY <1>1 DEF Exists, RowsOf
    <3>2. \A u \in Threads : pc'[u] = "loop" => pc[u] = "loop" /\ view'[u] = view[u]
      BY <1>1, <1>3
    <3> QED BY <1>1, <3>1, <3>2 DEF TransactionOwned
  <2>2. \A u \in Threads : pc'[u] = "invalidate" => view'[u] # NoSnapshot
    BY <1>3 DEF TransactionOwned
  <2>3. txEvents' # <<>> \/ txRows' # {} => \E u \in Threads : pc'[u] = "loop"
    BY <1>1, <1>3 DEF TransactionOwned
  <2> QED BY <2>1, <2>2, <2>3 DEF TransactionOwned
<1> QED BY <1>4, <1>5, <1>6

\* A commit that ends before its loop, or opens its transaction.
LEMMA SubmitTypeInv ==
    ASSUME TypeInv, NEW t \in Threads, NEW b \in Jobs[t], Submit(t, b)
    PROVE  TypeInv'
<1> USE StoreAssumption DEF TypeInv
<1> USE DEF dbVars, txVars, readVars, callVars, PCs, Answers, Successes, MaySubmit, Finish
<1>1. b \in Seq([key : Keys, request : Requests])
  OBVIOUS
<1>2. UNCHANGED <<dbVars, txEvents, txRows, cache, readVars>> /\ pc[t] = "idle"
  BY DEF Submit, SubmitBusy, SubmitUnloadable, SubmitReplay, SubmitMixed, SubmitStale,
         SubmitBegin
<1>3. CheckpointsHaveLatest' /\ \A x : Exists(x)' = Exists(x)
  BY <1>2, SameCheckpoints DEF Exists, RowsOf
<1>4. \A tr, k : Entry(idem, tr, k) \in SUBSET Receipt
  BY DEF Entry, TypeOK
<1>5. CASE \/ SubmitBusy(t, b) \/ SubmitUnloadable(t, b)
           \/ SubmitMixed(t, b) \/ SubmitStale(t, b)
  <2>1. UNCHANGED <<dbVars, txVars, cache, readVars>>
    BY <1>5 DEF SubmitBusy, SubmitUnloadable, SubmitMixed, SubmitStale
  <2>2. PICK outcome \in {"busy", "error", "conflict", "stale"} : Finish(t, outcome)
    BY <1>5 DEF SubmitBusy, SubmitUnloadable, SubmitMixed, SubmitStale
  <2>3. receipts' = [receipts EXCEPT ![t] = {}]
    BY <1>5 DEF SubmitBusy, SubmitUnloadable, SubmitMixed, SubmitStale
  <2>4. TypeOK'
    BY <2>1, <2>2, <2>3, EmptySeq DEF TypeOK
  <2>5. TransactionOwned'
    BY <1>2, <1>3, <2>1, <2>2 DEF TransactionOwned, TypeOK
  <2> QED BY <1>3, <2>4, <2>5
<1>6. CASE SubmitReplay(t, b)
  <2>1. receipts' \in [Threads -> SUBSET Receipt]
    <3>1. UNION {Entry(idem, view[t].trajectory, b[i].key) : i \in DOMAIN b} \in SUBSET Receipt
      BY <1>4
    <3> QED BY <1>6, <3>1 DEF SubmitReplay, TypeOK
  <2>2. TypeOK'
    BY <1>2, <1>6, <2>1, EmptySeq DEF SubmitReplay, TypeOK
  <2>3. \A u \in Threads : pc[u] # "loop"
    BY <1>6 DEF SubmitReplay, TransactionOwned
  <2>4. TransactionOwned'
    BY <1>2, <1>6, <2>3 DEF SubmitReplay, TransactionOwned, TypeOK
  <2> QED BY <1>3, <2>2, <2>4
<1>7. CASE SubmitBegin(t, b)
  <2>1. TypeOK'
    BY <1>1, <1>2, <1>7 DEF SubmitBegin, TypeOK
  <2>2. \A u \in Threads : pc[u] # "loop"
    BY <1>7 DEF SubmitBegin, TransactionOwned
  <2>3. TransactionOwned'
    BY <1>2, <1>3, <1>7, <2>2 DEF SubmitBegin, Loadable, TransactionOwned, TypeOK
  <2> QED BY <1>3, <2>1, <2>3
<1> QED BY <1>5, <1>6, <1>7 DEF Submit

\* The event and the idempotency row an iteration of the loop inserts.
LEMMA NextEventType ==
    ASSUME TypeOK, NEW t \in Threads, NEW tr \in Trajectories,
           NEW p \in [key : Keys, request : Requests]
    PROVE  /\ NextEvent(t, tr, p) \in Event
           /\ NextRow(tr, NextEvent(t, tr, p)) \in Receipt
<1>1. log[tr] \in Seq(Event) /\ txEvents \in Seq(Event)
  BY DEF TypeOK
<1>2. Len(log[tr]) \in Nat /\ Len(txEvents) \in Nat /\ minted \in Nat
  BY <1>1, LenProperties DEF TypeOK
<1>3. log[tr] \o txEvents \in Seq(Event)
  BY <1>1, ConcatProperties
<1>4. /\ LastHash(log[tr] \o txEvents) \in Nat
      /\ LastSigner(log[tr] \o txEvents) \in Signers
  BY <1>3, EventSeqTypes
<1>5. KeyOf[StoreOf[t]] \in Signers
  BY StoreAssumption DEF Signers
<1>6. NextEvent(t, tr, p) \in Event
  BY <1>2, <1>4, <1>5 DEF NextEvent, Event
<1>7. NextRow(tr, NextEvent(t, tr, p)) \in Receipt
  BY <1>2, <1>6 DEF NextRow, Receipt, Event
<1> QED BY <1>6, <1>7

\* The loop of commit_events, up to the COMMIT.
LEMMA LoopTypeInv ==
    ASSUME TypeInv, NEW t \in Threads,
           \/ StageEvent(t) \/ StageRepeat(t) \/ StageConflict(t) \/ StageRejected(t)
    PROVE  TypeInv'
<1> USE StoreAssumption DEF TypeInv
<1> USE DEF dbVars, txVars, readVars, callVars, PCs, Answers, Successes
<1>1. /\ UNCHANGED <<dbVars, cache, readVars, receipts>>
      /\ pc[t] = "loop" /\ todo[t] # <<>>
  BY DEF StageEvent, StageRepeat, StageConflict, StageRejected
<1>2. CheckpointsHaveLatest' /\ \A x : Exists(x)' = Exists(x)
  BY <1>1, SameCheckpoints DEF Exists, RowsOf
<1>3. /\ view[t].trajectory \in Trajectories
      /\ \A u \in Threads : pc[u] = "loop" => u = t
  BY <1>1 DEF TransactionOwned, TypeOK, Snapshot
<1>4. /\ Head(todo[t]) \in [key : Keys, request : Requests]
      /\ Tail(todo[t]) \in Seq([key : Keys, request : Requests])
  <2>1. todo[t] \in Seq([key : Keys, request : Requests])
    BY DEF TypeOK
  <2> QED BY <1>1, <2>1, HeadTailProperties
<1>5. CASE StageEvent(t)
  <2> DEFINE event == NextEvent(t, view[t].trajectory, Head(todo[t]))
             row == NextRow(view[t].trajectory, event)
  <2>1. event \in Event /\ row \in Receipt
    BY <1>3, <1>4, NextEventType
  <2>2. Append(txEvents, event) \in Seq(Event)
    BY <2>1, AppendProperties DEF TypeOK
  <2>3. /\ txEvents' = Append(txEvents, event) /\ txRows' = txRows \cup {row}
        /\ todo' = [todo EXCEPT ![t] = Tail(todo[t])]
        /\ UNCHANGED <<writer, pc, answer>>
    BY <1>5 DEF StageEvent
  <2> HIDE DEF event, row
  <2>4. TypeOK'
    BY <1>1, <1>4, <2>1, <2>2, <2>3 DEF TypeOK
  <2>5. TransactionOwned'
    BY <1>1, <1>2, <2>3 DEF TransactionOwned
  <2> QED BY <1>2, <2>4, <2>5
<1>6. CASE StageRepeat(t)
  <2>1. TypeOK'
    BY <1>1, <1>4, <1>6 DEF StageRepeat, TypeOK
  <2>2. TransactionOwned'
    BY <1>1, <1>2, <1>6 DEF StageRepeat, TransactionOwned
  <2> QED BY <1>2, <2>1, <2>2
<1>7. CASE StageConflict(t) \/ StageRejected(t)
  <2>1. PICK outcome \in {"conflict", "error"} : EndTransaction /\ Finish(t, outcome)
    BY <1>7 DEF StageConflict, StageRejected
  <2>2. TypeOK'
    BY <1>1, <2>1, EmptySeq DEF EndTransaction, Finish, TypeOK
  <2>3. TransactionOwned'
    BY <1>1, <1>2, <1>3, <2>1 DEF EndTransaction, Finish, TransactionOwned, TypeOK
  <2> QED BY <1>2, <2>2, <2>3
<1> QED BY <1>5, <1>6, <1>7

\* commit_events adds one well-typed checkpoint or none.
LEMMA AutoCheckpointType ==
    ASSUME TypeOK, CheckpointsHaveLatest, NEW tr \in Trajectories, Exists(tr)
    PROVE  AutoCheckpoint(tr) = {} \/ \E row \in Checkpoint : AutoCheckpoint(tr) = {row}
<1> DEFINE base == LoadedHead(tr)
           head == [trajectory |-> tr, applied |-> base.applied \o Hashes(txEvents),
                    signer |-> LastSigner(txEvents)]
<1>1. base \in Snapshot
  BY LoadedHeadType
<1>2. txEvents \in Seq(Event) /\ log[tr] \in Seq(Event)
  BY DEF TypeOK
<1>3. Hashes(txEvents) \in Seq(Nat) /\ LastSigner(txEvents) \in Signers
  BY <1>2, EventSeqTypes
<1>4. base.applied \o Hashes(txEvents) \in Seq(Nat)
  BY <1>1, <1>3, ConcatProperties DEF Snapshot
<1>5. head \in Snapshot
  BY <1>3, <1>4 DEF Snapshot
<1>6. EventCount(tr) \in Nat
  BY <1>2, LenProperties DEF EventCount
<1>7. CheckpointRow(head, EventCount(tr)) \in Checkpoint
  BY <1>5, <1>6, CheckpointRowType
<1> QED BY <1>7 DEF AutoCheckpoint

\* COMMIT, and the invalidation of the cache.
LEMMA CommitTypeInv ==
    ASSUME TypeInv, NEW t \in Threads, CommitTx(t) \/ InvalidateCache(t)
    PROVE  TypeInv'
<1> USE StoreAssumption DEF TypeInv
<1> USE DEF dbVars, txVars, readVars, callVars, PCs, Answers, Successes
<1>1. CASE CommitTx(t)
  <2> DEFINE tr == view[t].trajectory
  <2> HIDE DEF tr
  <2>1. /\ pc[t] = "loop" /\ writer = t /\ view[t] # NoSnapshot /\ Exists(tr)
        /\ \A u \in Threads : pc[u] = "loop" => u = t
    BY <1>1 DEF CommitTx, TransactionOwned, tr
  <2>2. tr \in Trajectories
    BY <2>1 DEF TypeOK, Snapshot, tr
  <2>3. /\ log' = [log EXCEPT ![tr] = log[tr] \o txEvents]
        /\ idem' = idem \cup txRows
        /\ checkpoints' = checkpoints \cup AutoCheckpoint(tr)
        /\ minted' = minted + Len(txEvents)
        /\ receipts' = [receipts EXCEPT ![t] = txRows]
        /\ pc' = [pc EXCEPT ![t] = "invalidate"]
        /\ writer' = NoThread /\ txEvents' = <<>> /\ txRows' = {}
        /\ UNCHANGED <<cache, target, found, view, todo, answer>>
    BY <1>1 DEF CommitTx, EndTransaction, tr
  <2>4. CheckpointsHaveLatest' /\ (checkpoints \subseteq Checkpoint)'
    <3>1. CASE AutoCheckpoint(tr) = {}
      BY <2>3, <3>1, SameCheckpoints DEF TypeOK
    <3>2. ASSUME NEW row \in Checkpoint, AutoCheckpoint(tr) = {row}
          PROVE  CheckpointsHaveLatest' /\ (checkpoints \subseteq Checkpoint)'
      BY <2>3, <3>2, AddCheckpoint
    <3> QED BY <2>1, <2>2, <3>1, <3>2, AutoCheckpointType
  <2>5. log[tr] \o txEvents \in Seq(Event) /\ Len(txEvents) \in Nat
    BY <2>2, ConcatProperties, LenProperties DEF TypeOK
  <2>6. log' \in [Trajectories -> Seq(Event)] /\ minted' \in Nat
    BY <2>2, <2>3, <2>5 DEF TypeOK
  <2>7. TypeOK'
    BY <2>3, <2>4, <2>6, EmptySeq DEF TypeOK
  <2>8. TransactionOwned'
    BY <2>1, <2>3 DEF TransactionOwned, TypeOK
  <2> QED BY <2>4, <2>7, <2>8
<1>2. CASE InvalidateCache(t)
  <2>1. view[t] # NoSnapshot /\ view[t].trajectory \in Trajectories
    BY <1>2 DEF InvalidateCache, TransactionOwned, TypeOK, Snapshot
  <2>2. UNCHANGED <<dbVars, txVars, readVars, receipts>> /\ Finish(t, "committed")
    BY <1>2 DEF InvalidateCache
  <2>3. cache' \in [Stores -> [Trajectories -> Snapshot \cup {NoSnapshot}]]
    BY <1>2, <2>1 DEF InvalidateCache, TypeOK
  <2>4. TypeOK'
    BY <2>2, <2>3, EmptySeq DEF Finish, TypeOK
  <2>5. CheckpointsHaveLatest' /\ \A x : Exists(x)' = Exists(x)
    BY <2>2, SameCheckpoints DEF Exists, RowsOf
  <2>6. TransactionOwned'
    BY <1>2, <2>2, <2>5 DEF InvalidateCache, Finish, TransactionOwned, TypeOK
  <2> QED BY <2>4, <2>5, <2>6
<1> QED BY <1>1, <1>2

\* init_trajectory, save_snapshot, close and a crash.
LEMMA OtherTypeInv ==
    ASSUME TypeInv,
           \/ \E t \in Threads, tr \in Trajectories : InitTrajectory(t, tr)
           \/ \E t \in Threads : SaveSnapshot(t) \/ Close(t)
           \/ \E s \in Stores : Crash(s)
    PROVE  TypeInv'
<1> USE StoreAssumption DEF TypeInv
<1> USE DEF dbVars, txVars, readVars, callVars, PCs, Answers, Successes
<1>1. ASSUME NEW t \in Threads, NEW tr \in Trajectories, InitTrajectory(t, tr) PROVE TypeInv'
  <2>1. Genesis(tr) \in Snapshot
    BY EmptySeq DEF Genesis, Snapshot, Signers
  <2>2. CheckpointRow(Genesis(tr), 0) \in Checkpoint
    BY <2>1, CheckpointRowType
  <2>3. /\ CheckpointsHaveLatest' /\ (checkpoints \subseteq Checkpoint)'
        /\ \A x \in Trajectories : Exists(x) => Exists(x)'
    BY <1>1, <2>2, AddCheckpoint DEF InitTrajectory
  <2>4. TypeOK'
    BY <1>1, <2>1, <2>3 DEF InitTrajectory, TypeOK
  <2>5. \A u \in Threads : pc[u] # "loop"
    BY <1>1 DEF InitTrajectory, TransactionOwned
  <2>6. TransactionOwned'
    BY <1>1, <2>5 DEF InitTrajectory, TransactionOwned
  <2> QED BY <2>3, <2>4, <2>6
<1>2. ASSUME NEW t \in Threads, SaveSnapshot(t) PROVE TypeInv'
  <2>1. view[t] \in Snapshot
    BY <1>2 DEF SaveSnapshot, TypeOK
  <2>2. CheckpointRow(view[t], Len(view[t].applied)) \in Checkpoint
    BY <2>1, HashOfType, CheckpointRowType
  <2>3. /\ CheckpointsHaveLatest' /\ (checkpoints \subseteq Checkpoint)'
        /\ \A x \in Trajectories : Exists(x) => Exists(x)'
    BY <1>2, <2>2, AddCheckpoint DEF SaveSnapshot
  <2>4. TypeOK'
    BY <1>2, <2>3 DEF SaveSnapshot, TypeOK
  <2>5. \A u \in Threads : pc[u] # "loop"
    BY <1>2 DEF SaveSnapshot, TransactionOwned
  <2>6. TransactionOwned'
    BY <1>2, <2>5 DEF SaveSnapshot, TransactionOwned
  <2> QED BY <2>3, <2>4, <2>6
<1>3. ASSUME NEW t \in Threads, Close(t) PROVE TypeInv'
  <2>1. TypeOK'
    BY <1>3, EmptySeq DEF Close, EndTransaction, TypeOK
  <2>2. CheckpointsHaveLatest'
    BY <1>3, SameCheckpoints DEF Close
  <2>3. \A u \in Threads : pc[u] # "loop"
    BY <1>3 DEF Close, TransactionOwned
  <2>4. TransactionOwned'
    BY <1>3, <2>3 DEF Close, EndTransaction, TransactionOwned
  <2> QED BY <2>1, <2>2, <2>4
<1>4. ASSUME NEW s \in Stores, Crash(s) PROVE TypeInv'
  <2>1. /\ writer' \in Threads \cup {NoThread} /\ txEvents' \in Seq(Event)
        /\ (txRows \subseteq Receipt)'
    <3>1. EndTransaction \/ UNCHANGED txVars
      BY <1>4 DEF Crash
    <3>2. CASE EndTransaction
      BY <3>2, EmptySeq DEF EndTransaction
    <3>3. CASE UNCHANGED txVars
      BY <3>3 DEF TypeOK
    <3> QED BY <3>1, <3>2, <3>3
  <2>2. cache' \in [Stores -> [Trajectories -> Snapshot \cup {NoSnapshot}]]
    BY <1>4 DEF Crash, TypeOK
  <2>3. /\ pc' = [t \in Threads |-> IF StoreOf[t] = s THEN "idle" ELSE pc[t]]
        /\ found' = [t \in Threads |-> IF StoreOf[t] = s THEN NoSnapshot ELSE found[t]]
        /\ view' = [t \in Threads |-> IF StoreOf[t] = s THEN NoSnapshot ELSE view[t]]
        /\ todo' = [t \in Threads |-> IF StoreOf[t] = s THEN <<>> ELSE todo[t]]
        /\ answer' = [t \in Threads |-> IF StoreOf[t] = s THEN "none" ELSE answer[t]]
        /\ receipts' = [t \in Threads |-> IF StoreOf[t] = s THEN {} ELSE receipts[t]]
        /\ UNCHANGED <<dbVars, target>>
    BY <1>4 DEF Crash
  <2>4. TypeOK'
    BY <2>1, <2>2, <2>3, EmptySeq DEF TypeOK
  <2>5. CheckpointsHaveLatest' /\ \A x : Exists(x)' = Exists(x)
    BY <2>3, SameCheckpoints DEF Exists, RowsOf
  <2>6. \A u \in Threads : pc'[u] = "loop" =>
           pc[u] = "loop" /\ view'[u] = view[u] /\ writer = u /\ UNCHANGED txVars
    BY <1>4, <2>3 DEF Crash, TransactionOwned
  <2>7. txEvents' # <<>> \/ txRows' # {} => \E u \in Threads : pc'[u] = "loop"
    <3>1. CASE writer \in Threads /\ StoreOf[writer] = s
      BY <1>4, <3>1 DEF Crash, EndTransaction
    <3>2. CASE ~ (writer \in Threads /\ StoreOf[writer] = s)
      BY <1>4, <2>3, <3>2 DEF Crash, TransactionOwned
    <3> QED BY <3>1, <3>2
  <2>8. TransactionOwned'
    BY <2>3, <2>5, <2>6, <2>7 DEF TransactionOwned
  <2> QED BY <2>4, <2>5, <2>8
<1> QED BY <1>1, <1>2, <1>3, <1>4

\* Every step of the store keeps the types.
LEMMA NextTypeInv == TypeInv /\ [Next]_vars => TypeInv'
<1> SUFFICES ASSUME TypeInv, [Next]_vars PROVE TypeInv'
  OBVIOUS
<1>1. ASSUME NEW t \in Threads, NEW tr \in Trajectories, Read(t, tr) PROVE TypeInv'
  BY <1>1, ReadStepTypeInv DEF Read
<1>2. ASSUME NEW t \in Threads, NEW b \in Jobs[t], Submit(t, b) PROVE TypeInv'
  BY <1>2, SubmitTypeInv
<1>3. ASSUME NEW t \in Threads, Continue(t) PROVE TypeInv'
  <2>1. target[t] \in Trajectories
    BY DEF TypeInv, TypeOK
  <2> QED BY <1>3, <2>1, ReadStepTypeInv, LoopTypeInv, CommitTypeInv DEF Continue
<1>4. CASE UNCHANGED vars
  <2> USE <1>4 DEF vars, dbVars, txVars, readVars, callVars
  <2>1. TypeOK'
    BY DEF TypeInv, TypeOK
  <2>2. CheckpointsHaveLatest'
    BY SameCheckpoints DEF TypeInv
  <2>3. TransactionOwned'
    BY DEF TypeInv, TransactionOwned, Exists, RowsOf
  <2> QED BY <2>1, <2>2, <2>3 DEF TypeInv
<1> QED BY <1>1, <1>2, <1>3, <1>4, OtherTypeInv DEF Next

\* In every state the tables, the caches and the locals of the threads have
\* their types, and a transaction with staged writes belongs to a thread that is
\* in the loop of commit_events.
THEOREM TypesInvariant == Spec => []TypeInv
<1> QED BY InitTypeInv, NextTypeInv, PTL DEF Spec

\* Every reachable state of the store is well typed.
THEOREM TypeCorrect == Spec => []TypeOK
<1>1. TypeInv => TypeOK
  BY DEF TypeInv
<1> QED BY <1>1, TypesInvariant, PTL

-----------------------------------------------------------------------------
(* Exactly-once commits.                                                   *)

\* An element of a concatenation is one of the first sequence or, shifted, one
\* of the second.
LEMMA ConcatElements ==
    ASSUME NEW S, NEW a \in Seq(S), NEW b \in Seq(S)
    PROVE  /\ DOMAIN (a \o b) = 1..(Len(a) + Len(b))
           /\ \A i \in 1..Len(a) : (a \o b)[i] = a[i]
           /\ \A i \in DOMAIN (a \o b) : i > Len(a) =>
                 i - Len(a) \in DOMAIN b /\ (a \o b)[i] = b[i - Len(a)]
BY ConcatProperties, LenProperties

-----------------------------------------------------------------------------
(* Exactly once.                                                           *)

\* Every logged event has its idempotency row.
LoggedKeysIndexed ==
    \A tr \in Trajectories : \A i \in DOMAIN log[tr] :
        Entry(idem, tr, log[tr][i].key) # {}

\* The events staged by the open transaction carry distinct keys, each with a
\* staged row and none in the table.
StagedKeysFresh ==
    /\ \A i, j \in DOMAIN txEvents : txEvents[i].key = txEvents[j].key => i = j
    /\ \A t \in Threads : pc[t] = "loop" =>
          \A i \in DOMAIN txEvents :
             /\ Entry(txRows, view[t].trajectory, txEvents[i].key) # {}
             /\ Entry(idem, view[t].trajectory, txEvents[i].key) = {}

KeyInv == UniqueKeys /\ LoggedKeysIndexed /\ StagedKeysFresh

\* An empty store has no key twice.
LEMMA InitKeyInv == Init => KeyInv
BY DEF Init, KeyInv, UniqueKeys, LoggedKeysIndexed, StagedKeysFresh

\* A step that stages and publishes nothing keeps KeyInv.
LEMMA QuietKeyInv ==
    ASSUME KeyInv, UNCHANGED <<log, idem>>,
           \/ txEvents' = <<>>
           \/ /\ UNCHANGED <<txEvents, txRows>>
              /\ \A t \in Threads : pc'[t] = "loop" => pc[t] = "loop" /\ view'[t] = view[t]
    PROVE  KeyInv'
<1>1. UniqueKeys' /\ LoggedKeysIndexed'
  BY DEF KeyInv, UniqueKeys, LoggedKeysIndexed, Entry
<1>2. CASE txEvents' = <<>>
  <2>1. DOMAIN txEvents' = {}
    BY <1>2
  <2>2. StagedKeysFresh'
    BY <2>1 DEF StagedKeysFresh
  <2> QED BY <1>1, <2>2 DEF KeyInv
<1>3. CASE /\ UNCHANGED <<txEvents, txRows>>
           /\ \A t \in Threads : pc'[t] = "loop" => pc[t] = "loop" /\ view'[t] = view[t]
  <2>1. StagedKeysFresh'
    BY <1>3 DEF KeyInv, StagedKeysFresh, Entry
  <2> QED BY <1>1, <2>1 DEF KeyInv
<1> QED BY <1>2, <1>3

\* An iteration of the loop of commit_events that stages an event looked its
\* key up first: the staged keys stay new and different.
LEMMA StageKeyInv ==
    ASSUME TypeInv, KeyInv, NEW t \in Threads, StageEvent(t)
    PROVE  KeyInv'
<1> DEFINE tr == view[t].trajectory
           p == Head(todo[t])
           event == NextEvent(t, tr, p)
           row == NextRow(tr, event)
<1>1. /\ pc[t] = "loop" /\ todo[t] # <<>>
      /\ Entry(idem \cup txRows, tr, p.key) = {}
      /\ txEvents' = Append(txEvents, event)
      /\ txRows' = txRows \cup {row}
      /\ UNCHANGED <<log, idem, pc, view>>
  BY DEF StageEvent, dbVars, readVars
<1>2. /\ event.key = p.key /\ row.key = p.key /\ row.trajectory = tr
  BY DEF NextEvent, NextRow
<1> HIDE DEF event, row, p
<1>3. \A u \in Threads : pc[u] = "loop" => u = t
  BY <1>1 DEF TypeInv, TransactionOwned
<1>4. txEvents \in Seq(Event) /\ Len(txEvents) \in Nat /\ DOMAIN txEvents = 1..Len(txEvents)
  BY LenProperties DEF TypeInv, TypeOK
<1>5. /\ DOMAIN txEvents' = 1..(Len(txEvents) + 1)
      /\ \A i \in 1..Len(txEvents) : txEvents'[i] = txEvents[i]
      /\ txEvents'[Len(txEvents) + 1] = event
  BY <1>1, <1>4
<1>6. \A i \in 1..Len(txEvents) : txEvents[i].key # p.key
  BY <1>1, <1>4 DEF KeyInv, StagedKeysFresh, Entry
<1>7. \A i, j \in DOMAIN txEvents' : txEvents'[i].key = txEvents'[j].key => i = j
  BY <1>2, <1>4, <1>5, <1>6 DEF KeyInv, StagedKeysFresh
<1>8. ASSUME NEW i \in DOMAIN txEvents'
      PROVE  /\ Entry(txRows', tr, txEvents'[i].key) # {}
             /\ Entry(idem, tr, txEvents'[i].key) = {}
  <2>1. CASE i \in 1..Len(txEvents)
    BY <1>1, <1>4, <1>5, <2>1 DEF KeyInv, StagedKeysFresh, Entry
  <2>2. CASE i = Len(txEvents) + 1
    BY <1>1, <1>2, <1>5, <2>2 DEF Entry
  <2> QED BY <1>4, <1>5, <1>8, <2>1, <2>2
<1>9. StagedKeysFresh'
  BY <1>1, <1>3, <1>7, <1>8 DEF StagedKeysFresh, Entry
<1>10. UniqueKeys' /\ LoggedKeysIndexed'
  BY <1>1 DEF KeyInv, UniqueKeys, LoggedKeysIndexed, Entry
<1> QED BY <1>9, <1>10 DEF KeyInv

\* COMMIT appends events whose keys are not in the log, and indexes them.
LEMMA CommitKeyInv ==
    ASSUME TypeInv, KeyInv, NEW t \in Threads, CommitTx(t)
    PROVE  KeyInv'
<1> DEFINE tr == view[t].trajectory
<1>1. /\ pc[t] = "loop" /\ view[t] # NoSnapshot
      /\ log' = [log EXCEPT ![tr] = log[tr] \o txEvents]
      /\ idem' = idem \cup txRows
      /\ txEvents' = <<>> /\ txRows' = {}
  BY DEF CommitTx, EndTransaction, TypeInv, TransactionOwned
<1>2. tr \in Trajectories
  BY <1>1 DEF TypeInv, TypeOK, Snapshot
<1> HIDE DEF tr
<1>3. /\ log \in [Trajectories -> Seq(Event)] /\ log[tr] \in Seq(Event) /\ txEvents \in Seq(Event)
      /\ Len(log[tr]) \in Nat /\ DOMAIN log[tr] = 1..Len(log[tr])
      /\ Len(txEvents) \in Nat /\ DOMAIN txEvents = 1..Len(txEvents)
  BY <1>2, LenProperties DEF TypeInv, TypeOK
<1>4. /\ log'[tr] = log[tr] \o txEvents
      /\ \A x \in Trajectories : x # tr => log'[x] = log[x]
  BY <1>1, <1>2, <1>3
<1>5. /\ DOMAIN log'[tr] = 1..(Len(log[tr]) + Len(txEvents))
      /\ \A i \in 1..Len(log[tr]) : log'[tr][i] = log[tr][i]
      /\ \A i \in DOMAIN log'[tr] : i > Len(log[tr]) =>
            /\ i - Len(log[tr]) \in DOMAIN txEvents
            /\ log'[tr][i] = txEvents[i - Len(log[tr])]
  BY <1>3, <1>4, ConcatElements
<1>6. ASSUME NEW i \in DOMAIN log[tr], NEW j \in DOMAIN txEvents
      PROVE  log[tr][i].key # txEvents[j].key
  <2>1. Entry(idem, tr, log[tr][i].key) # {}
    BY <1>2 DEF KeyInv, LoggedKeysIndexed
  <2>2. Entry(idem, tr, txEvents[j].key) = {}
    BY <1>1 DEF KeyInv, StagedKeysFresh, tr
  <2> QED BY <2>1, <2>2
<1>7. ASSUME NEW i \in DOMAIN log'[tr], NEW j \in DOMAIN log'[tr],
             log'[tr][i].key = log'[tr][j].key
      PROVE  i = j
  <2>0. i \in 1..(Len(log[tr]) + Len(txEvents)) /\ j \in 1..(Len(log[tr]) + Len(txEvents))
    BY <1>5
  <2>1. CASE i <= Len(log[tr]) /\ j <= Len(log[tr])
    <3>1. i \in DOMAIN log[tr] /\ j \in DOMAIN log[tr]
      BY <1>3, <2>0, <2>1
    <3>2. log[tr][i].key = log[tr][j].key
      BY <1>3, <1>5, <1>7, <3>1
    <3> QED BY <1>2, <3>1, <3>2 DEF KeyInv, UniqueKeys
  <2>2. CASE i > Len(log[tr]) /\ j > Len(log[tr])
    <3>1. /\ i - Len(log[tr]) \in DOMAIN txEvents /\ j - Len(log[tr]) \in DOMAIN txEvents
          /\ log'[tr][i] = txEvents[i - Len(log[tr])]
          /\ log'[tr][j] = txEvents[j - Len(log[tr])]
      BY <1>5, <2>2
    <3>2. i - Len(log[tr]) = j - Len(log[tr])
      BY <1>7, <3>1 DEF KeyInv, StagedKeysFresh
    <3> QED BY <1>3, <2>0, <3>2
  <2>3. ASSUME NEW x \in DOMAIN log'[tr], NEW y \in DOMAIN log'[tr],
               x <= Len(log[tr]), y > Len(log[tr])
        PROVE  log'[tr][x].key # log'[tr][y].key
    <3>1. y - Len(log[tr]) \in DOMAIN txEvents /\ log'[tr][y] = txEvents[y - Len(log[tr])]
      BY <1>5, <2>3
    <3>2. x \in DOMAIN log[tr] /\ log'[tr][x] = log[tr][x]
      BY <1>3, <1>5, <2>3
    <3> QED BY <1>6, <3>1, <3>2
  <2> QED BY <1>3, <1>7, <2>0, <2>1, <2>2, <2>3
<1>8. UniqueKeys'
  BY <1>4, <1>7 DEF KeyInv, UniqueKeys
<1>9. ASSUME NEW x \in Trajectories, NEW i \in DOMAIN log'[x]
      PROVE  Entry(idem', x, log'[x][i].key) # {}
  <2>1. CASE x # tr \/ i <= Len(log[tr])
    <3>1. i \in DOMAIN log[x] /\ log'[x][i] = log[x][i]
      BY <1>3, <1>4, <1>5, <2>1, <1>9
    <3> QED BY <1>1, <3>1 DEF KeyInv, LoggedKeysIndexed, Entry
  <2>2. CASE x = tr /\ i > Len(log[tr])
    <3>1. i - Len(log[tr]) \in DOMAIN txEvents /\ log'[x][i] = txEvents[i - Len(log[tr])]
      BY <1>5, <1>9, <2>2
    <3>2. Entry(txRows, tr, log'[x][i].key) # {}
      BY <1>1, <3>1 DEF KeyInv, StagedKeysFresh, tr
    <3> QED BY <1>1, <2>2, <3>2 DEF Entry
  <2>3. x = tr => i \in Nat
    BY <1>3, <1>5, <1>9
  <2> QED BY <1>3, <2>1, <2>2, <2>3
<1>10. LoggedKeysIndexed'
  BY <1>9 DEF LoggedKeysIndexed, Entry
<1>11. StagedKeysFresh'
  <2>1. DOMAIN txEvents' = {}
    BY <1>1
  <2> QED BY <2>1 DEF StagedKeysFresh
<1> QED BY <1>8, <1>10, <1>11 DEF KeyInv

\* Every step of the store keeps the keys apart.
LEMMA NextKeyInv == TypeInv /\ KeyInv /\ [Next]_vars => KeyInv'
<1> SUFFICES ASSUME TypeInv, KeyInv, [Next]_vars PROVE KeyInv'
  OBVIOUS
<1> USE DEF dbVars, txVars, readVars, callVars
<1>1. ASSUME NEW t \in Threads, NEW tr \in Trajectories, InitTrajectory(t, tr) PROVE KeyInv'
  <2>1. txEvents' = <<>>
    BY <1>1, StoreAssumption DEF InitTrajectory, TypeInv, TransactionOwned
  <2> QED BY <1>1, <2>1, QuietKeyInv DEF InitTrajectory
<1>2. ASSUME NEW t \in Threads, NEW tr \in Trajectories,
             \/ Read(t, tr) \/ CacheHit(t) \/ CacheMiss(t) \/ Replay(t) \/ FillCache(t)
             \/ PeekLoad(t) \/ OfferCache(t)
      PROVE  KeyInv'
  <2>1. /\ UNCHANGED <<log, idem, txEvents, txRows>>
        /\ \A u \in Threads : pc'[u] = "loop" => pc[u] = "loop" /\ view'[u] = view[u]
    <3>1. /\ UNCHANGED <<log, idem, txEvents, txRows>> /\ pc[t] # "loop"
          /\ \E q \in PCs \ {"loop"} : pc' = [pc EXCEPT ![t] = q] \/ UNCHANGED pc
          /\ \E x : view' = [view EXCEPT ![t] = x] \/ UNCHANGED view
      BY <1>2 DEF Read, ReadCache, PeekCache, PeekMiss, CacheHit, CacheMiss, Replay,
                  FillCache, PeekLoad, OfferCache, PCs
    <3> QED BY <3>1 DEF TypeInv, TypeOK
  <2> QED BY <2>1, QuietKeyInv
<1>3. ASSUME NEW t \in Threads, NEW b \in Jobs[t], Submit(t, b) PROVE KeyInv'
  <2>1. \/ UNCHANGED <<log, idem, txEvents>> /\ writer = NoThread
        \/ SubmitBusy(t, b)
    BY <1>3 DEF Submit, SubmitUnloadable, SubmitReplay, SubmitMixed, SubmitStale, SubmitBegin
  <2>2. CASE SubmitBusy(t, b)
    BY <2>2, QuietKeyInv DEF SubmitBusy, Finish, TypeInv, TypeOK
  <2>3. CASE UNCHANGED <<log, idem, txEvents>> /\ writer = NoThread
    <3>1. txEvents' = <<>>
      BY <2>3, StoreAssumption DEF TypeInv, TransactionOwned
    <3> QED BY <2>3, <3>1, QuietKeyInv
  <2> QED BY <2>1, <2>2, <2>3
<1>4. ASSUME NEW t \in Threads, StageRepeat(t) PROVE KeyInv'
  BY <1>4, QuietKeyInv DEF StageRepeat
<1>5. ASSUME NEW t \in Threads, StageConflict(t) \/ StageRejected(t) \/ Close(t) PROVE KeyInv'
  BY <1>5, QuietKeyInv DEF StageConflict, StageRejected, Close, EndTransaction
<1>6. ASSUME NEW t \in Threads, InvalidateCache(t) \/ SaveSnapshot(t) PROVE KeyInv'
  <2>1. UNCHANGED <<log, idem, txEvents, txRows, view>>
    BY <1>6 DEF InvalidateCache, SaveSnapshot
  <2>2. \A u \in Threads : pc'[u] = "loop" => pc[u] = "loop"
    BY <1>6 DEF InvalidateCache, SaveSnapshot, Finish, TypeInv, TypeOK
  <2> QED BY <2>1, <2>2, QuietKeyInv
<1>7. ASSUME NEW s \in Stores, Crash(s) PROVE KeyInv'
  <2>1. UNCHANGED <<log, idem>>
    BY <1>7 DEF Crash
  <2>2. txEvents' = <<>> \/ UNCHANGED <<txEvents, txRows>>
    BY <1>7 DEF Crash, EndTransaction
  <2>3. \A u \in Threads : pc'[u] = "loop" => pc[u] = "loop" /\ view'[u] = view[u]
    BY <1>7 DEF Crash
  <2> QED BY <2>1, <2>2, <2>3, QuietKeyInv
<1>8. CASE UNCHANGED vars
  BY <1>8, QuietKeyInv DEF vars
<1>9. ASSUME NEW t \in Threads, Continue(t) PROVE KeyInv'
  <2>1. target[t] \in Trajectories
    BY DEF TypeInv, TypeOK
  <2> QED BY <1>2, <1>4, <1>5, <1>6, <1>9, <2>1, StageKeyInv, CommitKeyInv DEF Continue
<1> QED BY <1>1, <1>2, <1>3, <1>5, <1>6, <1>7, <1>8, <1>9 DEF Next

\* Whatever is retried, raced, repeated within a batch, rolled back or lost in a
\* crash, no trajectory ever holds two events with one idempotency key
\* (commit_events looks the key up before the batch and again in the loop).
THEOREM ExactlyOnce == Spec => []UniqueKeys
<1>1. KeyInv => UniqueKeys
  BY DEF KeyInv
<1> QED BY <1>1, InitKeyInv, NextKeyInv, TypesInvariant, PTL DEF Spec

-----------------------------------------------------------------------------
(* The idempotency table tells the story of the event table.               *)

\* The idempotency row of event e at sequence n.
RowOf(tr, n, e) ==
    [trajectory |-> tr, key |-> e.key, request |-> e.request, sequence |-> n, hash |-> e.hash]

EventsHaveRows ==
    \A tr \in Trajectories : \A i \in DOMAIN log[tr] : RowOf(tr, i, log[tr][i]) \in idem

\* A row names its event.
NamesEvent(r) ==
    /\ r.trajectory \in Trajectories
    /\ r.sequence \in DOMAIN log[r.trajectory]
    /\ r = RowOf(r.trajectory, r.sequence, log[r.trajectory][r.sequence])

RowsHaveEvents == \A r \in idem : NamesEvent(r)

\* The staged rows are those of the staged events, numbered from the end of the
\* log on.
StagedRowsMatch ==
    \A t \in Threads : pc[t] = "loop" =>
        LET tr == view[t].trajectory
            Row(i) == RowOf(tr, Len(log[tr]) + i, txEvents[i])
        IN /\ \A i \in DOMAIN txEvents : Row(i) \in txRows
           /\ \A r \in txRows : \E i \in DOMAIN txEvents : r = Row(i)

\* Receipts are copies of committed rows.
ReceiptsIndexed == \A t \in Threads : receipts[t] \subseteq idem

IndexInv == EventsHaveRows /\ RowsHaveEvents /\ StagedRowsMatch /\ ReceiptsIndexed

\* An empty store has neither events nor rows.
LEMMA InitIndexInv == Init => IndexInv
BY DEF Init, IndexInv, EventsHaveRows, RowsHaveEvents, StagedRowsMatch, ReceiptsIndexed

\* A step that publishes nothing, and leaves alone what a thread in the loop has
\* staged, keeps IndexInv.
LEMMA QuietIndexInv ==
    ASSUME IndexInv, UNCHANGED <<log, idem>>,
           \A t \in Threads : receipts'[t] \subseteq idem,
           \A t \in Threads : pc'[t] = "loop" =>
              \/ pc[t] = "loop" /\ view'[t] = view[t] /\ UNCHANGED <<txEvents, txRows>>
              \/ txEvents' = <<>> /\ txRows' = {}
    PROVE  IndexInv'
<1>1. EventsHaveRows' /\ RowsHaveEvents' /\ ReceiptsIndexed'
  BY DEF IndexInv, EventsHaveRows, RowsHaveEvents, NamesEvent, ReceiptsIndexed
<1>2. ASSUME NEW t \in Threads, pc'[t] = "loop"
      PROVE  LET tr == view'[t].trajectory
                 Row(i) == RowOf(tr, Len(log[tr]) + i, txEvents'[i])
             IN /\ \A i \in DOMAIN txEvents' : Row(i) \in txRows'
                /\ \A r \in txRows' : \E i \in DOMAIN txEvents' : r = Row(i)
  <2>1. CASE txEvents' = <<>> /\ txRows' = {}
    <3>1. DOMAIN txEvents' = {}
      BY <2>1
    <3> QED BY <2>1, <3>1
  <2>2. CASE pc[t] = "loop" /\ view'[t] = view[t] /\ UNCHANGED <<txEvents, txRows>>
    BY <2>2 DEF IndexInv, StagedRowsMatch
  <2> QED BY <1>2, <2>1, <2>2
<1>3. StagedRowsMatch'
  BY <1>2 DEF StagedRowsMatch
<1> QED BY <1>1, <1>3 DEF IndexInv

\* An iteration that stages an event stages the row of that event.
LEMMA StageIndexInv ==
    ASSUME TypeInv, IndexInv, NEW t \in Threads, StageEvent(t)
    PROVE  IndexInv'
<1> DEFINE tr == view[t].trajectory
           event == NextEvent(t, tr, Head(todo[t]))
           n == Len(txEvents)
           Row(i) == RowOf(tr, Len(log[tr]) + i, txEvents[i])
<1>1. /\ pc[t] = "loop"
      /\ txEvents' = Append(txEvents, event)
      /\ txRows' = txRows \cup {NextRow(tr, event)}
      /\ UNCHANGED <<log, idem, pc, view, receipts>>
  BY DEF StageEvent, dbVars, readVars
<1>2. NextRow(tr, event) = RowOf(tr, Len(log[tr]) + n + 1, event)
  BY DEF NextRow, RowOf
<1>3. \A u \in Threads : pc[u] = "loop" => u = t
  BY <1>1 DEF TypeInv, TransactionOwned
<1>4. tr \in Trajectories
  BY <1>1 DEF TypeInv, TypeOK, TransactionOwned, Snapshot
<1>5. /\ n \in Nat /\ DOMAIN txEvents = 1..n /\ txEvents \in Seq(Event)
      /\ Len(log[tr]) \in Nat
  BY <1>4, LenProperties DEF TypeInv, TypeOK
<1> HIDE DEF event, tr
<1>6. /\ DOMAIN txEvents' = 1..(n + 1)
      /\ \A i \in 1..n : txEvents'[i] = txEvents[i]
      /\ txEvents'[n + 1] = event
  BY <1>1, <1>5
<1>7. \A x, y \in Nat : x + (y + 1) = x + y + 1
  OBVIOUS
<1>8. /\ \A i \in 1..n : Row(i) \in txRows
      /\ \A r \in txRows : \E i \in 1..n : r = Row(i)
  BY <1>1, <1>5 DEF IndexInv, StagedRowsMatch, tr
<1> HIDE DEF n
<1>9. \A i \in 1..n : RowOf(tr, Len(log[tr]) + i, txEvents'[i]) = Row(i)
  BY <1>6
<1>10. RowOf(tr, Len(log[tr]) + (n + 1), txEvents'[n + 1]) = NextRow(tr, event)
  BY <1>2, <1>5, <1>6, <1>7
<1> HIDE DEF Row
<1>11. ASSUME NEW i \in 1..(n + 1)
       PROVE  RowOf(tr, Len(log[tr]) + i, txEvents'[i]) \in txRows'
  <2>1. CASE i \in 1..n
    BY <1>1, <1>8, <1>9, <2>1
  <2>2. CASE i = n + 1
    BY <1>1, <1>10, <2>2
  <2> QED BY <1>5, <2>1, <2>2
<1>12. ASSUME NEW r \in txRows'
       PROVE  \E i \in 1..(n + 1) : r = RowOf(tr, Len(log[tr]) + i, txEvents'[i])
  <2>1. CASE r \in txRows
    <3>1. PICK i \in 1..n : r = Row(i)
      BY <1>8, <2>1
    <3>2. i \in 1..(n + 1)
      BY <1>5
    <3> QED BY <1>9, <3>1, <3>2
  <2>2. CASE r = NextRow(tr, event)
    <3>1. n + 1 \in 1..(n + 1)
      BY <1>5
    <3> QED BY <1>10, <2>2, <3>1
  <2> QED BY <1>1, <2>1, <2>2
<1>13. StagedRowsMatch'
  <2>1. \A u \in Threads : pc'[u] = "loop" => u = t /\ view'[u].trajectory = tr
    BY <1>1, <1>3 DEF tr
  <2>2. DOMAIN txEvents' = 1..(n + 1) /\ log' = log
    BY <1>1, <1>6
  <2> QED BY <1>11, <1>12, <2>1, <2>2 DEF StagedRowsMatch
<1>14. EventsHaveRows' /\ RowsHaveEvents' /\ ReceiptsIndexed'
  BY <1>1 DEF IndexInv, EventsHaveRows, RowsHaveEvents, NamesEvent, ReceiptsIndexed
<1> QED BY <1>13, <1>14 DEF IndexInv

\* COMMIT publishes the staged events and their rows together.
LEMMA CommitIndexInv ==
    ASSUME TypeInv, IndexInv, NEW t \in Threads, CommitTx(t)
    PROVE  IndexInv'
<1> DEFINE tr == view[t].trajectory
           n == Len(log[tr])
           m == Len(txEvents)
           Row(i) == RowOf(tr, n + i, txEvents[i])
<1>1. /\ pc[t] = "loop" /\ view[t] # NoSnapshot
      /\ log' = [log EXCEPT ![tr] = log[tr] \o txEvents]
      /\ idem' = idem \cup txRows
      /\ receipts' = [receipts EXCEPT ![t] = txRows]
      /\ pc' = [pc EXCEPT ![t] = "invalidate"]
  BY DEF CommitTx, TypeInv, TransactionOwned
<1>2. tr \in Trajectories
  BY <1>1 DEF TypeInv, TypeOK, Snapshot
<1>3. \A u \in Threads : pc[u] = "loop" => u = t
  BY <1>1 DEF TypeInv, TransactionOwned
<1>4. /\ \A i \in DOMAIN txEvents : Row(i) \in txRows
      /\ \A r \in txRows : \E i \in DOMAIN txEvents : r = Row(i)
  BY <1>1 DEF IndexInv, StagedRowsMatch
<1> HIDE DEF tr
<1>5. /\ log \in [Trajectories -> Seq(Event)] /\ log[tr] \in Seq(Event) /\ txEvents \in Seq(Event)
      /\ n \in Nat /\ DOMAIN log[tr] = 1..n
      /\ m \in Nat /\ DOMAIN txEvents = 1..m
  BY <1>2, LenProperties DEF TypeInv, TypeOK
<1>6. /\ log'[tr] = log[tr] \o txEvents
      /\ \A x \in Trajectories : x # tr => log'[x] = log[x]
  BY <1>1, <1>2, <1>5
<1>7. /\ DOMAIN log'[tr] = 1..(n + m)
      /\ \A i \in 1..n : log'[tr][i] = log[tr][i]
      /\ \A i \in DOMAIN log'[tr] : i > n =>
            i - n \in DOMAIN txEvents /\ log'[tr][i] = txEvents[i - n]
  BY <1>5, <1>6, ConcatElements
<1> HIDE DEF n, m
<1>8. ASSUME NEW x \in Trajectories, NEW i \in DOMAIN log'[x]
      PROVE  RowOf(x, i, log'[x][i]) \in idem'
  <2>1. CASE x # tr \/ i \in 1..n
    BY <1>1, <1>5, <1>6, <1>7, <1>8, <2>1 DEF IndexInv, EventsHaveRows
  <2>2. CASE x = tr /\ i \notin 1..n
    <3>1. i \in 1..(n + m) /\ i > n
      BY <1>5, <1>7, <1>8, <2>2
    <3>2. i - n \in DOMAIN txEvents /\ log'[tr][i] = txEvents[i - n]
      BY <1>7, <3>1
    <3>3. n \in Int /\ i \in Int
      BY <1>5, <3>1
    <3>4. n + (i - n) = i
      BY <3>3
    <3>5. Row(i - n) \in txRows
      BY <1>4, <3>2
    <3> QED BY <1>1, <2>2, <3>2, <3>4, <3>5
  <2> QED BY <2>1, <2>2
<1>9. ASSUME NEW r \in idem' PROVE NamesEvent(r)'
  <2>1. CASE r \in idem
    <3>1. NamesEvent(r)
      BY <2>1 DEF IndexInv, RowsHaveEvents
    <3>2. CASE r.trajectory = tr
      BY <1>5, <1>7, <3>1, <3>2 DEF NamesEvent
    <3>3. CASE r.trajectory # tr
      BY <1>6, <3>1, <3>3 DEF NamesEvent
    <3> QED BY <3>2, <3>3
  <2>2. CASE r \in txRows
    <3>1. PICK i \in DOMAIN txEvents : r = Row(i)
      BY <1>4, <2>2
    <3>2. r.trajectory = tr /\ r.sequence = n + i
      BY <3>1 DEF RowOf
    <3>3. i \in 1..m /\ n + i \in 1..(n + m) /\ n + i > n /\ (n + i) - n = i
      BY <1>5
    <3>4. log'[tr][n + i] = txEvents[i]
      BY <1>7, <3>3
    <3> QED BY <1>2, <1>7, <3>1, <3>2, <3>3, <3>4 DEF NamesEvent
  <2> QED BY <1>1, <1>9, <2>1, <2>2
<1>10. EventsHaveRows' /\ RowsHaveEvents'
  BY <1>8, <1>9 DEF EventsHaveRows, RowsHaveEvents
<1>11. StagedRowsMatch'
  <2>1. \A u \in Threads : pc'[u] # "loop"
    BY <1>1, <1>3 DEF TypeInv, TypeOK
  <2> QED BY <2>1 DEF StagedRowsMatch
<1>12. ReceiptsIndexed'
  BY <1>1 DEF IndexInv, ReceiptsIndexed, TypeInv, TypeOK
<1> QED BY <1>10, <1>11, <1>12 DEF IndexInv

\* Every step of the store keeps the two tables and the receipts together.
LEMMA NextIndexInv == TypeInv /\ IndexInv /\ [Next]_vars => IndexInv'
<1> SUFFICES ASSUME TypeInv, IndexInv, [Next]_vars PROVE IndexInv'
  OBVIOUS
<1> USE DEF dbVars, txVars, readVars, callVars
<1>0. \A t \in Threads : receipts[t] \subseteq idem
  BY DEF IndexInv, ReceiptsIndexed
<1>1. ASSUME NEW t \in Threads, NEW tr \in Trajectories, InitTrajectory(t, tr)
      PROVE  IndexInv'
  <2>1. \A u \in Threads : pc[u] # "loop"
    BY <1>1, StoreAssumption DEF InitTrajectory, TypeInv, TransactionOwned
  <2> QED BY <1>0, <1>1, <2>1, QuietIndexInv DEF InitTrajectory
<1>2. ASSUME NEW t \in Threads, NEW tr \in Trajectories,
             \/ Read(t, tr) \/ CacheHit(t) \/ CacheMiss(t) \/ Replay(t) \/ FillCache(t)
             \/ PeekLoad(t) \/ OfferCache(t)
      PROVE  IndexInv'
  <2>1. /\ UNCHANGED <<log, idem, txEvents, txRows, receipts>> /\ pc[t] # "loop"
        /\ \E q \in PCs \ {"loop"} : pc' = [pc EXCEPT ![t] = q] \/ UNCHANGED pc
        /\ \E x : view' = [view EXCEPT ![t] = x] \/ UNCHANGED view
    BY <1>2 DEF Read, ReadCache, PeekCache, PeekMiss, CacheHit, CacheMiss, Replay,
                FillCache, PeekLoad, OfferCache, PCs
  <2>2. \A u \in Threads : pc'[u] = "loop" => pc[u] = "loop" /\ view'[u] = view[u]
    BY <2>1 DEF TypeInv, TypeOK
  <2> QED BY <1>0, <2>1, <2>2, QuietIndexInv
<1>3. ASSUME NEW t \in Threads, NEW b \in Jobs[t], Submit(t, b) PROVE IndexInv'
  <2>1. CASE SubmitBusy(t, b)
    <3>1. /\ UNCHANGED <<log, idem, txEvents, txRows, view>>
          /\ \A u \in Threads : receipts'[u] \subseteq idem
          /\ \A u \in Threads : pc'[u] = "loop" => pc[u] = "loop"
      BY <1>0, <2>1 DEF SubmitBusy, Finish, TypeInv, TypeOK
    <3> QED BY <3>1, QuietIndexInv
  <2>2. CASE writer = NoThread
    <3>1. txEvents = <<>> /\ txRows = {}
      BY <2>2, StoreAssumption DEF TypeInv, TransactionOwned
    <3>2. UNCHANGED <<log, idem, txEvents, txRows>>
      BY <1>3 DEF Submit, SubmitBusy, SubmitUnloadable, SubmitReplay, SubmitMixed,
                  SubmitStale, SubmitBegin
    <3>3. \E rows \in SUBSET idem : receipts' = [receipts EXCEPT ![t] = rows]
      BY <1>3 DEF Submit, SubmitBusy, SubmitUnloadable, SubmitReplay, SubmitMixed,
                  SubmitStale, SubmitBegin, Entry
    <3>4. \A u \in Threads : receipts'[u] \subseteq idem
      BY <1>0, <3>3 DEF TypeInv, TypeOK
    <3> QED BY <3>1, <3>2, <3>4, QuietIndexInv
  <2> QED BY <1>3, <2>1, <2>2 DEF Submit, SubmitUnloadable, SubmitReplay, SubmitMixed,
                                  SubmitStale, SubmitBegin
<1>4. ASSUME NEW t \in Threads, StageRepeat(t) PROVE IndexInv'
  BY <1>0, <1>4, QuietIndexInv DEF StageRepeat
<1>5. ASSUME NEW t \in Threads, StageConflict(t) \/ StageRejected(t) \/ Close(t) PROVE IndexInv'
  BY <1>0, <1>5, QuietIndexInv DEF StageConflict, StageRejected, Close, EndTransaction
<1>6. ASSUME NEW t \in Threads, InvalidateCache(t) \/ SaveSnapshot(t) PROVE IndexInv'
  <2>1. UNCHANGED <<log, idem, txEvents, txRows, view, receipts>>
    BY <1>6 DEF InvalidateCache, SaveSnapshot
  <2>2. \A u \in Threads : pc'[u] = "loop" => pc[u] = "loop"
    BY <1>6 DEF InvalidateCache, SaveSnapshot, Finish, TypeInv, TypeOK
  <2> QED BY <1>0, <2>1, <2>2, QuietIndexInv
<1>7. ASSUME NEW s \in Stores, Crash(s) PROVE IndexInv'
  <2>1. UNCHANGED <<log, idem>> /\ \A u \in Threads : receipts'[u] \subseteq idem
    BY <1>0, <1>7 DEF Crash
  <2>2. (txEvents' = <<>> /\ txRows' = {}) \/ UNCHANGED <<txEvents, txRows>>
    BY <1>7 DEF Crash, EndTransaction
  <2>3. \A u \in Threads : pc'[u] = "loop" => pc[u] = "loop" /\ view'[u] = view[u]
    BY <1>7 DEF Crash
  <2> QED BY <2>1, <2>2, <2>3, QuietIndexInv
<1>8. CASE UNCHANGED vars
  BY <1>0, <1>8, QuietIndexInv DEF vars
<1>9. ASSUME NEW t \in Threads, Continue(t) PROVE IndexInv'
  <2>1. target[t] \in Trajectories
    BY DEF TypeInv, TypeOK
  <2> QED BY <1>2, <1>4, <1>5, <1>6, <1>9, <2>1, StageIndexInv, CommitIndexInv DEF Continue
<1> QED BY <1>1, <1>2, <1>3, <1>5, <1>6, <1>7, <1>8, <1>9 DEF Next

\* The tables and the receipts are related by IndexInv in every state.
LEMMA IndexInvariant == Spec => [](TypeInv /\ IndexInv)
<1> QED BY InitIndexInv, NextIndexInv, TypesInvariant, PTL DEF Spec

\* The idempotency table and the event table tell the same story: every event
\* has the row of its key, with its sequence, hash and request, and every row
\* its event (the loop of commit_events inserts both, one COMMIT publishes
\* them).
THEOREM TablesAgree == Spec => []IndexMatchesLog
<1>1. ASSUME IndexInv PROVE IndexMatchesLog
  <2> DEFINE RowsOfLog(tr) == {RowOf(tr, i, log[tr][i]) : i \in DOMAIN log[tr]}
  <2>1. \A r : r \in UNION {RowsOfLog(tr) : tr \in Trajectories} <=>
               \E tr \in Trajectories : \E i \in DOMAIN log[tr] : r = RowOf(tr, i, log[tr][i])
    OBVIOUS
  <2>2. idem \subseteq UNION {RowsOfLog(tr) : tr \in Trajectories}
    BY <1>1, <2>1 DEF IndexInv, RowsHaveEvents, NamesEvent
  <2>3. UNION {RowsOfLog(tr) : tr \in Trajectories} \subseteq idem
    BY <1>1, <2>1 DEF IndexInv, EventsHaveRows
  <2> QED BY <2>2, <2>3 DEF IndexMatchesLog, RowOf
<1> QED BY <1>1, IndexInvariant, PTL

\* A receipt a caller holds, from a commit or from a retry, names an event that
\* stays in the log at that sequence with that hash, across rollbacks, closes
\* and crashes of any process (commit_events builds receipts from the rows it
\* commits or finds).
THEOREM Durable == Spec => []AcknowledgedIsDurable
<1>1. ASSUME IndexInv PROVE AcknowledgedIsDurable
  <2>1. \A t \in Threads : \A r \in receipts[t] : NamesEvent(r)
    BY <1>1 DEF IndexInv, ReceiptsIndexed, RowsHaveEvents
  <2>2. ASSUME NEW r, NamesEvent(r)
        PROVE  LET e == log[r.trajectory][r.sequence] IN
               e.key = r.key /\ e.request = r.request /\ e.hash = r.hash
    BY <2>2 DEF NamesEvent, RowOf
  <2> QED BY <2>1, <2>2 DEF AcknowledgedIsDurable, NamesEvent
<1> QED BY <1>1, IndexInvariant, PTL

-----------------------------------------------------------------------------
(* Sequences of hashes.                                                    *)

\* applied are the hashes of the first events, position by position.
HashedPrefix(applied, events) ==
    /\ Len(applied) <= Len(events)
    /\ \A i \in 1..Len(applied) : applied[i] = events[i].hash

\* The hashes of events, position by position.
LEMMA HashesElements ==
    ASSUME NEW events \in Seq(Event)
    PROVE  /\ Hashes(events) \in Seq(Nat) /\ Len(Hashes(events)) = Len(events)
           /\ \A i \in 1..Len(events) : Hashes(events)[i] = events[i].hash
<1>1. DOMAIN events = 1..Len(events)
  BY LenProperties
<1> QED BY <1>1, EventSeqTypes DEF Hashes

\* Hashes that are as many as the events and agree with them are theirs.
LEMMA HashesEqual ==
    ASSUME NEW applied \in Seq(Nat), NEW events \in Seq(Event),
           Len(applied) = Len(events), HashedPrefix(applied, events)
    PROVE  applied = Hashes(events)
BY HashesElements, SeqEqual DEF HashedPrefix

\* The formula of the property is the one position by position.
LEMMA PrefixPointwise ==
    ASSUME NEW applied \in Seq(Nat), NEW events \in Seq(Event)
    PROVE  /\ Len(applied) <= Len(events)
           /\ applied = Hashes(SubSeq(events, 1, Len(applied)))
        <=> HashedPrefix(applied, events)
<1> DEFINE n == Len(applied)
           front == SubSeq(events, 1, n)
<1> SUFFICES ASSUME n <= Len(events)
             PROVE  applied = Hashes(front) <=>
                       \A i \in 1..n : applied[i] = events[i].hash
  BY DEF HashedPrefix
<1>1. n \in Nat /\ Len(events) \in Nat /\ \A i \in 1..Len(events) : events[i] \in Event
  BY LenProperties, ElementOfSeq
<1>2. \A i \in 1..n : events[i] \in Event
  BY <1>1
<1>3. front \in Seq(Event) /\ Len(front) = n /\ \A i \in 1..n : front[i] = events[i]
  BY <1>1, <1>2, SubSeqProperties
<1> HIDE DEF front
<1>4. /\ Hashes(front) \in Seq(Nat) /\ Len(Hashes(front)) = n
      /\ \A i \in 1..n : Hashes(front)[i] = events[i].hash
  BY <1>3, HashesElements
<1>5. ASSUME \A i \in 1..n : applied[i] = events[i].hash PROVE applied = Hashes(front)
  BY <1>4, <1>5, SeqEqual
<1> QED BY <1>4, <1>5

\* A prefix of a log is a prefix of what the log grows to.
LEMMA PrefixGrows ==
    ASSUME NEW applied \in Seq(Nat), NEW old \in Seq(Event), NEW new \in Seq(Event),
           HashedPrefix(applied, old)
    PROVE  HashedPrefix(applied, old \o new)
<1>1. Len(applied) \in Nat /\ Len(old) \in Nat /\ Len(new) \in Nat
  BY LenProperties
<1>2. Len(old \o new) = Len(old) + Len(new)
  BY ConcatProperties
<1>3. \A i \in 1..Len(old) : (old \o new)[i] = old[i]
  BY ConcatElements
<1> QED BY <1>1, <1>2, <1>3 DEF HashedPrefix

\* The hashes of two sequences in a row.
LEMMA HashesConcat ==
    ASSUME NEW a \in Seq(Event), NEW b \in Seq(Event)
    PROVE  HashedPrefix(Hashes(a) \o Hashes(b), a \o b)
<1>1. Len(a) \in Nat /\ Len(b) \in Nat
  BY LenProperties
<1>2. /\ Len(Hashes(a)) = Len(a) /\ Len(Hashes(b)) = Len(b)
      /\ Hashes(a) \in Seq(Nat) /\ Hashes(b) \in Seq(Nat)
  BY HashesElements
<1>3. /\ Len(Hashes(a) \o Hashes(b)) = Len(a) + Len(b)
      /\ Len(a \o b) = Len(a) + Len(b)
  <2>1. Len(Hashes(a) \o Hashes(b)) = Len(Hashes(a)) + Len(Hashes(b))
    BY <1>2, ConcatProperties
  <2>2. Len(a \o b) = Len(a) + Len(b)
    BY ConcatProperties
  <2> QED BY <1>2, <2>1, <2>2
<1>4. ASSUME NEW i \in 1..(Len(a) + Len(b))
      PROVE  (Hashes(a) \o Hashes(b))[i] = (a \o b)[i].hash
  <2>1. /\ (a \o b)[i] = IF i <= Len(a) THEN a[i] ELSE b[i - Len(a)]
        /\ (Hashes(a) \o Hashes(b))[i] =
              IF i <= Len(a) THEN Hashes(a)[i] ELSE Hashes(b)[i - Len(a)]
    BY <1>2, ConcatProperties
  <2>2. CASE i <= Len(a)
    <3>1. i \in 1..Len(a)
      BY <1>1, <2>2
    <3> QED BY <2>1, <2>2, <3>1, HashesElements
  <2>3. CASE ~ (i <= Len(a))
    <3>1. i - Len(a) \in 1..Len(b)
      BY <1>1, <2>3
    <3> QED BY <2>1, <2>3, <3>1, HashesElements
  <2> QED BY <2>2, <2>3
<1> QED BY <1>1, <1>3, <1>4 DEF HashedPrefix

\* A prefix, and the hashes of what comes after it, are the hashes of all.
LEMMA PrefixAndRest ==
    ASSUME NEW applied \in Seq(Nat), NEW events \in Seq(Event), HashedPrefix(applied, events)
    PROVE  applied \o Hashes(SubSeq(events, Len(applied) + 1, Len(events))) = Hashes(events)
<1> DEFINE n == Len(applied)
           rest == SubSeq(events, n + 1, Len(events))
<1>1. n \in Nat /\ Len(events) \in Nat /\ n <= Len(events)
  BY LenProperties DEF HashedPrefix
<1>2. \A i \in (n + 1)..Len(events) : events[i] \in Event
  BY <1>1, ElementOfSeq
<1>3. /\ rest \in Seq(Event)
      /\ Len(rest) = IF n + 1 <= Len(events) THEN Len(events) - (n + 1) + 1 ELSE 0
      /\ \A i \in 1..(Len(events) - (n + 1) + 1) : rest[i] = events[n + 1 + i - 1]
  BY <1>1, <1>2, SubSeqProperties
<1> HIDE DEF rest
<1>4. Len(rest) = Len(events) - n
  BY <1>1, <1>3
<1>5. /\ Hashes(rest) \in Seq(Nat) /\ Len(Hashes(rest)) = Len(events) - n
      /\ \A i \in 1..(Len(events) - n) : Hashes(rest)[i] = rest[i].hash
  BY <1>3, <1>4, HashesElements
<1>6. /\ applied \o Hashes(rest) \in Seq(Nat)
      /\ Len(applied \o Hashes(rest)) = n + (Len(events) - n)
      /\ \A i \in 1..(n + (Len(events) - n)) :
            (applied \o Hashes(rest))[i] = IF i <= n THEN applied[i] ELSE Hashes(rest)[i - n]
  BY <1>5, ConcatProperties
<1> HIDE DEF n
<1>7. n + (Len(events) - n) = Len(events)
  BY <1>1
<1>8. ASSUME NEW i \in 1..Len(events)
      PROVE  (applied \o Hashes(rest))[i] = events[i].hash
  <2>1. CASE i <= n
    <3>1. i \in 1..n
      BY <1>1, <2>1
    <3> QED BY <1>6, <1>7, <2>1, <3>1 DEF HashedPrefix, n
  <2>2. CASE ~ (i <= n)
    <3>1. i - n \in 1..(Len(events) - n) /\ i - n \in 1..(Len(events) - (n + 1) + 1)
      BY <1>1, <2>2
    <3>2. n + 1 + (i - n) - 1 = i
      BY <1>1
    <3>3. rest[i - n] = events[i]
      BY <1>3, <3>1, <3>2
    <3>4. Hashes(rest)[i - n] = events[i].hash
      BY <1>5, <3>1, <3>3
    <3> QED BY <1>6, <1>7, <2>2, <3>4
  <2> QED BY <2>1, <2>2
<1>9. Len(applied \o Hashes(rest)) = Len(events)
  BY <1>6, <1>7
<1>10. HashedPrefix(applied \o Hashes(rest), events)
  BY <1>1, <1>8, <1>9 DEF HashedPrefix
<1>11. applied \o Hashes(rest) = Hashes(events)
  BY <1>6, <1>9, <1>10, HashesEqual
<1> QED BY <1>11 DEF rest, n

-----------------------------------------------------------------------------
(* The inductive invariant.                                                *)

\* Every checkpoint is a prefix of the committed log.
CheckpointsCommitted == \A row \in checkpoints : IsCommittedPrefix(row.snapshot)

\* A read that holds a snapshot is one of the trajectory it reads.
FoundFits ==
    \A t \in Threads : found[t] # NoSnapshot =>
        pc[t] \in {"validate", "fill", "offer"} /\ found[t].trajectory = target[t]

\* The thread in the loop has seen the whole log it is about to extend.
LoopOnHead ==
    \A t \in Threads : pc[t] = "loop" => view[t].applied = Hashes(log[view[t].trajectory])

SnapInv == SnapshotsAreCommitted /\ CheckpointsCommitted /\ FoundFits /\ LoopOnHead

\* There are no snapshots at first.
LEMMA InitSnapInv == Init => SnapInv
BY DEF Init, SnapInv, SnapshotsAreCommitted, CheckpointsCommitted, FoundFits, LoopOnHead

\* A committed prefix, position by position.
LEMMA CommittedPointwise ==
    ASSUME TypeOK, NEW snapshot \in Snapshot
    PROVE  IsCommittedPrefix(snapshot) <=>
              HashedPrefix(snapshot.applied, log[snapshot.trajectory])
<1>1. snapshot.applied \in Seq(Nat) /\ log[snapshot.trajectory] \in Seq(Event)
  BY DEF Snapshot, TypeOK
<1> QED BY <1>1, PrefixPointwise DEF IsCommittedPrefix

\* _load_trajectory_head rebuilds the whole committed log.
LEMMA LoadedHeadWhole ==
    ASSUME TypeInv, CheckpointsCommitted, NEW tr \in Trajectories, Exists(tr)
    PROVE  /\ LoadedHead(tr) \in Snapshot
           /\ LoadedHead(tr).trajectory = tr
           /\ LoadedHead(tr).applied = Hashes(log[tr])
           /\ IsCommittedPrefix(LoadedHead(tr))
<1> DEFINE row == LatestRow(tr)
           applied == row.snapshot.applied
<1>1. row \in checkpoints /\ row.snapshot.trajectory = tr
  BY LatestRowFact DEF TypeInv, RowsOf
<1>2. row.snapshot \in Snapshot
  BY <1>1 DEF TypeInv, TypeOK, Checkpoint
<1>3. applied \in Seq(Nat) /\ log[tr] \in Seq(Event)
  BY <1>2 DEF TypeInv, TypeOK, Snapshot
<1>4. HashedPrefix(applied, log[tr])
  BY <1>1, <1>2, CommittedPointwise DEF TypeInv, CheckpointsCommitted
<1>5. LoadedHead(tr) \in Snapshot
  BY LoadedHeadType DEF TypeInv
<1>6. /\ LoadedHead(tr).trajectory = tr
      /\ LoadedHead(tr).applied =
            applied \o Hashes(SubSeq(log[tr], Len(applied) + 1, Len(log[tr])))
  BY DEF LoadedHead, SequenceOf
<1>7. LoadedHead(tr).applied = Hashes(log[tr])
  BY <1>3, <1>4, <1>6, PrefixAndRest
<1>8. HashedPrefix(Hashes(log[tr]), log[tr])
  <2>1. Len(log[tr]) \in Nat
    BY <1>3, LenProperties
  <2> QED BY <1>3, <2>1, HashesElements DEF HashedPrefix
<1>9. IsCommittedPrefix(LoadedHead(tr))
  BY <1>5, <1>6, <1>7, <1>8, CommittedPointwise DEF TypeInv
<1> QED BY <1>5, <1>6, <1>7, <1>9

\* A step that commits nothing keeps SnapInv if what it puts in the cache was
\* found, and what it finds, hands out or checkpoints is a committed prefix.
LEMMA QuietSnapInv ==
    ASSUME SnapInv, UNCHANGED log,
           \A s \in Stores, tr \in Trajectories :
              \/ cache'[s][tr] = cache[s][tr] \/ cache'[s][tr] = NoSnapshot
              \/ \E t \in Threads : target[t] = tr /\ cache'[s][tr] = found[t],
           \A row \in checkpoints' : row \in checkpoints \/ IsCommittedPrefix(row.snapshot),
           \A t \in Threads : found'[t] # NoSnapshot =>
              /\ pc'[t] \in {"validate", "fill", "offer"}
              /\ found'[t].trajectory = target'[t] /\ IsCommittedPrefix(found'[t]),
           \A t \in Threads : view'[t] # NoSnapshot =>
              view'[t] = view[t] \/ IsCommittedPrefix(view'[t]),
           \A t \in Threads : pc'[t] = "loop" =>
              \/ pc[t] = "loop" /\ view'[t] = view[t]
              \/ view'[t].applied = Hashes(log[view'[t].trajectory])
    PROVE  SnapInv'
<1>1. \A x, y : x = y /\ IsCommittedPrefix(x) =>
         LET n == Len(y.applied) IN
         /\ n <= Len(log'[y.trajectory])
         /\ y.applied = Hashes(SubSeq(log'[y.trajectory], 1, n))
  BY DEF IsCommittedPrefix
<1>2. CheckpointsCommitted'
  BY <1>1 DEF SnapInv, CheckpointsCommitted, IsCommittedPrefix
<1>3. FoundFits'
  BY DEF FoundFits
<1>4. LoopOnHead'
  BY DEF SnapInv, LoopOnHead
<1>5. ASSUME NEW s \in Stores, NEW tr \in Trajectories, cache'[s][tr] # NoSnapshot
      PROVE  cache'[s][tr].trajectory = tr /\ IsCommittedPrefix(cache'[s][tr])
  BY <1>5 DEF SnapInv, SnapshotsAreCommitted, FoundFits
<1>6. SnapshotsAreCommitted'
  BY <1>1, <1>5 DEF SnapInv, SnapshotsAreCommitted, IsCommittedPrefix
<1> QED BY <1>2, <1>3, <1>4, <1>6 DEF SnapInv

-----------------------------------------------------------------------------
(* The steps.                                                              *)

\* Writing one entry of one cache.
LEMMA CacheUpdate ==
    ASSUME TypeOK, NEW s \in Stores, NEW tr \in Trajectories, NEW v,
           cache' = [cache EXCEPT ![s][tr] = v]
    PROVE  \A q \in Stores, x \in Trajectories :
              cache'[q][x] = IF q = s /\ x = tr THEN v ELSE cache[q][x]
BY DEF TypeOK

\* The reads: what is found is loaded from the log or taken from the cache, and
\* what is cached or handed out was found.
LEMMA ReadSnapInv ==
    ASSUME TypeInv, SnapInv, NEW t \in Threads, NEW tr \in Trajectories,
           \/ Read(t, tr) \/ CacheHit(t) \/ CacheMiss(t) \/ Replay(t) \/ FillCache(t)
           \/ PeekLoad(t) \/ OfferCache(t)
    PROVE  SnapInv'
<1> USE DEF readVars, dbVars
<1>0. TypeOK
  BY DEF TypeInv
<1>1. UNCHANGED <<log, checkpoints>> /\ StoreOf[t] \in Stores /\ target[t] \in Trajectories
  BY <1>0, StoreAssumption DEF Read, ReadCache, PeekCache, PeekMiss, CacheHit, CacheMiss,
         Replay, FillCache, PeekLoad, OfferCache, TypeOK
<1>2. /\ \A u \in Threads : found[u] # NoSnapshot =>
            /\ pc[u] \in {"validate", "fill", "offer"}
            /\ found[u].trajectory = target[u] /\ IsCommittedPrefix(found[u])
      /\ \A s \in Stores, x \in Trajectories : cache[s][x] # NoSnapshot =>
            cache[s][x].trajectory = x /\ IsCommittedPrefix(cache[s][x])
  BY DEF SnapInv, FoundFits, SnapshotsAreCommitted
<1>3. Loadable(StoreOf[t], target[t]) =>
         /\ LoadedHead(target[t]).trajectory = target[t]
         /\ IsCommittedPrefix(LoadedHead(target[t]))
  BY <1>1, LoadedHeadWhole DEF Loadable, SnapInv
<1>4. CASE ReadCache(t, tr) \/ PeekMiss(t, tr)
  <2>1. /\ UNCHANGED <<cache, view>>
        /\ \A u \in Threads : pc'[u] = "loop" => pc[u] = "loop"
    BY <1>0, <1>4 DEF ReadCache, PeekMiss, TypeOK
  <2>2. \A u \in Threads : found'[u] # NoSnapshot =>
           /\ pc'[u] \in {"validate", "fill", "offer"}
           /\ found'[u].trajectory = target'[u] /\ IsCommittedPrefix(found'[u])
    <3>1. CASE ReadCache(t, tr)
      BY <1>0, <1>1, <1>2, <3>1 DEF ReadCache, TypeOK
    <3>2. CASE PeekMiss(t, tr)
      BY <1>0, <1>2, <3>2 DEF PeekMiss, TypeOK
    <3> QED BY <1>4, <3>1, <3>2
  <2> QED BY <1>1, <2>1, <2>2, QuietSnapInv
<1>5. CASE PeekCache(t, tr)
  <2>1. UNCHANGED <<cache, pc, target, found>>
    BY <1>5 DEF PeekCache
  <2>2. \A u \in Threads : view'[u] = view[u] \/ IsCommittedPrefix(view'[u])
    BY <1>0, <1>1, <1>2, <1>5 DEF PeekCache, TypeOK
  <2>3. \A u \in Threads : pc[u] = "loop" => view'[u] = view[u]
    BY <1>0, <1>5 DEF PeekCache, TypeOK
  <2> QED BY <1>1, <1>2, <2>1, <2>2, <2>3, QuietSnapInv
<1>6. CASE CacheHit(t) \/ CacheMiss(t)
  <2>1. /\ UNCHANGED target
        /\ \A u \in Threads : found'[u] # NoSnapshot =>
              found'[u] = found[u] /\ pc'[u] = pc[u]
        /\ \A u \in Threads : pc'[u] = "loop" => pc[u] = "loop" /\ view'[u] = view[u]
        /\ \A u \in Threads : view'[u] = view[u] \/ view'[u] = found[u]
    BY <1>0, <1>6 DEF CacheHit, CacheMiss, TypeOK
  <2>2. \A s \in Stores, x \in Trajectories :
           cache'[s][x] = cache[s][x] \/ cache'[s][x] = NoSnapshot
    <3>1. CASE CacheHit(t)
      BY <3>1 DEF CacheHit
    <3>2. CASE CacheMiss(t)
      <4>1. cache' = [cache EXCEPT ![StoreOf[t]][target[t]] = NoSnapshot]
        BY <3>2 DEF CacheMiss
      <4> QED BY <1>0, <1>1, <4>1, CacheUpdate
    <3> QED BY <1>6, <3>1, <3>2
  <2>3. \A u \in Threads : view'[u] # NoSnapshot =>
           view'[u] = view[u] \/ IsCommittedPrefix(view'[u])
    BY <1>2, <2>1
  <2> QED BY <1>1, <1>2, <2>1, <2>2, <2>3, QuietSnapInv
<1>7. CASE Replay(t) \/ PeekLoad(t)
  <2>1. UNCHANGED <<cache, target, view>>
    BY <1>7 DEF Replay, PeekLoad
  <2>2. /\ \A u \in Threads \ {t} : found'[u] = found[u] /\ pc'[u] = pc[u]
        /\ pc'[t] # "loop"
        /\ found'[t] # NoSnapshot =>
              /\ Loadable(StoreOf[t], target[t]) /\ found'[t] = LoadedHead(target[t])
              /\ pc'[t] \in {"fill", "offer"}
    BY <1>0, <1>7 DEF Replay, PeekLoad, TypeOK
  <2>3. \A u \in Threads : pc'[u] = "loop" => pc[u] = "loop"
    BY <2>2
  <2>4. \A u \in Threads : found'[u] # NoSnapshot =>
           /\ pc'[u] \in {"validate", "fill", "offer"}
           /\ found'[u].trajectory = target'[u] /\ IsCommittedPrefix(found'[u])
    BY <1>2, <1>3, <2>1, <2>2
  <2> QED BY <1>1, <2>1, <2>3, <2>4, QuietSnapInv
<1>8. CASE FillCache(t) \/ OfferCache(t)
  <2>1. /\ UNCHANGED target
        /\ \A u \in Threads : found'[u] # NoSnapshot =>
              found'[u] = found[u] /\ pc'[u] = pc[u]
        /\ \A u \in Threads : pc'[u] = "loop" => pc[u] = "loop" /\ view'[u] = view[u]
        /\ \A u \in Threads : view'[u] = view[u] \/ view'[u] = found[u]
    BY <1>0, <1>8 DEF FillCache, OfferCache, TypeOK
  <2>2. \A s \in Stores, x \in Trajectories :
           \/ cache'[s][x] = cache[s][x]
           \/ target[t] = x /\ cache'[s][x] = found[t]
    <3>1. cache' = [cache EXCEPT ![StoreOf[t]][target[t]] = found[t]]
      BY <1>8 DEF FillCache, OfferCache
    <3> QED BY <1>0, <1>1, <3>1, CacheUpdate
  <2>3. \A u \in Threads : view'[u] # NoSnapshot =>
           view'[u] = view[u] \/ IsCommittedPrefix(view'[u])
    BY <1>2, <2>1
  <2> QED BY <1>1, <1>2, <2>1, <2>2, <2>3, QuietSnapInv
<1> QED BY <1>4, <1>5, <1>6, <1>7, <1>8 DEF Read

\* commit_events before its loop: a batch goes ahead only if the head is still
\* as long as the caller's snapshot, which is a prefix of it.
LEMMA SubmitSnapInv ==
    ASSUME TypeInv, SnapInv, NEW t \in Threads, NEW b \in Jobs[t], Submit(t, b)
    PROVE  SnapInv'
<1> USE DEF readVars, dbVars, TypeInv, TypeOK
<1>1. UNCHANGED <<log, checkpoints, cache, target, found, view>> /\ pc[t] = "idle"
  BY DEF Submit, SubmitBusy, SubmitUnloadable, SubmitReplay, SubmitMixed, SubmitStale,
         SubmitBegin, MaySubmit
<1>2. PICK q \in {"idle", "loop"} :
         pc' = [pc EXCEPT ![t] = q] /\ (q = "loop" => SubmitBegin(t, b))
  BY DEF Submit, SubmitBusy, SubmitUnloadable, SubmitReplay, SubmitMixed, SubmitStale,
         SubmitBegin, Finish
<1>3. \A u \in Threads : found[u] # NoSnapshot =>
         /\ pc'[u] \in {"validate", "fill", "offer"}
         /\ found[u].trajectory = target[u] /\ IsCommittedPrefix(found[u])
  BY <1>1, <1>2 DEF SnapInv, FoundFits, SnapshotsAreCommitted
<1>4. ASSUME SubmitBegin(t, b)
      PROVE  view[t].applied = Hashes(log[view[t].trajectory])
  <2> DEFINE tr == view[t].trajectory
  <2>1. view[t] # NoSnapshot /\ Loadable(StoreOf[t], tr) /\ HeadUnmoved(view[t])
    BY <1>4 DEF SubmitBegin, MaySubmit
  <2>2. view[t] \in Snapshot /\ IsCommittedPrefix(view[t])
    BY <2>1 DEF SnapInv, SnapshotsAreCommitted
  <2>3. tr \in Trajectories /\ view[t].applied \in Seq(Nat)
    BY <2>2 DEF Snapshot
  <2>4. log[tr] \in Seq(Event)
    BY <2>3
  <2>5. LoadedHead(tr).applied = Hashes(log[tr])
    BY <2>1, <2>3, LoadedHeadWhole DEF Loadable, SnapInv
  <2>6. Len(view[t].applied) = Len(log[tr])
    BY <2>1, <2>4, <2>5, HashesElements DEF HeadUnmoved
  <2>7. HashedPrefix(view[t].applied, log[tr])
    BY <2>2, CommittedPointwise
  <2> QED BY <2>3, <2>4, <2>6, <2>7, HashesEqual
<1>5. \A u \in Threads : pc'[u] = "loop" =>
         pc[u] = "loop" \/ view[u].applied = Hashes(log[view[u].trajectory])
  BY <1>2, <1>4
<1> QED BY <1>1, <1>3, <1>5, QuietSnapInv

\* COMMIT: every snapshot is a prefix of the longer log, and so is the checkpoint
\* of the batch.
LEMMA CommitSnapInv ==
    ASSUME TypeInv, SnapInv, NEW t \in Threads, CommitTx(t)
    PROVE  SnapInv'
<1> DEFINE tr == view[t].trajectory
<1> USE DEF readVars
<1>1. /\ pc[t] = "loop" /\ view[t] # NoSnapshot /\ Exists(tr)
      /\ \A u \in Threads : pc[u] = "loop" => u = t
      /\ log' = [log EXCEPT ![tr] = log[tr] \o txEvents]
      /\ checkpoints' = checkpoints \cup AutoCheckpoint(tr)
      /\ pc' = [pc EXCEPT ![t] = "invalidate"]
      /\ UNCHANGED <<cache, target, found, view>>
  BY DEF CommitTx, TypeInv, TransactionOwned
<1>2. tr \in Trajectories
  BY <1>1 DEF TypeInv, TypeOK, Snapshot
<1> HIDE DEF tr
<1>3. /\ log \in [Trajectories -> Seq(Event)] /\ log[tr] \in Seq(Event)
      /\ txEvents \in Seq(Event) /\ log[tr] \o txEvents \in Seq(Event)
  BY <1>2, ConcatProperties DEF TypeInv, TypeOK
<1>4. /\ log'[tr] = log[tr] \o txEvents
      /\ \A x \in Trajectories : x # tr => log'[x] = log[x]
  BY <1>1, <1>2, <1>3
<1>5. TypeOK'
  BY CommitTypeInv DEF TypeInv
<1>6. ASSUME NEW s \in Snapshot, HashedPrefix(s.applied, log'[s.trajectory])
      PROVE  IsCommittedPrefix(s)'
  <2>1. s.applied \in Seq(Nat) /\ log'[s.trajectory] \in Seq(Event)
    BY <1>5 DEF Snapshot, TypeOK
  <2> QED BY <1>6, <2>1, PrefixPointwise DEF IsCommittedPrefix
<1>7. ASSUME NEW s \in Snapshot, IsCommittedPrefix(s) PROVE IsCommittedPrefix(s)'
  <2>1. s.applied \in Seq(Nat) /\ s.trajectory \in Trajectories
    BY DEF Snapshot
  <2>2. HashedPrefix(s.applied, log[s.trajectory])
    BY <1>7, CommittedPointwise DEF TypeInv
  <2>3. HashedPrefix(s.applied, log'[s.trajectory])
    <3>1. CASE s.trajectory = tr
      BY <1>3, <1>4, <2>1, <2>2, <3>1, PrefixGrows
    <3>2. CASE s.trajectory # tr
      BY <1>4, <2>1, <2>2, <3>2
    <3> QED BY <3>1, <3>2
  <2> QED BY <1>6, <2>3
<1>8. \A row \in AutoCheckpoint(tr) : row.snapshot \in Snapshot /\ IsCommittedPrefix(row.snapshot)'
  <2> DEFINE base == LoadedHead(tr)
             head == [trajectory |-> tr, applied |-> base.applied \o Hashes(txEvents),
                      signer |-> LastSigner(txEvents)]
  <2>1. base.applied = Hashes(log[tr])
    BY <1>1, <1>2, LoadedHeadWhole DEF SnapInv
  <2>2. head.applied = Hashes(log[tr]) \o Hashes(txEvents)
    BY <2>1
  <2>3. HashedPrefix(head.applied, log'[head.trajectory])
    BY <1>3, <1>4, <2>2, HashesConcat
  <2>4. Hashes(log[tr]) \o Hashes(txEvents) \in Seq(Nat) /\ LastSigner(txEvents) \in Signers
    BY <1>3, EventSeqTypes, ConcatProperties
  <2>5. head \in Snapshot
    BY <1>2, <2>1, <2>4 DEF Snapshot
  <2>6. \A s : s = head => IsCommittedPrefix(s)'
    <3> HIDE DEF head
    <3> QED BY <1>6, <2>3, <2>5
  <2>7. \A row \in AutoCheckpoint(tr) : row.snapshot = head
    <3>1. AutoCheckpoint(tr) \subseteq {CheckpointRow(head, EventCount(tr))}
      BY DEF AutoCheckpoint
    <3>2. CheckpointRow(head, EventCount(tr)).snapshot = head
      BY DEF CheckpointRow
    <3> QED BY <3>1, <3>2
  <2> QED BY <2>5, <2>6, <2>7
<1>9. CheckpointsCommitted'
  BY <1>1, <1>7, <1>8 DEF SnapInv, CheckpointsCommitted, TypeInv, TypeOK, Checkpoint
<1>10. SnapshotsAreCommitted'
  BY <1>1, <1>7 DEF SnapInv, SnapshotsAreCommitted, TypeInv, TypeOK
<1>11. FoundFits' /\ LoopOnHead'
  BY <1>1 DEF SnapInv, FoundFits, LoopOnHead, TypeInv, TypeOK
<1> QED BY <1>9, <1>10, <1>11 DEF SnapInv

\* What else may happen commits nothing and finds nothing.
LEMMA OtherSnapInv ==
    ASSUME TypeInv, SnapInv, NEW t \in Threads, NEW tr \in Trajectories, NEW s \in Stores,
           \/ InitTrajectory(t, tr) \/ StageEvent(t) \/ StageRepeat(t) \/ StageConflict(t)
           \/ StageRejected(t) \/ InvalidateCache(t) \/ SaveSnapshot(t) \/ Close(t) \/ Crash(s)
    PROVE  SnapInv'
<1> USE DEF readVars, dbVars, callVars
<1>0. TypeOK
  BY DEF TypeInv
<1>1. /\ \A u \in Threads : found[u] # NoSnapshot =>
            /\ pc[u] \in {"validate", "fill", "offer"}
            /\ found[u].trajectory = target[u] /\ IsCommittedPrefix(found[u])
      /\ \A u \in Threads : view[u] # NoSnapshot => IsCommittedPrefix(view[u])
  BY DEF SnapInv, FoundFits, SnapshotsAreCommitted
<1>2. CASE InitTrajectory(t, tr)
  <2>1. /\ UNCHANGED <<log, cache, pc, target, found>> /\ pc[t] = "idle"
        /\ checkpoints' = checkpoints \cup {CheckpointRow(Genesis(tr), 0)}
        /\ view' = [view EXCEPT ![t] = Genesis(tr)]
    BY <1>2 DEF InitTrajectory
  <2>2. Genesis(tr) \in Snapshot
    BY EmptySeq DEF Genesis, Snapshot, Signers
  <2>3. HashedPrefix(Genesis(tr).applied, log[tr])
    <3>1. Len(log[tr]) \in Nat
      BY <1>0, LenProperties DEF TypeOK
    <3> QED BY <3>1 DEF Genesis, HashedPrefix
  <2>4. IsCommittedPrefix(Genesis(tr)) /\ Genesis(tr).trajectory = tr
    BY <1>0, <2>2, <2>3, CommittedPointwise DEF Genesis
  <2>5. CheckpointRow(Genesis(tr), 0).snapshot = Genesis(tr)
    BY DEF CheckpointRow
  <2>6. /\ \A u \in Threads : view'[u] = view[u] \/ IsCommittedPrefix(view'[u])
        /\ \A u \in Threads : pc[u] = "loop" => view'[u] = view[u]
    BY <1>0, <2>1, <2>4 DEF TypeOK
  <2>7. \A row \in checkpoints' : row \in checkpoints \/ IsCommittedPrefix(row.snapshot)
    BY <2>1, <2>4, <2>5
  <2> QED BY <1>1, <2>1, <2>6, <2>7, QuietSnapInv
<1>3. CASE SaveSnapshot(t)
  <2>1. /\ UNCHANGED <<log, cache, pc, target, found, view>> /\ view[t] # NoSnapshot
        /\ checkpoints' = checkpoints \cup {CheckpointRow(view[t], Len(view[t].applied))}
    BY <1>3 DEF SaveSnapshot
  <2>2. CheckpointRow(view[t], Len(view[t].applied)).snapshot = view[t]
    BY DEF CheckpointRow
  <2>3. \A row \in checkpoints' : row \in checkpoints \/ IsCommittedPrefix(row.snapshot)
    BY <1>1, <2>1, <2>2
  <2> QED BY <1>1, <2>1, <2>3, QuietSnapInv
<1>4. CASE StageEvent(t) \/ StageRepeat(t) \/ Close(t)
  BY <1>1, <1>4, QuietSnapInv DEF StageEvent, StageRepeat, Close
<1>5. CASE StageConflict(t) \/ StageRejected(t)
  <2>1. /\ UNCHANGED <<log, checkpoints, cache, target, found, view>> /\ pc[t] = "loop"
        /\ pc' = [pc EXCEPT ![t] = "idle"]
    BY <1>5 DEF StageConflict, StageRejected, Finish
  <2>2. \A u \in Threads : u = t \/ pc'[u] = pc[u]
    BY <1>0, <2>1 DEF TypeOK
  <2>3. pc'[t] = "idle" /\ found[t] = NoSnapshot
    BY <1>0, <1>1, <2>1 DEF TypeOK
  <2> QED BY <1>1, <2>1, <2>2, <2>3, QuietSnapInv
<1>6. CASE InvalidateCache(t)
  <2>1. /\ UNCHANGED <<log, checkpoints, target, found, view>> /\ pc[t] = "invalidate"
        /\ pc' = [pc EXCEPT ![t] = "idle"]
        /\ cache' = [cache EXCEPT ![StoreOf[t]][view[t].trajectory] = NoSnapshot]
    BY <1>6 DEF InvalidateCache, Finish
  <2>2. StoreOf[t] \in Stores /\ view[t].trajectory \in Trajectories
    BY <1>0, <2>1, StoreAssumption DEF TypeInv, TransactionOwned, TypeOK, Snapshot
  <2>3. \A q \in Stores, x \in Trajectories :
           cache'[q][x] = cache[q][x] \/ cache'[q][x] = NoSnapshot
    BY <1>0, <2>1, <2>2, CacheUpdate
  <2>4. \A u \in Threads : u = t \/ pc'[u] = pc[u]
    BY <1>0, <2>1 DEF TypeOK
  <2>5. pc'[t] = "idle" /\ found[t] = NoSnapshot
    BY <1>0, <1>1, <2>1 DEF TypeOK
  <2> QED BY <1>1, <2>1, <2>3, <2>4, <2>5, QuietSnapInv
<1>7. CASE Crash(s)
  <2>1. UNCHANGED <<log, checkpoints, target>>
    BY <1>7 DEF Crash
  <2>2. \A q \in Stores, x \in Trajectories :
           cache'[q][x] = cache[q][x] \/ cache'[q][x] = NoSnapshot
    BY <1>0, <1>7 DEF Crash, TypeOK
  <2>3. \A u \in Threads :
           \/ pc'[u] = pc[u] /\ found'[u] = found[u] /\ view'[u] = view[u]
           \/ pc'[u] = "idle" /\ found'[u] = NoSnapshot /\ view'[u] = NoSnapshot
    BY <1>7 DEF Crash
  <2>4. \A u \in Threads : found'[u] # NoSnapshot =>
           /\ pc'[u] \in {"validate", "fill", "offer"}
           /\ found'[u].trajectory = target'[u] /\ IsCommittedPrefix(found'[u])
    BY <1>1, <2>1, <2>3
  <2> QED BY <1>1, <2>1, <2>2, <2>3, <2>4, QuietSnapInv
<1> QED BY <1>2, <1>3, <1>4, <1>5, <1>6, <1>7

\* Every step of the store keeps snapshots and checkpoints committed.
LEMMA NextSnapInv == TypeInv /\ SnapInv /\ [Next]_vars => SnapInv'
<1> SUFFICES ASSUME TypeInv, SnapInv, [Next]_vars PROVE SnapInv'
  OBVIOUS
<1>1. ASSUME NEW t \in Threads, NEW tr \in Trajectories, InitTrajectory(t, tr) \/ Read(t, tr)
      PROVE  SnapInv'
  <2>1. StoreOf[t] \in Stores
    BY StoreAssumption
  <2> QED BY <1>1, <2>1, ReadSnapInv, OtherSnapInv
<1>2. ASSUME NEW t \in Threads, Continue(t) \/ SaveSnapshot(t) \/ Close(t) PROVE SnapInv'
  <2>1. target[t] \in Trajectories /\ StoreOf[t] \in Stores
    BY StoreAssumption DEF TypeInv, TypeOK
  <2> QED BY <1>2, <2>1, ReadSnapInv, CommitSnapInv, OtherSnapInv DEF Continue
<1>3. ASSUME NEW s \in Stores, Crash(s) PROVE SnapInv'
  <2>1. CASE Threads = {}
    <3>1. UNCHANGED <<log, checkpoints>> /\ \A q \in Stores, x \in Trajectories :
             cache'[q][x] = cache[q][x] \/ cache'[q][x] = NoSnapshot
      BY <1>3 DEF Crash, dbVars, TypeInv, TypeOK
    <3> QED BY <2>1, <3>1, QuietSnapInv
  <2>2. ASSUME NEW t \in Threads PROVE SnapInv'
    <3>1. target[t] \in Trajectories
      BY DEF TypeInv, TypeOK
    <3> QED BY <1>3, <3>1, OtherSnapInv
  <2> QED BY <2>1, <2>2
<1>4. CASE UNCHANGED vars
  <2>1. \A u \in Threads : found[u] # NoSnapshot =>
           /\ pc[u] \in {"validate", "fill", "offer"}
           /\ found[u].trajectory = target[u] /\ IsCommittedPrefix(found[u])
    BY DEF SnapInv, FoundFits, SnapshotsAreCommitted
  <2> QED BY <1>4, <2>1, QuietSnapInv DEF vars, readVars, dbVars
<1> QED BY <1>1, <1>2, <1>3, <1>4, SubmitSnapInv DEF Next

\* Snapshots and checkpoints are as SnapInv says in every state.
LEMMA SnapInvariant == Spec => [](TypeInv /\ SnapInv)
<1> QED BY InitSnapInv, NextSnapInv, TypesInvariant, PTL DEF Spec

\* Nobody ever sees uncommitted state: every snapshot in a cache, in a running
\* read or in a caller's hands is the reduction of a prefix of the committed
\* log, whatever was rolled back, raced or lost in a crash (reads load from the
\* committed tables, the cache is filled from reads only).
THEOREM OnlyCommittedSnapshots == Spec => []SnapshotsAreCommitted
<1>1. SnapInv => SnapshotsAreCommitted
  BY DEF SnapInv
<1> QED BY <1>1, SnapInvariant, PTL

\* No lost update: a log only grows by the commit of a thread whose snapshot is
\* the whole log so far (commit_events compares the head with the caller's and
\* keeps the write lock until COMMIT).
THEOREM NoLostUpdate == Spec => CommitsOnlyOnHead
<1>1. ASSUME TypeInv, SnapInv, [Next]_vars
      PROVE  [\A tr \in Trajectories : log'[tr] # log[tr] =>
                 \E t \in Threads :
                    /\ pc[t] = "loop" /\ pc'[t] = "invalidate"
                    /\ view[t].trajectory = tr
                    /\ view[t].applied = Hashes(log[tr])]_vars
  <2>1. ASSUME NEW tr \in Trajectories, log'[tr] # log[tr]
        PROVE  \E t \in Threads : CommitTx(t) /\ view[t].trajectory = tr
    <3>1. \E t \in Threads : CommitTx(t)
      <4> USE DEF dbVars
      <4>1. \A t \in Threads, x \in Trajectories :
               InitTrajectory(t, x) \/ Read(t, x) => UNCHANGED log
        BY DEF InitTrajectory, Read, ReadCache, PeekCache, PeekMiss
      <4>2. \A t \in Threads : \A b : Submit(t, b) => UNCHANGED log
        BY DEF Submit, SubmitBusy, SubmitUnloadable, SubmitReplay, SubmitMixed, SubmitStale,
               SubmitBegin
      <4>3. \A t \in Threads : Continue(t) => CommitTx(t) \/ UNCHANGED log
        BY DEF Continue, CacheHit, CacheMiss, Replay, FillCache, PeekLoad, OfferCache,
               StageEvent, StageRepeat, StageConflict, StageRejected, InvalidateCache
      <4>4. \A t \in Threads : SaveSnapshot(t) \/ Close(t) => UNCHANGED log
        BY DEF SaveSnapshot, Close
      <4>5. \A q \in Stores : Crash(q) => UNCHANGED log
        BY DEF Crash
      <4>6. UNCHANGED vars => UNCHANGED log
        BY DEF vars
      <4> QED BY <1>1, <2>1, <4>1, <4>2, <4>3, <4>4, <4>5, <4>6 DEF Next
    <3>2. PICK t \in Threads : CommitTx(t)
      BY <3>1
    <3>3. view[t].trajectory = tr
      BY <1>1, <2>1, <3>2 DEF CommitTx, TypeInv, TypeOK
    <3> QED BY <3>2, <3>3
  <2>2. ASSUME NEW t \in Threads, CommitTx(t)
        PROVE  /\ pc[t] = "loop" /\ pc'[t] = "invalidate"
               /\ view[t].applied = Hashes(log[view[t].trajectory])
    BY <1>1, <2>2 DEF CommitTx, TypeInv, TypeOK, SnapInv, LoopOnHead
  <2> QED BY <2>1, <2>2
<1>2. TypeInv /\ SnapInv /\ [Next]_vars =>
         [\A tr \in Trajectories : log'[tr] # log[tr] =>
                 \E t \in Threads :
                    /\ pc[t] = "loop" /\ pc'[t] = "invalidate"
                    /\ view[t].trajectory = tr
                    /\ view[t].applied = Hashes(log[tr])]_vars
  BY <1>1
<1> QED BY <1>2, SnapInvariant, PTL DEF Spec, CommitsOnlyOnHead

=============================================================================
