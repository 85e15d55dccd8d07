----------------------- MODULE EventStoreChainProofs ------------------------
(***************************************************************************)
(* What a transaction writes is a whole batch, chained and signed like the *)
(* log it extends; checkpoints fit the log; and the store implements the   *)
(* log of TrajectoryLog.  Proved of EventStore from the invariants of the  *)
(* tables and of the snapshots.                                            *)
(***************************************************************************)
EXTENDS EventStoreProofs

-----------------------------------------------------------------------------
(* The steps that matter to a transaction.                                 *)

\* A step that publishes nothing and leaves an open transaction as it is.
QuietStep ==
    /\ UNCHANGED <<log, idem>>
    /\ \A u \in Threads : pc'[u] = "loop" =>
          /\ pc[u] = "loop" /\ view'[u] = view[u] /\ todo'[u] = todo[u]
          /\ UNCHANGED <<txEvents, txRows>>

\* A transaction is begun, extended and published by four actions; the other
\* steps are quiet, and of those init_trajectory and save_snapshot add a
\* checkpoint.
LEMMA StepKinds ==
    ASSUME TypeInv, [Next]_vars
    PROVE  \/ QuietStep /\ UNCHANGED checkpoints
           \/ QuietStep /\ \E t \in Threads, tr \in Trajectories : InitTrajectory(t, tr)
           \/ QuietStep /\ \E t \in Threads : SaveSnapshot(t)
           \/ \E t \in Threads : \E b \in Jobs[t] : SubmitBegin(t, b)
           \/ \E t \in Threads : StageEvent(t) \/ StageRepeat(t) \/ CommitTx(t)
<1> USE DEF dbVars, txVars, readVars, callVars
<1>0. TypeOK
  BY DEF TypeInv
<1>1. ASSUME NEW t \in Threads, NEW tr \in Trajectories, InitTrajectory(t, tr) PROVE QuietStep
  BY <1>0, <1>1 DEF InitTrajectory, QuietStep, TypeOK
<1>2. ASSUME NEW t \in Threads, NEW tr \in Trajectories,
             \/ Read(t, tr) \/ CacheHit(t) \/ CacheMiss(t) \/ Replay(t) \/ FillCache(t)
             \/ PeekLoad(t) \/ OfferCache(t)
      PROVE  QuietStep /\ UNCHANGED checkpoints
  <2>1. /\ UNCHANGED <<log, idem, checkpoints, txEvents, txRows, todo>> /\ pc[t] # "loop"
        /\ \E q \in PCs \ {"loop"} : pc' = [pc EXCEPT ![t] = q] \/ UNCHANGED pc
        /\ \E x : view' = [view EXCEPT ![t] = x] \/ UNCHANGED view
    BY <1>2 DEF Read, ReadCache, PeekCache, PeekMiss, CacheHit, CacheMiss, Replay,
                FillCache, PeekLoad, OfferCache, PCs
  <2> QED BY <1>0, <2>1 DEF QuietStep, TypeOK
<1>3. ASSUME NEW t \in Threads, NEW b \in Jobs[t], Submit(t, b), ~ SubmitBegin(t, b)
      PROVE  QuietStep /\ UNCHANGED checkpoints
  <2>1. /\ UNCHANGED <<log, idem, checkpoints, txEvents, txRows, view>>
        /\ \E outcome : Finish(t, outcome)
    BY <1>3 DEF Submit, SubmitBusy, SubmitUnloadable, SubmitReplay, SubmitMixed, SubmitStale
  <2> QED BY <1>0, <2>1 DEF Finish, QuietStep, TypeOK
<1>4. ASSUME NEW t \in Threads, StageConflict(t) \/ StageRejected(t)
      PROVE  QuietStep /\ UNCHANGED checkpoints
  <2>1. /\ UNCHANGED <<log, idem, checkpoints, view>> /\ pc[t] = "loop"
        /\ \E outcome : Finish(t, outcome)
    BY <1>4 DEF StageConflict, StageRejected
  <2>2. \A u \in Threads : pc[u] = "loop" => u = t
    BY <2>1 DEF TypeInv, TransactionOwned
  <2> QED BY <1>0, <2>1, <2>2 DEF Finish, QuietStep, TypeOK
<1>5. ASSUME NEW t \in Threads, InvalidateCache(t) PROVE QuietStep /\ UNCHANGED checkpoints
  BY <1>0, <1>5 DEF InvalidateCache, Finish, QuietStep, TypeOK
<1>6. ASSUME NEW t \in Threads, SaveSnapshot(t) PROVE QuietStep
  BY <1>6 DEF SaveSnapshot, QuietStep
<1>7. ASSUME NEW t \in Threads, Close(t) PROVE QuietStep /\ UNCHANGED checkpoints
  <2>1. \A u \in Threads : pc[u] # "loop"
    BY <1>7 DEF Close, TypeInv, TransactionOwned
  <2> QED BY <1>7, <2>1 DEF Close, QuietStep
<1>8. ASSUME NEW s \in Stores, Crash(s) PROVE QuietStep /\ UNCHANGED checkpoints
  <2>1. \A u \in Threads : pc'[u] = "loop" =>
           /\ pc[u] = "loop" /\ StoreOf[u] # s
           /\ view'[u] = view[u] /\ todo'[u] = todo[u]
    BY <1>8 DEF Crash
  <2>2. \A u \in Threads : pc[u] = "loop" /\ StoreOf[u] # s => UNCHANGED <<txEvents, txRows>>
    BY <1>8 DEF Crash, TypeInv, TransactionOwned
  <2> QED BY <1>8, <2>1, <2>2 DEF Crash, QuietStep
<1>9. CASE UNCHANGED vars
  BY <1>9 DEF vars, QuietStep
<1>10. ASSUME NEW t \in Threads, Continue(t)
       PROVE  \/ QuietStep /\ UNCHANGED checkpoints
              \/ StageEvent(t) \/ StageRepeat(t) \/ CommitTx(t)
  <2>1. target[t] \in Trajectories
    BY <1>0 DEF TypeOK
  <2> QED BY <1>2, <1>4, <1>5, <1>10, <2>1 DEF Continue
<1> QED BY <1>1, <1>2, <1>3, <1>6, <1>7, <1>8, <1>9, <1>10 DEF Next

-----------------------------------------------------------------------------
(* A transaction works through one whole batch.                            *)

ProposalsOf(events) ==
    {[key |-> events[i].key, request |-> events[i].request] : i \in DOMAIN events}

ContentsOf(b) == {b[i] : i \in DOMAIN b}

\* What is staged and what is left to do make up a batch of the thread, and no
\* key of what is left is in the table.
BatchInv ==
    \A t \in Threads : pc[t] = "loop" =>
        /\ \E b \in Jobs[t] :
              b # <<>> /\ ContentsOf(b) = ProposalsOf(txEvents) \cup ContentsOf(todo[t])
        /\ \A p \in ContentsOf(todo[t]) : Entry(idem, view[t].trajectory, p.key) = {}

\* The first proposal of a list, and the others.
LEMMA HeadAndTail ==
    ASSUME NEW S, NEW b \in Seq(S), b # <<>>
    PROVE  ContentsOf(b) = {Head(b)} \cup ContentsOf(Tail(b))
<1>1. Len(b) \in Nat \ {0} /\ DOMAIN b = 1..Len(b) /\ Head(b) = b[1]
  BY LenProperties, EmptySeq
<1>2. /\ Tail(b) \in Seq(S) /\ Len(Tail(b)) = Len(b) - 1
      /\ \A i \in 1..Len(Tail(b)) : Tail(b)[i] = b[i + 1]
  BY HeadTailProperties
<1>3. DOMAIN Tail(b) = 1..(Len(b) - 1)
  BY <1>2, LenProperties
<1>4. ASSUME NEW i \in 1..Len(b) PROVE b[i] \in {Head(b)} \cup ContentsOf(Tail(b))
  <2>1. CASE i = 1
    BY <1>1, <2>1
  <2>2. CASE i # 1
    <3>1. i - 1 \in 1..(Len(b) - 1) /\ (i - 1) + 1 = i
      BY <1>1, <2>2
    <3>2. b[i] = Tail(b)[i - 1]
      BY <1>2, <3>1
    <3> QED BY <1>3, <3>1, <3>2 DEF ContentsOf
  <2> QED BY <2>1, <2>2
<1>5. ASSUME NEW i \in 1..(Len(b) - 1) PROVE Tail(b)[i] \in ContentsOf(b)
  <2>1. i + 1 \in 1..Len(b) /\ Tail(b)[i] = b[i + 1]
    BY <1>1, <1>2
  <2> QED BY <1>1, <2>1 DEF ContentsOf
<1>6. Head(b) \in ContentsOf(b)
  <2>1. 1 \in 1..Len(b)
    BY <1>1
  <2> QED BY <1>1, <2>1 DEF ContentsOf
<1>7. ContentsOf(b) \subseteq {Head(b)} \cup ContentsOf(Tail(b))
  BY <1>1, <1>4 DEF ContentsOf
<1>8. ContentsOf(Tail(b)) \subseteq ContentsOf(b)
  <2>1. ContentsOf(Tail(b)) = {Tail(b)[i] : i \in 1..(Len(b) - 1)}
    BY <1>3 DEF ContentsOf
  <2> QED BY <1>5, <2>1
<1> QED BY <1>6, <1>7, <1>8

\* The proposals of a list of events and one more.
LEMMA ProposalsAppend ==
    ASSUME NEW events \in Seq(Event), NEW e \in Event
    PROVE  ProposalsOf(Append(events, e)) =
              ProposalsOf(events) \cup {[key |-> e.key, request |-> e.request]}
<1> DEFINE n == Len(events)
           P(x) == [key |-> x.key, request |-> x.request]
<1>1. n \in Nat /\ DOMAIN events = 1..n
  BY LenProperties
<1>2. /\ DOMAIN Append(events, e) = 1..(n + 1)
      /\ \A i \in 1..n : Append(events, e)[i] = events[i]
      /\ Append(events, e)[n + 1] = e
  BY <1>1
<1> HIDE DEF n
<1>3. 1..(n + 1) = 1..n \cup {n + 1}
  BY <1>1
<1>4. ProposalsOf(Append(events, e)) = {P(Append(events, e)[i]) : i \in 1..n \cup {n + 1}}
  BY <1>2, <1>3 DEF ProposalsOf
<1>5. ProposalsOf(events) = {P(events[i]) : i \in 1..n}
  BY <1>1 DEF ProposalsOf
<1>6. {P(Append(events, e)[i]) : i \in 1..n \cup {n + 1}} =
         {P(Append(events, e)[i]) : i \in 1..n} \cup {P(Append(events, e)[n + 1])}
  OBVIOUS
<1>7. {P(Append(events, e)[i]) : i \in 1..n} = {P(events[i]) : i \in 1..n}
  BY <1>2
<1> QED BY <1>2, <1>4, <1>5, <1>6, <1>7

\* Nothing has begun at first.
LEMMA InitBatchInv == Init => BatchInv
BY DEF Init, BatchInv

\* Every step keeps a transaction to its batch.
LEMMA NextBatchInv == TypeInv /\ IndexInv /\ BatchInv /\ [Next]_vars => BatchInv'
<1> SUFFICES ASSUME TypeInv, IndexInv, BatchInv, [Next]_vars PROVE BatchInv'
  OBVIOUS
<1> USE DEF dbVars, txVars, readVars, callVars
<1>0. TypeOK
  BY DEF TypeInv
<1>1. CASE QuietStep
  BY <1>1 DEF QuietStep, BatchInv, Entry
<1>2. ASSUME NEW t \in Threads, NEW b \in Jobs[t], SubmitBegin(t, b) PROVE BatchInv'
  <2> DEFINE tr == view[t].trajectory
  <2>1. /\ pc' = [pc EXCEPT ![t] = "loop"] /\ todo' = [todo EXCEPT ![t] = b]
        /\ UNCHANGED <<idem, txEvents, view>>
        /\ b # <<>> /\ writer = NoThread /\ ~ SomeCommitted(tr, b)
    BY <1>2 DEF SubmitBegin, MaySubmit
  <2>2. txEvents = <<>> /\ \A u \in Threads : pc[u] # "loop"
    BY <2>1, StoreAssumption DEF TypeInv, TransactionOwned
  <2>3. ProposalsOf(txEvents) = {}
    <3>1. DOMAIN txEvents = {}
      BY <2>2
    <3> QED BY <3>1 DEF ProposalsOf
  <2>4. \A u \in Threads : pc'[u] = "loop" => u = t /\ todo'[u] = b
    BY <1>0, <2>1, <2>2 DEF TypeOK
  <2>5. ContentsOf(b) = ProposalsOf(txEvents') \cup ContentsOf(b)
    BY <2>1, <2>3
  <2>6. \A p \in ContentsOf(b) : Entry(idem, tr, p.key) = {}
    BY <2>1 DEF ContentsOf, SomeCommitted
  <2> QED BY <2>1, <2>4, <2>5, <2>6 DEF BatchInv
<1>3. ASSUME NEW t \in Threads, StageEvent(t) \/ StageRepeat(t) PROVE BatchInv'
  <2> DEFINE tr == view[t].trajectory
             p == Head(todo[t])
  <2>1. /\ pc[t] = "loop" /\ todo[t] # <<>>
        /\ todo' = [todo EXCEPT ![t] = Tail(todo[t])]
        /\ UNCHANGED <<idem, pc, view>>
    BY <1>3 DEF StageEvent, StageRepeat
  <2>2. /\ todo[t] \in Seq([key : Keys, request : Requests])
        /\ txEvents \in Seq(Event) /\ tr \in Trajectories
    BY <1>0, <2>1 DEF TypeInv, TransactionOwned, TypeOK, Snapshot
  <2>3. p \in [key : Keys, request : Requests]
    BY <2>1, <2>2, HeadTailProperties
  <2>4. ContentsOf(todo[t]) = {p} \cup ContentsOf(Tail(todo[t]))
    BY <2>1, <2>2, HeadAndTail
  <2>5. /\ \A u \in Threads : pc[u] = "loop" => u = t
        /\ todo'[t] = Tail(todo[t])
    BY <1>0, <2>1 DEF TypeInv, TransactionOwned, TypeOK
  <2>6. PICK b \in Jobs[t] :
           b # <<>> /\ ContentsOf(b) = ProposalsOf(txEvents) \cup ContentsOf(todo[t])
    BY <2>1 DEF BatchInv
  <2>7. \A q \in ContentsOf(todo[t]) : Entry(idem, tr, q.key) = {}
    BY <2>1 DEF BatchInv
  <2> HIDE DEF p
  <2>8. ProposalsOf(txEvents') = ProposalsOf(txEvents) \cup {p}
    <3>1. CASE StageEvent(t)
      <4> DEFINE e == NextEvent(t, tr, p)
      <4>1. txEvents' = Append(txEvents, e)
        BY <3>1 DEF StageEvent, p
      <4>2. e \in Event
        BY <1>0, <2>2, <2>3, NextEventType
      <4>3. [key |-> e.key, request |-> e.request] = p
        BY <2>3 DEF NextEvent
      <4> HIDE DEF e
      <4> QED BY <2>2, <4>1, <4>2, <4>3, ProposalsAppend
    <3>2. CASE StageRepeat(t)
      <4>1. txEvents' = txEvents /\ SameRequest(idem \cup txRows, tr, p)
        BY <3>2 DEF StageRepeat, p
      <4>2. PICK r \in idem \cup txRows :
               r.trajectory = tr /\ r.key = p.key /\ r.request = p.request
        BY <4>1 DEF SameRequest, Entry
      <4>3. r \in txRows
        BY <2>4, <2>7, <4>2 DEF Entry
      <4>4. PICK i \in DOMAIN txEvents : r = RowOf(tr, Len(log[tr]) + i, txEvents[i])
        BY <2>1, <4>3 DEF IndexInv, StagedRowsMatch
      <4>5. txEvents[i].key = p.key /\ txEvents[i].request = p.request
        BY <4>2, <4>4 DEF RowOf
      <4>6. p = [key |-> txEvents[i].key, request |-> txEvents[i].request]
        BY <2>3, <4>5
      <4>7. p \in ProposalsOf(txEvents)
        BY <4>6 DEF ProposalsOf
      <4> QED BY <4>1, <4>7
    <3> QED BY <1>3, <3>1, <3>2
  <2>9. ContentsOf(b) = ProposalsOf(txEvents') \cup ContentsOf(todo'[t])
    BY <2>4, <2>5, <2>6, <2>8
  <2>10. \A q \in ContentsOf(todo'[t]) : Entry(idem, tr, q.key) = {}
    BY <2>4, <2>5, <2>7
  <2> QED BY <2>1, <2>5, <2>6, <2>9, <2>10 DEF BatchInv
<1>4. ASSUME NEW t \in Threads, CommitTx(t) PROVE BatchInv'
  <2>1. pc[t] = "loop" /\ pc' = [pc EXCEPT ![t] = "invalidate"]
    BY <1>4 DEF CommitTx
  <2>2. \A u \in Threads : pc'[u] # "loop"
    BY <1>0, <2>1 DEF TypeInv, TransactionOwned, TypeOK
  <2> QED BY <2>2 DEF BatchInv
<1> QED BY <1>1, <1>2, <1>3, <1>4, StepKinds

\* A transaction keeps to its batch in every state.
LEMMA BatchInvariant == Spec => [](TypeInv /\ KeyInv /\ IndexInv /\ SnapInv /\ BatchInv)
<1> QED BY InitKeyInv, NextKeyInv, InitBatchInv, NextBatchInv, IndexInvariant, SnapInvariant,
          PTL DEF Spec

-----------------------------------------------------------------------------
(* Chains of events, and their signer.                                     *)

\* The hash and the signer of the n-th event, with those of none before them.
HashAt(events, n) == IF n = 0 THEN NoHash ELSE events[n].hash

SignerAt(events, n) == IF n = 0 THEN NoKey ELSE events[n].signer

Chained(events) ==
    \A i \in DOMAIN events :
        EnvelopeOK(i - 1, HashAt(events, i - 1), SignerAt(events, i - 1), events[i])

SignedBy(events, signer) == \A i \in DOMAIN events : events[i].signer = signer

\* The last event of the first n.
LEMMA FrontOfChain ==
    ASSUME NEW events \in Seq(Event), NEW n \in 0..Len(events)
    PROVE  /\ LastHash(SubSeq(events, 1, n)) = HashAt(events, n)
           /\ LastSigner(SubSeq(events, 1, n)) = SignerAt(events, n)
<1> DEFINE front == SubSeq(events, 1, n)
<1>1. n \in Nat /\ Len(events) \in Nat /\ \A i \in 1..n : events[i] \in Event
  BY LenProperties, ElementOfSeq
<1>2. front \in Seq(Event) /\ Len(front) = n /\ \A i \in 1..n : front[i] = events[i]
  BY <1>1, SubSeqProperties
<1> HIDE DEF front
<1>3. front = <<>> <=> n = 0
  BY <1>2, EmptySeq
<1>4. n # 0 => n \in 1..n
  BY <1>1
<1>5. LastHash(front) = HashAt(events, n) /\ LastSigner(front) = SignerAt(events, n)
  BY <1>2, <1>3, <1>4 DEF LastHash, LastSigner, HashAt, SignerAt
<1> QED BY <1>5 DEF front

\* The last event of all.
LEMMA EndOfChain ==
    ASSUME NEW events \in Seq(Event)
    PROVE  /\ LastHash(events) = HashAt(events, Len(events))
           /\ LastSigner(events) = SignerAt(events, Len(events))
           /\ Len(events) = 0 <=> events = <<>>
BY EmptySeq, LenProperties DEF LastHash, LastSigner, HashAt, SignerAt

\* A chain and an event that _validate_envelope accepts after it.
LEMMA ChainAppend ==
    ASSUME NEW events \in Seq(Event), NEW e \in Event, Chained(events),
           EnvelopeOK(Len(events), LastHash(events), LastSigner(events), e)
    PROVE  Chained(Append(events, e))
<1> DEFINE n == Len(events)
           longer == Append(events, e)
<1>1. n \in Nat /\ DOMAIN events = 1..n
  BY LenProperties
<1>2. /\ DOMAIN longer = 1..(n + 1)
      /\ \A i \in 1..n : longer[i] = events[i]
      /\ longer[n + 1] = e
  BY <1>1
<1>3. EnvelopeOK(n, HashAt(events, n), SignerAt(events, n), e)
  BY EndOfChain
<1> HIDE DEF n, longer
<1>4. ASSUME NEW i \in 1..(n + 1)
      PROVE  /\ HashAt(longer, i - 1) = HashAt(events, i - 1)
             /\ SignerAt(longer, i - 1) = SignerAt(events, i - 1)
  <2>1. i - 1 = 0 \/ i - 1 \in 1..n
    BY <1>1
  <2> QED BY <1>2, <2>1 DEF HashAt, SignerAt
<1>5. ASSUME NEW i \in 1..(n + 1)
      PROVE  EnvelopeOK(i - 1, HashAt(longer, i - 1), SignerAt(longer, i - 1), longer[i])
  <2>1. CASE i \in 1..n
    BY <1>1, <1>2, <1>4, <2>1 DEF Chained
  <2>2. CASE i = n + 1
    <3>1. i - 1 = n
      BY <1>1, <2>2
    <3> QED BY <1>2, <1>3, <1>4, <2>2, <3>1
  <2> QED BY <1>1, <2>1, <2>2
<1>6. Chained(longer)
  BY <1>2, <1>5 DEF Chained
<1> QED BY <1>6 DEF longer

\* One more element at the end of a concatenation.
LEMMA ConcatAppend ==
    ASSUME NEW S, NEW a \in Seq(S), NEW b \in Seq(S), NEW e \in S
    PROVE  a \o Append(b, e) = Append(a \o b, e)
<1>1. <<e>> \in Seq(S) /\ a \o b \in Seq(S)
  BY ConcatProperties
<1>2. Append(b, e) = b \o <<e>> /\ Append(a \o b, e) = (a \o b) \o <<e>>
  BY <1>1, AppendIsConcat
<1>3. (a \o b) \o <<e>> = a \o (b \o <<e>>)
  BY <1>1, ConcatAssociative
<1> QED BY <1>2, <1>3

\* Two lists in a row are signed as each of them is.
LEMMA SignedConcat ==
    ASSUME NEW a \in Seq(Event), NEW b \in Seq(Event), NEW signer,
           SignedBy(a, signer), SignedBy(b, signer)
    PROVE  SignedBy(a \o b, signer)
<1>1. Len(a) \in Nat /\ DOMAIN a = 1..Len(a)
  BY LenProperties
<1>2. ASSUME NEW i \in DOMAIN (a \o b) PROVE (a \o b)[i].signer = signer
  <2>0. i \in Nat \ {0}
    BY ConcatElements, LenProperties
  <2>1. CASE i <= Len(a)
    <3>1. i \in 1..Len(a)
      BY <1>1, <2>0, <2>1
    <3> QED BY <1>1, <3>1, ConcatElements DEF SignedBy
  <2>2. CASE ~ (i <= Len(a))
    <3>1. i > Len(a)
      BY <1>1, <2>0, <2>2
    <3> QED BY <3>1, ConcatElements DEF SignedBy
  <2> QED BY <2>1, <2>2
<1> QED BY <1>2 DEF SignedBy

-----------------------------------------------------------------------------
(* The invariant: logs and transactions are chained and signed by one key, *)
(* and checkpoints say what the log says.                                  *)

\* A checkpoint is what _insert_snapshot makes of its snapshot, whose signer is
\* that of the last event it covers.
CheckpointsFit ==
    \A row \in checkpoints :
        /\ row = CheckpointRow(row.snapshot, Len(row.snapshot.applied))
        /\ row.snapshot.signer =
              SignerAt(log[row.snapshot.trajectory], Len(row.snapshot.applied))

\* A log is a chain signed by a store object.
LogsSigned ==
    \A tr \in Trajectories :
        /\ Chained(log[tr])
        /\ log[tr] # <<>> => \E s \in Stores : SignedBy(log[tr], KeyOf[s])
        /\ Exists(tr) => Stores # {}

\* What is staged goes on with the chain.  A store object with a key may begin
\* to extend a log without signatures, but it can stage nothing.
LoopSigned ==
    \A t \in Threads : pc[t] = "loop" =>
        LET tr == view[t].trajectory
            signer == KeyOf[StoreOf[t]]
        IN /\ Chained(log[tr] \o txEvents)
           /\ SignedBy(txEvents, signer)
           /\ \/ SignedBy(log[tr], signer)
              \/ SignedBy(log[tr], NoKey) /\ txEvents = <<>>

ChainInv == CheckpointsFit /\ LogsSigned /\ LoopSigned

\* An empty database is signed.
LEMMA InitChainInv == Init => ChainInv
BY DEF Init, ChainInv, CheckpointsFit, LogsSigned, LoopSigned, Chained, Exists, RowsOf

\* A step that publishes nothing and stages nothing keeps the chains.
LEMMA QuietChainInv ==
    ASSUME ChainInv, QuietStep,
           \A row \in checkpoints' : row \in checkpoints \/
              /\ row = CheckpointRow(row.snapshot, Len(row.snapshot.applied))
              /\ row.snapshot.signer =
                    SignerAt(log[row.snapshot.trajectory], Len(row.snapshot.applied)),
           Stores = {} => UNCHANGED checkpoints
    PROVE  ChainInv'
<1>1. CheckpointsFit'
  BY DEF ChainInv, CheckpointsFit, QuietStep
<1>2. LogsSigned'
  BY DEF ChainInv, LogsSigned, QuietStep, Exists, RowsOf
<1>3. LoopSigned'
  BY DEF ChainInv, LoopSigned, QuietStep
<1> QED BY <1>1, <1>2, <1>3 DEF ChainInv

\* Whoever can load the head signs as the log is signed, unless the log has no
\* signatures.
LEMMA LoaderSigns ==
    ASSUME TypeInv, SnapInv, ChainInv, NEW tr \in Trajectories, NEW s \in Stores,
           Loadable(s, tr)
    PROVE  SignedBy(log[tr], KeyOf[s]) \/ SignedBy(log[tr], NoKey)
<1> DEFINE row == LatestRow(tr)
           n == SequenceOf(row)
<1>1. /\ row \in checkpoints /\ row.snapshot.trajectory = tr
      /\ CheckpointOK(row, log[tr])
      /\ \A i \in (n + 1)..Len(log[tr]) : log[tr][i].signer = KeyOf[s]
  BY LatestRowFact DEF TypeInv, Loadable, RowsOf, SignatureOK
<1>2. row.snapshot \in Snapshot /\ n \in Nat
  BY <1>1, HashOfType DEF TypeInv, TypeOK, Checkpoint, SequenceOf
<1>3. log[tr] \in Seq(Event) /\ Len(log[tr]) \in Nat /\ DOMAIN log[tr] = 1..Len(log[tr])
  BY LenProperties DEF TypeInv, TypeOK
<1>4. row.signerColumn = NoKey /\ row.snapshot.signer = SignerAt(log[tr], n)
  <2>1. row = CheckpointRow(row.snapshot, Len(row.snapshot.applied))
    BY <1>1 DEF ChainInv, CheckpointsFit
  <2>2. CheckpointRow(row.snapshot, Len(row.snapshot.applied)).signerColumn = NoKey
    BY DEF CheckpointRow
  <2>3. row.snapshot.signer = SignerAt(log[tr], n)
    BY <1>1 DEF ChainInv, CheckpointsFit, SequenceOf
  <2> HIDE DEF row
  <2> QED BY <2>1, <2>2, <2>3
<1>5. n <= Len(log[tr]) /\ row.snapshot.signer = row.signerColumn
  BY <1>1 DEF CheckpointOK
<1> HIDE DEF row, n
<1>6. CASE n = 0
  <2>1. \A i \in DOMAIN log[tr] : i \in (n + 1)..Len(log[tr])
    BY <1>3, <1>6
  <2> QED BY <1>1, <2>1 DEF SignedBy, n, row
<1>7. CASE n # 0
  <2>1. n \in DOMAIN log[tr]
    BY <1>2, <1>3, <1>5, <1>7
  <2>2. log[tr][n].signer = NoKey
    BY <1>4, <1>5, <1>7 DEF SignerAt
  <2>3. PICK q \in Stores : SignedBy(log[tr], KeyOf[q])
    <3>1. log[tr] # <<>>
      BY <2>1
    <3> QED BY <3>1 DEF ChainInv, LogsSigned
  <2> QED BY <2>1, <2>2, <2>3 DEF SignedBy
<1> QED BY <1>6, <1>7

\* init_trajectory and save_snapshot write checkpoints that fit.
LEMMA CheckpointChainInv ==
    ASSUME TypeInv, SnapInv, ChainInv, QuietStep, NEW t \in Threads,
           (\E tr \in Trajectories : InitTrajectory(t, tr)) \/ SaveSnapshot(t)
    PROVE  ChainInv'
<1>0. Stores # {} /\ TypeOK
  BY StoreAssumption DEF TypeInv
<1>1. PICK s : /\ checkpoints' = checkpoints \cup {CheckpointRow(s, Len(s.applied))}
               /\ s.signer = SignerAt(log[s.trajectory], Len(s.applied))
  <2>1. ASSUME NEW tr \in Trajectories, InitTrajectory(t, tr)
        PROVE  LET s == Genesis(tr) IN
               /\ checkpoints' = checkpoints \cup {CheckpointRow(s, Len(s.applied))}
               /\ s.signer = SignerAt(log[s.trajectory], Len(s.applied))
    <3>1. Len(Genesis(tr).applied) = 0 /\ Genesis(tr).signer = NoKey
      BY DEF Genesis
    <3> QED BY <2>1, <3>1 DEF InitTrajectory, SignerAt
  <2>2. ASSUME SaveSnapshot(t)
        PROVE  LET s == view[t] IN
               /\ checkpoints' = checkpoints \cup {CheckpointRow(s, Len(s.applied))}
               /\ s.signer = SignerAt(log[s.trajectory], Len(s.applied))
    <3>1. AtHead(view[t], view[t].trajectory) /\ view[t] \in Snapshot
      BY <1>0, <2>2 DEF SaveSnapshot, TypeOK
    <3>2. log[view[t].trajectory] \in Seq(Event)
      BY <1>0, <3>1 DEF TypeOK, Snapshot
    <3> QED BY <2>2, <3>1, <3>2, EndOfChain DEF SaveSnapshot, AtHead
  <2> QED BY <2>1, <2>2
<1>2. CheckpointRow(s, Len(s.applied)).snapshot = s
  BY DEF CheckpointRow
<1> QED BY <1>0, <1>1, <1>2, QuietChainInv

\* A batch is begun by a thread that can load the head.
LEMMA BeginChainInv ==
    ASSUME TypeInv, SnapInv, ChainInv, NEW t \in Threads, NEW b \in Jobs[t], SubmitBegin(t, b)
    PROVE  ChainInv'
<1> DEFINE tr == view[t].trajectory
<1> USE DEF dbVars, txVars, readVars, callVars
<1>0. TypeOK
  BY DEF TypeInv
<1>1. /\ UNCHANGED <<log, checkpoints, txEvents, view>> /\ pc' = [pc EXCEPT ![t] = "loop"]
      /\ writer = NoThread /\ view[t] # NoSnapshot /\ Loadable(StoreOf[t], tr)
  BY DEF SubmitBegin, MaySubmit
<1>2. txEvents = <<>> /\ \A u \in Threads : pc[u] # "loop"
  BY <1>1, StoreAssumption DEF TypeInv, TransactionOwned
<1>3. tr \in Trajectories /\ log[tr] \in Seq(Event)
  BY <1>0, <1>1 DEF TypeOK, Snapshot
<1>4. SignedBy(log[tr], KeyOf[StoreOf[t]]) \/ SignedBy(log[tr], NoKey)
  BY <1>1, <1>3, StoreAssumption, LoaderSigns
<1>5. log[tr] \o <<>> = log[tr] /\ DOMAIN <<>> = {}
  BY <1>3, ConcatEmptySeq
<1>6. \A u \in Threads : pc'[u] = "loop" => u = t
  BY <1>0, <1>1, <1>2 DEF TypeOK
<1>7. Chained(log[tr] \o <<>>) /\ SignedBy(<<>>, KeyOf[StoreOf[t]])
  BY <1>3, <1>5 DEF ChainInv, LogsSigned, SignedBy
<1> HIDE DEF tr
<1>8. LoopSigned'
  BY <1>1, <1>2, <1>4, <1>6, <1>7 DEF LoopSigned, tr
<1>9. CheckpointsFit' /\ LogsSigned'
  BY <1>1 DEF ChainInv, CheckpointsFit, LogsSigned, Exists, RowsOf
<1> QED BY <1>8, <1>9 DEF ChainInv

\* The envelope check lets in only the event that goes on with the chain and
\* its signer.
LEMMA StageChainInv ==
    ASSUME TypeInv, ChainInv, NEW t \in Threads, StageEvent(t)
    PROVE  ChainInv'
<1> DEFINE tr == view[t].trajectory
           sofar == log[tr] \o txEvents
           signer == KeyOf[StoreOf[t]]
           event == NextEvent(t, tr, Head(todo[t]))
<1> USE DEF dbVars, txVars, readVars, callVars
<1>0. TypeOK
  BY DEF TypeInv
<1>1. /\ pc[t] = "loop" /\ todo[t] # <<>> /\ Reducible(tr, event)
      /\ txEvents' = Append(txEvents, event)
      /\ UNCHANGED <<log, checkpoints, pc, view>>
  BY DEF StageEvent
<1>2. /\ view[t] # NoSnapshot /\ \A u \in Threads : pc[u] = "loop" => u = t
  BY <1>1 DEF TypeInv, TransactionOwned
<1>3. tr \in Trajectories /\ log[tr] \in Seq(Event) /\ txEvents \in Seq(Event)
  BY <1>0, <1>2 DEF TypeOK, Snapshot
<1>4. event \in Event
  <2>1. Head(todo[t]) \in [key : Keys, request : Requests]
    BY <1>0, <1>1, HeadTailProperties DEF TypeOK
  <2> QED BY <1>0, <1>3, <2>1, NextEventType
<1>5. sofar \in Seq(Event) /\ Len(sofar) = Len(log[tr]) + Len(txEvents)
  BY <1>3, ConcatProperties
<1>6. /\ event.signer = signer /\ event.prevSigner = LastSigner(sofar)
      /\ EnvelopeOK(Len(sofar), LastHash(sofar), LastSigner(sofar), event)
  BY <1>1 DEF NextEvent, Reducible
<1>7. /\ Chained(sofar) /\ SignedBy(txEvents, signer)
      /\ \/ SignedBy(log[tr], signer)
         \/ SignedBy(log[tr], NoKey) /\ txEvents = <<>>
  BY <1>1 DEF ChainInv, LoopSigned
<1> HIDE DEF event
<1>8. log[tr] \o Append(txEvents, event) = Append(sofar, event)
  <2>1. \A a, b \in Seq(Event), e \in Event : a \o Append(b, e) = Append(a \o b, e)
    BY ConcatAppend
  <2> QED BY <1>3, <1>4, <2>1, Zenon
<1>9. Chained(Append(sofar, event))
  BY <1>4, <1>5, <1>6, <1>7, ChainAppend
<1>10. SignedBy(Append(txEvents, event), signer)
  <2>1. Len(txEvents) \in Nat /\ DOMAIN txEvents = 1..Len(txEvents)
    BY <1>3, LenProperties
  <2>2. /\ DOMAIN Append(txEvents, event) = 1..(Len(txEvents) + 1)
        /\ \A i \in 1..Len(txEvents) : Append(txEvents, event)[i] = txEvents[i]
        /\ Append(txEvents, event)[Len(txEvents) + 1] = event
    BY <2>1
  <2> HIDE DEF signer
  <2> QED BY <1>6, <1>7, <2>1, <2>2 DEF SignedBy
<1>11. SignedBy(log[tr], signer)
  <2>1. CASE SignedBy(log[tr], signer)
    BY <2>1
  <2>2. CASE log[tr] = <<>>
    <3>1. DOMAIN log[tr] = {}
      BY <2>2
    <3> QED BY <3>1 DEF SignedBy
  <2>3. CASE SignedBy(log[tr], NoKey) /\ txEvents = <<>> /\ log[tr] # <<>>
    <3>1. sofar = log[tr]
      BY <1>3, <2>3, ConcatEmptySeq
    <3>2. Len(log[tr]) \in Nat /\ Len(log[tr]) > 0 /\ Len(log[tr]) \in DOMAIN log[tr]
      BY <1>3, <2>3, LenProperties, EmptySeq
    <3>3. LastSigner(sofar) = NoKey
      BY <2>3, <3>1, <3>2 DEF LastSigner, SignedBy
    <3>4. signer = NoKey
      BY <1>6, <3>1, <3>2, <3>3 DEF EnvelopeOK
    <3> QED BY <2>3, <3>4
  <2> QED BY <1>7, <2>1, <2>2, <2>3
<1>12. LoopSigned'
  BY <1>1, <1>2, <1>8, <1>9, <1>10, <1>11 DEF LoopSigned
<1>13. CheckpointsFit' /\ LogsSigned'
  BY <1>1 DEF ChainInv, CheckpointsFit, LogsSigned, Exists, RowsOf
<1> QED BY <1>12, <1>13 DEF ChainInv

\* COMMIT publishes a chain, and a checkpoint signed like its end.
LEMMA CommitChainInv ==
    ASSUME TypeInv, IndexInv, SnapInv, BatchInv, ChainInv, NEW t \in Threads, CommitTx(t)
    PROVE  ChainInv'
<1> DEFINE tr == view[t].trajectory
           signer == KeyOf[StoreOf[t]]
<1>0. TypeOK
  BY DEF TypeInv
<1>1. /\ pc[t] = "loop" /\ todo[t] = <<>> /\ view[t] # NoSnapshot /\ Exists(tr)
      /\ \A u \in Threads : pc[u] = "loop" => u = t
      /\ log' = [log EXCEPT ![tr] = log[tr] \o txEvents]
      /\ checkpoints' = checkpoints \cup AutoCheckpoint(tr)
      /\ pc' = [pc EXCEPT ![t] = "invalidate"]
  BY DEF CommitTx, TypeInv, TransactionOwned
<1>2. tr \in Trajectories
  BY <1>0, <1>1 DEF TypeOK, Snapshot
<1>3. /\ Chained(log[tr] \o txEvents) /\ SignedBy(txEvents, signer)
      /\ \/ SignedBy(log[tr], signer)
         \/ SignedBy(log[tr], NoKey) /\ txEvents = <<>>
  BY <1>1 DEF ChainInv, LoopSigned
<1>4. txEvents # <<>>
  <2>1. PICK b \in Jobs[t] :
           b # <<>> /\ ContentsOf(b) = ProposalsOf(txEvents) \cup ContentsOf(todo[t])
    BY <1>1 DEF BatchInv
  <2>2. b \in Seq([key : Keys, request : Requests])
    BY StoreAssumption
  <2>3. b[1] \in ContentsOf(b)
    <3>1. 1 \in DOMAIN b
      BY <2>1, <2>2, LenProperties, EmptySeq
    <3> QED BY <3>1 DEF ContentsOf
  <2>4. ContentsOf(todo[t]) = {}
    <3>1. DOMAIN todo[t] = {}
      BY <1>1
    <3> QED BY <3>1 DEF ContentsOf
  <2>5. DOMAIN txEvents # {}
    BY <2>1, <2>3, <2>4 DEF ProposalsOf
  <2> QED BY <2>5
<1> HIDE DEF tr
<1>5. /\ log[tr] \in Seq(Event) /\ txEvents \in Seq(Event)
      /\ Len(log[tr]) \in Nat /\ Len(txEvents) \in Nat \ {0}
      /\ DOMAIN txEvents = 1..Len(txEvents)
  BY <1>0, <1>2, <1>4, LenProperties, EmptySeq DEF TypeOK
<1>6. /\ log[tr] \o txEvents \in Seq(Event)
      /\ Len(log[tr] \o txEvents) = Len(log[tr]) + Len(txEvents)
      /\ \A i \in 1..Len(log[tr]) : (log[tr] \o txEvents)[i] = log[tr][i]
  BY <1>5, ConcatProperties
<1>7. /\ log'[tr] = log[tr] \o txEvents
      /\ \A x \in Trajectories : x # tr => log'[x] = log[x]
  BY <1>0, <1>1, <1>2 DEF TypeOK
<1>8. SignedBy(log'[tr], signer)
  BY <1>3, <1>4, <1>5, <1>7, SignedConcat
<1>9. LogsSigned'
  <2>1. StoreOf[t] \in Stores
    BY StoreAssumption
  <2> QED BY <1>3, <1>7, <1>8, <2>1 DEF ChainInv, LogsSigned
<1>10. LoopSigned'
  BY <1>0, <1>1 DEF LoopSigned, TypeOK
<1>11. ASSUME NEW row \in checkpoints
       PROVE  row.snapshot.signer =
                 SignerAt(log'[row.snapshot.trajectory], Len(row.snapshot.applied))
  <2>1. /\ row.snapshot \in Snapshot
        /\ row.snapshot.signer =
              SignerAt(log[row.snapshot.trajectory], Len(row.snapshot.applied))
        /\ Len(row.snapshot.applied) <= Len(log[row.snapshot.trajectory])
    BY <1>0 DEF ChainInv, CheckpointsFit, SnapInv, CheckpointsCommitted, IsCommittedPrefix,
                TypeOK, Checkpoint
  <2>2. Len(row.snapshot.applied) \in Nat /\ row.snapshot.trajectory \in Trajectories
    BY <2>1, HashOfType DEF Snapshot
  <2>3. CASE row.snapshot.trajectory = tr
    <3>1. \/ Len(row.snapshot.applied) = 0
          \/ Len(row.snapshot.applied) \in 1..Len(log[tr])
      BY <1>5, <2>1, <2>2, <2>3
    <3> QED BY <1>6, <1>7, <2>1, <2>3, <3>1 DEF SignerAt
  <2>4. CASE row.snapshot.trajectory # tr
    BY <1>7, <2>1, <2>2, <2>4 DEF SignerAt
  <2> QED BY <2>3, <2>4
<1>12. ASSUME NEW row \in AutoCheckpoint(tr)
       PROVE  /\ row = CheckpointRow(row.snapshot, Len(row.snapshot.applied))
              /\ row.snapshot.signer =
                    SignerAt(log'[row.snapshot.trajectory], Len(row.snapshot.applied))
  <2> DEFINE head == [trajectory |-> tr,
                      applied |-> LoadedHead(tr).applied \o Hashes(txEvents),
                      signer |-> LastSigner(txEvents)]
  <2>1. row = CheckpointRow(head, EventCount(tr)) /\ row.snapshot = head
    <3>1. AutoCheckpoint(tr) \subseteq {CheckpointRow(head, EventCount(tr))}
      BY DEF AutoCheckpoint
    <3>2. CheckpointRow(head, EventCount(tr)).snapshot = head
      BY DEF CheckpointRow
    <3> QED BY <1>12, <3>1, <3>2
  <2>2. LoadedHead(tr).applied = Hashes(log[tr])
    BY <1>1, <1>2, LoadedHeadWhole DEF SnapInv
  <2>3. Len(LoadedHead(tr).applied \o Hashes(txEvents)) = Len(log[tr]) + Len(txEvents)
    <3>1. /\ Hashes(log[tr]) \in Seq(Nat) /\ Len(Hashes(log[tr])) = Len(log[tr])
          /\ Hashes(txEvents) \in Seq(Nat) /\ Len(Hashes(txEvents)) = Len(txEvents)
      BY <1>5, HashesElements
    <3>2. Len(Hashes(log[tr]) \o Hashes(txEvents)) =
             Len(Hashes(log[tr])) + Len(Hashes(txEvents))
      BY <3>1, ConcatProperties
    <3> QED BY <2>2, <3>1, <3>2
  <2>4. Len(head.applied) = EventCount(tr)
    BY <2>3 DEF EventCount
  <2>5. LastSigner(txEvents) = SignerAt(log'[tr], Len(log[tr]) + Len(txEvents))
    <3>1. LastSigner(txEvents) = signer
      BY <1>3, <1>4, <1>5 DEF LastSigner, SignedBy
    <3>2. Len(log[tr]) + Len(txEvents) \in DOMAIN log'[tr]
      BY <1>5, <1>6, <1>7, LenProperties
    <3>3. Len(log[tr]) + Len(txEvents) # 0
      BY <1>5
    <3> QED BY <1>8, <3>1, <3>2, <3>3 DEF SignedBy, SignerAt
  <2>6. /\ head.trajectory = tr /\ head.signer = LastSigner(txEvents)
        /\ Len(head.applied) = Len(log[tr]) + Len(txEvents)
    BY <2>3
  <2> HIDE DEF head
  <2> QED BY <2>1, <2>4, <2>5, <2>6
<1>13. CheckpointsFit'
  BY <1>1, <1>11, <1>12 DEF ChainInv, CheckpointsFit
<1> QED BY <1>9, <1>10, <1>13 DEF ChainInv

\* Every step of the store keeps the chains.
LEMMA NextChainInv ==
    TypeInv /\ IndexInv /\ SnapInv /\ BatchInv /\ ChainInv /\ [Next]_vars => ChainInv'
<1> SUFFICES ASSUME TypeInv, IndexInv, SnapInv, BatchInv, ChainInv, [Next]_vars
             PROVE  ChainInv'
  OBVIOUS
<1>1. CASE QuietStep /\ UNCHANGED checkpoints
  BY <1>1, QuietChainInv DEF ChainInv, CheckpointsFit
<1>2. ASSUME NEW t \in Threads, StageRepeat(t) PROVE ChainInv'
  BY <1>2 DEF StageRepeat, dbVars, txVars, readVars, ChainInv, CheckpointsFit, LogsSigned,
              LoopSigned, Exists, RowsOf
<1> QED BY <1>1, <1>2, CheckpointChainInv, BeginChainInv, StageChainInv, CommitChainInv,
           StepKinds

\* The chains are as ChainInv says in every state.
LEMMA ChainInvariant ==
    Spec => [](TypeInv /\ KeyInv /\ IndexInv /\ SnapInv /\ BatchInv /\ ChainInv)
<1> QED BY InitChainInv, NextChainInv, BatchInvariant, PTL DEF Spec

\* A trajectory is signed throughout by one key or not at all, whichever store
\* objects, with whichever keys, race to extend it (_validate_envelope and
\* verify_signature).
THEOREM OneSigner == Spec => []OneSignerPerTrajectory
<1>1. ASSUME ChainInv PROVE OneSignerPerTrajectory
  <2>1. ASSUME NEW tr \in Trajectories, NEW i \in DOMAIN log[tr], NEW j \in DOMAIN log[tr]
        PROVE  log[tr][i].signer = log[tr][j].signer
    <3>1. log[tr] # <<>>
      BY <2>1
    <3> QED BY <1>1, <2>1, <3>1 DEF ChainInv, LogsSigned, SignedBy
  <2> QED BY <2>1 DEF OneSignerPerTrajectory
<1> QED BY <1>1, ChainInvariant, PTL

\* A trajectory without signatures can always be read back, whole: whatever was
\* checkpointed, by a commit or by any process from a snapshot of any age, the
\* latest checkpoint passes _validate_checkpoint_row and the events after it
\* pass the envelope checks of some store object.
THEOREM UnsignedHeadsLoad == Spec => []UnsignedHeadLoadable
<1>1. ASSUME TypeInv, SnapInv, ChainInv, NEW tr \in Trajectories,
             Exists(tr), LastSigner(log[tr]) = NoKey
      PROVE  \E s \in Stores : Loadable(s, tr)
  <2> DEFINE row == LatestRow(tr)
             n == SequenceOf(row)
  <2>1. row \in checkpoints /\ row.snapshot.trajectory = tr
    BY <1>1, LatestRowFact DEF TypeInv, RowsOf
  <2>2. row.snapshot \in Snapshot /\ n \in Nat /\ row.snapshot.applied \in Seq(Nat)
    BY <1>1, <2>1, HashOfType DEF TypeInv, TypeOK, Checkpoint, SequenceOf, Snapshot
  <2>3. log[tr] \in Seq(Event) /\ Len(log[tr]) \in Nat /\ DOMAIN log[tr] = 1..Len(log[tr])
    BY <1>1, LenProperties DEF TypeInv, TypeOK
  <2>4. PICK s \in Stores : SignedBy(log[tr], KeyOf[s]) /\ SignedBy(log[tr], NoKey)
    <3>1. CASE log[tr] = <<>>
      <4>1. DOMAIN log[tr] = {}
        BY <3>1
      <4>2. Stores # {}
        BY <1>1 DEF ChainInv, LogsSigned
      <4> QED BY <4>1, <4>2 DEF SignedBy
    <3>2. CASE log[tr] # <<>>
      <4>1. PICK s \in Stores : SignedBy(log[tr], KeyOf[s])
        BY <1>1, <3>2 DEF ChainInv, LogsSigned
      <4>2. Len(log[tr]) \in DOMAIN log[tr]
        BY <2>3, <3>2, EmptySeq
      <4>3. KeyOf[s] = NoKey
        BY <1>1, <3>2, <4>1, <4>2 DEF LastSigner, SignedBy
      <4> QED BY <4>1, <4>3
    <3> QED BY <3>1, <3>2
  <2>5. /\ n <= Len(log[tr]) /\ row.count = n /\ row.signerColumn = NoKey
        /\ row.material = Material(row.snapshot, row.snapshot.signer, n)
        /\ row.snapshot.signer = SignerAt(log[tr], n)
        /\ HashedPrefix(row.snapshot.applied, log[tr])
    <3>1. /\ row = CheckpointRow(row.snapshot, n)
          /\ row.snapshot.signer = SignerAt(log[tr], n)
      BY <1>1, <2>1 DEF ChainInv, CheckpointsFit, SequenceOf
    <3>2. \A x, k : /\ CheckpointRow(x, k).count = k /\ CheckpointRow(x, k).signerColumn = NoKey
                    /\ CheckpointRow(x, k).material = Material(x, x.signer, k)
      BY DEF CheckpointRow
    <3>3. HashedPrefix(row.snapshot.applied, log[tr])
      BY <1>1, <2>1, <2>2, CommittedPointwise DEF SnapInv, CheckpointsCommitted, TypeInv
    <3> HIDE DEF row
    <3> QED BY <3>1, <3>2, <3>3 DEF HashedPrefix, SequenceOf
  <2>6. n = 0 \/ n \in DOMAIN log[tr]
    BY <2>2, <2>3, <2>5
  <2>7. row.snapshot.signer = NoKey
    BY <2>4, <2>5, <2>6 DEF SignerAt, SignedBy
  <2>8. n > 0 => log[tr][n].hash = HashOf(row.snapshot)
    <3>1. n > 0 => row.snapshot.applied # <<>> /\ n \in 1..n
      BY <2>2 DEF SequenceOf
    <3> QED BY <2>5, <3>1 DEF HashedPrefix, HashOf, SequenceOf
  <2>9. CheckpointOK(row, log[tr])
    <3>1. n > 0 => log[tr][n].signer = row.snapshot.signer
      BY <2>2, <2>5 DEF SignerAt
    <3> HIDE DEF row
    <3> QED BY <2>5, <2>7, <2>8, <3>1 DEF CheckpointOK
  <2> HIDE DEF row, n
  <2>10. ASSUME NEW i \in (n + 1)..Len(log[tr])
         PROVE  LET before == SubSeq(log[tr], 1, i - 1) IN
                /\ SignatureOK(s, log[tr][i])
                /\ EnvelopeOK(i - 1, LastHash(before), LastSigner(before), log[tr][i])
    <3>1. i \in DOMAIN log[tr] /\ i - 1 \in 0..Len(log[tr])
      BY <2>2, <2>3
    <3>2. SignatureOK(s, log[tr][i])
      BY <2>4, <3>1 DEF SignatureOK, SignedBy
    <3>3. EnvelopeOK(i - 1, HashAt(log[tr], i - 1), SignerAt(log[tr], i - 1), log[tr][i])
      BY <1>1, <3>1 DEF ChainInv, LogsSigned, Chained
    <3> QED BY <2>3, <3>1, <3>2, <3>3, FrontOfChain
  <2> QED BY <1>1, <2>9, <2>10 DEF Loadable, row, n
<1>2. ASSUME TypeInv, SnapInv, ChainInv PROVE UnsignedHeadLoadable
  BY <1>1, <1>2, LoadedHeadWhole DEF UnsignedHeadLoadable, SnapInv
<1> QED BY <1>2, ChainInvariant, PTL

-----------------------------------------------------------------------------
(* Read your writes.                                                       *)

\* A trajectory with events has been initialised.
LogsHaveRows == \A tr \in Trajectories : log[tr] # <<>> => Exists(tr)

\* What a replay holds is as long as the receipts of the thread ask, and the
\* reads that do not look at the log are the peekers'.
RecentReads ==
    \A t \in Threads :
        /\ pc[t] \in {"load", "offer"} => t \in Peekers
        /\ pc[t] = "fill" =>
              \A r \in receipts[t] :
                 r.trajectory = target[t] => r.sequence <= Len(found[t].applied)

ReadInv == LogsHaveRows /\ RecentReads

\* Where a step may take the read of thread u.
ReadMoves(u) ==
    /\ pc'[u] \in {"load", "offer"} => u \in Peekers \/ pc[u] \in {"load", "offer"}
    /\ pc'[u] = "fill" =>
          /\ receipts'[u] = receipts[u] /\ target'[u] = target[u]
          /\ \/ pc[u] = "fill" /\ found'[u] = found[u]
             \/ Loadable(StoreOf[u], target[u]) /\ found'[u] = LoadedHead(target[u])

\* Every step moves reads as ReadMoves says.
LEMMA ReadSteps ==
    ASSUME TypeInv, [Next]_vars, NEW u \in Threads
    PROVE  ReadMoves(u)
<1> DEFINE Kept == UNCHANGED <<pc[u], receipts[u], target[u], found[u]>>
<1> USE DEF dbVars, txVars, readVars, callVars
<1>0. TypeOK
  BY DEF TypeInv
<1>1. Kept => ReadMoves(u)
  BY DEF ReadMoves
<1>2. ASSUME NEW t \in Threads, NEW tr \in Trajectories, InitTrajectory(t, tr) \/ Read(t, tr)
      PROVE  ReadMoves(u)
  <2>1. \/ Kept
        \/ u = t /\ pc'[t] \in {"validate", "replay"}
        \/ u = t /\ pc'[t] = "load" /\ t \in Peekers
    BY <1>0, <1>2 DEF InitTrajectory, Read, ReadCache, PeekCache, PeekMiss, TypeOK
  <2> QED BY <1>1, <2>1 DEF ReadMoves
<1>3. ASSUME NEW t \in Threads, NEW b \in Jobs[t], Submit(t, b) PROVE ReadMoves(u)
  <2>1. /\ \E q \in {"idle", "loop"} : pc' = [pc EXCEPT ![t] = q]
        /\ \E x : receipts' = [receipts EXCEPT ![t] = x]
        /\ UNCHANGED <<target, found>>
    BY <1>3 DEF Submit, SubmitBusy, SubmitUnloadable, SubmitReplay, SubmitMixed,
                SubmitStale, SubmitBegin, Finish
  <2>2. Kept \/ (u = t /\ pc'[t] \in {"idle", "loop"})
    BY <1>0, <2>1 DEF TypeOK
  <2> QED BY <1>1, <2>2 DEF ReadMoves
<1>4. ASSUME NEW t \in Threads, Continue(t) PROVE ReadMoves(u)
  <2>1. CASE CacheHit(t) \/ CacheMiss(t) \/ FillCache(t) \/ OfferCache(t)
    <3>1. Kept \/ (u = t /\ pc'[t] \in {"idle", "replay"})
      BY <1>0, <2>1 DEF CacheHit, CacheMiss, FillCache, OfferCache, TypeOK
    <3> QED BY <1>1, <3>1 DEF ReadMoves
  <2>2. CASE Replay(t)
    <3>1. \/ Kept \/ (u = t /\ pc'[t] = "idle")
          \/ /\ u = t /\ pc'[t] = "fill" /\ UNCHANGED <<receipts, target>>
             /\ Loadable(StoreOf[t], target[t]) /\ found'[t] = LoadedHead(target[t])
      BY <1>0, <2>2 DEF Replay, TypeOK
    <3> QED BY <1>1, <3>1 DEF ReadMoves
  <2>3. CASE PeekLoad(t)
    <3>1. Kept \/ (u = t /\ pc[t] = "load" /\ pc'[t] \in {"idle", "offer"})
      BY <1>0, <2>3 DEF PeekLoad, TypeOK
    <3> QED BY <1>1, <3>1 DEF ReadMoves
  <2>4. CASE StageEvent(t) \/ StageRepeat(t)
    BY <2>4, <1>1 DEF StageEvent, StageRepeat
  <2>5. CASE StageConflict(t) \/ StageRejected(t) \/ CommitTx(t) \/ InvalidateCache(t)
    <3>1. /\ \E q \in {"idle", "invalidate"} : pc' = [pc EXCEPT ![t] = q]
          /\ \E x : receipts' = [receipts EXCEPT ![t] = x] \/ UNCHANGED receipts
          /\ UNCHANGED <<target, found>>
      BY <2>5 DEF StageConflict, StageRejected, CommitTx, InvalidateCache, Finish
    <3>2. Kept \/ (u = t /\ pc'[t] \in {"idle", "invalidate"})
      BY <1>0, <3>1 DEF TypeOK
    <3> QED BY <1>1, <3>2 DEF ReadMoves
  <2> QED BY <1>4, <2>1, <2>2, <2>3, <2>4, <2>5 DEF Continue
<1>5. ASSUME NEW t \in Threads, SaveSnapshot(t) \/ Close(t) PROVE ReadMoves(u)
  BY <1>1, <1>5 DEF SaveSnapshot, Close
<1>6. ASSUME NEW s \in Stores, Crash(s) PROVE ReadMoves(u)
  <2>1. Kept \/ pc'[u] = "idle"
    BY <1>6 DEF Crash
  <2> QED BY <1>1, <2>1 DEF ReadMoves
<1>7. CASE UNCHANGED vars
  BY <1>1, <1>7 DEF vars
<1> QED BY <1>2, <1>3, <1>4, <1>5, <1>6, <1>7 DEF Next

\* Nothing is read or logged at first.
LEMMA InitReadInv == Init => ReadInv
BY DEF Init, ReadInv, LogsHaveRows, RecentReads

\* A replay loads the whole log, where the receipts of the thread are, and from
\* then on the thread gets no receipt until the read is over.
LEMMA NextReadInv ==
    TypeInv /\ IndexInv /\ SnapInv /\ ReadInv /\ [Next]_vars => ReadInv'
<1> SUFFICES ASSUME TypeInv, IndexInv, SnapInv, ReadInv, [Next]_vars PROVE ReadInv'
  OBVIOUS
<1>1. LogsHaveRows'
  <2>1. /\ checkpoints \subseteq checkpoints'
        /\ \A tr \in Trajectories : log'[tr] # log[tr] => Exists(tr)
    <3>1. CASE QuietStep
      <4>1. \/ UNCHANGED checkpoints
            \/ \E t \in Threads, tr \in Trajectories : InitTrajectory(t, tr)
            \/ \E t \in Threads : SaveSnapshot(t)
            \/ \E t \in Threads : \E b \in Jobs[t] : SubmitBegin(t, b)
            \/ \E t \in Threads : StageEvent(t) \/ StageRepeat(t) \/ CommitTx(t)
        BY StepKinds
      <4> QED BY <3>1, <4>1 DEF QuietStep, InitTrajectory, SaveSnapshot, SubmitBegin,
                                StageEvent, StageRepeat, CommitTx, dbVars
    <3>2. ASSUME NEW t \in Threads, CommitTx(t)
          PROVE  /\ checkpoints \subseteq checkpoints'
                 /\ \A tr \in Trajectories : log'[tr] # log[tr] => Exists(tr)
      BY <3>2 DEF CommitTx, TypeInv, TypeOK, TransactionOwned
    <3>3. ASSUME NEW t \in Threads,
                 StageEvent(t) \/ StageRepeat(t) \/ \E b \in Jobs[t] : SubmitBegin(t, b)
          PROVE  UNCHANGED <<log, checkpoints>>
      BY <3>3 DEF StageEvent, StageRepeat, SubmitBegin, dbVars
    <3> QED BY <3>1, <3>2, <3>3, StepKinds
  <2>2. \A tr : Exists(tr) => Exists(tr)'
    BY <2>1 DEF Exists, RowsOf
  <2> QED BY <2>1, <2>2 DEF ReadInv, LogsHaveRows
<1>2. ASSUME NEW u \in Threads, pc'[u] = "fill", NEW r \in receipts'[u],
             r.trajectory = target'[u]
      PROVE  r.sequence <= Len(found'[u].applied)
  <2>1. receipts'[u] = receipts[u] /\ target'[u] = target[u]
    BY <1>2, ReadSteps DEF ReadMoves
  <2>2. CASE pc[u] = "fill" /\ found'[u] = found[u]
    BY <1>2, <2>1, <2>2 DEF ReadInv, RecentReads
  <2>3. CASE Loadable(StoreOf[u], target[u]) /\ found'[u] = LoadedHead(target[u])
    <3>1. target[u] \in Trajectories
      BY DEF TypeInv, TypeOK
    <3>2. found'[u].applied = Hashes(log[target[u]])
      BY <2>3, <3>1, LoadedHeadWhole DEF Loadable, SnapInv
    <3>3. /\ log[target[u]] \in Seq(Event) /\ Len(log[target[u]]) \in Nat
          /\ DOMAIN log[target[u]] = 1..Len(log[target[u]])
      BY <3>1, LenProperties DEF TypeInv, TypeOK
    <3>4. r.sequence \in DOMAIN log[target[u]]
      BY <1>2, <2>1 DEF IndexInv, ReceiptsIndexed, RowsHaveEvents, NamesEvent
    <3> QED BY <3>2, <3>3, <3>4, HashesElements
  <2> QED BY <1>2, <2>2, <2>3, ReadSteps DEF ReadMoves
<1>3. RecentReads'
  BY <1>2, ReadSteps DEF ReadMoves, ReadInv, RecentReads
<1> QED BY <1>1, <1>3 DEF ReadInv

\* How a thread gets the snapshot a read returns.
LEMMA ReadEnds ==
    ASSUME TypeInv, [Next]_vars, NEW u \in Threads, ReadReturns(u)
    PROVE  CacheHit(u) \/ FillCache(u)
<1> USE DEF ReadReturns, dbVars, txVars, readVars, callVars
<1>0. TypeOK
  BY DEF TypeInv
<1>1. ASSUME NEW t \in Threads, NEW q, pc' = [pc EXCEPT ![t] = q] \/ UNCHANGED pc PROVE u = t
  BY <1>0, <1>1 DEF TypeOK
<1>2. ASSUME NEW t \in Threads, NEW tr \in Trajectories, InitTrajectory(t, tr) \/ Read(t, tr)
      PROVE  FALSE
  BY <1>1, <1>2 DEF InitTrajectory, Read, ReadCache, PeekCache, PeekMiss
<1>3. ASSUME NEW t \in Threads, NEW b \in Jobs[t], Submit(t, b) PROVE FALSE
  <2>1. pc[t] = "idle" /\ \E q : pc' = [pc EXCEPT ![t] = q]
    BY <1>3 DEF Submit, SubmitBusy, SubmitUnloadable, SubmitReplay, SubmitMixed, SubmitStale,
                SubmitBegin, Finish, MaySubmit
  <2> QED BY <1>1, <2>1
<1>4. ASSUME NEW t \in Threads, Continue(t) PROVE u = t /\ (CacheHit(t) \/ FillCache(t))
  <2>1. \/ CacheHit(t) \/ FillCache(t)
        \/ CacheMiss(t)
        \/ pc[t] \notin {"validate", "fill"}
    BY <1>4 DEF Continue, Replay, PeekLoad, OfferCache, StageEvent, StageRepeat, StageConflict,
                StageRejected, CommitTx, InvalidateCache
  <2>2. \E q : pc' = [pc EXCEPT ![t] = q] \/ UNCHANGED pc
    BY <1>4 DEF Continue, CacheHit, CacheMiss, Replay, FillCache, PeekLoad, OfferCache,
                StageEvent, StageRepeat, StageConflict, StageRejected, CommitTx, InvalidateCache,
                Finish
  <2>3. u = t
    BY <1>1, <2>2
  <2>4. ~ CacheMiss(t)
    BY <1>0, <2>3 DEF CacheMiss, TypeOK
  <2> QED BY <2>1, <2>3, <2>4
<1>5. ASSUME NEW t \in Threads, SaveSnapshot(t) \/ Close(t) PROVE FALSE
  BY <1>5 DEF SaveSnapshot, Close
<1>6. ASSUME NEW s \in Stores, Crash(s) PROVE FALSE
  <2>1. pc'[u] = pc[u] \/ view'[u] = NoSnapshot
    BY <1>6 DEF Crash
  <2> QED BY <2>1
<1>7. ~ UNCHANGED vars
  BY DEF vars
<1> QED BY <1>2, <1>3, <1>4, <1>5, <1>6, <1>7 DEF Next

\* A read that ends returns what its thread has a receipt for: a hit has been
\* compared with the head, which is no shorter than any receipt asks, and a miss
\* returns what was replayed.
LEMMA ReadShows ==
    ASSUME TypeInv, IndexInv, SnapInv, ReadInv, [Next]_vars,
           NEW t \in Threads, ReadReturns(t),
           NEW r \in receipts[t], r.trajectory = target[t]
    PROVE  r.sequence <= Len(view'[t].applied)
<1>0. TypeOK
  BY DEF TypeInv
<1>1. /\ r.trajectory \in Trajectories
      /\ r.sequence \in DOMAIN log[r.trajectory]
  BY DEF IndexInv, ReceiptsIndexed, RowsHaveEvents, NamesEvent
<1>2. /\ Len(log[r.trajectory]) \in Nat
      /\ DOMAIN log[r.trajectory] = 1..Len(log[r.trajectory])
  BY <1>0, <1>1, LenProperties DEF TypeOK
<1>3. CASE CacheHit(t)
  <2>1. view'[t] = found[t] /\ AtHead(found[t], target[t])
    BY <1>0, <1>3 DEF CacheHit, TypeOK
  <2>2. Len(view'[t].applied) = Len(log[r.trajectory])
    BY <2>1 DEF AtHead
  <2> QED BY <1>1, <1>2, <2>2
<1>4. CASE FillCache(t)
  <2>1. view'[t] = found[t] /\ pc[t] = "fill"
    BY <1>0, <1>4 DEF FillCache, TypeOK
  <2> QED BY <2>1 DEF ReadInv, RecentReads
<1> QED BY <1>3, <1>4, ReadEnds

\* A snapshot get_latest_snapshot returns contains every event the thread holds
\* a receipt for, although other threads fill the shared cache with older
\* snapshots after a commit has dropped them, also with the very snapshot the
\* thread had before (a hit is compared with the head, a miss replays the log).
THEOREM ReadsYourWrites == Spec => ReadYourWrites
<1>1. TypeInv /\ IndexInv /\ SnapInv /\ ReadInv /\ [Next]_vars =>
         [\A t \in Threads : ReadReturns(t) =>
             \A r \in receipts[t] :
                r.trajectory = target[t] => r.sequence <= Len(view'[t].applied)]_vars
  BY ReadShows
<1> QED BY <1>1, InitReadInv, NextReadInv, ChainInvariant, PTL DEF Spec, ReadYourWrites

-----------------------------------------------------------------------------
(* The store implements the log of TrajectoryLog.                          *)

\* The requests of a list of events: the history of the abstract log.
HistoryOf(events) ==
    [i \in DOMAIN events |-> [key |-> events[i].key, request |-> events[i].request]]

\* A history is as long as its events.
LEMMA HistoryElements ==
    ASSUME NEW events \in Seq(Event)
    PROVE  /\ HistoryOf(events) \in Seq([key : Keys, request : Requests])
           /\ Len(HistoryOf(events)) = Len(events)
           /\ \A i \in 1..Len(events) :
                 /\ HistoryOf(events)[i] = [key |-> events[i].key, request |-> events[i].request]
                 /\ HistoryOf(events)[i].key = events[i].key
<1> DEFINE P == [key : Keys, request : Requests]
<1>1. Len(events) \in Nat /\ DOMAIN events = 1..Len(events)
  BY LenProperties
<1>2. \A i \in 1..Len(events) : events[i] \in Event
  BY ElementOfSeq
<1>3. HistoryOf(events) = [i \in 1..Len(events) |->
                              [key |-> events[i].key, request |-> events[i].request]]
  BY <1>1 DEF HistoryOf
<1>4. HistoryOf(events) \in [1..Len(events) -> P]
  BY <1>2, <1>3 DEF Event
<1>5. \A i \in 1..Len(events) :
         /\ HistoryOf(events)[i] = [key |-> events[i].key, request |-> events[i].request]
         /\ HistoryOf(events)[i].key = events[i].key
  BY <1>3
<1> HIDE DEF P
<1>6. HistoryOf(events) \in Seq(P) /\ Len(HistoryOf(events)) = Len(events)
  <2>1. ASSUME NEW n \in Nat, NEW f \in [1..n -> P] PROVE f \in Seq(P) /\ Len(f) = n
    <3>1. f \in Seq(P)
      BY SMT
    <3>2. f = [i \in 1..n |-> f[i]]
      OBVIOUS
    <3> QED BY <3>1, LenProperties
  <2> QED BY <1>1, <1>4, <2>1, Zenon
<1> QED BY <1>5, <1>6 DEF P

\* A longer log has a longer history: the old one comes first, and what is new
\* are the proposals of the new events.
LEMMA HistoryGrows ==
    ASSUME NEW a \in Seq(Event), NEW b \in Seq(Event)
    PROVE  /\ Len(HistoryOf(a \o b)) = Len(HistoryOf(a)) + Len(b)
           /\ SubSeq(HistoryOf(a \o b), 1, Len(HistoryOf(a))) = HistoryOf(a)
           /\ Log!Contents(SubSeq(HistoryOf(a \o b), Len(HistoryOf(a)) + 1,
                                  Len(HistoryOf(a \o b)))) = ProposalsOf(b)
<1> DEFINE n == Len(a)
           m == Len(b)
           old == HistoryOf(a)
           new == HistoryOf(a \o b)
           P == [key : Keys, request : Requests]
<1>1. n \in Nat /\ m \in Nat /\ DOMAIN b = 1..m
  BY LenProperties
<1>2. a \o b \in Seq(Event) /\ Len(a \o b) = n + m
  BY ConcatProperties
<1>3. /\ \A i \in 1..n : (a \o b)[i] = a[i]
      /\ \A i \in 1..m : (a \o b)[n + i] = b[i]
  <2>1. \A i \in 1..n : (a \o b)[i] = a[i]
    BY ConcatElements
  <2>2. ASSUME NEW i \in 1..m PROVE (a \o b)[n + i] = b[i]
    <3>1. n + i \in DOMAIN (a \o b) /\ n + i > n /\ (n + i) - n = i
      BY <1>1, ConcatElements
    <3> QED BY <3>1, ConcatElements
  <2> QED BY <2>1, <2>2
<1>4. /\ old \in Seq(P) /\ Len(old) = n
      /\ \A i \in 1..n : old[i] = [key |-> a[i].key, request |-> a[i].request]
  BY HistoryElements
<1>5. /\ new \in Seq(P) /\ Len(new) = n + m
      /\ \A i \in 1..(n + m) : new[i] = [key |-> (a \o b)[i].key, request |-> (a \o b)[i].request]
  BY <1>2, HistoryElements
<1> HIDE DEF old, new, n, m, P
<1>6. ASSUME NEW i \in 1..n PROVE new[i] = old[i]
  <2>1. i \in 1..(n + m)
    BY <1>1
  <2> QED BY <1>3, <1>4, <1>5, <2>1
<1>7. ASSUME NEW i \in 1..m
      PROVE  new[n + i] = [key |-> b[i].key, request |-> b[i].request]
  <2>1. n + i \in 1..(n + m)
    BY <1>1
  <2> QED BY <1>3, <1>5, <2>1
<1>8. \A i \in 1..(n + m) : new[i] \in P
  BY <1>5, ElementOfSeq
<1>9. SubSeq(new, 1, n) = old
  <2>1. SubSeq(new, 1, n) \in Seq(P) /\ Len(SubSeq(new, 1, n)) = n
        /\ \A i \in 1..n : SubSeq(new, 1, n)[i] = new[i]
    <3>1. \A i \in 1..n : new[i] \in P
      BY <1>1, <1>8
    <3> QED BY <1>1, <1>5, <3>1, SubSeqProperties
  <2> QED BY <1>4, <1>6, <2>1, SeqEqual
<1>10. Log!Contents(SubSeq(new, n + 1, n + m)) = ProposalsOf(b)
  <2> DEFINE rest == SubSeq(new, n + 1, n + m)
  <2>1. DOMAIN rest = 1..m /\ \A i \in 1..m : rest[i] = new[n + i]
    <3>1. \A i \in (n + 1)..(n + m) : new[i] \in P
      BY <1>1, <1>8
    <3>2. n + m - (n + 1) + 1 = m /\ \A i \in 1..m : n + 1 + i - 1 = n + i
      BY <1>1
    <3>3. /\ rest \in Seq(P)
          /\ Len(rest) = IF n + 1 <= n + m THEN n + m - (n + 1) + 1 ELSE 0
          /\ \A i \in 1..(n + m - (n + 1) + 1) : rest[i] = new[n + 1 + i - 1]
      BY <1>1, <1>5, <3>1, SubSeqProperties
    <3>4. Len(rest) = m
      BY <1>1, <3>2, <3>3
    <3> HIDE DEF rest
    <3> QED BY <3>2, <3>3, <3>4, LenProperties
  <2> HIDE DEF rest
  <2>2. {rest[i] : i \in 1..m} = {[key |-> b[i].key, request |-> b[i].request] : i \in 1..m}
    BY <1>7, <2>1
  <2>3. Log!Contents(rest) = ProposalsOf(b)
    BY <1>1, <2>1, <2>2 DEF Log!Contents, ProposalsOf
  <2> QED BY <2>3 DEF rest
<1> QED BY <1>4, <1>5, <1>9, <1>10 DEF old, new, n, m

\* The history and the observations the store shows.
History == [tr \in Trajectories |-> HistoryOf(log[tr])]

Basis == [t \in Threads |->
             IF view[t] = NoSnapshot THEN {}
             ELSE {[trajectory |-> view[t].trajectory, length |-> Len(view[t].applied)]}]

\* A commit appends one whole batch of the thread, of keys that are new, to a
\* history the thread has seen whole.
LEMMA CommitAppends ==
    ASSUME TypeInv, SnapInv, BatchInv, KeyInv', NEW t \in Threads, CommitTx(t)
    PROVE  \E tr \in Trajectories : Log!AppendBatch(t, tr)
<1>0. TypeOK
  BY DEF TypeInv
<1>a. PICK tr \in Trajectories : tr = view[t].trajectory
  BY <1>0 DEF CommitTx, TypeInv, TransactionOwned, TypeOK, Snapshot
<1> DEFINE old == HistoryOf(log[tr])
           new == HistoryOf(log'[tr])
<1>1. /\ pc[t] = "loop" /\ todo[t] = <<>> /\ view[t] # NoSnapshot
      /\ log' = [log EXCEPT ![tr] = log[tr] \o txEvents]
      /\ UNCHANGED view
  BY <1>a DEF CommitTx, TypeInv, TransactionOwned, readVars
<1>2. tr \in Trajectories /\ log[tr] \in Seq(Event) /\ txEvents \in Seq(Event)
  BY <1>0, <1>1 DEF TypeOK, Snapshot
<1>3. /\ log'[tr] = log[tr] \o txEvents
      /\ \A x \in Trajectories : x # tr => log'[x] = log[x]
  BY <1>0, <1>1, <1>2 DEF TypeOK
<1>4. PICK b \in Jobs[t] : b # <<>> /\ ContentsOf(b) = ProposalsOf(txEvents)
  <2>1. ContentsOf(todo[t]) = {}
    <3>1. DOMAIN todo[t] = {}
      BY <1>1
    <3> QED BY <3>1 DEF ContentsOf
  <2> QED BY <1>1, <2>1 DEF BatchInv
<1>5. Len(txEvents) \in Nat \ {0}
  <2>1. b \in Seq([key : Keys, request : Requests])
    BY StoreAssumption
  <2>2. 1 \in DOMAIN b
    BY <1>4, <2>1, LenProperties, EmptySeq
  <2>3. DOMAIN txEvents # {}
    BY <1>4, <2>2 DEF ContentsOf, ProposalsOf
  <2>4. Len(txEvents) \in Nat /\ DOMAIN txEvents = 1..Len(txEvents)
    BY <1>2, LenProperties
  <2> QED BY <2>3, <2>4
<1>6. /\ log'[tr] \in Seq(Event)
      /\ new \in Seq([key : Keys, request : Requests])
      /\ Len(new) = Len(log'[tr]) /\ Len(old) = Len(log[tr])
      /\ DOMAIN log'[tr] = 1..Len(new) /\ Len(old) \in Nat /\ Len(new) \in Nat
  <2>1. log'[tr] \in Seq(Event)
    BY <1>2, <1>3, ConcatProperties
  <2> QED BY <1>2, <2>1, HistoryElements, LenProperties
<1>7. /\ Len(new) = Len(old) + Len(txEvents)
      /\ SubSeq(new, 1, Len(old)) = old
      /\ Log!Contents(SubSeq(new, Len(old) + 1, Len(new))) = ProposalsOf(txEvents)
  BY <1>2, <1>3, HistoryGrows
<1>8. \A i \in (Len(old) + 1)..Len(new) : \A j \in 1..(i - 1) : new[i].key # new[j].key
  <2>1. ASSUME NEW i \in (Len(old) + 1)..Len(new), NEW j \in 1..(i - 1)
        PROVE  new[i].key # new[j].key
    <3>1. i \in 1..Len(new) /\ j \in 1..Len(new) /\ i # j
      BY <1>6
    <3>2. \A k \in 1..Len(new) : new[k].key = log'[tr][k].key
      BY <1>6, HistoryElements
    <3> QED BY <1>2, <1>6, <3>1, <3>2 DEF KeyInv, UniqueKeys
  <2> QED BY <2>1
<1>9. Log!NewKeys(old, new)
  BY <1>5, <1>6, <1>7, <1>8 DEF Log!NewKeys
<1>10. Log!IsWhole(old, new, b)
  BY <1>4, <1>7 DEF Log!IsWhole, Log!Contents, ContentsOf
<1>11. view[t].trajectory = tr /\ Len(view[t].applied) = Len(old)
  BY <1>a, <1>1, <1>2, <1>6, HashesElements DEF SnapInv, LoopOnHead
<1>12. History[tr] = old /\ History'[tr] = new
  BY <1>2 DEF History
<1>13. History' = [History EXCEPT ![tr] = History'[tr]]
  BY <1>2, <1>3 DEF History
<1>14. Basis[t] = {Log!Observation(tr, Len(old))} /\ Basis' = Basis
  BY <1>1, <1>11 DEF Basis, Log!Observation
<1> HIDE DEF old, new
<1>15. /\ Basis[t] = {Log!Observation(tr, Len(History[tr]))}
       /\ History'[tr] \in Seq([key : Keys, request : Requests])
       /\ Log!NewKeys(History[tr], History'[tr])
       /\ \E x \in Jobs[t] : Log!IsWhole(History[tr], History'[tr], x)
       /\ History' = [History EXCEPT ![tr] = History'[tr]]
       /\ UNCHANGED Basis
  BY <1>6, <1>9, <1>10, <1>12, <1>13, <1>14
<1>16. Log!AppendBatch(t, tr)
  BY <1>15 DEF Log!AppendBatch, Log!Proposal, History, Basis, HistoryOf
<1> QED BY <1>2, <1>16

\* Every other step changes no history, and what a thread has seen is a prefix
\* of it.
LEMMA OthersObserve ==
    ASSUME TypeInv, SnapInv, SnapInv', TypeInv', UNCHANGED log
    PROVE  Log!Observe
<1>1. UNCHANGED History
  BY DEF History
<1>2. DOMAIN Basis' = Threads
  BY DEF Basis
<1>3. ASSUME NEW t \in Threads
      PROVE  \/ Basis'[t] = {}
             \/ \E tr \in Trajectories : \E n \in 0..Len(History[tr]) :
                   Basis'[t] = {Log!Observation(tr, n)}
  <2>1. CASE view'[t] = NoSnapshot
    BY <2>1 DEF Basis
  <2>2. CASE view'[t] # NoSnapshot
    <3> DEFINE tr == view'[t].trajectory
               n == Len(view'[t].applied)
    <3>1. view'[t] \in Snapshot /\ n <= Len(log[tr])
      BY <2>2 DEF TypeInv, TypeOK, SnapInv, SnapshotsAreCommitted, IsCommittedPrefix
    <3>2. tr \in Trajectories /\ n \in Nat
      BY <3>1, HashOfType DEF Snapshot
    <3>3. Len(History[tr]) = Len(log[tr]) /\ Len(log[tr]) \in Nat
      <4>1. log[tr] \in Seq(Event)
        BY <3>2 DEF TypeInv, TypeOK
      <4> QED BY <3>2, <4>1, HistoryElements, LenProperties DEF History
    <3>4. n \in 0..Len(History[tr])
      BY <3>1, <3>2, <3>3
    <3>5. Basis'[t] = {Log!Observation(tr, n)}
      BY <2>2 DEF Basis, Log!Observation
    <3> QED BY <3>2, <3>4, <3>5
  <2> QED BY <2>1, <2>2
<1> QED BY <1>1, <1>2, <1>3 DEF Log!Observe, History, Basis, HistoryOf

\* What the store promises, and nothing more visible: whatever is retried,
\* raced, rolled back, cached or lost in a crash, its history is one that
\* TrajectoryLog allows, which grows by whole batches of new keys from a client
\* that has seen all of it (commit_events).
THEOREM StoreImplementsLog == Spec => ImplementsLog
<1>1. Init => Log!Init
  <2> SUFFICES ASSUME Init PROVE Log!Init
    OBVIOUS
  <2>1. HistoryOf(<<>>) = <<>>
    <3>1. <<>> \in Seq(Event) /\ Len(<<>>) = 0
      BY EmptySeq
    <3> QED BY <3>1, HistoryElements, EmptySeq
  <2>2. History = [tr \in Trajectories |-> <<>>]
    BY <2>1 DEF Init, History
  <2>3. Basis = [t \in Threads |-> {}]
    BY DEF Init, Basis
  <2> QED BY <2>2, <2>3 DEF Log!Init, History, Basis, HistoryOf
<1>2. ASSUME TypeInv, KeyInv, IndexInv, SnapInv, BatchInv, [Next]_vars,
             TypeInv', KeyInv', SnapInv'
      PROVE  [Log!Next]_(Log!vars)
  <2>1. CASE UNCHANGED log
    BY <1>2, <2>1, OthersObserve DEF Log!Next
  <2>2. ASSUME NEW t \in Threads, CommitTx(t) PROVE Log!Next
    BY <1>2, <2>2, CommitAppends DEF Log!Next
  <2>3. ASSUME NEW t \in Threads,
               StageEvent(t) \/ StageRepeat(t) \/ \E b \in Jobs[t] : SubmitBegin(t, b)
        PROVE  UNCHANGED log
    BY <2>3 DEF StageEvent, StageRepeat, SubmitBegin, dbVars
  <2> QED BY <1>2, <2>1, <2>2, <2>3, StepKinds DEF QuietStep
<1> QED BY <1>1, <1>2, ChainInvariant, PTL DEF Spec, ImplementsLog, Log!Spec

=============================================================================
