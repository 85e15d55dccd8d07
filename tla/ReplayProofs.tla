---------------------------- MODULE ReplayProofs ----------------------------
(***************************************************************************)
(* For every set of ids and every workload: the claims, links and verdicts *)
(* of a snapshot fit together, nothing semantic is forgotten, and a replay *)
(* of events that do not read the wall clock ends in the snapshot that was *)
(* committed.                                                              *)
(*                                                                         *)
(* And for every configuration of the compiler: what the prompt of a       *)
(* snapshot shows, what it evicts, what it leaves a handle for, and what   *)
(* of it can be used again for the next prompt.                            *)
(***************************************************************************)
EXTENDS Prompt, ReducerProofs, SubsequenceProofs

\* A log that is replayed is as long as its head is far.
EventsCounted ==
    IF workload.replayed THEN Len(events) = head.sequence ELSE events = <<>>

ReplayInv == TypeOK /\ EventsCounted /\ Fits(head)

\* An empty trajectory satisfies ReplayInv.
LEMMA InitReplayInv == Init => ReplayInv
<1> SUFFICES ASSUME Init PROVE ReplayInv
  OBVIOUS
<1>1. PICK epoch \in Epochs : head = Genesis(epoch)
  BY DEF Init
<1>2. head \in Snapshots /\ Fits(head) /\ head.sequence = 0
  BY <1>1, GenesisFits
<1>3. events = <<>> /\ Len(events) = 0 /\ events \in Seq(Events \cup CheckpointEvents)
  BY DEF Init
<1>4. TypeOK
  BY <1>2, <1>3, ReplayAssumption DEF Init, TypeOK
<1> QED BY <1>2, <1>3, <1>4 DEF ReplayInv, EventsCounted

\* A commit adds an event and takes the head one further.
LEMMA CommitStep ==
    ASSUME ReplayInv, NEW e \in AnyEvent, CommitOf(e)
    PROVE  ReplayInv'
<1>1. head' \in Reduce(head, e, clock) /\ head \in Snapshots /\ clock \in Times
  BY DEF CommitOf, ReplayInv, TypeOK
<1>2. head' \in Snapshots /\ head'.sequence = head.sequence + 1 /\ head.sequence \in Nat
  BY <1>1, ReduceTypes, SnapshotFields DEF FieldTypes
<1>3. Fits(head')
  BY <1>1, ReduceFits DEF ReplayInv
<1>4. UNCHANGED <<workload, replica, clock>>
  BY DEF CommitOf
<1>5. replica \in Snapshots /\ replica.sequence \in Nat /\ replica.sequence <= head.sequence
  BY SnapshotFields DEF ReplayInv, TypeOK, FieldTypes
<1>6. CASE workload.replayed
  <2>1. events' = Append(events, e) /\ events \in Seq(AnyEvent) /\ Len(events) = head.sequence
    BY <1>6 DEF CommitOf, ReplayInv, TypeOK, EventsCounted, AnyEvent
  <2>2. events' \in Seq(AnyEvent) /\ Len(events') = head.sequence + 1
    BY <2>1
  <2>3. TypeOK'
    BY <1>2, <1>4, <1>5, <2>2 DEF ReplayInv, TypeOK, AnyEvent
  <2> QED BY <1>2, <1>3, <1>4, <1>6, <2>2, <2>3 DEF ReplayInv, EventsCounted
<1>7. CASE ~ workload.replayed
  <2>1. events' = <<>>
    BY <1>7 DEF CommitOf, ReplayInv, EventsCounted
  <2>2. TypeOK'
    BY <1>2, <1>4, <1>5, <2>1 DEF ReplayInv, TypeOK
  <2> QED BY <1>3, <1>4, <1>7, <2>1, <2>2 DEF ReplayInv, EventsCounted
<1> QED BY <1>6, <1>7

\* The events a step may commit.
LEMMA CommittedEvent ==
    ASSUME TypeOK, Commit \/ Checkpoint
    PROVE  \E e \in AnyEvent : CommitOf(e) /\ (e \in workload.events \/ e \in CheckpointEvents)
<1>1. CASE Commit
  BY <1>1, ReplayAssumption DEF Commit, TypeOK, AnyEvent
<1>2. CASE Checkpoint
  <2> DEFINE e == [kind |-> "snapshot_checkpointed", named |-> replica]
  <2>1. e \in CheckpointEvents
    BY DEF TypeOK, CheckpointEvents
  <2> QED BY <1>2, <2>1 DEF Checkpoint, AnyEvent
<1> QED BY <1>1, <1>2

\* Every step keeps ReplayInv.
LEMMA NextReplayInv == ReplayInv /\ [Next]_vars => ReplayInv'
<1> SUFFICES ASSUME ReplayInv, [Next]_vars PROVE ReplayInv'
  OBVIOUS
<1>1. ASSUME Commit \/ Checkpoint PROVE ReplayInv'
  <2>1. PICK e \in AnyEvent : CommitOf(e)
    BY <1>1, CommittedEvent DEF ReplayInv
  <2> QED BY <2>1, CommitStep
<1>2. CASE ReplayNext
  <2> DEFINE e == events[replica.sequence + 1]
  <2>1. /\ events \in Seq(AnyEvent) /\ replica \in Snapshots /\ replica.sequence \in Nat
        /\ replica.sequence < Len(events) /\ Len(events) = head.sequence
    BY <1>2, SnapshotFields DEF ReplayNext, ReplayInv, TypeOK, EventsCounted, FieldTypes, AnyEvent
  <2>2. e \in AnyEvent
    <3>1. replica.sequence + 1 \in 1..Len(events)
      BY <2>1, LenProperties
    <3> QED BY <2>1, <3>1, ElementOfSeq
  <2>3. replica' \in Reduce(replica, e, clock) /\ clock \in Times
        /\ UNCHANGED <<workload, events, head, clock>>
    BY <1>2 DEF ReplayNext, ReplayInv, TypeOK
  <2> HIDE DEF e
  <2>4. replica' \in Snapshots /\ replica'.sequence = replica.sequence + 1
    BY <2>1, <2>2, <2>3, ReduceTypes
  <2>5. replica'.sequence <= head.sequence
    BY <2>1, <2>4, LenProperties
  <2>6. TypeOK'
    BY <2>3, <2>4, <2>5 DEF ReplayInv, TypeOK
  <2> QED BY <2>3, <2>6 DEF ReplayInv, EventsCounted
<1>3. CASE Tick
  BY <1>3, ReplayAssumption DEF Tick, ReplayInv, TypeOK, EventsCounted
<1>4. CASE UNCHANGED vars
  BY <1>4 DEF vars, ReplayInv, TypeOK, EventsCounted
<1> QED BY <1>1, <1>2, <1>3, <1>4 DEF Next

\* Whatever is committed and replayed, the state is well typed (replay, reduce_event).
THEOREM ReplayTypes == Spec => []TypeOK
<1>1. ReplayInv => TypeOK
  BY DEF ReplayInv
<1> QED BY <1>1, InitReplayInv, NextReplayInv, PTL DEF Spec

\* Claims and links index each other in every snapshot, for any number of
\* claims, links and verifications in any order.
THEOREM ClaimsAndLinksAgree == Spec => []ClaimIndexConsistent
<1>1. ReplayInv => ClaimIndexConsistent
  BY DEF ReplayInv, Fits, ClaimIndexConsistent
<1> QED BY <1>1, InitReplayInv, NextReplayInv, PTL DEF Spec

\* Every link shows the last verdict on it, with the record that gave it.
THEOREM LastVerdictShown == Spec => []VerdictsCurrent
<1>1. ReplayInv => VerdictsCurrent
  BY DEF ReplayInv, Fits, VerdictsCurrent
<1> QED BY <1>1, InitReplayInv, NextReplayInv, PTL DEF Spec

-----------------------------------------------------------------------------
(* Nothing semantic is forgotten.                                          *)

\* Nothing semantic is ever forgotten: only a prune removes anything, and only
\* curated items, for any number of ids and any clients (_handle_context_pruned).
THEOREM NothingForgotten == Spec => HistoryIsKept
<1> DEFINE Keeps == /\ head.candidates \subseteq head'.candidates
                    /\ Ids(head.claims) \subseteq Ids(head'.claims)
                    /\ Ids(head.links) \subseteq Ids(head'.links)
                    /\ IsPrefixOf(head.records, head'.records)
                    /\ \A t \in head.tasks : \E u \in head'.tasks :
                          /\ u.id = t.id /\ u.parent = t.parent /\ u.dependencies = t.dependencies
                          /\ t.status = "completed" => u.status = "completed"
                    /\ IsPrefixOf(head.results, head'.results)
                    /\ IsPrefixOf(head.submissions, head'.submissions)
                    /\ \/ head.curated \subseteq head'.curated
                       \/ \E e \in workload.events :
                             /\ e.kind = "context_pruned"
                             /\ Ids(head'.curated) = e.retained
                             /\ head'.curated \subseteq head.curated
                             /\ head'.epoch = e.epoch
<1>1. ASSUME ReplayInv, [Next]_vars PROVE [Keeps]_vars
  <2>1. ASSUME Commit \/ Checkpoint PROVE Keeps
    <3>1. PICK e \in AnyEvent : CommitOf(e) /\ (e \in workload.events \/ e \in CheckpointEvents)
      BY <1>1, <2>1, CommittedEvent DEF ReplayInv
    <3>2. head \in Snapshots /\ Fits(head) /\ clock \in Times /\ head' \in Reduce(head, e, clock)
      BY <1>1, <3>1 DEF ReplayInv, TypeOK, CommitOf
    <3>3. e \in CheckpointEvents => e.kind # "context_pruned"
      BY DEF CheckpointEvents
    <3>4. /\ head.candidates \subseteq head'.candidates
          /\ Ids(head.claims) \subseteq Ids(head'.claims)
          /\ Ids(head.links) \subseteq Ids(head'.links)
          /\ IsPrefixOf(head.records, head'.records)
          /\ TasksKept(head, head')
          /\ IsPrefixOf(head.results, head'.results)
          /\ IsPrefixOf(head.submissions, head'.submissions)
          /\ \/ head.curated \subseteq head'.curated
             \/ /\ e.kind = "context_pruned"
                /\ Ids(head'.curated) = e.retained
                /\ head'.curated \subseteq head.curated
                /\ head'.epoch = e.epoch
      BY <3>2, ReduceKeeps
    <3>5. \/ head.curated \subseteq head'.curated
          \/ \E x \in workload.events :
                /\ x.kind = "context_pruned" /\ Ids(head'.curated) = x.retained
                /\ head'.curated \subseteq head.curated /\ head'.epoch = x.epoch
      BY <3>1, <3>3, <3>4
    <3>6. \A t \in head.tasks : \E u \in head'.tasks :
             /\ u.id = t.id /\ u.parent = t.parent /\ u.dependencies = t.dependencies
             /\ t.status = "completed" => u.status = "completed"
      BY <3>4 DEF TasksKept
    <3> QED BY <3>4, <3>5, <3>6, Zenon
  <2>2. CASE UNCHANGED head
    <3>1. /\ IsPrefixOf(head.records, head.records) /\ IsPrefixOf(head.results, head.results)
          /\ IsPrefixOf(head.submissions, head.submissions)
      BY <1>1, SnapshotFields, PrefixKept DEF ReplayInv, TypeOK, FieldTypes
    <3> QED BY <2>2, <3>1
  <2>3. CASE ReplayNext \/ Tick
    BY <2>2, <2>3 DEF ReplayNext, Tick
  <2> QED BY <1>1, <2>1, <2>2, <2>3 DEF Next, vars
<1>2. ReplayInv /\ [Next]_vars => [Keeps]_vars
  BY <1>1
<1> QED BY <1>2, InitReplayInv, NextReplayInv, PTL DEF Spec, HistoryIsKept

-----------------------------------------------------------------------------
(* Replay.                                                                 *)

\* The events whose reduction reads the wall clock.
ReadsClock(e) == e.kind \in {"claim_revised", "evidence_linked"}

\* No such event is in a log that is replayed.
ClockFree == \A w \in Workloads : w.replayed => \A e \in w.events : ~ ReadsClock(e)

\* The reducer is a function of the snapshot and the event, except of these.
LEMMA ReduceDeterministic ==
    ASSUME NEW s \in Snapshots, NEW e \in AnyEvent, ~ ReadsClock(e), NEW now, NEW later,
           NEW r \in Reduce(s, e, now), NEW q \in Reduce(s, e, later)
    PROVE  r = q
<1>1. \A c, x : \A y, z \in Accept(c, x) : y = z
  BY DEF Accept
<1>2. \A y, z \in HandleActionCommitted(s, e) : y = z
  BY <1>1, Zenon DEF HandleActionCommitted
<1>3. \A y, z \in HandleToolInvoked(s, e) : y = z
  BY <1>1, Zenon DEF HandleToolInvoked
<1>4. \A y, z \in HandleToolResultReceived(s, e) : y = z
  BY <1>1, Zenon DEF HandleToolResultReceived
<1>5. \A y, z \in HandleCandidateAdded(s, e) : y = z
  BY <1>1, Zenon DEF HandleCandidateAdded
<1>6. \A y, z \in HandleEvidenceCurated(s, e) : y = z
  BY <1>1, Zenon DEF HandleEvidenceCurated
<1>7. \A y, z \in HandleClaimCreated(s, e) : y = z
  BY <1>1, Zenon DEF HandleClaimCreated
<1>8. \A y, z \in HandleEvidenceVerified(s, e) : y = z
  BY <1>1, Zenon DEF HandleEvidenceVerified
<1>9. \A y, z \in HandleTaskDecomposed(s, e) : y = z
  BY <1>1, Zenon DEF HandleTaskDecomposed
<1>10. \A y, z \in HandleTaskCompleted(s, e) : y = z
  BY <1>1, Zenon DEF HandleTaskCompleted
<1>11. \A y, z \in HandleContextPruned(s, e) : y = z
  BY <1>1, Zenon DEF HandleContextPruned
<1>12. \A y, z \in HandleSubmissionRecorded(s, e) : y = z
  BY <1>1, Zenon DEF HandleSubmissionRecorded
<1>13. \A y, z \in HandleSnapshotCheckpointed(s, e) : y = z
  BY <1>1, Zenon DEF HandleSnapshotCheckpointed
<1> QED BY <1>2, <1>3, <1>4, <1>5, <1>6, <1>7, <1>8, <1>9, <1>10, <1>11, <1>12, <1>13, ReduceCases DEF ReadsClock

\* The snapshots a log goes through: heads[i] is the one after i events.
PathOf(heads) ==
    /\ heads \in [0..head.sequence -> Snapshots]
    /\ heads[head.sequence] = head
    /\ heads[replica.sequence] = replica
    /\ \A i \in 0..(head.sequence - 1) :
          \E now \in Times : heads[i + 1] \in Reduce(heads[i], events[i + 1], now)

\* What is replayed has been the head before.
OnePath ==
    IF workload.replayed
    THEN /\ \A i \in DOMAIN events : ~ ReadsClock(events[i])
         /\ \E heads : PathOf(heads)
    ELSE replica.sequence = 0 /\ (head.sequence = 0 => replica = head)

\* An empty log is one path.
LEMMA InitOnePath == Init => OnePath
<1> SUFFICES ASSUME Init PROVE OnePath
  OBVIOUS
<1>1. /\ head \in Snapshots /\ head.sequence = 0 /\ replica = head /\ replica.sequence = 0
      /\ events = <<>>
  BY GenesisFits DEF Init
<1> DEFINE heads == [i \in 0..0 |-> head]
<1>2. heads \in [0..head.sequence -> Snapshots] /\ heads[head.sequence] = head
      /\ heads[replica.sequence] = replica
  BY <1>1
<1>3. 0..(head.sequence - 1) = {}
  BY <1>1
<1>4. PathOf(heads)
  BY <1>2, <1>3 DEF PathOf
<1>5. DOMAIN events = {}
  BY <1>1
<1> QED BY <1>1, <1>4, <1>5 DEF OnePath

\* A commit makes the path one longer.
LEMMA CommitLengthens ==
    ASSUME ReplayInv, OnePath, NEW e \in AnyEvent, CommitOf(e), ~ ReadsClock(e)
    PROVE  OnePath'
<1>1. /\ head \in Snapshots /\ clock \in Times /\ head' \in Reduce(head, e, clock)
      /\ UNCHANGED <<workload, replica>>
  BY DEF ReplayInv, TypeOK, CommitOf
<1>2. /\ head' \in Snapshots /\ head'.sequence = head.sequence + 1 /\ head.sequence \in Nat
      /\ replica.sequence \in Nat /\ replica.sequence <= head.sequence
  <2>1. head.sequence \in Nat /\ replica.sequence \in Nat
    BY SnapshotFields DEF ReplayInv, TypeOK, FieldTypes
  <2> QED BY <1>1, <2>1, ReduceTypes DEF ReplayInv, TypeOK
<1>3. CASE ~ workload.replayed
  BY <1>1, <1>2, <1>3 DEF OnePath
<1>4. CASE workload.replayed
  <2>1. /\ events \in Seq(AnyEvent) /\ Len(events) = head.sequence
        /\ events' = Append(events, e)
    BY <1>4 DEF ReplayInv, TypeOK, EventsCounted, CommitOf, AnyEvent
  <2>2. /\ DOMAIN events = 1..head.sequence /\ DOMAIN events' = 1..(head.sequence + 1)
        /\ events'[head.sequence + 1] = e
        /\ \A i \in 1..head.sequence : events'[i] = events[i]
    BY <2>1, <1>2
  <2>3. \A i \in DOMAIN events' : ~ ReadsClock(events'[i])
    <3>1. ASSUME NEW i \in 1..(head.sequence + 1) PROVE ~ ReadsClock(events'[i])
      <4>1. CASE i = head.sequence + 1
        BY <2>2, <4>1
      <4>2. CASE i # head.sequence + 1
        <5>1. i \in 1..head.sequence
          BY <1>2, <4>2
        <5> QED BY <1>4, <2>2, <5>1 DEF OnePath
      <4> QED BY <4>1, <4>2
    <3> QED BY <2>2, <3>1
  <2>4. PICK heads : PathOf(heads)
    BY <1>4 DEF OnePath
  <2> DEFINE n == head.sequence
  <2>0. PICK longer : longer = [i \in 0..(n + 1) |-> IF i = n + 1 THEN head' ELSE heads[i]]
    OBVIOUS
  <2>5. /\ heads \in [0..n -> Snapshots] /\ heads[n] = head
        /\ heads[replica.sequence] = replica
        /\ \A i \in 0..(n - 1) :
              \E now \in Times : heads[i + 1] \in Reduce(heads[i], events[i + 1], now)
    BY <2>4 DEF PathOf
  <2>6. n \in Nat /\ head'.sequence = n + 1 /\ replica.sequence \in 0..n
    BY <1>2
  <2>7. /\ \A i \in 0..n : longer[i] = heads[i]
        /\ longer[n + 1] = head'
        /\ longer \in [0..(n + 1) -> Snapshots]
    <3> HIDE DEF n
    <3>1. \A i \in 0..(n + 1) : i = n + 1 \/ i \in 0..n
      BY <2>6
    <3>2. longer \in [0..(n + 1) -> Snapshots]
      BY <1>2, <2>0, <2>5, <3>1
    <3> QED BY <2>0, <2>6, <3>2
  <2>8. ASSUME NEW i \in 0..n
        PROVE  \E now \in Times : longer[i + 1] \in Reduce(longer[i], events'[i + 1], now)
    <3>1. CASE i = n
      <4>1. longer[i + 1] = head' /\ longer[i] = head /\ events'[i + 1] = e
        BY <2>2, <2>5, <2>6, <2>7, <3>1
      <4> QED BY <1>1, <4>1
    <3>2. CASE i # n
      <4>1. i \in 0..(n - 1) /\ i + 1 \in 0..n /\ i + 1 \in 1..n
        BY <2>6, <3>2
      <4>2. longer[i + 1] = heads[i + 1] /\ longer[i] = heads[i] /\ events'[i + 1] = events[i + 1]
        BY <2>2, <2>7, <4>1
      <4> QED BY <2>5, <4>1, <4>2
    <3> QED BY <3>1, <3>2
  <2>9. replica' = replica /\ longer[replica'.sequence] = replica' /\ (n + 1) - 1 = n
    BY <1>1, <2>5, <2>6, <2>7
  <2>10. PathOf(longer)'
    BY <2>6, <2>7, <2>8, <2>9 DEF PathOf
  <2> QED BY <1>1, <1>4, <2>3, <2>10 DEF OnePath
<1> QED BY <1>3, <1>4

\* A replay goes one further along the path, which is the only way to go.
LEMMA ReplayFollows ==
    ASSUME ReplayInv, OnePath, ReplayNext
    PROVE  OnePath'
<1> DEFINE n == replica.sequence
           e == events[n + 1]
<1>1. /\ workload.replayed /\ n < Len(events) /\ replica' \in Reduce(replica, e, clock)
      /\ UNCHANGED <<workload, events, head>> /\ clock \in Times /\ replica \in Snapshots
  BY DEF ReplayNext, ReplayInv, TypeOK
<1>2. /\ events \in Seq(AnyEvent) /\ Len(events) = head.sequence /\ n \in Nat
      /\ head.sequence \in Nat
  BY <1>1, SnapshotFields DEF ReplayInv, TypeOK, EventsCounted, AnyEvent, FieldTypes
<1>3. n + 1 \in 1..Len(events) /\ n \in 0..(head.sequence - 1) /\ n + 1 \in 0..head.sequence
  BY <1>1, <1>2
<1>4. e \in AnyEvent /\ ~ ReadsClock(e)
  <2>1. n + 1 \in DOMAIN events
    BY <1>2, <1>3, LenProperties
  <2> QED BY <1>1, <1>2, <1>3, <2>1, ElementOfSeq DEF OnePath
<1>5. PICK heads : PathOf(heads)
  BY <1>1 DEF OnePath
<1>6. PICK now \in Times : heads[n + 1] \in Reduce(heads[n], e, now)
  BY <1>3, <1>5 DEF PathOf
<1>7. heads[n] = replica
  BY <1>5 DEF PathOf
<1>8. replica'.sequence = n + 1
  BY <1>1, <1>4, ReduceTypes
<1>9. heads[n + 1] = replica'
  <2> HIDE DEF e, n
  <2> QED BY <1>1, <1>4, <1>6, <1>7, ReduceDeterministic
<1>10. PathOf(heads)'
  BY <1>1, <1>5, <1>8, <1>9 DEF PathOf
<1> QED BY <1>1, <1>10 DEF OnePath

\* A store that has replayed the whole log holds the snapshot the committing
\* store holds, provided that no claim is revised and no evidence linked in a
\* log that is replayed: "the same snapshot and event always produce the same
\* resulting snapshot" (reducer.py 63-64) is true of the other events.
THEOREM ReplayIsExact ==
    ASSUME ClockFree
    PROVE  Spec => []ReplayReproducesHead
<1>1. ASSUME ReplayInv, OnePath, [Next]_vars PROVE OnePath'
  <2>1. ASSUME Commit \/ Checkpoint PROVE OnePath'
    <3>1. PICK e \in AnyEvent : CommitOf(e) /\ (e \in workload.events \/ e \in CheckpointEvents)
      BY <1>1, <2>1, CommittedEvent DEF ReplayInv
    <3>2. CASE workload.replayed
      <4>1. workload \in Workloads
        BY <1>1 DEF ReplayInv, TypeOK
      <4>2. ~ ReadsClock(e)
        BY <1>1, <3>1, <3>2, <4>1 DEF ClockFree, CheckpointEvents, ReadsClock
      <4> QED BY <1>1, <3>1, <4>2, CommitLengthens
    <3>3. CASE ~ workload.replayed
      <4>1. /\ head \in Snapshots /\ clock \in Times /\ head' \in Reduce(head, e, clock)
            /\ UNCHANGED <<workload, replica>> /\ head.sequence \in Nat
        BY <1>1, <3>1, SnapshotFields DEF ReplayInv, TypeOK, CommitOf, FieldTypes
      <4>2. head'.sequence # 0
        BY <4>1, ReduceTypes
      <4> QED BY <1>1, <3>3, <4>1, <4>2 DEF OnePath
    <3> QED BY <3>2, <3>3
  <2>2. CASE ReplayNext
    BY <1>1, <2>2, ReplayFollows
  <2>3. CASE Tick \/ UNCHANGED vars
    <3>1. UNCHANGED <<workload, events, head, replica>>
      BY <2>3 DEF Tick, vars
    <3> QED BY <1>1, <3>1 DEF OnePath, PathOf
  <2> QED BY <1>1, <2>1, <2>2, <2>3 DEF Next
<1>2. ReplayInv /\ OnePath /\ [Next]_vars => OnePath'
  BY <1>1
<1>3. ReplayInv /\ OnePath => ReplayReproducesHead
  <2> SUFFICES ASSUME OnePath, replica.sequence = head.sequence PROVE replica = head
    BY DEF ReplayReproducesHead
  <2>1. CASE workload.replayed
    BY <2>1 DEF OnePath, PathOf
  <2>2. CASE ~ workload.replayed
    BY <2>2 DEF OnePath
  <2> QED BY <2>1, <2>2
<1> QED BY <1>2, <1>3, InitReplayInv, NextReplayInv, InitOnePath, PTL DEF Spec

-----------------------------------------------------------------------------
(* Segments and their tokens.                                              *)

\* A sequence of segments of some kinds.
SegmentsOf(s, kinds) ==
    \E B : s \in Seq(B) /\ \A x \in B : x.tokens \in Nat /\ x.kind \in kinds

\* Segments that _collect_segments may return.
AreSegments(s) == SegmentsOf(s, SectionKinds \ {"retrieval_handles"})

\* All that the arithmetic needs.
Sized(s) == (\E B : s \in Seq(B)) /\ \A i \in 1..Len(s) : s[i].tokens \in Nat

\* One step of the sum in TokensAt.
SumStep(segments, P, sum, n) ==
    IF n = 0 THEN 0
    ELSE IF n \in P THEN sum[n - 1] + segments[n].tokens ELSE sum[n - 1]

\* sum[n] is the number of tokens of the first n segments that are at P.
IsSum(sum, s, P) ==
    /\ sum \in [0..Len(s) -> Nat] /\ sum[0] = 0
    /\ \A n \in 1..Len(s) :
          sum[n] = IF n \in P THEN sum[n - 1] + s[n].tokens ELSE sum[n - 1]

\* TokensAt is the last of the sums of the tokens so far.
LEMMA SumEquation ==
    ASSUME NEW s, Sized(s), NEW P
    PROVE  \E sum : IsSum(sum, s, P) /\ TokensAt(s, P) = sum[Len(s)]
<1> DEFINE N == Len(s)
           sum == CHOOSE sum : sum = [n \in 0..N |-> SumStep(s, P, sum, n)]
           Add(n, x) == IF n \in P THEN x + s[n].tokens ELSE x
           step == [n \in 1..N |-> [x \in Nat |-> Add(n, x)]]
<1>1. N \in Nat
  BY DEF Sized
<1>2. TokensAt(s, P) = sum[N]
  BY DEF TokensAt, SumStep
<1>3. step \in [1..N -> [Nat -> Nat]]
  BY DEF Sized
<1>4. \A n \in 1..N : \A x \in Nat : step[n][x] = Add(n, x)
  OBVIOUS
<1> HIDE DEF step, N, Add
<1>a. PICK f : Recurs(f, Nat, 0, N, step)
  BY <1>1, <1>3, Recursion
<1>5. f \in [0..N -> Nat] /\ f[0] = 0 /\ \A n \in 1..N : f[n] = step[n][f[n - 1]]
  BY <1>a DEF Recurs
<1>6. \A n \in 0..N : f[n] = SumStep(s, P, f, n)
  <2> TAKE n \in 0..N
  <2>2. CASE n = 0
    BY <1>5, <2>2 DEF SumStep
  <2>3. CASE n # 0
    <3>1. n \in 1..N /\ f[n - 1] \in Nat
      BY <1>1, <1>5, <2>3
    <3> QED BY <1>4, <1>5, <2>3, <3>1, Zenon DEF SumStep, Add
  <2> QED BY <2>2, <2>3
<1>7. f = [n \in 0..N |-> SumStep(s, P, f, n)]
  <2>1. f = [n \in 0..N |-> f[n]]
    BY <1>5
  <2> QED BY <1>6, <2>1, Zenon
<1>8. sum = [n \in 0..N |-> SumStep(s, P, sum, n)]
  BY <1>7, Zenon
<1> HIDE DEF sum
<1>9. \A n \in 0..N : sum[n] = SumStep(s, P, sum, n)
  BY <1>8, Zenon
<1>10. \A n \in 0..N : sum[n] = f[n]
  <2> DEFINE Same == {n \in Nat : n \in 0..N => sum[n] = f[n]}
  <2>1. 0 \in Same
    BY <1>6, <1>9 DEF SumStep
  <2>2. ASSUME NEW n \in Same PROVE n + 1 \in Same
    <3> SUFFICES ASSUME n + 1 \in 0..N PROVE sum[n + 1] = f[n + 1]
      OBVIOUS
    <3>1. n \in 0..N /\ sum[n] = f[n] /\ (n + 1) - 1 = n /\ n + 1 # 0
      BY <1>1
    <3> HIDE DEF Same
    <3>2. SumStep(s, P, sum, n + 1) = SumStep(s, P, f, n + 1)
      BY <3>1, Zenon DEF SumStep
    <3> QED BY <1>6, <1>9, <3>2
  <2>3. Same \subseteq Nat
    OBVIOUS
  <2> HIDE DEF Same
  <2>4. Nat \subseteq Same
    BY <2>1, <2>2, <2>3, Induction
  <2> QED BY <1>1, <2>4 DEF Same
<1>11. sum \in [0..N -> Nat]
  <2>1. sum = [n \in 0..N |-> sum[n]]
    BY <1>8, <1>9, Zenon
  <2>2. \A n \in 0..N : sum[n] \in Nat
    BY <1>5, <1>10
  <2> QED BY <2>1, <2>2
<1>12. sum[0] = 0 /\ \A n \in 1..N : sum[n] = IF n \in P THEN sum[n - 1] + s[n].tokens
                                                          ELSE sum[n - 1]
  <2>1. 0 \in 0..N /\ \A n \in 1..N : n \in 0..N /\ n # 0
    BY <1>1
  <2> QED BY <1>9, <2>1, Zenon DEF SumStep
<1> QED BY <1>2, <1>11, <1>12 DEF N, IsSum

\* Two sums that are made of the same tokens.
LEMMA SumsAgree ==
    ASSUME NEW s, NEW t, NEW P, NEW Q, NEW u, NEW v, IsSum(u, s, P), IsSum(v, t, Q),
           Len(s) \in Nat, Len(t) \in Nat, NEW m \in Nat, m <= Len(s), m <= Len(t),
           \A i \in 1..m : (i \in P <=> i \in Q) /\ s[i].tokens = t[i].tokens
    PROVE  u[m] = v[m]
<1> DEFINE Same == {n \in Nat : n <= m => u[n] = v[n]}
<1>1. 0 \in Same
  BY DEF IsSum
<1>2. ASSUME NEW n \in Same PROVE n + 1 \in Same
  <2> SUFFICES ASSUME n + 1 <= m PROVE u[n + 1] = v[n + 1]
    OBVIOUS
  <2>1. n \in Nat /\ u[n] = v[n] /\ n + 1 \in 1..m /\ n + 1 \in 1..Len(s) /\ n + 1 \in 1..Len(t)
        /\ (n + 1) - 1 = n
    OBVIOUS
  <2> HIDE DEF Same
  <2>2. u[n + 1] = IF n + 1 \in P THEN u[n] + s[n + 1].tokens ELSE u[n]
    BY <2>1 DEF IsSum
  <2>3. v[n + 1] = IF n + 1 \in Q THEN v[n] + t[n + 1].tokens ELSE v[n]
    BY <2>1 DEF IsSum
  <2> QED BY <2>1, <2>2, <2>3
<1>3. Same \subseteq Nat
  OBVIOUS
<1> HIDE DEF Same
<1>4. m \in Same
  BY <1>1, <1>2, <1>3, Induction
<1> QED BY <1>4 DEF Same

\* Where nothing is added a sum stays.
LEMMA SumStays ==
    ASSUME NEW s, NEW P, NEW u, IsSum(u, s, P), Len(s) \in Nat, NEW m \in Nat, m <= Len(s),
           \A i \in (m + 1)..Len(s) : i \notin P
    PROVE  u[Len(s)] = u[m]
<1> DEFINE Flat == {n \in Nat : m <= n /\ n <= Len(s) => u[n] = u[m]}
<1>1. 0 \in Flat
  OBVIOUS
<1>2. ASSUME NEW n \in Flat PROVE n + 1 \in Flat
  <2> SUFFICES ASSUME m <= n, n + 1 <= Len(s) PROVE u[n + 1] = u[m]
    OBVIOUS
  <2>1. n \in Nat /\ u[n] = u[m] /\ n + 1 \in (m + 1)..Len(s) /\ n + 1 \in 1..Len(s)
        /\ (n + 1) - 1 = n
    OBVIOUS
  <2> HIDE DEF Flat
  <2>2. u[n + 1] = IF n + 1 \in P THEN u[n] + s[n + 1].tokens ELSE u[n]
    BY <2>1 DEF IsSum
  <2> QED BY <2>1, <2>2
<1>3. Flat \subseteq Nat
  OBVIOUS
<1> HIDE DEF Flat
<1>4. Len(s) \in Flat
  BY <1>1, <1>2, <1>3, Induction
<1> QED BY <1>4 DEF Flat

\* The same tokens at the same positions, and none after these.
LEMMA TokensSame ==
    ASSUME NEW s, NEW t, Sized(s), Sized(t), NEW P, NEW Q, NEW m \in Nat,
           m <= Len(s), m <= Len(t),
           \A i \in 1..m : (i \in P <=> i \in Q) /\ s[i].tokens = t[i].tokens,
           \A i \in (m + 1)..Len(s) : i \notin P,
           \A i \in (m + 1)..Len(t) : i \notin Q
    PROVE  TokensAt(s, P) = TokensAt(t, Q)
<1>1. PICK u : IsSum(u, s, P) /\ TokensAt(s, P) = u[Len(s)]
  BY SumEquation
<1>2. PICK v : IsSum(v, t, Q) /\ TokensAt(t, Q) = v[Len(t)]
  BY SumEquation
<1>3. Len(s) \in Nat /\ Len(t) \in Nat
  BY DEF Sized
<1>4. u[m] = v[m]
  BY <1>1, <1>2, <1>3, SumsAgree
<1>5. u[Len(s)] = u[m] /\ v[Len(t)] = v[m]
  BY <1>1, <1>2, <1>3, SumStays
<1> QED BY <1>1, <1>2, <1>4, <1>5

\* The tokens at more positions are no fewer; at none, there are none.
LEMMA TokensMonotone ==
    ASSUME NEW s, Sized(s), NEW P, NEW Q, \A i \in 1..Len(s) : i \in P => i \in Q
    PROVE  /\ TokensAt(s, P) \in Nat /\ TokensAt(s, Q) \in Nat
           /\ TokensAt(s, P) <= TokensAt(s, Q)
           /\ (\A i \in 1..Len(s) : i \notin P) => TokensAt(s, P) = 0
<1>1. PICK u : IsSum(u, s, P) /\ TokensAt(s, P) = u[Len(s)]
  BY SumEquation
<1>2. PICK v : IsSum(v, s, Q) /\ TokensAt(s, Q) = v[Len(s)]
  BY SumEquation
<1>3. Len(s) \in Nat /\ \A i \in 1..Len(s) : s[i].tokens \in Nat
  BY DEF Sized
<1>4. u \in [0..Len(s) -> Nat] /\ v \in [0..Len(s) -> Nat] /\ u[0] = 0 /\ v[0] = 0
  BY <1>1, <1>2 DEF IsSum
<1> DEFINE Less == {n \in Nat : n <= Len(s) => u[n] <= v[n]}
<1>5. 0 \in Less
  BY <1>4
<1>6. ASSUME NEW n \in Less PROVE n + 1 \in Less
  <2> SUFFICES ASSUME n + 1 <= Len(s) PROVE u[n + 1] <= v[n + 1]
    OBVIOUS
  <2>1. n \in Nat /\ u[n] <= v[n] /\ n + 1 \in 1..Len(s) /\ (n + 1) - 1 = n
        /\ u[n] \in Nat /\ v[n] \in Nat /\ s[n + 1].tokens \in Nat
    BY <1>3, <1>4
  <2> HIDE DEF Less
  <2>2. u[n + 1] = IF n + 1 \in P THEN u[n] + s[n + 1].tokens ELSE u[n]
    BY <1>1, <2>1 DEF IsSum
  <2>3. v[n + 1] = IF n + 1 \in Q THEN v[n] + s[n + 1].tokens ELSE v[n]
    BY <1>2, <2>1 DEF IsSum
  <2> QED BY <2>1, <2>2, <2>3
<1>7. Less \subseteq Nat
  OBVIOUS
<1> HIDE DEF Less
<1>8. Len(s) \in Less
  BY <1>3, <1>5, <1>6, <1>7, Induction
<1>9. u[Len(s)] <= v[Len(s)] /\ u[Len(s)] \in Nat /\ v[Len(s)] \in Nat
  BY <1>3, <1>4, <1>8 DEF Less
<1>10. ASSUME \A i \in 1..Len(s) : i \notin P PROVE u[Len(s)] = 0
  <2>1. 0 \in Nat /\ 0 <= Len(s) /\ \A i \in (0 + 1)..Len(s) : i \notin P
    BY <1>3, <1>10
  <2>2. u[Len(s)] = u[0]
    BY <1>1, <1>3, <2>1, SumStays
  <2> QED BY <1>4, <2>2
<1> QED BY <1>1, <1>2, <1>9, <1>10

\* One segment more at the end.
LEMMA TokensAppend ==
    ASSUME NEW B, NEW s \in Seq(B), Sized(s), NEW x \in B, x.tokens \in Nat
    PROVE  /\ Sized(Append(s, x))
           /\ TokensOf(Append(s, x)) = TokensOf(s) + x.tokens
<1>1. PICK t \in Seq(B) : t = Append(s, x)
  <2>1. Append(s, x) \in Seq(B)
    OBVIOUS
  <2> QED BY <2>1
<1>2. /\ Len(s) \in Nat /\ Len(t) = Len(s) + 1 /\ t[Len(s) + 1] = x
      /\ \A i \in 1..Len(s) : t[i] = s[i]
      /\ DOMAIN s = 1..Len(s) /\ DOMAIN t = 1..Len(t)
  BY <1>1
<1>3. \A i \in 1..Len(t) : t[i].tokens \in Nat
  <2> TAKE i \in 1..Len(t)
  <2>1. i = Len(s) + 1 \/ i \in 1..Len(s)
    BY <1>2
  <2> QED BY <1>2, <2>1 DEF Sized
<1>4. Sized(t)
  BY <1>3 DEF Sized
<1>5. PICK u : IsSum(u, s, DOMAIN s) /\ TokensAt(s, DOMAIN s) = u[Len(s)]
  BY SumEquation
<1>6. PICK v : IsSum(v, t, DOMAIN t) /\ TokensAt(t, DOMAIN t) = v[Len(t)]
  BY <1>4, SumEquation
<1>7. u[Len(s)] = v[Len(s)]
  <2>1. \A i \in 1..Len(s) : (i \in DOMAIN s <=> i \in DOMAIN t) /\ s[i].tokens = t[i].tokens
    BY <1>2
  <2>2. Len(s) <= Len(s) /\ Len(s) <= Len(t) /\ Len(t) \in Nat
    BY <1>2
  <2> QED BY <1>2, <1>5, <1>6, <2>1, <2>2, SumsAgree
<1>8. v[Len(s) + 1] = v[Len(s)] + x.tokens
  <2>1. Len(s) + 1 \in 1..Len(t) /\ Len(s) + 1 \in DOMAIN t /\ (Len(s) + 1) - 1 = Len(s)
    BY <1>2
  <2>2. \A n \in 1..Len(t) :
           v[n] = IF n \in DOMAIN t THEN v[n - 1] + t[n].tokens ELSE v[n - 1]
    BY <1>6 DEF IsSum
  <2> QED BY <1>2, <2>1, <2>2
<1> QED BY <1>1, <1>2, <1>4, <1>5, <1>6, <1>7, <1>8 DEF TokensOf

\* The tokens of the segments at some positions, taken out.
LEMMA TokensOfPart ==
    ASSUME NEW B, NEW s \in Seq(B), Sized(s), NEW P
    PROVE  /\ Sized(At(s, P))
           /\ TokensOf(At(s, P)) = TokensAt(s, P)
<1>1. PICK at : /\ At(s, P) = at[Len(s)]
                /\ \A n \in 0..Len(s) : at[n] = AtStep(s, P, at, n)
  BY AtEquation
<1>2. PICK u : IsSum(u, s, P) /\ TokensAt(s, P) = u[Len(s)]
  BY SumEquation
<1> DEFINE Right(n) == at[n] \in Seq(B) /\ Sized(at[n]) /\ TokensOf(at[n]) = u[n]
           Good == {n \in Nat : n <= Len(s) => Right(n)}
<1>3. 0 \in Good
  <2>1. at[0] = <<>>
    <3>1. 0 \in 0..Len(s) /\ AtStep(s, P, at, 0) = <<>>
      BY DEF AtStep
    <3> QED BY <1>1, <3>1
  <2>2. <<>> \in Seq(B) /\ Sized(<<>>) /\ Len(<<>>) = 0
    BY DEF Sized
  <2>3. PICK e : e = <<>>
    OBVIOUS
  <2>4. TokensOf(e) = 0
    <3>1. Sized(e) /\ \A i \in 1..Len(e) : i \notin DOMAIN e
      BY <2>2, <2>3
    <3> QED BY <3>1, TokensMonotone DEF TokensOf
  <2>5. u[0] = 0
    BY <1>2 DEF IsSum
  <2>6. Right(0)
    BY <2>1, <2>2, <2>3, <2>4, <2>5
  <2> HIDE DEF Right
  <2> QED BY <2>6
<1>4. ASSUME NEW n \in Good PROVE n + 1 \in Good
  <2>0. n \in Nat
    OBVIOUS
  <2> SUFFICES ASSUME n + 1 <= Len(s) PROVE Right(n + 1)
    BY <2>0
  <2>1. Right(n)
    BY <2>0
  <2>2. n + 1 \in 0..Len(s) /\ n + 1 \in 1..Len(s) /\ (n + 1) - 1 = n /\ n + 1 # 0
    BY <2>0
  <2>3. PICK old \in Seq(B) : old = at[n] /\ Sized(old) /\ TokensOf(old) = u[n]
    BY <2>1
  <2> HIDE DEF Good, Right
  <2>4. s[n + 1] \in B /\ s[n + 1].tokens \in Nat
    BY <2>2 DEF Sized
  <2>5. at[n + 1] = IF n + 1 \in P THEN Append(old, s[n + 1]) ELSE old
    <3>1. at[n + 1] = AtStep(s, P, at, n + 1)
      BY <1>1, <2>2, Zenon
    <3>2. AtStep(s, P, at, n + 1) = IF n + 1 \in P THEN Append(at[(n + 1) - 1], s[n + 1])
                                    ELSE at[(n + 1) - 1]
      BY <2>2, Zenon DEF AtStep
    <3> QED BY <2>2, <2>3, <3>1, <3>2, Zenon
  <2>6. u[n + 1] = IF n + 1 \in P THEN u[n] + s[n + 1].tokens ELSE u[n]
    BY <1>2, <2>2 DEF IsSum
  <2>7. CASE n + 1 \in P
    <3>1. Append(old, s[n + 1]) \in Seq(B)
      BY <2>4
    <3>2. /\ Sized(Append(old, s[n + 1]))
          /\ TokensOf(Append(old, s[n + 1])) = TokensOf(old) + s[n + 1].tokens
      BY <2>3, <2>4, TokensAppend
    <3> QED BY <2>3, <2>5, <2>6, <2>7, <3>1, <3>2, Zenon DEF Right
  <2>8. CASE n + 1 \notin P
    BY <2>3, <2>5, <2>6, <2>8, Zenon DEF Right
  <2> QED BY <2>7, <2>8
<1>5. Good \subseteq Nat
  OBVIOUS
<1> HIDE DEF Good
<1>6. Len(s) \in Nat
  OBVIOUS
<1>7. Right(Len(s))
  <2>1. Len(s) \in Good
    BY <1>3, <1>4, <1>5, <1>6, Induction
  <2> QED BY <1>6, <2>1 DEF Good
<1> QED BY <1>1, <1>2, <1>7

-----------------------------------------------------------------------------
(* The budgets of the sections.                                            *)

\* A segment is over the budget of its section, after those before it.
OverSection(segments, c, before, n) ==
    LET kind == segments[n].kind
        used == TokensAt(segments, {i \in before : segments[i].kind = kind})
    IN kind \in DOMAIN c.budget /\ used + segments[n].tokens > c.budget[kind]

WithinStep(segments, c, kept, n) ==
    IF n = 0 THEN {}
    ELSE IF OverSection(segments, c, kept[n - 1], n) THEN kept[n - 1]
         ELSE kept[n - 1] \cup {n}

\* kept[n] are the positions that are kept of the first n.
IsWithin(kept, s, c) ==
    /\ kept \in [0..Len(s) -> SUBSET (1..Len(s))] /\ kept[0] = {}
    /\ \A n \in 1..Len(s) :
          kept[n] = IF OverSection(s, c, kept[n - 1], n) THEN kept[n - 1]
                    ELSE kept[n - 1] \cup {n}

\* WithinSections is the last of them.
LEMMA WithinEquation ==
    ASSUME NEW s, Len(s) \in Nat, NEW c
    PROVE  \E kept : IsWithin(kept, s, c) /\ WithinSections(s, c) = kept[Len(s)]
<1> DEFINE N == Len(s)
           S == SUBSET (1..N)
           kept == CHOOSE kept : kept = [n \in 0..N |-> WithinStep(s, c, kept, n)]
           Grow(n, x) == IF OverSection(s, c, x, n) THEN x ELSE x \cup {n}
           step == [n \in 1..N |-> [x \in S |-> Grow(n, x)]]
<1>1. N \in Nat
  OBVIOUS
<1>2. WithinSections(s, c) = kept[N]
  BY DEF WithinSections, WithinStep, OverSection
<1>3. step \in [1..N -> [S -> S]]
  OBVIOUS
<1>4. \A n \in 1..N : \A x \in S : step[n][x] = Grow(n, x)
  OBVIOUS
<1>5. {} \in S
  OBVIOUS
<1>s. S = SUBSET (1..N)
  OBVIOUS
<1> HIDE DEF step, N, S, Grow
<1>6. PICK f : Recurs(f, S, {}, N, step)
  BY <1>1, <1>3, <1>5, Recursion
<1>7. f \in [0..N -> S] /\ f[0] = {} /\ \A n \in 1..N : f[n] = step[n][f[n - 1]]
  BY <1>6 DEF Recurs
<1>8. \A n \in 0..N : f[n] = WithinStep(s, c, f, n)
  <2> TAKE n \in 0..N
  <2>1. CASE n = 0
    BY <1>7, <2>1 DEF WithinStep
  <2>2. CASE n # 0
    <3>1. n \in 1..N /\ f[n - 1] \in S
      BY <1>1, <1>7, <2>2
    <3> QED BY <1>4, <1>7, <2>2, <3>1, Zenon DEF WithinStep, Grow
  <2> QED BY <2>1, <2>2
<1>9. f = [n \in 0..N |-> WithinStep(s, c, f, n)]
  <2>1. f = [n \in 0..N |-> f[n]]
    BY <1>7
  <2> QED BY <1>8, <2>1, Zenon
<1>10. kept = [n \in 0..N |-> WithinStep(s, c, kept, n)]
  BY <1>9, Zenon
<1> HIDE DEF kept
<1>11. \A n \in 0..N : kept[n] = WithinStep(s, c, kept, n)
  BY <1>10, Zenon
<1>12. 0 \in 0..N /\ \A n \in 1..N : n \in 0..N /\ n # 0
  BY <1>1
<1>13. kept[0] = {} /\ \A n \in 1..N : kept[n] = Grow(n, kept[n - 1])
  BY <1>11, <1>12, Zenon DEF WithinStep, Grow
<1>14. kept = [n \in 0..N |-> kept[n]]
  BY <1>10, <1>11, Zenon
<1>15. Recurs(kept, S, {}, N, step)
  <2>1. \A n \in 1..N : kept[n - 1] \in S => kept[n] = step[n][kept[n - 1]]
    BY <1>4, <1>13
  <2> QED BY <1>1, <1>3, <1>5, <1>13, <1>14, <2>1, RecursionTyped
<1>16. kept \in [0..N -> SUBSET (1..N)]
  BY <1>15, <1>s DEF Recurs
<1> QED BY <1>2, <1>13, <1>16, Zenon DEF N, Grow, IsWithin

\* What is kept are positions.
LEMMA WithinPositions ==
    ASSUME NEW s, Len(s) \in Nat, NEW c
    PROVE  WithinSections(s, c) \subseteq 1..Len(s)
<1>1. PICK kept : IsWithin(kept, s, c) /\ WithinSections(s, c) = kept[Len(s)]
  BY WithinEquation
<1> QED BY <1>1 DEF IsWithin

-----------------------------------------------------------------------------
(* Eviction.                                                               *)

\* The one that goes first.
FirstOut(segments, left) == {i \in left : \A j \in left \ {i} : GoesFirst(segments, i, j)}

\* Segments of the kinds there are.
OfKnownKinds(s) == \A i \in 1..Len(s) : s[i].kind \in SectionKinds

\* Priorities are numbers.
LEMMA PriorityIsNumber ==
    ASSUME NEW kind \in SectionKinds
    PROVE  Priority(kind) \in Nat
BY DEF Priority, SectionKinds

\* There is always exactly one that goes first.
LEMMA OneGoesFirst ==
    ASSUME NEW s, Len(s) \in Nat, OfKnownKinds(s), NEW left \in SUBSET (1..Len(s)), left # {}
    PROVE  \E i \in left : /\ FirstOut(s, left) = {i}
                           /\ \A j \in left \ {i} : GoesFirst(s, i, j)
<1> DEFINE Rank(i) == Priority(s[i].kind)
           Ranks == {Rank(i) : i \in left}
<1>1. \A i \in left : i \in Nat /\ i <= Len(s) /\ Rank(i) \in Nat
  <2> TAKE i \in left
  <2>1. i \in 1..Len(s) /\ s[i].kind \in SectionKinds
    BY DEF OfKnownKinds
  <2> QED BY <2>1, PriorityIsNumber
<1>d. \A i, j : GoesFirst(s, i, j) <=> Rank(i) < Rank(j) \/ (Rank(i) = Rank(j) /\ i > j)
  BY DEF GoesFirst
<1> HIDE DEF Rank
<1>2. Ranks \in SUBSET Nat /\ Ranks # {}
  BY <1>1
<1>3. PICK p \in left : \A j \in left : Rank(p) <= Rank(j)
  <2>1. PICK m \in Ranks : \A n \in Ranks : m <= n
    BY <1>2, Least
  <2>2. PICK q \in left : m = Rank(q)
    BY <2>1
  <2> QED BY <2>1, <2>2
<1> DEFINE Depths == {Len(s) - i : i \in {j \in left : Rank(j) = Rank(p)}}
<1>4. Depths \in SUBSET Nat /\ Depths # {}
  BY <1>1
<1>5. PICK i \in left : Rank(i) = Rank(p) /\ \A j \in left : Rank(j) = Rank(p) => i >= j
  <2>1. PICK m \in Depths : \A n \in Depths : m <= n
    BY <1>4, Least
  <2>2. PICK q \in left : Rank(q) = Rank(p) /\ m = Len(s) - q
    BY <2>1
  <2>3. \A j \in left : Rank(j) = Rank(p) => Len(s) - q <= Len(s) - j
    BY <2>1, <2>2
  <2> QED BY <1>1, <2>2, <2>3
<1>6. \A j \in left \ {i} : GoesFirst(s, i, j)
  <2> TAKE j \in left \ {i}
  <2>1. /\ Rank(p) <= Rank(j) /\ Rank(i) = Rank(p) /\ (Rank(j) = Rank(p) => i >= j) /\ i # j
        /\ Rank(i) \in Nat /\ Rank(j) \in Nat /\ i \in Nat /\ j \in Nat
    BY <1>1, <1>3, <1>5
  <2> QED BY <1>d, <2>1
<1>7. \A j \in left \ {i} : ~ GoesFirst(s, j, i)
  <2> TAKE j \in left \ {i}
  <2>1. GoesFirst(s, i, j) /\ Rank(i) \in Nat /\ Rank(j) \in Nat /\ i \in Nat /\ j \in Nat
    BY <1>1, <1>6
  <2> QED BY <1>d, <2>1
<1>8. FirstOut(s, left) = {i}
  BY <1>6, <1>7 DEF FirstOut
<1> QED BY <1>6, <1>8

EvictStep(segments, kept, c, gone, n) ==
    IF n = 0 THEN {}
    ELSE IF TokensAt(segments, kept \ gone[n - 1]) <= c.max THEN gone[n - 1]
         ELSE gone[n - 1] \cup FirstOut(segments, kept \ gone[n - 1])

\* gone[n] is what has gone after n rounds.
IsEviction(gone, s, kept, c) ==
    /\ gone \in [0..Len(s) -> SUBSET kept] /\ gone[0] = {}
    /\ \A n \in 1..Len(s) :
          gone[n] = IF TokensAt(s, kept \ gone[n - 1]) <= c.max THEN gone[n - 1]
                    ELSE gone[n - 1] \cup FirstOut(s, kept \ gone[n - 1])

\* Evicted is what has gone in the end.
LEMMA EvictEquation ==
    ASSUME NEW s, Len(s) \in Nat, NEW kept, NEW c
    PROVE  \E gone : IsEviction(gone, s, kept, c) /\ Evicted(s, kept, c) = gone[Len(s)]
<1> DEFINE N == Len(s)
           S == SUBSET kept
           gone == CHOOSE gone : gone = [n \in 0..N |-> EvictStep(s, kept, c, gone, n)]
           Grow(x) == IF TokensAt(s, kept \ x) <= c.max THEN x
                      ELSE x \cup FirstOut(s, kept \ x)
           step == [n \in 1..N |-> [x \in S |-> Grow(x)]]
<1>1. N \in Nat
  OBVIOUS
<1>2. Evicted(s, kept, c) = gone[N]
  BY DEF Evicted, EvictStep, FirstOut
<1>3. step \in [1..N -> [S -> S]]
  <2>1. \A x \in S : Grow(x) \in S
    BY DEF FirstOut
  <2> HIDE DEF Grow, S
  <2> QED BY <2>1
<1>4. \A n \in 1..N : \A x \in S : step[n][x] = Grow(x)
  OBVIOUS
<1>5. {} \in S
  OBVIOUS
<1>s. S = SUBSET kept
  OBVIOUS
<1> HIDE DEF step, N, S, Grow
<1>6. PICK f : Recurs(f, S, {}, N, step)
  BY <1>1, <1>3, <1>5, Recursion
<1>7. f \in [0..N -> S] /\ f[0] = {} /\ \A n \in 1..N : f[n] = step[n][f[n - 1]]
  BY <1>6 DEF Recurs
<1>8. \A n \in 0..N : f[n] = EvictStep(s, kept, c, f, n)
  <2> TAKE n \in 0..N
  <2>1. CASE n = 0
    BY <1>7, <2>1 DEF EvictStep
  <2>2. CASE n # 0
    <3>1. n \in 1..N /\ f[n - 1] \in S
      BY <1>1, <1>7, <2>2
    <3>2. f[n] = Grow(f[n - 1])
      BY <1>4, <1>7, <3>1, Zenon
    <3>3. EvictStep(s, kept, c, f, n) = Grow(f[n - 1])
      BY <2>2 DEF EvictStep, Grow
    <3> QED BY <3>2, <3>3, Zenon
  <2> QED BY <2>1, <2>2
<1>9. f = [n \in 0..N |-> EvictStep(s, kept, c, f, n)]
  <2>1. f = [n \in 0..N |-> f[n]]
    BY <1>7
  <2> QED BY <1>8, <2>1, Zenon
<1>10. gone = [n \in 0..N |-> EvictStep(s, kept, c, gone, n)]
  BY <1>9, Zenon
<1> HIDE DEF gone
<1>11. \A n \in 0..N : gone[n] = EvictStep(s, kept, c, gone, n)
  BY <1>10, Zenon
<1>12. 0 \in 0..N /\ \A n \in 1..N : n \in 0..N /\ n # 0
  BY <1>1
<1>13. gone[0] = {} /\ \A n \in 1..N : gone[n] = Grow(gone[n - 1])
  BY <1>11, <1>12, Zenon DEF EvictStep, Grow
<1>14. gone = [n \in 0..N |-> gone[n]]
  BY <1>10, <1>11, Zenon
<1>15. Recurs(gone, S, {}, N, step)
  <2>1. \A n \in 1..N : gone[n - 1] \in S => gone[n] = step[n][gone[n - 1]]
    BY <1>4, <1>13
  <2> QED BY <1>1, <1>3, <1>5, <1>13, <1>14, <2>1, RecursionTyped
<1>16. gone \in [0..N -> SUBSET kept]
  BY <1>15, <1>s DEF Recurs
<1> QED BY <1>2, <1>13, <1>16, Zenon DEF N, Grow, IsEviction

\* What comes no later than i in the order of priorities.
Upto(segments, kept, i) == {j \in kept : j = i \/ GoesFirst(segments, i, j)}

\* What has gone is the bottom of the order, and none of it fitted.
Bottom(s, kept, c, gone) ==
    /\ gone \subseteq kept
    /\ \A g \in gone : \A i \in kept \ gone : GoesFirst(s, g, i)
    /\ \A g \in gone : TokensAt(s, Upto(s, kept, g)) > c.max

\* One segment goes.
OneLess(segments, left) == \E i \in left : FirstOut(segments, left) = {i}

\* One round of the eviction keeps that, and takes one away if that is needed.
LEMMA EvictRound ==
    ASSUME NEW s, Sized(s), OfKnownKinds(s), NEW kept \in SUBSET (1..Len(s)), NEW c, c.max \in Nat,
           NEW gone, Bottom(s, kept, c, gone), ~ (TokensAt(s, kept \ gone) <= c.max)
    PROVE  /\ Bottom(s, kept, c, gone \cup FirstOut(s, kept \ gone))
           /\ OneLess(s, kept \ gone)
<1>1. Len(s) \in Nat
  BY DEF Sized
<1>2. kept \ gone # {}
  <2>1. TokensAt(s, {}) = 0
    BY TokensMonotone
  <2>2. TokensAt(s, kept \ gone) # 0
    BY TokensMonotone
  <2> QED BY <2>1, <2>2
<1>3. PICK i \in kept \ gone : /\ FirstOut(s, kept \ gone) = {i}
                              /\ \A j \in (kept \ gone) \ {i} : GoesFirst(s, i, j)
  <2>1. kept \ gone \in SUBSET (1..Len(s))
    OBVIOUS
  <2> QED BY <1>1, <1>2, <2>1, OneGoesFirst
<1>4. TokensAt(s, Upto(s, kept, i)) > c.max
  <2>1. \A j \in 1..Len(s) : j \in kept \ gone => j \in Upto(s, kept, i)
    BY <1>3 DEF Upto
  <2>2. /\ TokensAt(s, kept \ gone) <= TokensAt(s, Upto(s, kept, i))
        /\ TokensAt(s, kept \ gone) \in Nat /\ TokensAt(s, Upto(s, kept, i)) \in Nat
    BY <2>1, TokensMonotone
  <2> QED BY <2>2
<1>5. Bottom(s, kept, c, gone \cup {i})
  BY <1>3, <1>4 DEF Bottom
<1>6. OneLess(s, kept \ gone)
  BY <1>3 DEF OneLess
<1> QED BY <1>3, <1>5, <1>6

\* After the eviction what is left fits, and what has gone does not.
LEMMA EvictionIsRight ==
    ASSUME NEW s, Sized(s), OfKnownKinds(s), NEW kept \in SUBSET (1..Len(s)), NEW c, c.max \in Nat
    PROVE  /\ Bottom(s, kept, c, Evicted(s, kept, c))
           /\ TokensAt(s, kept \ Evicted(s, kept, c)) <= c.max
<1>1. Len(s) \in Nat
  BY DEF Sized
<1>2. PICK gone : IsEviction(gone, s, kept, c) /\ Evicted(s, kept, c) = gone[Len(s)]
  BY <1>1, EvictEquation
<1> DEFINE Fits1(g) == TokensAt(s, kept \ g) <= c.max
           Right(n) == /\ Bottom(s, kept, c, gone[n])
                       /\ Fits1(gone[n]) \/ (IsFiniteSet(gone[n]) /\ Cardinality(gone[n]) = n)
           Good == {n \in Nat : n <= Len(s) => Right(n)}
<1>3. 0 \in Good
  <2>1. gone[0] = {}
    BY <1>2 DEF IsEviction
  <2>2. Bottom(s, kept, c, {})
    BY DEF Bottom
  <2>3. Right(0)
    BY <2>1, <2>2, FS_EmptySet
  <2> HIDE DEF Right
  <2> QED BY <2>3
<1>4. ASSUME NEW n \in Good PROVE n + 1 \in Good
  <2>0. n \in Nat
    OBVIOUS
  <2> SUFFICES ASSUME n + 1 <= Len(s) PROVE Right(n + 1)
    BY <2>0
  <2>1. Right(n)
    BY <2>0
  <2>2. n + 1 \in 1..Len(s) /\ (n + 1) - 1 = n
    BY <2>0
  <2> HIDE DEF Good, Fits1
  <2>3. gone[n + 1] = IF Fits1(gone[n]) THEN gone[n]
                      ELSE gone[n] \cup FirstOut(s, kept \ gone[n])
    BY <1>2, <2>2 DEF IsEviction, Fits1
  <2>4. CASE Fits1(gone[n])
    <3>1. gone[n + 1] = gone[n]
      BY <2>3, <2>4
    <3> QED BY <2>1, <2>4, <3>1
  <2>5. CASE ~ Fits1(gone[n])
    <3>1. PICK old : old = gone[n]
      OBVIOUS
    <3>2. /\ Bottom(s, kept, c, old) /\ ~ (TokensAt(s, kept \ old) <= c.max)
          /\ IsFiniteSet(old) /\ Cardinality(old) = n
      BY <2>1, <2>5, <3>1 DEF Fits1
    <3>3. /\ Bottom(s, kept, c, old \cup FirstOut(s, kept \ old))
          /\ OneLess(s, kept \ old)
      BY <3>2, EvictRound
    <3>4. PICK i \in kept \ old : FirstOut(s, kept \ old) = {i}
      BY <3>3 DEF OneLess
    <3>5. gone[n + 1] = old \cup {i}
      BY <2>3, <2>5, <3>1, <3>4
    <3>6. IsFiniteSet(old \cup {i}) /\ Cardinality(old \cup {i}) = n + 1
      BY <3>2, FS_AddElement
    <3> QED BY <3>3, <3>4, <3>5, <3>6
  <2> QED BY <2>4, <2>5
<1>5. Good \subseteq Nat
  OBVIOUS
<1> HIDE DEF Good
<1>6. Right(Len(s))
  <2>1. Len(s) \in Good
    BY <1>1, <1>3, <1>4, <1>5, Induction
  <2> QED BY <1>1, <2>1 DEF Good
<1>7. PICK all : all = gone[Len(s)]
  OBVIOUS
<1>8. /\ Bottom(s, kept, c, all)
      /\ TokensAt(s, kept \ all) <= c.max \/ (IsFiniteSet(all) /\ Cardinality(all) = Len(s))
  BY <1>6, <1>7
<1> HIDE DEF Right, Fits1
<1>9. ASSUME IsFiniteSet(all), Cardinality(all) = Len(s) PROVE TokensAt(s, kept \ all) <= c.max
  <2>1. all \in SUBSET (1..Len(s))
    BY <1>8 DEF Bottom
  <2>2. IsFiniteSet(1..Len(s)) /\ Cardinality(1..Len(s)) = Len(s)
    <3>1. PICK m \in Nat : m = Len(s)
      BY <1>1
    <3>2. IsFiniteSet(1..m) /\ Cardinality(1..m) = IF 1 > m THEN 0 ELSE m - 1 + 1
      BY FS_Interval
    <3> QED BY <3>1, <3>2
  <2>3. all = 1..Len(s)
    BY <1>9, <2>1, <2>2, FS_Subset
  <2>4. TokensAt(s, kept \ all) = 0
    BY <2>3, TokensMonotone
  <2> QED BY <2>4
<1> QED BY <1>2, <1>7, <1>8, <1>9

-----------------------------------------------------------------------------
(* The segments of a snapshot.                                             *)

\* The parts of a snapshot that a prompt counts.
FiniteParts(s) ==
    /\ IsFiniteSet(s.candidates) /\ IsFiniteSet(s.curated) /\ IsFiniteSet(s.claims)
    /\ IsFiniteSet(s.links) /\ IsFiniteSet(s.tasks)

\* The values of a function on a finite set.
LEMMA ImageFinite ==
    ASSUME NEW S, IsFiniteSet(S), NEW f, f = [x \in S |-> f[x]]
    PROVE  IsFiniteSet({f[x] : x \in S})
<1>1. PICK T : T = {f[x] : x \in S}
  OBVIOUS
<1>2. f \in Surjection(S, T)
  BY <1>1 DEF Surjection
<1> QED BY <1>1, <1>2, FS_Surjection

\* Finitely many items have finitely many ids.
LEMMA IdsFinite ==
    ASSUME NEW S, IsFiniteSet(S)
    PROVE  IsFiniteSet(Ids(S))
<1> DEFINE f == [x \in S |-> x.id]
<1>1. f = [x \in S |-> f[x]] /\ \A x \in S : f[x] = x.id
  OBVIOUS
<1>2. Ids(S) = {f[x] : x \in S}
  BY <1>1 DEF Ids
<1> HIDE DEF f
<1> QED BY <1>1, <1>2, ImageFinite

\* A part of a finite set is finite and can be counted.
LEMMA PartFinite ==
    ASSUME NEW S, IsFiniteSet(S), NEW T, T \subseteq S
    PROVE  IsFiniteSet(T) /\ Cardinality(T) \in Nat
BY FS_Subset, FS_CardinalityType

\* Two lists of segments, one behind the other.
LEMMA SegmentsJoin ==
    ASSUME NEW K, NEW s, NEW t, SegmentsOf(s, K), SegmentsOf(t, K)
    PROVE  SegmentsOf(s \o t, K)
<1>1. PICK B : s \in Seq(B) /\ \A x \in B : x.tokens \in Nat /\ x.kind \in K
  BY DEF SegmentsOf
<1>2. PICK C : t \in Seq(C) /\ \A x \in C : x.tokens \in Nat /\ x.kind \in K
  BY DEF SegmentsOf
<1>3. s \in Seq(B \cup C) /\ t \in Seq(B \cup C)
  BY <1>1, <1>2
<1>4. s \o t \in Seq(B \cup C)
  BY <1>3
<1> QED BY <1>1, <1>2, <1>4 DEF SegmentsOf

\* Segments of some kinds are segments of more kinds.
LEMMA SegmentsWeaken ==
    ASSUME NEW K, NEW M, K \subseteq M, NEW s, SegmentsOf(s, K)
    PROVE  SegmentsOf(s, M)
BY DEF SegmentsOf

\* One segment, and none.
LEMMA OneSegment ==
    ASSUME NEW K, NEW x, x.tokens \in Nat, x.kind \in K
    PROVE  SegmentsOf(<<x>>, K) /\ SegmentsOf(<<>>, K)
<1>1. PICK B : B = {x}
  OBVIOUS
<1>2. x \in B /\ \A y \in B : y = x
  BY <1>1
<1>3. <<x>> \in Seq(B) /\ <<>> \in Seq(B)
  BY <1>2
<1> QED BY <1>2, <1>3 DEF SegmentsOf

\* What Segment makes is one segment of the kind, or none.
LEMMA SegmentMade ==
    ASSUME NEW kind, NEW content, NEW lines \in Nat, NEW sources
    PROVE  SegmentsOf(Segment(kind, content, lines, sources), {kind})
<1> DEFINE x == [kind |-> kind, content |-> <<kind, content>>,
                 tokens |-> 1 + TokensOfLine(kind) * lines, sources |-> sources]
<1>1. TokensOfLine(kind) * lines \in Nat
  <2>1. TokensOfLine(kind) = 1 \/ TokensOfLine(kind) = 2
    BY DEF TokensOfLine
  <2> QED BY <2>1
<1>2. x.tokens \in Nat /\ x.kind \in {kind}
  BY <1>1
<1>3. Segment(kind, content, lines, sources) = IF lines = 0 THEN <<>> ELSE <<x>>
  BY DEF Segment
<1> HIDE DEF x
<1> QED BY <1>2, <1>3, OneSegment

\* The parts of the segments that are collected.
LEMMA CollectedParts ==
    ASSUME NEW s \in Snapshots, FiniteParts(s), NEW c, c.toolResults \in Nat
    PROVE  /\ SegmentsOf(TaskConstraints(s), {"task_constraints"})
           /\ SegmentsOf(PlanSegment(s), {"plan"})
           /\ SegmentsOf(VerifiedEvidence(s), {"verified_evidence"})
           /\ SegmentsOf(ActiveEvidence(s), {"active_evidence"})
           /\ SegmentsOf(ContradictionSegments(s), {"contradiction_notes"})
           /\ SegmentsOf(ToolResultsSegment(s, c), {"tool_results"})
           /\ SegmentsOf(CandidatePreviews(s, c), {"candidate_previews"})
<1>1. SegmentsOf(TaskConstraints(s), {"task_constraints"})
  <2> DEFINE x == [kind |-> "task_constraints",
                   content |-> <<"task_constraints", <<s.toolCalls, s.tasks>> >>,
                   tokens |-> 1 + Cardinality(s.tasks), sources |-> {}]
  <2>1. Cardinality(s.tasks) \in Nat
    BY FS_CardinalityType DEF FiniteParts
  <2>2. x.tokens \in Nat /\ x.kind \in {"task_constraints"}
    BY <2>1
  <2>3. TaskConstraints(s) = <<x>>
    BY DEF TaskConstraints
  <2> HIDE DEF x
  <2> QED BY <2>2, <2>3, OneSegment
<1>2. SegmentsOf(PlanSegment(s), {"plan"})
  <2> DEFINE T == {t \in s.tasks : t.status = "pending"}
  <2>1. IsFiniteSet(T)
    BY PartFinite DEF FiniteParts
  <2>2. PICK n \in Nat : n = Cardinality(Ids(T))
    BY <2>1, IdsFinite, FS_CardinalityType
  <2>3. PlanSegment(s) = Segment("plan", Ids(T), n, {})
    BY <2>2 DEF PlanSegment
  <2> HIDE DEF T
  <2> QED BY <2>3, SegmentMade
<1>3. SegmentsOf(VerifiedEvidence(s), {"verified_evidence"})
  <2> DEFINE T == {c1 \in s.curated : c1.id \in VerifiedItemIds(s)}
  <2>1. PICK n \in Nat : n = Cardinality(T)
    BY PartFinite DEF FiniteParts
  <2>2. VerifiedEvidence(s) = Segment("verified_evidence", T, n, Ids(T))
    BY <2>1 DEF VerifiedEvidence
  <2> HIDE DEF T
  <2> QED BY <2>2, SegmentMade
<1>4. SegmentsOf(ActiveEvidence(s), {"active_evidence"})
  <2> DEFINE T == {c1 \in s.curated : c1.id \notin VerifiedItemIds(s)}
  <2>1. PICK n \in Nat : n = Cardinality(T)
    BY PartFinite DEF FiniteParts
  <2>2. ActiveEvidence(s) = Segment("active_evidence", T, n, Ids(T))
    BY <2>1 DEF ActiveEvidence
  <2> HIDE DEF T
  <2> QED BY <2>2, SegmentMade
<1>5. SegmentsOf(ContradictionSegments(s), {"contradiction_notes"})
  <2> DEFINE Against == {l \in s.links : l.relationship = "contradicts"}
             said(claims) == {<<k.id, k.text>> : k \in claims}
             note == [l \in Against |->
                        [link |-> l.id, claim |-> said({k \in s.claims : k.id = l.claim}),
                         item |-> IF l.item \in Ids(s.curated) THEN l.item ELSE NoId]]
             Notes == {note[l] : l \in Against}
             Back == {k \in s.claims : k.status = "withdrawn"}
  <2>1. IsFiniteSet(Against) /\ IsFiniteSet(Back)
    BY PartFinite DEF FiniteParts
  <2>2. IsFiniteSet(Notes)
    <3>1. note = [l \in Against |-> note[l]]
      OBVIOUS
    <3> HIDE DEF note, Against
    <3> QED BY <2>1, <3>1, ImageFinite
  <2>3. PICK m \in Nat : m = Cardinality(Notes)
    BY <2>2, FS_CardinalityType
  <2>4. PICK n \in Nat : n = Cardinality(said(Back))
    <3>1. PICK line : line = [k \in Back |-> <<k.id, k.text>>]
      OBVIOUS
    <3>2. said(Back) = {line[k] : k \in Back} /\ line = [k \in Back |-> line[k]]
      BY <3>1
    <3>3. IsFiniteSet(said(Back))
      <4> HIDE DEF Back
      <4> QED BY <2>1, <3>2, ImageFinite
    <3> QED BY <3>3, FS_CardinalityType
  <2>5. Notes = {[link |-> l.id, claim |-> said({k \in s.claims : k.id = l.claim}),
                  item |-> IF l.item \in Ids(s.curated) THEN l.item ELSE NoId] : l \in Against}
    OBVIOUS
  <2> DEFINE A == Segment("contradiction_notes", <<"contradictions", Notes>>, m, {})
             W == Segment("contradiction_notes", <<"withdrawn", said(Back)>>, n, {})
  <2>6. ContradictionSegments(s) = A \o W
    BY <2>3, <2>4, <2>5, Zenon DEF ContradictionSegments
  <2>7. SegmentsOf(A, {"contradiction_notes"}) /\ SegmentsOf(W, {"contradiction_notes"})
    <3> HIDE DEF Notes, Back, said
    <3> QED BY SegmentMade
  <2> HIDE DEF A, W
  <2> QED BY <2>6, <2>7, SegmentsJoin
<1>6. SegmentsOf(ToolResultsSegment(s, c), {"tool_results"})
  <2> DEFINE m == Len(s.results)
             recent == IF c.toolResults = 0 \/ c.toolResults >= m THEN s.results
                       ELSE SubSeq(s.results, m - c.toolResults + 1, m)
             from == {recent[i].id : i \in DOMAIN recent}
  <2>1. s.results \in Seq(Results)
    BY SnapshotFields DEF FieldTypes
  <2>2. Len(recent) \in Nat
    <3>1. m \in Nat
      BY <2>1
    <3>2. CASE c.toolResults = 0 \/ c.toolResults >= m
      BY <3>1, <3>2
    <3>3. CASE ~(c.toolResults = 0 \/ c.toolResults >= m)
      <4>1. PICK a \in Nat : a = m - c.toolResults + 1 /\ 1 <= a /\ a <= m
        BY <3>1, <3>3
      <4>2. \A i \in a..m : i \in 1..m
        BY <4>1
      <4>3. Len(SubSeq(s.results, a, m)) \in Nat
        BY <2>1, <3>1, <4>1
      <4> QED BY <3>3, <4>1, <4>3
    <3> QED BY <3>2, <3>3
  <2>3. PICK n \in Nat : n = Len(recent)
    BY <2>2
  <2>4. ToolResultsSegment(s, c) = Segment("tool_results", recent, n, from)
    BY <2>3 DEF ToolResultsSegment
  <2> HIDE DEF recent, from
  <2> QED BY <2>4, SegmentMade
<1>7. SegmentsOf(CandidatePreviews(s, c), {"candidate_previews"})
  <2>1. PICK n \in Nat : n = Cardinality(s.candidates)
    BY FS_CardinalityType DEF FiniteParts
  <2>2. SegmentsOf(Segment("candidate_previews", s.candidates, n, s.candidates),
                   {"candidate_previews"})
    BY SegmentMade
  <2>3. SegmentsOf(<<>>, {"candidate_previews"})
    <3>1. PICK x : x = [kind |-> "candidate_previews", tokens |-> 0]
      OBVIOUS
    <3>2. x.tokens \in Nat /\ x.kind \in {"candidate_previews"}
      BY <3>1
    <3> QED BY <3>2, OneSegment
  <2> QED BY <2>1, <2>2, <2>3 DEF CandidatePreviews
<1> QED BY <1>1, <1>2, <1>3, <1>4, <1>5, <1>6, <1>7

\* Whatever is collected is a sequence of segments, none of retrieval handles.
LEMMA CollectedSegments ==
    ASSUME NEW s \in Snapshots, FiniteParts(s), NEW c, c.toolResults \in Nat
    PROVE  AreSegments(CollectSegments(s, c))
<1> DEFINE K == SectionKinds \ {"retrieval_handles"}
<1>1. /\ SegmentsOf(TaskConstraints(s), K) /\ SegmentsOf(PlanSegment(s), K)
      /\ SegmentsOf(VerifiedEvidence(s), K) /\ SegmentsOf(ActiveEvidence(s), K)
      /\ SegmentsOf(ContradictionSegments(s), K) /\ SegmentsOf(ToolResultsSegment(s, c), K)
      /\ SegmentsOf(CandidatePreviews(s, c), K)
  <2>1. /\ {"task_constraints"} \subseteq K /\ {"plan"} \subseteq K
        /\ {"verified_evidence"} \subseteq K /\ {"active_evidence"} \subseteq K
        /\ {"contradiction_notes"} \subseteq K /\ {"tool_results"} \subseteq K
        /\ {"candidate_previews"} \subseteq K
    BY DEF SectionKinds
  <2> HIDE DEF K
  <2> QED BY <2>1, CollectedParts, SegmentsWeaken
<1> HIDE DEF K
<1>2. SegmentsOf(CollectSegments(s, c), K)
  BY <1>1, SegmentsJoin DEF CollectSegments
<1> QED BY <1>2 DEF AreSegments, K

\* The parts of a snapshot stay finite.
LEMMA ReduceFinite ==
    ASSUME NEW s \in Snapshots, FiniteParts(s), NEW e \in AnyEvent, NEW now,
           NEW r \in Reduce(s, e, now)
    PROVE  FiniteParts(r)
<1>1. ByCause(r, s, e, now)
  BY ReduceChanges, SnapshotFields
<1>2. \A S, x : IsFiniteSet(S) => IsFiniteSet(S \cup {x})
  BY FS_AddElement
<1>3. ASSUME NEW S, IsFiniteSet(S), NEW id, NEW new PROVE IsFiniteSet(ReplaceById(S, id, new))
  <2> DEFINE f == [x \in S |-> IF x.id = id THEN new ELSE x]
  <2>1. f = [x \in S |-> f[x]]
    OBVIOUS
  <2>2. ReplaceById(S, id, new) = {f[x] : x \in S}
    BY DEF ReplaceById
  <2> HIDE DEF f
  <2> QED BY <1>3, <2>1, <2>2, ImageFinite
<1>4. IsFiniteSet(r.candidates)
  <2>1. r.candidates = s.candidates \/ CandidateAddedEffect(r, s, e)
    BY <1>1, Zenon DEF ByCause
  <2> QED BY <1>2, <2>1 DEF FiniteParts, CandidateAddedEffect
<1>5. IsFiniteSet(r.curated)
  <2>1. \/ r.curated = s.curated \/ EvidenceCuratedEffect(r, s, e)
        \/ ContextPrunedEffect(r, s, e)
    BY <1>1, Zenon DEF ByCause
  <2>2. IsFiniteSet({c \in s.curated : c.id \in e.retained})
    BY PartFinite DEF FiniteParts
  <2>3. \/ r.curated = s.curated
        \/ \E x : r.curated = s.curated \cup {x}
        \/ r.curated = {c \in s.curated : c.id \in e.retained}
    BY <2>1, Zenon DEF EvidenceCuratedEffect, ContextPrunedEffect
  <2> QED BY <1>2, <2>2, <2>3, Zenon DEF FiniteParts
<1>6. IsFiniteSet(r.claims)
  <2>1. \/ r.claims = s.claims \/ ClaimCreatedEffect(r, s, e)
        \/ ClaimRevisedEffect(r, s, e, now) \/ EvidenceLinkedEffect(r, s, e, now)
    BY <1>1, Zenon DEF ByCause
  <2>2. \/ r.claims = s.claims
        \/ \E x : r.claims = s.claims \cup {x}
        \/ \E id, new : r.claims = ReplaceById(s.claims, id, new)
    BY <2>1, Zenon DEF ClaimCreatedEffect, ClaimRevisedEffect, EvidenceLinkedEffect
  <2> QED BY <1>2, <1>3, <2>2, Zenon DEF FiniteParts
<1>7. IsFiniteSet(r.links)
  <2>1. \/ r.links = s.links
        \/ EvidenceLinkedEffect(r, s, e, now) \/ EvidenceVerifiedEffect(r, s, e)
    BY <1>1, Zenon DEF ByCause
  <2>2. \/ r.links = s.links
        \/ \E x : r.links = s.links \cup {x}
        \/ \E id, new : r.links = ReplaceById(s.links, id, new)
    BY <2>1, Zenon DEF EvidenceLinkedEffect, EvidenceVerifiedEffect
  <2> QED BY <1>2, <1>3, <2>2, Zenon DEF FiniteParts
<1>8. IsFiniteSet(r.tasks)
  <2>1. \/ r.tasks = s.tasks
        \/ TaskDecomposedEffect(r, s, e) \/ TaskCompletedEffect(r, s, e)
    BY <1>1, Zenon DEF ByCause
  <2>2. \/ r.tasks = s.tasks
        \/ \E x : r.tasks = s.tasks \cup {x}
        \/ \E id, new : r.tasks = ReplaceById(s.tasks, id, new)
    BY <2>1, Zenon DEF TaskDecomposedEffect, TaskCompletedEffect
  <2> QED BY <1>2, <1>3, <2>2, Zenon DEF FiniteParts
<1> QED BY <1>4, <1>5, <1>6, <1>7, <1>8 DEF FiniteParts

\* An empty trajectory is finite.
LEMMA GenesisFinite ==
    ASSUME NEW epoch
    PROVE  FiniteParts(Genesis(epoch))
BY FS_EmptySet DEF FiniteParts, Genesis

-----------------------------------------------------------------------------
(* Retrieval handles.                                                      *)

\* The configurations the compiler is given.
IsConfig(c) == c.max \in Nat /\ c.toolResults \in Nat /\ c.budget \in [DOMAIN c.budget -> Nat]

\* What can be fetched again and is not shown.
Omitted(s, segments) == Retrievable(s) \ SourcesOf(segments)

\* The handles of what is omitted.
Handle(s, segments) ==
    Segment("retrieval_handles", Omitted(s, segments), Cardinality(Omitted(s, segments)),
            Omitted(s, segments))

\* The handles exceed their section, or the prompt.
NoRoom(s, segments, c) ==
    \/ /\ "retrieval_handles" \in DOMAIN c.budget
       /\ TokensOf(Handle(s, segments)) > c.budget["retrieval_handles"]
    \/ TokensOf(segments) + TokensOf(Handle(s, segments)) > c.max

\* _add_retrieval_handles adds the handles unless there is no room for them.
LEMMA SelectedIs ==
    ASSUME NEW s, NEW c
    PROVE  SelectedSegments(s, c) =
              LET shown == AllocateTokens(CollectSegments(s, c), c)
              IN IF NoRoom(s, shown, c) THEN shown ELSE shown \o Handle(s, shown)
<1>1. \A shown : AddRetrievalHandles(shown, s, c) =
                    IF NoRoom(s, shown, c) THEN shown ELSE shown \o Handle(s, shown)
  BY Zenon DEF AddRetrievalHandles, NoRoom, Handle, Omitted
<1> QED BY <1>1, Zenon DEF SelectedSegments

\* The tokens of one segment, and of none.
LEMMA OneToken ==
    ASSUME NEW x, x.tokens \in Nat
    PROVE  TokensOf(<<x>>) = x.tokens /\ TokensOf(<<>>) = 0 /\ Sized(<<>>)
<1>1. PICK B : B = {x}
  OBVIOUS
<1>2. PICK none \in Seq(B) : none = <<>> /\ Len(none) = 0
  BY EmptySeq
<1>3. Sized(none) /\ \A i \in 1..Len(none) : i \notin DOMAIN none
  BY <1>2 DEF Sized
<1>4. TokensOf(none) = 0
  BY <1>3, TokensMonotone DEF TokensOf
<1>5. TokensOf(Append(none, x)) = TokensOf(none) + x.tokens
  BY <1>1, <1>3, TokensAppend
<1>6. Append(none, x) = <<x>>
  BY <1>2
<1> QED BY <1>2, <1>3, <1>4, <1>5, <1>6

\* Only what there is can be fetched again, which is finite.
LEMMA RetrievableFinite ==
    ASSUME NEW s \in Snapshots, FiniteParts(s)
    PROVE  IsFiniteSet(Retrievable(s))
<1>1. IsFiniteSet(Ids(s.curated))
  BY IdsFinite DEF FiniteParts
<1>2. IsFiniteSet(ResultsOf(s))
  <2>1. s.results \in Seq(Results)
    BY SnapshotFields DEF FieldTypes
  <2>2. PICK n \in Nat : n = Len(s.results) /\ DOMAIN s.results = 1..n
    BY <2>1
  <2>3. IsFiniteSet(1..n)
    BY FS_Interval
  <2>4. PICK f : f = s.results
    OBVIOUS
  <2>5. f = [i \in 1..n |-> f[i]]
    BY <2>1, <2>2, <2>4
  <2>6. IsFiniteSet({f[i] : i \in 1..n})
    BY <2>3, <2>5, ImageFinite
  <2> QED BY <2>2, <2>4, <2>6 DEF ResultsOf
<1>3. IsFiniteSet(Ids(ResultsOf(s)))
  BY <1>2, IdsFinite
<1> QED BY <1>1, <1>3, FS_Union DEF Retrievable

\* Handles are one segment for all that is omitted.
LEMMA HandleIs ==
    ASSUME NEW s \in Snapshots, FiniteParts(s), NEW segments
    PROVE  \/ Omitted(s, segments) = {} /\ Handle(s, segments) = <<>>
           \/ /\ Omitted(s, segments) # {}
              /\ \E x : /\ Handle(s, segments) = <<x>> /\ TokensOf(<<x>>) = x.tokens
                        /\ x.kind = "retrieval_handles" /\ x.sources = Omitted(s, segments)
                        /\ x.tokens = 1 + Cardinality(Omitted(s, segments)) /\ x.tokens \in Nat
<1>1. PICK T : T = Omitted(s, segments)
  OBVIOUS
<1>2. IsFiniteSet(T)
  BY <1>1, RetrievableFinite, PartFinite DEF Omitted
<1>3. PICK n \in Nat : n = Cardinality(T)
  BY <1>2, FS_CardinalityType
<1>4. n = 0 <=> T = {}
  BY <1>2, <1>3, FS_EmptySet
<1> DEFINE x == [kind |-> "retrieval_handles", content |-> <<"retrieval_handles", T>>,
                 tokens |-> 1 + TokensOfLine("retrieval_handles") * n, sources |-> T]
<1>5. TokensOfLine("retrieval_handles") = 1
  BY DEF TokensOfLine
<1>6. Handle(s, segments) = IF n = 0 THEN <<>> ELSE <<x>>
  BY <1>1, <1>3, Zenon DEF Handle, Segment
<1>7. x.kind = "retrieval_handles" /\ x.sources = T /\ x.tokens = 1 + n
  BY <1>5
<1> HIDE DEF x
<1>8. CASE T = {}
  BY <1>1, <1>4, <1>6, <1>8
<1>9. CASE T # {}
  <2>1. x.tokens \in Nat
    BY <1>7
  <2>2. TokensOf(<<x>>) = x.tokens
    BY <2>1, OneToken
  <2>3. Handle(s, segments) = <<x>>
    BY <1>4, <1>6, <1>9
  <2> QED BY <1>1, <1>3, <1>7, <1>9, <2>1, <2>2, <2>3
<1> QED BY <1>8, <1>9

\* One more segment adds its sources.
LEMMA SourcesAdd ==
    ASSUME NEW B, NEW s \in Seq(B), NEW x
    PROVE  SourcesOf(s \o <<x>>) = SourcesOf(s) \cup x.sources
<1>1. PICK t : t = s \o <<x>>
  OBVIOUS
<1>2. PICK n \in Nat : n = Len(s) /\ DOMAIN s = 1..n
  OBVIOUS
<1>3. DOMAIN t = 1..(n + 1) /\ t[n + 1] = x /\ \A i \in 1..n : t[i] = s[i]
  BY <1>1, <1>2
<1>4. \A i : i \in 1..(n + 1) <=> i \in 1..n \/ i = n + 1
  BY <1>2
<1>5. UNION {t[i].sources : i \in DOMAIN t} = (UNION {s[i].sources : i \in DOMAIN s}) \cup x.sources
  BY <1>2, <1>3, <1>4
<1> QED BY <1>1, <1>5 DEF SourcesOf

\* What a prompt neither shows nor has a handle for had no room for the handles.
LEMMA NothingLostOnce ==
    ASSUME NEW s \in Snapshots, FiniteParts(s), NEW c, IsConfig(c),
           NEW missing, missing = Retrievable(s) \ SourcesOf(SelectedSegments(s, c)),
           missing # {}
    PROVE  \/ TokensOf(SelectedSegments(s, c)) + (1 + Cardinality(missing)) > c.max
           \/ /\ "retrieval_handles" \in DOMAIN c.budget
              /\ 1 + Cardinality(missing) > c.budget["retrieval_handles"]
<1> DEFINE all == CollectSegments(s, c)
           left == WithinSections(all, c) \ Evicted(all, WithinSections(all, c), c)
<1>1. PICK shown : shown = AllocateTokens(all, c)
  OBVIOUS
<1>2. SelectedSegments(s, c) = IF NoRoom(s, shown, c) THEN shown ELSE shown \o Handle(s, shown)
  BY <1>1, SelectedIs
<1>3. PICK B : shown \in Seq(B)
  <2>1. PICK B : all \in Seq(B)
    BY CollectedSegments DEF IsConfig, AreSegments, SegmentsOf
  <2>2. shown = At(all, left)
    BY <1>1 DEF AllocateTokens
  <2> HIDE DEF all, left
  <2> QED BY <2>1, <2>2, AtIsSubsequence
<1> HIDE DEF all, left
<1>4. CASE Omitted(s, shown) = {} /\ Handle(s, shown) = <<>>
  <2>1. shown \o <<>> = shown
    BY <1>3
  <2>2. SelectedSegments(s, c) = shown
    BY <1>2, <1>4, <2>1
  <2> QED BY <1>4, <2>2 DEF Omitted
<1>5. CASE /\ Omitted(s, shown) # {}
           /\ \E x : /\ Handle(s, shown) = <<x>> /\ TokensOf(<<x>>) = x.tokens
                     /\ x.kind = "retrieval_handles" /\ x.sources = Omitted(s, shown)
                     /\ x.tokens = 1 + Cardinality(Omitted(s, shown)) /\ x.tokens \in Nat
  <2>1. PICK x : /\ Handle(s, shown) = <<x>> /\ TokensOf(<<x>>) = x.tokens
                 /\ x.sources = Omitted(s, shown)
                 /\ x.tokens = 1 + Cardinality(Omitted(s, shown))
    BY <1>5
  <2>2. NoRoom(s, shown, c)
    <3> SUFFICES ASSUME ~ NoRoom(s, shown, c) PROVE FALSE
      OBVIOUS
    <3>1. SourcesOf(SelectedSegments(s, c)) = SourcesOf(shown) \cup Omitted(s, shown)
      BY <1>2, <1>3, <2>1, SourcesAdd
    <3> QED BY <3>1 DEF Omitted
  <2>3. missing = Omitted(s, shown) /\ SelectedSegments(s, c) = shown
    BY <1>2, <2>2 DEF Omitted
  <2> QED BY <2>1, <2>2, <2>3 DEF NoRoom
<1> QED BY <1>4, <1>5, HandleIs

-----------------------------------------------------------------------------
(* What is shown, by priority.                                             *)

\* Positions whose segments fit with all that comes before them.
FitPositions(all, kept, c) == {j \in kept : TokensAt(all, Upto(all, kept, j)) <= c.max}

\* The segments at these positions.
Fitting(all, kept, c) == {all[i] : i \in FitPositions(all, kept, c)}

\* What the eviction leaves.
LEMMA LeftByPriority ==
    ASSUME NEW all, AreSegments(all), NEW c, IsConfig(c), NEW kept, kept = WithinSections(all, c)
    PROVE  /\ kept \ Evicted(all, kept, c) = FitPositions(all, kept, c)
           /\ TokensAt(all, FitPositions(all, kept, c)) <= c.max
           /\ kept \subseteq 1..Len(all)
           /\ Sized(all) /\ OfKnownKinds(all)
<1>1. PICK B : /\ all \in Seq(B)
               /\ \A x \in B : x.tokens \in Nat /\ x.kind \in SectionKinds
  BY DEF AreSegments, SegmentsOf
<1>2. Len(all) \in Nat /\ Sized(all) /\ OfKnownKinds(all)
  <2>1. Len(all) \in Nat /\ \A i \in 1..Len(all) : all[i] \in B
    BY <1>1
  <2> QED BY <1>1, <2>1 DEF Sized, OfKnownKinds
<1>3. kept \in SUBSET (1..Len(all))
  BY <1>2, WithinPositions
<1>4. PICK gone : gone = Evicted(all, kept, c)
  OBVIOUS
<1>5. Bottom(all, kept, c, gone) /\ TokensAt(all, kept \ gone) <= c.max
  BY <1>2, <1>3, <1>4, EvictionIsRight DEF IsConfig
<1>6. \A i \in kept : i \in kept \ gone <=> TokensAt(all, Upto(all, kept, i)) <= c.max
  <2> TAKE i \in kept
  <2>1. CASE i \in gone
    <3>1. TokensAt(all, Upto(all, kept, i)) > c.max
      BY <1>5, <2>1 DEF Bottom
    <3>2. TokensAt(all, Upto(all, kept, i)) \in Nat
      BY <1>2, TokensMonotone
    <3> QED BY <2>1, <3>1, <3>2 DEF IsConfig
  <2>2. CASE i \notin gone
    <3>1. ASSUME NEW j \in Upto(all, kept, i) PROVE j \in kept \ gone
      <4>1. j \in kept /\ (j = i \/ GoesFirst(all, i, j))
        BY DEF Upto
      <4>2. ASSUME j \in gone PROVE FALSE
        <5>1. GoesFirst(all, j, i) /\ GoesFirst(all, i, j)
          BY <1>5, <2>2, <4>1, <4>2 DEF Bottom
        <5>2. /\ i \in Nat /\ j \in Nat
              /\ Priority(all[i].kind) \in Nat /\ Priority(all[j].kind) \in Nat
          <6>1. i \in 1..Len(all) /\ j \in 1..Len(all)
            BY <1>3, <4>1
          <6> QED BY <1>2, <6>1, PriorityIsNumber DEF OfKnownKinds
        <5> QED BY <5>1, <5>2 DEF GoesFirst
      <4> QED BY <4>1, <4>2
    <3>2. \A j \in 1..Len(all) : j \in Upto(all, kept, i) => j \in kept \ gone
      BY <3>1
    <3>3. /\ TokensAt(all, Upto(all, kept, i)) <= TokensAt(all, kept \ gone)
          /\ TokensAt(all, Upto(all, kept, i)) \in Nat /\ TokensAt(all, kept \ gone) \in Nat
      BY <1>2, <3>2, TokensMonotone
    <3> QED BY <1>5, <2>2, <3>3 DEF IsConfig
  <2> QED BY <2>1, <2>2
<1>7. kept \ gone = FitPositions(all, kept, c)
  BY <1>6 DEF FitPositions
<1> QED BY <1>2, <1>3, <1>4, <1>5, <1>7

\* What is kept of a sequence of segments, by the order of priorities.
LEMMA KeptByPriority ==
    ASSUME NEW all, AreSegments(all), NEW c, IsConfig(c), NEW kept, kept = WithinSections(all, c)
    PROVE  /\ TokensOf(AllocateTokens(all, c)) <= c.max
           /\ \E B : AllocateTokens(all, c) \in Seq(B)
           /\ Sized(AllocateTokens(all, c))
           /\ AllocateTokens(all, c) = At(all, FitPositions(all, kept, c))
           /\ Values(AllocateTokens(all, c)) = Fitting(all, kept, c)
<1>1. PICK B : all \in Seq(B)
  BY DEF AreSegments, SegmentsOf
<1>2. PICK left : left = FitPositions(all, kept, c)
  OBVIOUS
<1>3. /\ kept \ Evicted(all, kept, c) = left /\ TokensAt(all, left) <= c.max
      /\ kept \subseteq 1..Len(all) /\ Sized(all)
  BY <1>2, LeftByPriority
<1>4. AllocateTokens(all, c) = At(all, left)
  BY <1>3, Zenon DEF AllocateTokens
<1>5. TokensOf(At(all, left)) = TokensAt(all, left) /\ Sized(At(all, left))
  BY <1>1, <1>3, TokensOfPart
<1>6. {all[i] : i \in left} = Fitting(all, kept, c)
  BY <1>2, Zenon DEF Fitting, FitPositions
<1>7. Values(At(all, left)) = {all[i] : i \in left}
  <2>1. left \subseteq 1..Len(all)
    BY <1>2, <1>3 DEF FitPositions
  <2> QED BY <1>1, <2>1, AtElements
<1>8. At(all, left) \in Seq(B)
  BY <1>1, AtIsSubsequence
<1> QED BY <1>2, <1>3, <1>4, <1>5, <1>6, <1>7, <1>8

\* The segments that are not handles.
WithoutHandles(things) == {seg \in things : seg.kind # "retrieval_handles"}

\* A prompt fits, and but for handles it shows what fits by priority.
LEMMA EvictsOnce ==
    ASSUME NEW s \in Snapshots, FiniteParts(s), NEW c, IsConfig(c),
           NEW all, all = CollectSegments(s, c), NEW kept, kept = WithinSections(all, c),
           NEW segments, segments = SelectedSegments(s, c)
    PROVE  /\ TokensOf(segments) <= c.max
           /\ WithoutHandles(Values(segments)) = Fitting(all, kept, c)
<1>1. AreSegments(all)
  BY CollectedSegments DEF IsConfig
<1>2. PICK shown : shown = AllocateTokens(all, c)
  OBVIOUS
<1>3. segments = IF NoRoom(s, shown, c) THEN shown ELSE shown \o Handle(s, shown)
  BY <1>2, SelectedIs
<1>4. PICK there : there = Fitting(all, kept, c)
  OBVIOUS
<1>5. /\ TokensOf(shown) <= c.max /\ (\E B : shown \in Seq(B)) /\ Sized(shown)
      /\ Values(shown) = there
  BY <1>1, <1>2, <1>4, KeptByPriority
<1>6. \A seg \in there : seg.kind # "retrieval_handles"
  <2>1. PICK B : all \in Seq(B) /\ \A x \in B : x.kind # "retrieval_handles"
    BY <1>1 DEF AreSegments, SegmentsOf
  <2>2. Len(all) \in Nat /\ \A i \in 1..Len(all) : all[i] \in B
    BY <2>1
  <2>3. kept \subseteq 1..Len(all)
    BY <2>2, WithinPositions
  <2> QED BY <1>4, <2>1, <2>2, <2>3 DEF Fitting, FitPositions
<1>7. CASE segments = shown
  <2>1. WithoutHandles(there) = there
    BY <1>6 DEF WithoutHandles
  <2> QED BY <1>4, <1>5, <1>7, <2>1
<1>8. CASE /\ ~ NoRoom(s, shown, c) /\ segments = shown \o Handle(s, shown)
           /\ Handle(s, shown) # <<>>
  <2>1. PICK x : /\ Handle(s, shown) = <<x>> /\ TokensOf(<<x>>) = x.tokens
                 /\ x.kind = "retrieval_handles" /\ x.tokens \in Nat
    BY <1>8, HandleIs
  <2>2. PICK B : shown \in Seq(B)
    BY <1>5
  <2>3. PICK C : C = B \cup {x}
    OBVIOUS
  <2>4. shown \in Seq(C) /\ x \in C
    BY <2>2, <2>3
  <2>5. segments = Append(shown, x)
    BY <1>8, <2>1, <2>4
  <2>6. TokensOf(segments) = TokensOf(shown) + x.tokens
    BY <1>5, <2>1, <2>4, <2>5, TokensAppend
  <2>7. ~ (TokensOf(shown) + x.tokens > c.max)
    BY <1>8, <2>1 DEF NoRoom
  <2>8. TokensOf(shown) \in Nat
    BY <1>5, TokensMonotone DEF TokensOf
  <2>9. PICK n \in Nat : n = Len(shown) /\ DOMAIN shown = 1..n
    BY <2>4
  <2>10. DOMAIN segments = 1..(n + 1) /\ segments[n + 1] = x
         /\ \A i \in 1..n : segments[i] = shown[i]
    BY <2>4, <2>5, <2>9
  <2>11. \A i : i \in 1..(n + 1) <=> i \in 1..n \/ i = n + 1
    BY <2>9
  <2>12. Values(segments) = Values(shown) \cup {x}
    BY <2>9, <2>10, <2>11 DEF Values
  <2>13. WithoutHandles(there \cup {x}) = there
    BY <1>6, <2>1 DEF WithoutHandles
  <2> QED BY <1>4, <1>5, <2>1, <2>6, <2>7, <2>8, <2>12, <2>13 DEF IsConfig
<1>9. CASE segments = shown \o Handle(s, shown) /\ Handle(s, shown) = <<>>
  <2>1. shown \o <<>> = shown
    BY <1>5
  <2> QED BY <1>7, <1>9, <2>1
<1> QED BY <1>3, <1>7, <1>8, <1>9

-----------------------------------------------------------------------------
(* What two prompts have in common.                                        *)

\* What the sections afford of the first segments depends on these alone.
LEMMA WithinLater ==
    ASSUME NEW s, NEW c, NEW kept, IsWithin(kept, s, c), Len(s) \in Nat, NEW m \in Nat, m <= Len(s)
    PROVE  \A i \in 1..m : i \in kept[Len(s)] <=> i \in kept[m]
<1> DEFINE Good == {n \in Nat : m <= n /\ n <= Len(s) =>
                                   \A i \in 1..m : i \in kept[n] <=> i \in kept[m]}
<1>1. 0 \in Good
  OBVIOUS
<1>2. ASSUME NEW n \in Good PROVE n + 1 \in Good
  <2>0. n \in Nat
    OBVIOUS
  <2> SUFFICES ASSUME m <= n + 1, n + 1 <= Len(s), NEW i \in 1..m
               PROVE  i \in kept[n + 1] <=> i \in kept[m]
    BY <2>0
  <2>1. CASE m = n + 1
    BY <2>1
  <2>2. CASE m # n + 1
    <3>1. /\ i \in kept[n] <=> i \in kept[m]
          /\ n + 1 \in 1..Len(s) /\ (n + 1) - 1 = n /\ i # n + 1
      BY <2>0, <2>2
    <3> HIDE DEF Good
    <3>2. kept[n + 1] = kept[n] \/ kept[n + 1] = kept[n] \cup {n + 1}
      <4>1. kept[n + 1] = IF OverSection(s, c, kept[(n + 1) - 1], n + 1) THEN kept[(n + 1) - 1]
                          ELSE kept[(n + 1) - 1] \cup {n + 1}
        BY <3>1, Zenon DEF IsWithin
      <4> QED BY <3>1, <4>1
    <3> QED BY <3>1, <3>2
  <2> QED BY <2>1, <2>2
<1>3. Good \subseteq Nat
  OBVIOUS
<1> HIDE DEF Good
<1>4. Len(s) \in Good
  BY <1>1, <1>2, <1>3, Induction
<1> QED BY <1>4 DEF Good

\* Two lists that begin alike: the sections afford the same of what they share.
LEMMA WithinAgree ==
    ASSUME NEW s, NEW t, Sized(s), Sized(t), NEW c, NEW m \in Nat, m <= Len(s), m <= Len(t),
           \A i \in 1..m : s[i] = t[i]
    PROVE  \A i \in 1..m : i \in WithinSections(s, c) <=> i \in WithinSections(t, c)
<1>1. Len(s) \in Nat /\ Len(t) \in Nat
  BY DEF Sized
<1>2. PICK a : IsWithin(a, s, c) /\ WithinSections(s, c) = a[Len(s)]
  BY <1>1, WithinEquation
<1>3. PICK b : IsWithin(b, t, c) /\ WithinSections(t, c) = b[Len(t)]
  BY <1>1, WithinEquation
<1> DEFINE Same == {n \in Nat : n <= m => a[n] = b[n] /\ a[n] \subseteq 1..n}
<1>4. 0 \in Same
  BY <1>2, <1>3 DEF IsWithin
<1>5. ASSUME NEW n \in Same PROVE n + 1 \in Same
  <2>0. n \in Nat
    OBVIOUS
  <2> SUFFICES ASSUME n + 1 <= m PROVE a[n + 1] = b[n + 1] /\ a[n + 1] \subseteq 1..(n + 1)
    BY <2>0
  <2>1. /\ n + 1 \in 1..m /\ n + 1 \in 1..Len(s) /\ n + 1 \in 1..Len(t) /\ (n + 1) - 1 = n
        /\ a[n] = b[n] /\ a[n] \subseteq 1..n
    BY <2>0, <1>1
  <2>2. PICK x : x = a[n] /\ x = b[n] /\ x \subseteq 1..n
    BY <2>1
  <2> HIDE DEF Same
  <2>3. s[n + 1] = t[n + 1] /\ \A i \in x : i \in 1..m /\ s[i] = t[i]
    BY <2>0, <2>1, <2>2
  <2>4. OverSection(s, c, x, n + 1) <=> OverSection(t, c, x, n + 1)
    <3> DEFINE P == {i \in x : s[i].kind = s[n + 1].kind}
               Q == {i \in x : t[i].kind = t[n + 1].kind}
    <3>1. \A i \in 1..m : (i \in P <=> i \in Q) /\ s[i].tokens = t[i].tokens
      BY <2>3
    <3>2. /\ \A i \in (m + 1)..Len(s) : i \notin P
          /\ \A i \in (m + 1)..Len(t) : i \notin Q
      BY <1>1, <2>3
    <3> HIDE DEF P, Q
    <3>3. TokensAt(s, P) = TokensAt(t, Q)
      BY <3>1, <3>2, TokensSame
    <3> QED BY <2>3, <3>3, Zenon DEF OverSection, P, Q
  <2>5. a[n + 1] = IF OverSection(s, c, x, n + 1) THEN x ELSE x \cup {n + 1}
    <3>1. a[n + 1] = IF OverSection(s, c, a[(n + 1) - 1], n + 1) THEN a[(n + 1) - 1]
                     ELSE a[(n + 1) - 1] \cup {n + 1}
      BY <1>2, <2>1, Zenon DEF IsWithin
    <3> QED BY <2>1, <2>2, <3>1
  <2>6. b[n + 1] = IF OverSection(t, c, x, n + 1) THEN x ELSE x \cup {n + 1}
    <3>1. b[n + 1] = IF OverSection(t, c, b[(n + 1) - 1], n + 1) THEN b[(n + 1) - 1]
                     ELSE b[(n + 1) - 1] \cup {n + 1}
      BY <1>3, <2>1, Zenon DEF IsWithin
    <3> QED BY <2>1, <2>2, <3>1
  <2>7. x \subseteq 1..(n + 1) /\ x \cup {n + 1} \subseteq 1..(n + 1)
    BY <2>0, <2>2
  <2> QED BY <2>4, <2>5, <2>6, <2>7
<1>6. Same \subseteq Nat
  OBVIOUS
<1> HIDE DEF Same
<1>7. a[m] = b[m]
  <2>1. m \in Same
    BY <1>4, <1>5, <1>6, Induction
  <2> QED BY <2>1 DEF Same
<1> QED BY <1>1, <1>2, <1>3, <1>7, WithinLater

\* The kinds _collect_segments puts first,
LeadingKinds == {"task_constraints", "plan", "verified_evidence"}

\* and the ones it puts behind them.
LaterKinds == {"contradiction_notes", "active_evidence", "tool_results", "candidate_previews"}

\* The first m segments are of the leading kinds, the others are of later ones.
Leads(s, m) ==
    /\ \E B : s \in Seq(B)
    /\ Sized(s) /\ m \in Nat /\ m <= Len(s)
    /\ \A i \in 1..m : s[i].kind \in LeadingKinds
    /\ \A i \in (m + 1)..Len(s) : s[i].kind \in LaterKinds

\* Which of the leading segments fit depends on these alone: the others come
\* after them by priority.
LEMMA FitAgree ==
    ASSUME NEW s, NEW t, NEW m, Leads(s, m), Leads(t, m), NEW c, \A i \in 1..m : s[i] = t[i],
           NEW kept, kept = WithinSections(s, c), NEW held, held = WithinSections(t, c)
    PROVE  \A i \in 1..m : i \in FitPositions(s, kept, c) <=> i \in FitPositions(t, held, c)
<1>1. /\ m \in Nat /\ Len(s) \in Nat /\ Len(t) \in Nat /\ m <= Len(s) /\ m <= Len(t)
      /\ Sized(s) /\ Sized(t)
  BY DEF Leads, Sized
<1>2. \A i \in 1..m : i \in kept <=> i \in held
  BY <1>1, WithinAgree
<1>3. \A k \in LeadingKinds, l \in LaterKinds : ~ (Priority(k) < Priority(l)) /\ Priority(k) # Priority(l)
  BY DEF LeadingKinds, LaterKinds, Priority
<1> TAKE i \in 1..m
<1>4. PICK P : P = Upto(s, kept, i)
  OBVIOUS
<1>5. PICK Q : Q = Upto(t, held, i)
  OBVIOUS
<1>6. s[i].kind \in LeadingKinds /\ t[i].kind \in LeadingKinds
  BY DEF Leads
<1>7. \A j \in (m + 1)..Len(s) : j \notin P
  <2> TAKE j \in (m + 1)..Len(s)
  <2>1. s[j].kind \in LaterKinds /\ j # i
    BY <1>1 DEF Leads
  <2>2. ~ GoesFirst(s, i, j)
    BY <1>3, <1>6, <2>1 DEF GoesFirst
  <2> QED BY <1>4, <2>1, <2>2 DEF Upto
<1>8. \A j \in (m + 1)..Len(t) : j \notin Q
  <2> TAKE j \in (m + 1)..Len(t)
  <2>1. t[j].kind \in LaterKinds /\ j # i
    BY <1>1 DEF Leads
  <2>2. ~ GoesFirst(t, i, j)
    BY <1>3, <1>6, <2>1 DEF GoesFirst
  <2> QED BY <1>5, <2>1, <2>2 DEF Upto
<1>9. \A j \in 1..m : (j \in P <=> j \in Q) /\ s[j].tokens = t[j].tokens
  <2> TAKE j \in 1..m
  <2>1. s[j] = t[j] /\ s[i] = t[i] /\ (j \in kept <=> j \in held)
    BY <1>2
  <2>2. GoesFirst(s, i, j) <=> GoesFirst(t, i, j)
    BY <2>1, Zenon DEF GoesFirst
  <2> QED BY <1>4, <1>5, <2>1, <2>2 DEF Upto
<1>10. TokensAt(s, P) = TokensAt(t, Q)
  BY <1>1, <1>7, <1>8, <1>9, TokensSame
<1> QED BY <1>2, <1>4, <1>5, <1>10 DEF FitPositions

\* Segments of later kinds may follow.
LEMMA LeadsJoin ==
    ASSUME NEW s, NEW m, Leads(s, m), NEW t, SegmentsOf(t, LaterKinds)
    PROVE  Leads(s \o t, m)
<1>1. PICK B : s \in Seq(B)
  BY DEF Leads
<1>2. PICK C : t \in Seq(C) /\ \A x \in C : x.tokens \in Nat /\ x.kind \in LaterKinds
  BY DEF SegmentsOf
<1>3. s \in Seq(B \cup C) /\ t \in Seq(B \cup C)
  BY <1>1, <1>2
<1>4. PICK j \in Seq(B \cup C) : j = s \o t
  <2>1. s \o t \in Seq(B \cup C)
    BY <1>3
  <2> QED
    BY <2>1
<1>5. /\ Len(j) = Len(s) + Len(t) /\ Len(s) \in Nat /\ Len(t) \in Nat
      /\ \A i \in 1..Len(s) : j[i] = s[i]
      /\ \A i \in (Len(s) + 1)..Len(j) : j[i] = t[i - Len(s)]
  BY <1>3, <1>4
<1>6. \A i \in (Len(s) + 1)..Len(j) : j[i].tokens \in Nat /\ j[i].kind \in LaterKinds
  <2> TAKE i \in (Len(s) + 1)..Len(j)
  <2>1. i - Len(s) \in 1..Len(t)
    BY <1>5
  <2>2. t[i - Len(s)] \in C
    BY <1>2, <2>1
  <2> QED BY <1>2, <1>5, <2>2
<1>7. m \in Nat /\ m <= Len(s) /\ \A i \in 1..Len(s) : s[i].tokens \in Nat
  BY DEF Leads, Sized
<1>8. \A i \in 1..Len(j) : i \in 1..Len(s) \/ i \in (Len(s) + 1)..Len(j)
  BY <1>5
<1>9. Sized(j)
  BY <1>5, <1>6, <1>7, <1>8 DEF Sized
<1>10. \A i \in 1..m : j[i].kind \in LeadingKinds
  BY <1>5, <1>7 DEF Leads
<1>11. \A i \in (m + 1)..Len(j) : j[i].kind \in LaterKinds
  <2> TAKE i \in (m + 1)..Len(j)
  <2>1. (i \in (m + 1)..Len(s) /\ i \in 1..Len(s)) \/ i \in (Len(s) + 1)..Len(j)
    BY <1>5, <1>7
  <2> QED BY <1>5, <1>6, <2>1 DEF Leads
<1> QED BY <1>4, <1>5, <1>7, <1>9, <1>10, <1>11 DEF Leads

\* _collect_segments puts the leading kinds first.
LEMMA CollectedLead ==
    ASSUME NEW s \in Snapshots, FiniteParts(s), NEW c, c.toolResults \in Nat
    PROVE  \E m : Leads(CollectSegments(s, c), m)
<1>1. /\ SegmentsOf(TaskConstraints(s), LeadingKinds) /\ SegmentsOf(PlanSegment(s), LeadingKinds)
      /\ SegmentsOf(VerifiedEvidence(s), LeadingKinds)
      /\ SegmentsOf(ActiveEvidence(s), LaterKinds)
      /\ SegmentsOf(ContradictionSegments(s), LaterKinds)
      /\ SegmentsOf(ToolResultsSegment(s, c), LaterKinds)
      /\ SegmentsOf(CandidatePreviews(s, c), LaterKinds)
  <2>1. /\ {"task_constraints"} \subseteq LeadingKinds /\ {"plan"} \subseteq LeadingKinds
        /\ {"verified_evidence"} \subseteq LeadingKinds
        /\ {"active_evidence"} \subseteq LaterKinds /\ {"contradiction_notes"} \subseteq LaterKinds
        /\ {"tool_results"} \subseteq LaterKinds /\ {"candidate_previews"} \subseteq LaterKinds
    BY DEF LeadingKinds, LaterKinds
  <2> QED BY <2>1, CollectedParts, SegmentsWeaken
<1>2. PICK first : first = TaskConstraints(s) \o PlanSegment(s) \o VerifiedEvidence(s)
  OBVIOUS
<1>3. SegmentsOf(first, LeadingKinds)
  BY <1>1, <1>2, SegmentsJoin
<1>4. Leads(first, Len(first))
  <2>1. PICK B : first \in Seq(B) /\ \A x \in B : x.tokens \in Nat /\ x.kind \in LeadingKinds
    BY <1>3 DEF SegmentsOf
  <2>2. Len(first) \in Nat /\ \A i \in 1..Len(first) : first[i] \in B
    BY <2>1
  <2>3. (Len(first) + 1)..Len(first) = {}
    BY <2>2
  <2> QED BY <2>1, <2>2, <2>3 DEF Leads, Sized
<1>5. CollectSegments(s, c) = first \o ActiveEvidence(s) \o ContradictionSegments(s)
                              \o ToolResultsSegment(s, c) \o CandidatePreviews(s, c)
  BY <1>2 DEF CollectSegments
<1>6. Leads(CollectSegments(s, c), Len(first))
  BY <1>1, <1>4, <1>5, LeadsJoin
<1> QED BY <1>6

\* Equal leading segments are the same ones at the same positions.
LEMMA LeadingAgree ==
    ASSUME NEW s, NEW t, NEW m, NEW n, Leads(s, m), Leads(t, n), Leading(s) = Leading(t)
    PROVE  m = n /\ \A i \in 1..m : s[i] = t[i]
<1>1. ASSUME NEW q, NEW k, Leads(q, k)
      PROVE  Len(Leading(q)) = k /\ \A i \in 1..k : Leading(q)[i] = q[i]
  <2>1. PICK B : q \in Seq(B)
    BY <1>1 DEF Leads
  <2>2. PICK P : P = {i \in DOMAIN q : q[i].kind \in {"task_constraints", "plan", "verified_evidence"}}
    OBVIOUS
  <2>3. DOMAIN q = 1..Len(q) /\ Len(q) \in Nat /\ k \in Nat /\ k <= Len(q)
    BY <1>1, <2>1 DEF Leads
  <2>4. \A i \in 1..Len(q) : i \in P <=> i <= k
    <3> TAKE i \in 1..Len(q)
    <3>1. i \in 1..k \/ i \in (k + 1)..Len(q)
      BY <2>3
    <3>2. CASE i \in 1..k
      BY <1>1, <2>2, <2>3, <3>2 DEF Leads, LeadingKinds
    <3>3. CASE i \in (k + 1)..Len(q)
      BY <1>1, <2>2, <2>3, <3>3 DEF Leads, LaterKinds
    <3> QED BY <3>1, <3>2, <3>3
  <2>5. Leading(q) = At(q, P)
    BY <2>2, Zenon DEF Leading
  <2> QED BY <2>1, <2>3, <2>4, <2>5, AtStart
<1>2. /\ Len(Leading(s)) = m /\ \A i \in 1..m : Leading(s)[i] = s[i]
      /\ Len(Leading(t)) = n /\ \A i \in 1..n : Leading(t)[i] = t[i]
  BY <1>1
<1> QED BY <1>2

\* A prompt that begins with some segments, and has no leading ones behind them.
Begins(segments, first) ==
    /\ Len(first) \in Nat /\ Len(first) <= Len(segments)
    /\ \A i \in 1..Len(first) : segments[i] = first[i]
    /\ \A i \in (Len(first) + 1)..Len(segments) : segments[i].kind \notin LeadingKinds
    /\ Sized(segments)

\* A prompt begins with what of the leading segments is allocated.
LEMMA PromptBegins ==
    ASSUME NEW s \in Snapshots, FiniteParts(s), NEW c, IsConfig(c),
           NEW all, all = CollectSegments(s, c), NEW m, Leads(all, m),
           NEW shown, shown = AllocateTokens(all, c), NEW A, NEW first \in Seq(A),
           Extends(first, shown, all, m, Len(all))
    PROVE  Begins(SelectedSegments(s, c), first)
<1>1. AreSegments(all)
  BY CollectedSegments DEF IsConfig
<1>2. (\E B : shown \in Seq(B)) /\ Sized(shown)
  BY <1>1, KeptByPriority
<1>3. LeadingKinds \cap LaterKinds = {} /\ "retrieval_handles" \notin LeadingKinds
  BY DEF LeadingKinds, LaterKinds
<1>4. Begins(shown, first)
  <2>1. \A j \in (m + 1)..Len(all) : all[j].kind \notin LeadingKinds
    BY <1>3 DEF Leads
  <2>2. Len(first) \in Nat
    OBVIOUS
  <2> QED BY <1>2, <2>1, <2>2 DEF Begins, Extends
<1>5. SelectedSegments(s, c) = IF NoRoom(s, shown, c) THEN shown ELSE shown \o Handle(s, shown)
  BY SelectedIs
<1>6. CASE SelectedSegments(s, c) = shown
  BY <1>4, <1>6
<1>7. CASE SelectedSegments(s, c) = shown \o Handle(s, shown) /\ Handle(s, shown) = <<>>
  <2>1. shown \o <<>> = shown
    BY <1>2
  <2> QED BY <1>6, <1>7, <2>1
<1>8. CASE SelectedSegments(s, c) = shown \o Handle(s, shown) /\ Handle(s, shown) # <<>>
  <2>1. PICK x : Handle(s, shown) = <<x>> /\ x.kind = "retrieval_handles" /\ x.tokens \in Nat
    BY <1>8, HandleIs
  <2>2. PICK B : shown \in Seq(B)
    BY <1>2
  <2>3. PICK C : C = B \cup {x}
    OBVIOUS
  <2>4. shown \in Seq(C) /\ x \in C
    BY <2>2, <2>3
  <2>5. PICK more : more = Append(shown, x)
    OBVIOUS
  <2>6. SelectedSegments(s, c) = more
    BY <1>8, <2>1, <2>4, <2>5
  <2>7. Sized(more)
    BY <1>2, <2>1, <2>4, <2>5, TokensAppend
  <2>8. /\ Len(shown) \in Nat /\ Len(more) = Len(shown) + 1 /\ more[Len(shown) + 1] = x
        /\ \A i \in 1..Len(shown) : more[i] = shown[i]
    BY <2>4, <2>5
  <2>9. /\ Len(first) \in Nat /\ Len(first) <= Len(shown)
        /\ \A i \in 1..Len(first) : shown[i] = first[i]
        /\ \A i \in (Len(first) + 1)..Len(shown) : shown[i].kind \notin LeadingKinds
    BY <1>4 DEF Begins
  <2>10. \A i \in (Len(first) + 1)..Len(more) : more[i].kind \notin LeadingKinds
    <3> TAKE i \in (Len(first) + 1)..Len(more)
    <3>1. i = Len(shown) + 1 \/ (i \in (Len(first) + 1)..Len(shown) /\ i \in 1..Len(shown))
      BY <2>8, <2>9
    <3> QED BY <1>3, <2>1, <2>8, <2>9, <3>1
  <2>11. Len(first) <= Len(more) /\ \A i \in 1..Len(first) : more[i] = first[i]
    BY <2>8, <2>9
  <2> QED BY <2>6, <2>7, <2>9, <2>10, <2>11 DEF Begins
<1> QED BY <1>5, <1>6, <1>7, <1>8

\* What two prompts begin with can be used again.
LEMMA CommonBeginning ==
    ASSUME NEW before, NEW after, NEW first,
           Begins(before.segments, first), Begins(after.segments, first)
    PROVE  CommonPrefixTokens(before, after) >= TokensOf(Leading(before.segments))
<1>1. PICK b : b = before.segments
  OBVIOUS
<1>2. PICK a : a = after.segments
  OBVIOUS
<1>3. PICK r \in Nat : r = Len(first)
  BY DEF Begins
<1>4. /\ r <= Len(b) /\ r <= Len(a) /\ Sized(a) /\ Sized(b)
      /\ \A i \in 1..r : b[i] = first[i] /\ a[i] = first[i]
      /\ \A i \in (r + 1)..Len(b) : b[i].kind \notin LeadingKinds
  BY <1>1, <1>2, <1>3 DEF Begins
<1>5. PICK B : b \in Seq(B)
  BY <1>4 DEF Sized
<1>6. PICK A : a \in Seq(A)
  BY <1>4 DEF Sized
<1>7. DOMAIN a = 1..Len(a) /\ DOMAIN b = 1..Len(b) /\ Len(a) \in Nat /\ Len(b) \in Nat
  BY <1>5, <1>6
<1>8. PICK P : P = {i \in DOMAIN b : b[i].kind \in {"task_constraints", "plan", "verified_evidence"}}
  OBVIOUS
<1>9. TokensOf(Leading(b)) = TokensAt(b, P)
  <2>1. Leading(b) = At(b, P)
    BY <1>8, Zenon DEF Leading
  <2> QED BY <1>4, <1>5, <2>1, TokensOfPart
<1>10. TokensAt(b, P) <= TokensAt(b, 1..r)
  <2>1. \A i \in 1..Len(b) : i \in P => i \in 1..r
    <3> TAKE i \in 1..Len(b)
    <3>1. i \in 1..r \/ i \in (r + 1)..Len(b)
      BY <1>7
    <3> QED BY <1>4, <1>8, <3>1 DEF LeadingKinds
  <2> QED BY <1>4, <2>1, TokensMonotone
<1>11. TokensAt(b, 1..r) = TokensAt(a, 1..r)
  <2>1. \A i \in 1..r : (i \in 1..r <=> i \in 1..r) /\ b[i].tokens = a[i].tokens
    BY <1>4
  <2>2. /\ \A i \in (r + 1)..Len(b) : i \notin 1..r
        /\ \A i \in (r + 1)..Len(a) : i \notin 1..r
    BY <1>7
  <2> QED BY <1>4, <2>1, <2>2, TokensSame
<1> DEFINE Same(i) == i \in DOMAIN b /\ b[i].content = a[i].content
           S == {n \in DOMAIN a : \A i \in 1..n : Same(i)}
<1>12. CommonPrefixTokens(before, after) = TokensAt(a, S)
  BY <1>1, <1>2, Zenon DEF CommonPrefixTokens
<1>13. \A n \in 1..r : n \in S
  BY <1>4, <1>7
<1> HIDE DEF S
<1>14. TokensAt(a, 1..r) <= TokensAt(a, S)
  BY <1>4, <1>13, TokensMonotone
<1>15. TokensAt(b, P) \in Nat /\ TokensAt(b, 1..r) \in Nat /\ TokensAt(a, S) \in Nat
  BY <1>4, TokensMonotone
<1> QED BY <1>1, <1>9, <1>10, <1>11, <1>12, <1>14, <1>15

\* Two snapshots with the same leading segments.
LEMMA PrefixStable ==
    ASSUME NEW s \in Snapshots, FiniteParts(s), NEW t \in Snapshots, FiniteParts(t),
           NEW c, IsConfig(c),
           Leading(CollectSegments(s, c)) = Leading(CollectSegments(t, c))
    PROVE  CommonPrefixTokens(CompileContext(s, c), CompileContext(t, c))
              >= TokensOf(Leading(CompileContext(s, c).segments))
<1>1. PICK all : all = CollectSegments(s, c)
  OBVIOUS
<1>2. PICK every : every = CollectSegments(t, c)
  OBVIOUS
<1>3. PICK m : Leads(all, m) /\ Leads(every, m) /\ \A i \in 1..m : all[i] = every[i]
  <2>1. PICK m : Leads(all, m)
    BY <1>1, CollectedLead DEF IsConfig
  <2>2. PICK n : Leads(every, n)
    BY <1>2, CollectedLead DEF IsConfig
  <2> QED BY <1>1, <1>2, <2>1, <2>2, LeadingAgree
<1>4. PICK kept : kept = WithinSections(all, c)
  OBVIOUS
<1>5. PICK held : held = WithinSections(every, c)
  OBVIOUS
<1>6. PICK P : P = FitPositions(all, kept, c)
  OBVIOUS
<1>7. PICK Q : Q = FitPositions(every, held, c)
  OBVIOUS
<1>8. AllocateTokens(all, c) = At(all, P) /\ AllocateTokens(every, c) = At(every, Q)
  <2>1. AreSegments(all) /\ AreSegments(every)
    BY <1>1, <1>2, CollectedSegments DEF IsConfig
  <2> QED BY <1>4, <1>5, <1>6, <1>7, <2>1, KeptByPriority
<1>9. \A i \in 1..m : (i \in P <=> i \in Q) /\ all[i] = every[i]
  BY <1>3, <1>4, <1>5, <1>6, <1>7, FitAgree
<1>10. PICK B : all \in Seq(B) /\ every \in Seq(B)
  <2>1. PICK A : all \in Seq(A)
    BY <1>3 DEF Leads
  <2>2. PICK C : every \in Seq(C)
    BY <1>3 DEF Leads
  <2>3. all \in Seq(A \cup C) /\ every \in Seq(A \cup C)
    BY <2>1, <2>2
  <2> QED BY <2>3
<1>11. m \in Nat /\ m <= Len(all) /\ m <= Len(every)
  BY <1>3 DEF Leads
<1>12. PICK first \in Seq(B) : /\ Extends(first, At(all, P), all, m, Len(all))
                             /\ Extends(first, At(every, Q), every, m, Len(every))
  BY <1>9, <1>10, <1>11, AtAgree
<1>13. Begins(SelectedSegments(s, c), first)
  BY <1>1, <1>3, <1>8, <1>12, PromptBegins
<1>14. Begins(SelectedSegments(t, c), first)
  BY <1>2, <1>3, <1>8, <1>12, PromptBegins
<1>15. /\ CompileContext(s, c).segments = SelectedSegments(s, c)
       /\ CompileContext(t, c).segments = SelectedSegments(t, c)
  BY DEF CompileContext
<1> QED BY <1>13, <1>14, <1>15, CommonBeginning

-----------------------------------------------------------------------------
(* The prompts of a trajectory.                                            *)

\* Whatever the compiler is given of a snapshot is typed and finite.
PromptInv == ReplayInv /\ FiniteParts(head)

\* An empty trajectory satisfies PromptInv.
LEMMA InitPromptInv == Init => PromptInv
<1> SUFFICES ASSUME Init PROVE PromptInv
  OBVIOUS
<1>1. PICK epoch \in Epochs : head = Genesis(epoch)
  BY DEF Init
<1> QED BY <1>1, GenesisFinite, InitReplayInv DEF PromptInv

\* Every step keeps PromptInv.
LEMMA NextPromptInv == PromptInv /\ [Next]_vars => PromptInv'
<1> SUFFICES ASSUME PromptInv, [Next]_vars PROVE PromptInv'
  OBVIOUS
<1>1. ReplayInv'
  BY NextReplayInv DEF PromptInv
<1>2. ASSUME Commit \/ Checkpoint PROVE FiniteParts(head)'
  <2>1. PICK e \in AnyEvent : CommitOf(e)
    BY <1>2, CommittedEvent DEF PromptInv, ReplayInv
  <2>2. head \in Snapshots /\ FiniteParts(head) /\ head' \in Reduce(head, e, clock)
    BY <2>1 DEF PromptInv, ReplayInv, TypeOK, CommitOf
  <2>3. FiniteParts(head')
    BY <2>2, ReduceFinite
  <2> QED BY <2>3 DEF FiniteParts
<1>3. ASSUME ReplayNext \/ Tick \/ UNCHANGED vars PROVE FiniteParts(head)'
  <2>1. head' = head
    BY <1>3 DEF ReplayNext, Tick, vars
  <2> QED BY <2>1 DEF PromptInv, FiniteParts
<1> QED BY <1>1, <1>2, <1>3 DEF Next, PromptInv

\* The configurations of a workload are ones of the compiler.
LEMMA WorkloadConfigs ==
    ASSUME TypeOK, NEW c \in workload.configs
    PROVE  IsConfig(c)
<1>1. /\ c \in [max : Nat, budget : [DOMAIN c.budget -> Nat], toolResults : Nat,
                previews : BOOLEAN, maxPreviews : Nat]
      /\ DOMAIN c.budget \subseteq SectionKinds
  BY PromptAssumption DEF TypeOK
<1>2. c.max \in Nat /\ c.toolResults \in Nat
  BY <1>1
<1>3. c.budget \in [DOMAIN c.budget -> Nat]
  <2>1. \A D : c \in [max : Nat, budget : D, toolResults : Nat, previews : BOOLEAN,
                   maxPreviews : Nat]
                => c.budget \in D
    OBVIOUS
  <2> QED BY <1>1, <2>1
<1> QED BY <1>2, <1>3 DEF IsConfig

\* For every workload and every configuration of the compiler, in every
\* reachable snapshot: no curated item and no tool result disappears from a
\* prompt without a handle to fetch it by, unless the handles do not fit
\* (_add_retrieval_handles).
THEOREM NothingLost == Spec => []NothingSilentlyLost
<1>1. PromptInv => NothingSilentlyLost
  <2> SUFFICES ASSUME PromptInv, NEW c \in workload.configs,
                      NEW missing, missing = Retrievable(head) \ SourcesOf(SelectedSegments(head, c)),
                      missing # {}
               PROVE  \/ TokensOf(SelectedSegments(head, c)) + (1 + Cardinality(missing)) > c.max
                      \/ /\ "retrieval_handles" \in DOMAIN c.budget
                         /\ 1 + Cardinality(missing) > c.budget["retrieval_handles"]
    BY DEF NothingSilentlyLost, CompileContext
  <2>1. head \in Snapshots /\ FiniteParts(head) /\ IsConfig(c)
    BY WorkloadConfigs DEF PromptInv, ReplayInv, TypeOK
  <2> QED BY <2>1, NothingLostOnce
<1> QED BY <1>1, InitPromptInv, NextPromptInv, PTL DEF Spec

\* For every workload and every configuration, in every reachable snapshot: a
\* prompt fits its budget, and a segment its section can afford is shown exactly
\* if it fits with all that comes before it by priority (_allocate_tokens).
THEOREM EvictionByPriority == Spec => []EvictsFromTheBottom
<1> DEFINE Before(all, kept, i) ==
             {j \in kept : \/ Priority(all[j].kind) > Priority(all[i].kind)
                           \/ Priority(all[j].kind) = Priority(all[i].kind) /\ j <= i}
           Cheap(all, kept, c) ==
             {all[i] : i \in {j \in kept : TokensAt(all, Before(all, kept, j)) <= c.max}}
           Right(segments, all, kept, c) ==
             /\ TokensOf(segments) <= c.max
             /\ WithoutHandles(Values(segments)) = Cheap(all, kept, c)
<1>1. EvictsFromTheBottom <=>
        \A c \in workload.configs :
           Right(SelectedSegments(head, c), CollectSegments(head, c),
                 WithinSections(CollectSegments(head, c), c), c)
  BY Zenon DEF EvictsFromTheBottom, CompileContext, Shown, WithoutHandles, Values
<1>2. ASSUME PromptInv, NEW c \in workload.configs,
             NEW segments, segments = SelectedSegments(head, c),
             NEW all, all = CollectSegments(head, c),
             NEW kept, kept = WithinSections(all, c)
      PROVE  Right(segments, all, kept, c)
  <2>1. head \in Snapshots /\ FiniteParts(head) /\ IsConfig(c)
    BY <1>2, WorkloadConfigs DEF PromptInv, ReplayInv, TypeOK
  <2>2. AreSegments(all)
    BY <1>2, <2>1, CollectedSegments DEF IsConfig
  <2>3. ASSUME NEW j \in kept PROVE Before(all, kept, j) = Upto(all, kept, j)
    <3>1. PICK B : all \in Seq(B) /\ \A x \in B : x.kind \in SectionKinds
      BY <2>2 DEF AreSegments, SegmentsOf
    <3>2. Len(all) \in Nat /\ \A i \in 1..Len(all) : all[i] \in B
      BY <3>1
    <3>3. kept \subseteq 1..Len(all)
      BY <1>2, <3>2, WithinPositions
    <3>4. \A k \in kept : k \in Nat /\ Priority(all[k].kind) \in Nat
      BY <3>1, <3>2, <3>3, PriorityIsNumber
    <3> QED BY <3>4 DEF Upto, GoesFirst
  <2>4. Cheap(all, kept, c) = Fitting(all, kept, c)
    <3> HIDE DEF Before
    <3> QED BY <2>3, Zenon DEF Fitting, FitPositions
  <2>5. /\ TokensOf(segments) <= c.max
        /\ WithoutHandles(Values(segments)) = Fitting(all, kept, c)
    BY <1>2, <2>1, EvictsOnce
  <2> QED BY <2>4, <2>5, Zenon
<1> HIDE DEF Right
<1>3. PromptInv => EvictsFromTheBottom
  BY <1>1, <1>2
<1> QED BY <1>3, InitPromptInv, NextPromptInv, PTL DEF Spec

\* For every workload and every configuration, in every step that leaves the
\* tasks, the tool-call counter and the verified evidence alone: all the leading
\* segments that were shown can be used again from the KV cache, whatever else
\* the event adds (_collect_segments, _allocate_tokens, compute_epoch).
THEOREM PrefixIsStable == Spec => StablePrefixKept
<1> DEFINE Stable(c) ==
             Leading(CollectSegments(head, c)) = Leading(CollectSegments(head', c))
             => CommonPrefixTokens(CompileContext(head, c), CompileContext(head', c))
                  >= TokensOf(Leading(CompileContext(head, c).segments))
           Prefix == \A c \in workload.configs : Stable(c)
<1>1. PromptInv /\ PromptInv' /\ [Next]_vars => [Prefix]_vars
  <2> SUFFICES ASSUME PromptInv, PromptInv', NEW c \in workload.configs PROVE Stable(c)
    OBVIOUS
  <2>1. head \in Snapshots /\ FiniteParts(head) /\ IsConfig(c)
    BY WorkloadConfigs DEF PromptInv, ReplayInv, TypeOK
  <2>2. head' \in Snapshots /\ FiniteParts(head')
    BY DEF PromptInv, ReplayInv, TypeOK, FiniteParts
  <2> QED BY <2>1, <2>2, PrefixStable
<1>2. [Prefix]_vars <=> [ \A c \in workload.configs :
           LET before == CompileContext(head, c)
               after == CompileContext(head', c)
           IN Leading(CollectSegments(head, c)) = Leading(CollectSegments(head', c))
              => CommonPrefixTokens(before, after) >= TokensOf(Leading(before.segments)) ]_vars
  BY Zenon
<1> HIDE DEF Prefix
<1> QED BY <1>1, <1>2, InitPromptInv, NextPromptInv, PTL DEF Spec, StablePrefixKept

=============================================================================
