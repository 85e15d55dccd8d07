--------------------------- MODULE ReducerProofs ----------------------------
(***************************************************************************)
(* For every snapshot and every event: what the reducer returns is a       *)
(* snapshot, one event longer, whose parts still fit together.             *)
(***************************************************************************)
EXTENDS Reducer, SequenceTheorems, TLAPS

AnyEvent == Events \cup CheckpointEvents

\* What the payload of each kind of event holds.
LEMMA EventFields ==
    ASSUME NEW e \in AnyEvent
    PROVE  /\ e.kind = "tool_invoked" => e.id \in InvocationIds
           /\ e.kind = "tool_result_received" =>
                 e.id \in InvocationIds /\ e.status \in ToolStatuses
           /\ e.kind = "candidate_added" => e.id \in CandidateIds
           /\ e.kind = "evidence_curated" => e.id \in ItemIds /\ e.candidates \subseteq CandidateIds
           /\ e.kind = "claim_created" => e.id \in ClaimIds /\ e.createdAt \in Times
           /\ e.kind = "claim_revised" =>
                 /\ e.id \in ClaimIds /\ e.text \in Texts \cup {NoId}
                 /\ e.status \in ClaimStatuses \cup {NoId}
           /\ e.kind = "evidence_linked" =>
                 /\ e.id \in LinkIds /\ e.claim \in ClaimIds /\ e.item \in ItemIds
                 /\ e.relationship \in Relationships
           /\ e.kind = "evidence_verified" =>
                 e.id \in RecordIds /\ e.link \in LinkIds /\ e.result \in VerificationResults
           /\ e.kind = "task_decomposed" =>
                 /\ e.id \in TaskIds /\ e.parent \in TaskIds \cup {NoId}
                 /\ e.dependencies \subseteq TaskIds
           /\ e.kind = "task_completed" => e.id \in TaskIds
           /\ e.kind = "context_pruned" => e.retained \subseteq ItemIds /\ e.epoch \in Epochs
           /\ e.kind = "submission_recorded" => e.id \in SubmissionIds
BY DEF AnyEvent, Events, CheckpointEvents

\* Which handler made what the reducer returns.
LEMMA ReduceCases ==
    ASSUME NEW e \in AnyEvent, NEW s, NEW now, NEW r \in Reduce(s, e, now)
    PROVE  \/ e.kind = "action_committed" /\ r \in HandleActionCommitted(s, e)
           \/ e.kind = "tool_invoked" /\ r \in HandleToolInvoked(s, e)
           \/ e.kind = "tool_result_received" /\ r \in HandleToolResultReceived(s, e)
           \/ e.kind = "candidate_added" /\ r \in HandleCandidateAdded(s, e)
           \/ e.kind = "evidence_curated" /\ r \in HandleEvidenceCurated(s, e)
           \/ e.kind = "claim_created" /\ r \in HandleClaimCreated(s, e)
           \/ e.kind = "claim_revised" /\ r \in HandleClaimRevised(s, e, now)
           \/ e.kind = "evidence_linked" /\ r \in HandleEvidenceLinked(s, e, now)
           \/ e.kind = "evidence_verified" /\ r \in HandleEvidenceVerified(s, e)
           \/ e.kind = "task_decomposed" /\ r \in HandleTaskDecomposed(s, e)
           \/ e.kind = "task_completed" /\ r \in HandleTaskCompleted(s, e)
           \/ e.kind = "context_pruned" /\ r \in HandleContextPruned(s, e)
           \/ e.kind = "submission_recorded" /\ r \in HandleSubmissionRecorded(s, e)
           \/ e.kind = "snapshot_checkpointed" /\ r \in HandleSnapshotCheckpointed(s, e)
BY DEF AnyEvent, Events, CheckpointEvents, Reduce

\* An id that is there picks something with that id.
LEMMA WithIdFinds ==
    ASSUME NEW things, NEW id \in Ids(things)
    PROVE  WithId(things, id) \in things /\ WithId(things, id).id = id
BY DEF WithId, Ids

-----------------------------------------------------------------------------
(* The fields of a snapshot.                                               *)

Fields == {"sequence", "epoch", "candidates", "curated", "claims", "links", "records", "tasks",
           "submissions", "invocations", "results", "toolCalls"}

IsRecord(s) == s = [f \in Fields |-> s[f]]

Results == [id : InvocationIds, status : ToolStatuses]

FieldTypes(s) ==
    /\ s.sequence \in Nat
    /\ s.epoch \in Epochs
    /\ s.candidates \subseteq CandidateIds
    /\ s.curated \subseteq CuratedItems
    /\ s.claims \subseteq Claims
    /\ s.links \subseteq Links
    /\ s.records \in Seq(Records)
    /\ s.tasks \subseteq Tasks
    /\ s.submissions \in Seq(SubmissionIds)
    /\ s.invocations \subseteq InvocationIds
    /\ s.results \in Seq(Results)
    /\ s.toolCalls \in Nat

\* A snapshot is a record with those fields of those types.
LEMMA SnapshotFields == ASSUME NEW s \in Snapshots PROVE IsRecord(s) /\ FieldTypes(s)
BY SMT DEF Snapshots, Fields, FieldTypes, IsRecord, Results

\* And such a record is a snapshot.
LEMMA SnapshotOfFields == ASSUME NEW s, IsRecord(s), FieldTypes(s) PROVE s \in Snapshots
<1> DEFINE A1 == SUBSET CandidateIds
           A2 == SUBSET CuratedItems
           A3 == SUBSET Claims
           A4 == SUBSET Links
           A5 == Seq(Records)
           A6 == SUBSET Tasks
           A7 == Seq(SubmissionIds)
           A8 == SUBSET InvocationIds
           A9 == Seq(Results)
           S == [sequence : Nat, epoch : Epochs, candidates : A1, curated : A2, claims : A3,
                 links : A4, records : A5, tasks : A6, submissions : A7, invocations : A8,
                 results : A9, toolCalls : Nat]
<1>1. Snapshots = S
  BY DEF Snapshots, Results
<1>2. /\ s.sequence \in Nat /\ s.epoch \in Epochs /\ s.candidates \in A1 /\ s.curated \in A2
      /\ s.claims \in A3 /\ s.links \in A4 /\ s.records \in A5 /\ s.tasks \in A6
      /\ s.submissions \in A7 /\ s.invocations \in A8 /\ s.results \in A9
      /\ s.toolCalls \in Nat
  BY DEF FieldTypes
<1> HIDE DEF A1, A2, A3, A4, A5, A6, A7, A8, A9
<1>3. s \in S
  BY <1>2 DEF Fields, IsRecord
<1> QED BY <1>1, <1>3

-----------------------------------------------------------------------------
(* What each handler changes.                                              *)

\* The next snapshot r after s, which differs in some of its fields at most.
Advances(r, s, changed) ==
    /\ IsRecord(r)
    /\ r.sequence = s.sequence + 1
    /\ \A f \in Fields \ (changed \cup {"sequence"}) : r[f] = s[f]

NewLink(e, now) ==
    [id |-> e.id, claim |-> e.claim, item |-> e.item, relationship |-> e.relationship,
     createdAt |-> now, status |-> "unverified", verification |-> NoId]

Verified(link, e) == [link EXCEPT !.status = StatusFromResult(e.result), !.verification = e.id]

ActionCommittedEffect(r, s, e) ==
    /\ Advances(r, s, {})

ToolInvokedEffect(r, s, e) ==
    /\ e.id \notin s.invocations
    /\ Advances(r, s, {"invocations", "toolCalls"})
    /\ r.invocations = s.invocations \cup {e.id}
    /\ r.toolCalls = s.toolCalls + 1

ToolResultReceivedEffect(r, s, e) ==
    /\ e.id \in s.invocations /\ e.id \notin Ids(ResultsOf(s))
    /\ Advances(r, s, {"results"})
    /\ r.results = Append(s.results, [id |-> e.id, status |-> e.status])

CandidateAddedEffect(r, s, e) ==
    /\ e.id \notin s.candidates
    /\ Advances(r, s, {"candidates"})
    /\ r.candidates = s.candidates \cup {e.id}

EvidenceCuratedEffect(r, s, e) ==
    /\ e.candidates \subseteq s.candidates /\ e.id \notin Ids(s.curated)
    /\ Advances(r, s, {"curated"})
    /\ r.curated = s.curated \cup {[id |-> e.id, candidates |-> e.candidates]}

ClaimCreatedEffect(r, s, e) ==
    /\ e.id \notin Ids(s.claims)
    /\ Advances(r, s, {"claims"})
    /\ r.claims = s.claims \cup {[id |-> e.id, text |-> "original", status |-> "stated",
                              links |-> {}, createdAt |-> e.createdAt]}

\* The claim a revision makes of an old one.
RevisedClaim(old, e, now) ==
    [old EXCEPT !.text = Revised(@, e.text), !.status = Revised(@, e.status), !.createdAt = now]

ClaimRevisedEffect(r, s, e, now) ==
    /\ e.id \in Ids(s.claims)
    /\ Advances(r, s, {"claims"})
    /\ r.claims = ReplaceById(s.claims, e.id,
                          RevisedClaim(WithId(s.claims, e.id), e, now))

EvidenceLinkedEffect(r, s, e, now) ==
    /\ e.id \notin Ids(s.links) /\ e.claim \in Ids(s.claims)
    /\ e.item \in Ids(s.curated)
    /\ Advances(r, s, {"links", "claims"})
    /\ r.links = s.links \cup {NewLink(e, now)}
    /\ r.claims = ReplaceById(s.claims, e.claim,
                          [WithId(s.claims, e.claim) EXCEPT !.links = @ \cup {e.id}])

EvidenceVerifiedEffect(r, s, e) ==
    /\ e.link \in Ids(s.links) /\ e.id \notin Ids(RecordsOf(s))
    /\ Advances(r, s, {"records", "links"})
    /\ r.records = Append(s.records, [id |-> e.id, link |-> e.link,
                                      claim |-> WithId(s.links, e.link).claim,
                                      result |-> e.result])
    /\ r.links = ReplaceById(s.links, e.link, Verified(WithId(s.links, e.link), e))

TaskDecomposedEffect(r, s, e) ==
    /\ e.id \notin Ids(s.tasks)
    /\ Advances(r, s, {"tasks"})
    /\ r.tasks = s.tasks \cup {[id |-> e.id, parent |-> e.parent, dependencies |-> e.dependencies,
                            status |-> "pending"]}

TaskCompletedEffect(r, s, e) ==
    /\ e.id \in Ids(s.tasks) /\ WithId(s.tasks, e.id).status # "completed"
    /\ Advances(r, s, {"tasks"})
    /\ r.tasks = ReplaceById(s.tasks, e.id,
                         [WithId(s.tasks, e.id) EXCEPT !.status = "completed"])

ContextPrunedEffect(r, s, e) ==
    /\ e.retained \subseteq Ids(s.curated)
    /\ Advances(r, s, {"epoch", "curated"})
    /\ r.epoch = e.epoch
    /\ r.curated = {c \in s.curated : c.id \in e.retained}

SubmissionRecordedEffect(r, s, e) ==
    /\ \A i \in DOMAIN s.submissions : s.submissions[i] # e.id
    /\ Advances(r, s, {"submissions"})
    /\ r.submissions = Append(s.submissions, e.id)

SnapshotCheckpointedEffect(r, s, e) ==
    /\ e.named = s
    /\ Advances(r, s, {})

\* What the reducer returns, by the kind of the event.
LEMMA ReduceEffects ==
    ASSUME NEW e \in AnyEvent, NEW s, IsRecord(s), NEW now, NEW r \in Reduce(s, e, now)
    PROVE  \/ e.kind = "action_committed" /\ ActionCommittedEffect(r, s, e)
           \/ e.kind = "tool_invoked" /\ ToolInvokedEffect(r, s, e)
           \/ e.kind = "tool_result_received" /\ ToolResultReceivedEffect(r, s, e)
           \/ e.kind = "candidate_added" /\ CandidateAddedEffect(r, s, e)
           \/ e.kind = "evidence_curated" /\ EvidenceCuratedEffect(r, s, e)
           \/ e.kind = "claim_created" /\ ClaimCreatedEffect(r, s, e)
           \/ e.kind = "claim_revised" /\ ClaimRevisedEffect(r, s, e, now)
           \/ e.kind = "evidence_linked" /\ EvidenceLinkedEffect(r, s, e, now)
           \/ e.kind = "evidence_verified" /\ EvidenceVerifiedEffect(r, s, e)
           \/ e.kind = "task_decomposed" /\ TaskDecomposedEffect(r, s, e)
           \/ e.kind = "task_completed" /\ TaskCompletedEffect(r, s, e)
           \/ e.kind = "context_pruned" /\ ContextPrunedEffect(r, s, e)
           \/ e.kind = "submission_recorded" /\ SubmissionRecordedEffect(r, s, e)
           \/ e.kind = "snapshot_checkpointed" /\ SnapshotCheckpointedEffect(r, s, e)
<1>1. ASSUME r \in HandleActionCommitted(s, e) PROVE ActionCommittedEffect(r, s, e)
  BY <1>1 DEF HandleActionCommitted, Accept, NextSnapshot, ActionCommittedEffect, Advances, Fields, IsRecord
<1>2. ASSUME r \in HandleToolInvoked(s, e) PROVE ToolInvokedEffect(r, s, e)
  <2> DEFINE C1 == s.invocations \cup {e.id}
             C2 == s.toolCalls + 1
  <2>1. r = NextSnapshot([s EXCEPT !.invocations = C1, !.toolCalls = C2])
    BY <1>2 DEF HandleToolInvoked, Accept, NewLink, Verified
  <2>2. e.id \notin s.invocations
    BY <1>2 DEF HandleToolInvoked, Accept
  <2> HIDE DEF C1, C2
  <2>3. /\ Advances(r, s, {"invocations", "toolCalls"})
        /\ r.invocations = C1
        /\ r.toolCalls = C2
    BY <2>1 DEF NextSnapshot, Advances, Fields, IsRecord
  <2> QED BY <2>2, <2>3 DEF ToolInvokedEffect, C1, C2
<1>3. ASSUME r \in HandleToolResultReceived(s, e) PROVE ToolResultReceivedEffect(r, s, e)
  <2> DEFINE C1 == Append(s.results, [id |-> e.id, status |-> e.status])
  <2>1. r = NextSnapshot([s EXCEPT !.results = C1])
    BY <1>3 DEF HandleToolResultReceived, Accept, NewLink, Verified
  <2>2. e.id \in s.invocations /\ e.id \notin Ids(ResultsOf(s))
    BY <1>3 DEF HandleToolResultReceived, Accept
  <2> HIDE DEF C1
  <2>3. /\ Advances(r, s, {"results"})
        /\ r.results = C1
    BY <2>1 DEF NextSnapshot, Advances, Fields, IsRecord
  <2> QED BY <2>2, <2>3 DEF ToolResultReceivedEffect, C1
<1>4. ASSUME r \in HandleCandidateAdded(s, e) PROVE CandidateAddedEffect(r, s, e)
  <2> DEFINE C1 == s.candidates \cup {e.id}
  <2>1. r = NextSnapshot([s EXCEPT !.candidates = C1])
    BY <1>4 DEF HandleCandidateAdded, Accept, NewLink, Verified
  <2>2. e.id \notin s.candidates
    BY <1>4 DEF HandleCandidateAdded, Accept
  <2> HIDE DEF C1
  <2>3. /\ Advances(r, s, {"candidates"})
        /\ r.candidates = C1
    BY <2>1 DEF NextSnapshot, Advances, Fields, IsRecord
  <2> QED BY <2>2, <2>3 DEF CandidateAddedEffect, C1
<1>5. ASSUME r \in HandleEvidenceCurated(s, e) PROVE EvidenceCuratedEffect(r, s, e)
  <2> DEFINE C1 == s.curated \cup {[id |-> e.id, candidates |-> e.candidates]}
  <2>1. r = NextSnapshot([s EXCEPT !.curated = C1])
    BY <1>5 DEF HandleEvidenceCurated, Accept, NewLink, Verified
  <2>2. e.candidates \subseteq s.candidates /\ e.id \notin Ids(s.curated)
    BY <1>5 DEF HandleEvidenceCurated, Accept
  <2> HIDE DEF C1
  <2>3. /\ Advances(r, s, {"curated"})
        /\ r.curated = C1
    BY <2>1 DEF NextSnapshot, Advances, Fields, IsRecord
  <2> QED BY <2>2, <2>3 DEF EvidenceCuratedEffect, C1
<1>6. ASSUME r \in HandleClaimCreated(s, e) PROVE ClaimCreatedEffect(r, s, e)
  <2> DEFINE C1 == s.claims \cup {[id |-> e.id, text |-> "original", status |-> "stated",
                              links |-> {}, createdAt |-> e.createdAt]}
  <2>1. r = NextSnapshot([s EXCEPT !.claims = C1])
    BY <1>6 DEF HandleClaimCreated, Accept, NewLink, Verified
  <2>2. e.id \notin Ids(s.claims)
    BY <1>6 DEF HandleClaimCreated, Accept
  <2> HIDE DEF C1
  <2>3. /\ Advances(r, s, {"claims"})
        /\ r.claims = C1
    BY <2>1 DEF NextSnapshot, Advances, Fields, IsRecord
  <2> QED BY <2>2, <2>3 DEF ClaimCreatedEffect, C1
<1>7. ASSUME r \in HandleClaimRevised(s, e, now) PROVE ClaimRevisedEffect(r, s, e, now)
  <2> DEFINE C1 == ReplaceById(s.claims, e.id,
                          RevisedClaim(WithId(s.claims, e.id), e, now))
  <2>1. r = NextSnapshot([s EXCEPT !.claims = C1])
    BY <1>7 DEF HandleClaimRevised, Accept, RevisedClaim
  <2>2. e.id \in Ids(s.claims)
    BY <1>7 DEF HandleClaimRevised, Accept
  <2> HIDE DEF C1
  <2>3. /\ Advances(r, s, {"claims"})
        /\ r.claims = C1
    BY <2>1 DEF NextSnapshot, Advances, Fields, IsRecord
  <2> QED BY <2>2, <2>3 DEF ClaimRevisedEffect, C1
<1>8. ASSUME r \in HandleEvidenceLinked(s, e, now) PROVE EvidenceLinkedEffect(r, s, e, now)
  <2> DEFINE C1 == s.links \cup {NewLink(e, now)}
             C2 == ReplaceById(s.claims, e.claim,
                          [WithId(s.claims, e.claim) EXCEPT !.links = @ \cup {e.id}])
  <2>1. r = NextSnapshot([s EXCEPT !.links = C1, !.claims = C2])
    BY <1>8 DEF HandleEvidenceLinked, Accept, NewLink, Verified
  <2>2. /\ e.id \notin Ids(s.links) /\ e.claim \in Ids(s.claims)
    /\ e.item \in Ids(s.curated)
    BY <1>8 DEF HandleEvidenceLinked, Accept
  <2> HIDE DEF C1, C2
  <2>3. /\ Advances(r, s, {"links", "claims"})
        /\ r.links = C1
        /\ r.claims = C2
    BY <2>1 DEF NextSnapshot, Advances, Fields, IsRecord
  <2> QED BY <2>2, <2>3 DEF EvidenceLinkedEffect, C1, C2
<1>9. ASSUME r \in HandleEvidenceVerified(s, e) PROVE EvidenceVerifiedEffect(r, s, e)
  <2> DEFINE C1 == Append(s.records, [id |-> e.id, link |-> e.link,
                                      claim |-> WithId(s.links, e.link).claim,
                                      result |-> e.result])
             C2 == ReplaceById(s.links, e.link, Verified(WithId(s.links, e.link), e))
  <2>1. r = NextSnapshot([s EXCEPT !.records = C1, !.links = C2])
    BY <1>9 DEF HandleEvidenceVerified, Accept, NewLink, Verified
  <2>2. e.link \in Ids(s.links) /\ e.id \notin Ids(RecordsOf(s))
    BY <1>9 DEF HandleEvidenceVerified, Accept
  <2> HIDE DEF C1, C2
  <2>3. /\ Advances(r, s, {"records", "links"})
        /\ r.records = C1
        /\ r.links = C2
    BY <2>1 DEF NextSnapshot, Advances, Fields, IsRecord
  <2> QED BY <2>2, <2>3 DEF EvidenceVerifiedEffect, C1, C2
<1>10. ASSUME r \in HandleTaskDecomposed(s, e) PROVE TaskDecomposedEffect(r, s, e)
  <2> DEFINE C1 == s.tasks \cup {[id |-> e.id, parent |-> e.parent, dependencies |-> e.dependencies,
                            status |-> "pending"]}
  <2>1. r = NextSnapshot([s EXCEPT !.tasks = C1])
    BY <1>10 DEF HandleTaskDecomposed, Accept, NewLink, Verified
  <2>2. e.id \notin Ids(s.tasks)
    BY <1>10 DEF HandleTaskDecomposed, Accept
  <2> HIDE DEF C1
  <2>3. /\ Advances(r, s, {"tasks"})
        /\ r.tasks = C1
    BY <2>1 DEF NextSnapshot, Advances, Fields, IsRecord
  <2> QED BY <2>2, <2>3 DEF TaskDecomposedEffect, C1
<1>11. ASSUME r \in HandleTaskCompleted(s, e) PROVE TaskCompletedEffect(r, s, e)
  <2> DEFINE C1 == ReplaceById(s.tasks, e.id,
                         [WithId(s.tasks, e.id) EXCEPT !.status = "completed"])
  <2>1. r = NextSnapshot([s EXCEPT !.tasks = C1])
    BY <1>11 DEF HandleTaskCompleted, Accept, NewLink, Verified
  <2>2. e.id \in Ids(s.tasks) /\ WithId(s.tasks, e.id).status # "completed"
    BY <1>11 DEF HandleTaskCompleted, Accept
  <2> HIDE DEF C1
  <2>3. /\ Advances(r, s, {"tasks"})
        /\ r.tasks = C1
    BY <2>1 DEF NextSnapshot, Advances, Fields, IsRecord
  <2> QED BY <2>2, <2>3 DEF TaskCompletedEffect, C1
<1>12. ASSUME r \in HandleContextPruned(s, e) PROVE ContextPrunedEffect(r, s, e)
  <2> DEFINE C1 == e.epoch
             C2 == {c \in s.curated : c.id \in e.retained}
  <2>1. r = NextSnapshot([s EXCEPT !.epoch = C1, !.curated = C2])
    BY <1>12 DEF HandleContextPruned, Accept, NewLink, Verified
  <2>2. e.retained \subseteq Ids(s.curated)
    BY <1>12 DEF HandleContextPruned, Accept
  <2> HIDE DEF C1, C2
  <2>3. /\ Advances(r, s, {"epoch", "curated"})
        /\ r.epoch = C1
        /\ r.curated = C2
    BY <2>1 DEF NextSnapshot, Advances, Fields, IsRecord
  <2> QED BY <2>2, <2>3 DEF ContextPrunedEffect, C1, C2
<1>13. ASSUME r \in HandleSubmissionRecorded(s, e) PROVE SubmissionRecordedEffect(r, s, e)
  <2> DEFINE C1 == Append(s.submissions, e.id)
  <2>1. r = NextSnapshot([s EXCEPT !.submissions = C1])
    BY <1>13 DEF HandleSubmissionRecorded, Accept, NewLink, Verified
  <2>2. \A i \in DOMAIN s.submissions : s.submissions[i] # e.id
    BY <1>13 DEF HandleSubmissionRecorded, Accept
  <2> HIDE DEF C1
  <2>3. /\ Advances(r, s, {"submissions"})
        /\ r.submissions = C1
    BY <2>1 DEF NextSnapshot, Advances, Fields, IsRecord
  <2> QED BY <2>2, <2>3 DEF SubmissionRecordedEffect, C1
<1>14. ASSUME r \in HandleSnapshotCheckpointed(s, e) PROVE SnapshotCheckpointedEffect(r, s, e)
  BY <1>14 DEF HandleSnapshotCheckpointed, Accept, NextSnapshot, SnapshotCheckpointedEffect, Advances, Fields, IsRecord
<1> QED BY <1>1, <1>2, <1>3, <1>4, <1>5, <1>6, <1>7, <1>8, <1>9, <1>10, <1>11, <1>12, <1>13, <1>14, ReduceCases

\* Which field of a snapshot changes by which event.
ByCause(r, s, e, now) ==
    /\ \/ r.epoch = s.epoch
       \/ e.kind = "context_pruned" /\ ContextPrunedEffect(r, s, e)
    /\ \/ r.candidates = s.candidates
       \/ e.kind = "candidate_added" /\ CandidateAddedEffect(r, s, e)
    /\ \/ r.curated = s.curated
       \/ e.kind = "evidence_curated" /\ EvidenceCuratedEffect(r, s, e)
       \/ e.kind = "context_pruned" /\ ContextPrunedEffect(r, s, e)
    /\ \/ r.claims = s.claims
       \/ e.kind = "claim_created" /\ ClaimCreatedEffect(r, s, e)
       \/ e.kind = "claim_revised" /\ ClaimRevisedEffect(r, s, e, now)
       \/ e.kind = "evidence_linked" /\ EvidenceLinkedEffect(r, s, e, now)
    /\ \/ r.links = s.links
       \/ e.kind = "evidence_linked" /\ EvidenceLinkedEffect(r, s, e, now)
       \/ e.kind = "evidence_verified" /\ EvidenceVerifiedEffect(r, s, e)
    /\ \/ r.records = s.records
       \/ e.kind = "evidence_verified" /\ EvidenceVerifiedEffect(r, s, e)
    /\ \/ r.tasks = s.tasks
       \/ e.kind = "task_decomposed" /\ TaskDecomposedEffect(r, s, e)
       \/ e.kind = "task_completed" /\ TaskCompletedEffect(r, s, e)
    /\ \/ r.submissions = s.submissions
       \/ e.kind = "submission_recorded" /\ SubmissionRecordedEffect(r, s, e)
    /\ \/ r.invocations = s.invocations
       \/ e.kind = "tool_invoked" /\ ToolInvokedEffect(r, s, e)
    /\ \/ r.results = s.results
       \/ e.kind = "tool_result_received" /\ ToolResultReceivedEffect(r, s, e)
    /\ \/ r.toolCalls = s.toolCalls
       \/ e.kind = "tool_invoked" /\ ToolInvokedEffect(r, s, e)

\* Every field that an event changes is changed by a handler's cause, and in no
\* other way.
LEMMA ReduceChanges ==
    ASSUME NEW e \in AnyEvent, NEW s, IsRecord(s), NEW now, NEW r \in Reduce(s, e, now)
    PROVE  ByCause(r, s, e, now)
<1>1. \A changed : Advances(r, s, changed) =>
         /\ r.epoch = s.epoch \/ "epoch" \in changed
         /\ r.candidates = s.candidates \/ "candidates" \in changed
         /\ r.curated = s.curated \/ "curated" \in changed
         /\ r.claims = s.claims \/ "claims" \in changed
         /\ r.links = s.links \/ "links" \in changed
         /\ r.records = s.records \/ "records" \in changed
         /\ r.tasks = s.tasks \/ "tasks" \in changed
         /\ r.submissions = s.submissions \/ "submissions" \in changed
         /\ r.invocations = s.invocations \/ "invocations" \in changed
         /\ r.results = s.results \/ "results" \in changed
         /\ r.toolCalls = s.toolCalls \/ "toolCalls" \in changed
  BY DEF Advances, Fields
<1>2. ASSUME e.kind = "action_committed", ActionCommittedEffect(r, s, e) PROVE ByCause(r, s, e, now)
  <2>1. Advances(r, s, {})
    BY <1>2 DEF ActionCommittedEffect
  <2>2. /\ r.epoch = s.epoch /\ r.candidates = s.candidates /\ r.curated = s.curated
        /\ r.claims = s.claims /\ r.links = s.links /\ r.records = s.records
        /\ r.tasks = s.tasks /\ r.submissions = s.submissions /\ r.invocations = s.invocations
        /\ r.results = s.results /\ r.toolCalls = s.toolCalls
    BY <1>1, <2>1
  <2> QED BY <1>2, <2>2 DEF ByCause
<1>3. ASSUME e.kind = "tool_invoked", ToolInvokedEffect(r, s, e) PROVE ByCause(r, s, e, now)
  <2>1. Advances(r, s, {"invocations", "toolCalls"})
    BY <1>3 DEF ToolInvokedEffect
  <2>2. /\ r.epoch = s.epoch /\ r.candidates = s.candidates /\ r.curated = s.curated
        /\ r.claims = s.claims /\ r.links = s.links /\ r.records = s.records
        /\ r.tasks = s.tasks /\ r.submissions = s.submissions /\ r.results = s.results
    BY <1>1, <2>1
  <2> QED BY <1>3, <2>2 DEF ByCause
<1>4. ASSUME e.kind = "tool_result_received", ToolResultReceivedEffect(r, s, e) PROVE ByCause(r, s, e, now)
  <2>1. Advances(r, s, {"results"})
    BY <1>4 DEF ToolResultReceivedEffect
  <2>2. /\ r.epoch = s.epoch /\ r.candidates = s.candidates /\ r.curated = s.curated
        /\ r.claims = s.claims /\ r.links = s.links /\ r.records = s.records
        /\ r.tasks = s.tasks /\ r.submissions = s.submissions /\ r.invocations = s.invocations
        /\ r.toolCalls = s.toolCalls
    BY <1>1, <2>1
  <2> QED BY <1>4, <2>2 DEF ByCause
<1>5. ASSUME e.kind = "candidate_added", CandidateAddedEffect(r, s, e) PROVE ByCause(r, s, e, now)
  <2>1. Advances(r, s, {"candidates"})
    BY <1>5 DEF CandidateAddedEffect
  <2>2. /\ r.epoch = s.epoch /\ r.curated = s.curated /\ r.claims = s.claims
        /\ r.links = s.links /\ r.records = s.records /\ r.tasks = s.tasks
        /\ r.submissions = s.submissions /\ r.invocations = s.invocations /\ r.results = s.results
        /\ r.toolCalls = s.toolCalls
    BY <1>1, <2>1
  <2> QED BY <1>5, <2>2 DEF ByCause
<1>6. ASSUME e.kind = "evidence_curated", EvidenceCuratedEffect(r, s, e) PROVE ByCause(r, s, e, now)
  <2>1. Advances(r, s, {"curated"})
    BY <1>6 DEF EvidenceCuratedEffect
  <2>2. /\ r.epoch = s.epoch /\ r.candidates = s.candidates /\ r.claims = s.claims
        /\ r.links = s.links /\ r.records = s.records /\ r.tasks = s.tasks
        /\ r.submissions = s.submissions /\ r.invocations = s.invocations /\ r.results = s.results
        /\ r.toolCalls = s.toolCalls
    BY <1>1, <2>1
  <2> QED BY <1>6, <2>2 DEF ByCause
<1>7. ASSUME e.kind = "claim_created", ClaimCreatedEffect(r, s, e) PROVE ByCause(r, s, e, now)
  <2>1. Advances(r, s, {"claims"})
    BY <1>7 DEF ClaimCreatedEffect
  <2>2. /\ r.epoch = s.epoch /\ r.candidates = s.candidates /\ r.curated = s.curated
        /\ r.links = s.links /\ r.records = s.records /\ r.tasks = s.tasks
        /\ r.submissions = s.submissions /\ r.invocations = s.invocations /\ r.results = s.results
        /\ r.toolCalls = s.toolCalls
    BY <1>1, <2>1
  <2> QED BY <1>7, <2>2 DEF ByCause
<1>8. ASSUME e.kind = "claim_revised", ClaimRevisedEffect(r, s, e, now) PROVE ByCause(r, s, e, now)
  <2>1. Advances(r, s, {"claims"})
    BY <1>8 DEF ClaimRevisedEffect
  <2>2. /\ r.epoch = s.epoch /\ r.candidates = s.candidates /\ r.curated = s.curated
        /\ r.links = s.links /\ r.records = s.records /\ r.tasks = s.tasks
        /\ r.submissions = s.submissions /\ r.invocations = s.invocations /\ r.results = s.results
        /\ r.toolCalls = s.toolCalls
    BY <1>1, <2>1
  <2> QED BY <1>8, <2>2 DEF ByCause
<1>9. ASSUME e.kind = "evidence_linked", EvidenceLinkedEffect(r, s, e, now) PROVE ByCause(r, s, e, now)
  <2>1. Advances(r, s, {"links", "claims"})
    BY <1>9 DEF EvidenceLinkedEffect
  <2>2. /\ r.epoch = s.epoch /\ r.candidates = s.candidates /\ r.curated = s.curated
        /\ r.records = s.records /\ r.tasks = s.tasks /\ r.submissions = s.submissions
        /\ r.invocations = s.invocations /\ r.results = s.results /\ r.toolCalls = s.toolCalls
    BY <1>1, <2>1
  <2> QED BY <1>9, <2>2 DEF ByCause
<1>10. ASSUME e.kind = "evidence_verified", EvidenceVerifiedEffect(r, s, e) PROVE ByCause(r, s, e, now)
  <2>1. Advances(r, s, {"records", "links"})
    BY <1>10 DEF EvidenceVerifiedEffect
  <2>2. /\ r.epoch = s.epoch /\ r.candidates = s.candidates /\ r.curated = s.curated
        /\ r.claims = s.claims /\ r.tasks = s.tasks /\ r.submissions = s.submissions
        /\ r.invocations = s.invocations /\ r.results = s.results /\ r.toolCalls = s.toolCalls
    BY <1>1, <2>1
  <2> QED BY <1>10, <2>2 DEF ByCause
<1>11. ASSUME e.kind = "task_decomposed", TaskDecomposedEffect(r, s, e) PROVE ByCause(r, s, e, now)
  <2>1. Advances(r, s, {"tasks"})
    BY <1>11 DEF TaskDecomposedEffect
  <2>2. /\ r.epoch = s.epoch /\ r.candidates = s.candidates /\ r.curated = s.curated
        /\ r.claims = s.claims /\ r.links = s.links /\ r.records = s.records
        /\ r.submissions = s.submissions /\ r.invocations = s.invocations /\ r.results = s.results
        /\ r.toolCalls = s.toolCalls
    BY <1>1, <2>1
  <2> QED BY <1>11, <2>2 DEF ByCause
<1>12. ASSUME e.kind = "task_completed", TaskCompletedEffect(r, s, e) PROVE ByCause(r, s, e, now)
  <2>1. Advances(r, s, {"tasks"})
    BY <1>12 DEF TaskCompletedEffect
  <2>2. /\ r.epoch = s.epoch /\ r.candidates = s.candidates /\ r.curated = s.curated
        /\ r.claims = s.claims /\ r.links = s.links /\ r.records = s.records
        /\ r.submissions = s.submissions /\ r.invocations = s.invocations /\ r.results = s.results
        /\ r.toolCalls = s.toolCalls
    BY <1>1, <2>1
  <2> QED BY <1>12, <2>2 DEF ByCause
<1>13. ASSUME e.kind = "context_pruned", ContextPrunedEffect(r, s, e) PROVE ByCause(r, s, e, now)
  <2>1. Advances(r, s, {"epoch", "curated"})
    BY <1>13 DEF ContextPrunedEffect
  <2>2. /\ r.candidates = s.candidates /\ r.claims = s.claims /\ r.links = s.links
        /\ r.records = s.records /\ r.tasks = s.tasks /\ r.submissions = s.submissions
        /\ r.invocations = s.invocations /\ r.results = s.results /\ r.toolCalls = s.toolCalls
    BY <1>1, <2>1
  <2> QED BY <1>13, <2>2 DEF ByCause
<1>14. ASSUME e.kind = "submission_recorded", SubmissionRecordedEffect(r, s, e) PROVE ByCause(r, s, e, now)
  <2>1. Advances(r, s, {"submissions"})
    BY <1>14 DEF SubmissionRecordedEffect
  <2>2. /\ r.epoch = s.epoch /\ r.candidates = s.candidates /\ r.curated = s.curated
        /\ r.claims = s.claims /\ r.links = s.links /\ r.records = s.records
        /\ r.tasks = s.tasks /\ r.invocations = s.invocations /\ r.results = s.results
        /\ r.toolCalls = s.toolCalls
    BY <1>1, <2>1
  <2> QED BY <1>14, <2>2 DEF ByCause
<1>15. ASSUME e.kind = "snapshot_checkpointed", SnapshotCheckpointedEffect(r, s, e) PROVE ByCause(r, s, e, now)
  <2>1. Advances(r, s, {})
    BY <1>15 DEF SnapshotCheckpointedEffect
  <2>2. /\ r.epoch = s.epoch /\ r.candidates = s.candidates /\ r.curated = s.curated
        /\ r.claims = s.claims /\ r.links = s.links /\ r.records = s.records
        /\ r.tasks = s.tasks /\ r.submissions = s.submissions /\ r.invocations = s.invocations
        /\ r.results = s.results /\ r.toolCalls = s.toolCalls
    BY <1>1, <2>1
  <2> QED BY <1>15, <2>2 DEF ByCause
<1> QED BY <1>2, <1>3, <1>4, <1>5, <1>6, <1>7, <1>8, <1>9, <1>10, <1>11, <1>12, <1>13, <1>14, <1>15, ReduceEffects

-----------------------------------------------------------------------------
(* Types, and how the parts of a snapshot fit together.                    *)

\* The fields that a step changes have their types again, the others still.
LEMMA AdvanceTypes ==
    ASSUME NEW s, NEW r, NEW changed, FieldTypes(s), Advances(r, s, changed),
           "epoch" \in changed => r.epoch \in Epochs,
           "candidates" \in changed => r.candidates \subseteq CandidateIds,
           "curated" \in changed => r.curated \subseteq CuratedItems,
           "claims" \in changed => r.claims \subseteq Claims,
           "links" \in changed => r.links \subseteq Links,
           "records" \in changed => r.records \in Seq(Records),
           "tasks" \in changed => r.tasks \subseteq Tasks,
           "submissions" \in changed => r.submissions \in Seq(SubmissionIds),
           "invocations" \in changed => r.invocations \subseteq InvocationIds,
           "results" \in changed => r.results \in Seq(Results),
           "toolCalls" \in changed => r.toolCalls \in Nat
    PROVE  FieldTypes(r)
<1>1. /\ r.epoch = s.epoch \/ "epoch" \in changed
      /\ r.candidates = s.candidates \/ "candidates" \in changed
      /\ r.curated = s.curated \/ "curated" \in changed
      /\ r.claims = s.claims \/ "claims" \in changed
      /\ r.links = s.links \/ "links" \in changed
      /\ r.records = s.records \/ "records" \in changed
      /\ r.tasks = s.tasks \/ "tasks" \in changed
      /\ r.submissions = s.submissions \/ "submissions" \in changed
      /\ r.invocations = s.invocations \/ "invocations" \in changed
      /\ r.results = s.results \/ "results" \in changed
      /\ r.toolCalls = s.toolCalls \/ "toolCalls" \in changed
  BY DEF Advances, Fields
<1>2. r.sequence \in Nat
  BY DEF Advances, FieldTypes
<1>3. /\ r.epoch \in Epochs /\ r.candidates \subseteq CandidateIds
      /\ r.curated \subseteq CuratedItems /\ r.claims \subseteq Claims
  BY <1>1, Zenon DEF FieldTypes
<1>4. /\ r.links \subseteq Links /\ r.records \in Seq(Records) /\ r.tasks \subseteq Tasks
      /\ r.submissions \in Seq(SubmissionIds)
  BY <1>1, Zenon DEF FieldTypes
<1>5. /\ r.invocations \subseteq InvocationIds /\ r.results \in Seq(Results)
      /\ r.toolCalls \in Nat
  BY <1>1, Zenon DEF FieldTypes
<1> QED BY <1>2, <1>3, <1>4, <1>5 DEF FieldTypes

\* The reducer returns snapshots, numbered one by one.
LEMMA ReduceTypes ==
    ASSUME NEW s \in Snapshots, NEW e \in AnyEvent, NEW now \in Times,
           NEW r \in Reduce(s, e, now)
    PROVE  r \in Snapshots /\ r.sequence = s.sequence + 1
<1>1. IsRecord(s) /\ FieldTypes(s)
  BY SnapshotFields
<1>2. ASSUME e.kind = "action_committed" /\ ActionCommittedEffect(r, s, e)
      PROVE  FieldTypes(r)
  BY <1>1, <1>2, AdvanceTypes DEF ActionCommittedEffect
<1>3. ASSUME e.kind = "tool_invoked" /\ ToolInvokedEffect(r, s, e)
      PROVE  FieldTypes(r)
  <2>1. r.invocations \subseteq InvocationIds /\ r.toolCalls \in Nat
    BY <1>1, <1>3, EventFields DEF ToolInvokedEffect, FieldTypes
  <2> QED BY <1>1, <1>3, <2>1, AdvanceTypes DEF ToolInvokedEffect
<1>4. ASSUME e.kind = "tool_result_received" /\ ToolResultReceivedEffect(r, s, e)
      PROVE  FieldTypes(r)
  <2>1. [id |-> e.id, status |-> e.status] \in Results
    BY <1>4, EventFields DEF Results
  <2>2. r.results \in Seq(Results)
    BY <1>1, <1>4, <2>1 DEF ToolResultReceivedEffect, FieldTypes
  <2> QED BY <1>1, <1>4, <2>2, AdvanceTypes DEF ToolResultReceivedEffect
<1>5. ASSUME e.kind = "candidate_added" /\ CandidateAddedEffect(r, s, e)
      PROVE  FieldTypes(r)
  <2>1. r.candidates \subseteq CandidateIds
    BY <1>1, <1>5, EventFields DEF CandidateAddedEffect, FieldTypes
  <2> QED BY <1>1, <1>5, <2>1, AdvanceTypes DEF CandidateAddedEffect
<1>6. ASSUME e.kind = "evidence_curated" /\ EvidenceCuratedEffect(r, s, e)
      PROVE  FieldTypes(r)
  <2>1. r.curated \subseteq CuratedItems
    BY <1>1, <1>6, EventFields DEF EvidenceCuratedEffect, FieldTypes, CuratedItems
  <2> QED BY <1>1, <1>6, <2>1, AdvanceTypes DEF EvidenceCuratedEffect
<1>7. ASSUME e.kind = "claim_created" /\ ClaimCreatedEffect(r, s, e)
      PROVE  FieldTypes(r)
  <2>1. r.claims \subseteq Claims
    BY <1>1, <1>7, EventFields DEF ClaimCreatedEffect, FieldTypes, Claims, ClaimStatuses, Texts
  <2> QED BY <1>1, <1>7, <2>1, AdvanceTypes DEF ClaimCreatedEffect
<1>8. ASSUME e.kind = "claim_revised" /\ ClaimRevisedEffect(r, s, e, now)
      PROVE  FieldTypes(r)
  <2>1. WithId(s.claims, e.id) \in Claims
    BY <1>1, <1>8, WithIdFinds DEF ClaimRevisedEffect, FieldTypes
  <2>2. RevisedClaim(WithId(s.claims, e.id), e, now) \in Claims
    BY <1>8, <2>1, EventFields DEF Claims, RevisedClaim, Revised
  <2> DEFINE new == RevisedClaim(WithId(s.claims, e.id), e, now)
  <2> HIDE DEF new
  <2>3. r.claims \subseteq Claims
    BY <1>1, <1>8, <2>2 DEF ClaimRevisedEffect, FieldTypes, ReplaceById, new
  <2> QED BY <1>1, <1>8, <2>3, AdvanceTypes DEF ClaimRevisedEffect
<1>9. ASSUME e.kind = "evidence_linked" /\ EvidenceLinkedEffect(r, s, e, now)
      PROVE  FieldTypes(r)
  <2>1. WithId(s.claims, e.claim) \in Claims
    BY <1>1, <1>9, WithIdFinds DEF EvidenceLinkedEffect, FieldTypes
  <2>2. [WithId(s.claims, e.claim) EXCEPT !.links = @ \cup {e.id}] \in Claims
    BY <1>9, <2>1, EventFields DEF Claims
  <2>3. NewLink(e, now) \in Links
    BY <1>9, EventFields DEF NewLink, Links
  <2>4. r.claims \subseteq Claims
    BY <1>1, <1>9, <2>2 DEF EvidenceLinkedEffect, FieldTypes, ReplaceById
  <2>5. r.links \subseteq Links
    BY <1>1, <1>9, <2>3 DEF EvidenceLinkedEffect, FieldTypes
  <2> QED BY <1>1, <1>9, <2>4, <2>5, AdvanceTypes DEF EvidenceLinkedEffect
<1>10. ASSUME e.kind = "evidence_verified" /\ EvidenceVerifiedEffect(r, s, e)
      PROVE  FieldTypes(r)
  <2> DEFINE old == WithId(s.links, e.link)
             record == [id |-> e.id, link |-> e.link, claim |-> old.claim, result |-> e.result]
  <2>1. old \in Links
    BY <1>1, <1>10, WithIdFinds DEF EvidenceVerifiedEffect, FieldTypes
  <2>2. Verified(old, e) \in Links
    BY <1>10, <2>1, EventFields DEF Verified, Links, StatusFromResult
  <2>3. record \in Records
    BY <1>10, <2>1, EventFields DEF Links, Records
  <2>4. r.links \subseteq Links
    BY <1>1, <1>10, <2>2 DEF EvidenceVerifiedEffect, FieldTypes, ReplaceById
  <2>5. s.records \in Seq(Records) /\ r.records = Append(s.records, record)
    BY <1>1, <1>10 DEF EvidenceVerifiedEffect, FieldTypes
  <2> HIDE DEF record
  <2>6. r.records \in Seq(Records)
    BY <2>3, <2>5
  <2> QED BY <1>1, <1>10, <2>4, <2>6, AdvanceTypes DEF EvidenceVerifiedEffect
<1>11. ASSUME e.kind = "task_decomposed" /\ TaskDecomposedEffect(r, s, e)
      PROVE  FieldTypes(r)
  <2>1. r.tasks \subseteq Tasks
    BY <1>1, <1>11, EventFields DEF TaskDecomposedEffect, FieldTypes, Tasks
  <2> QED BY <1>1, <1>11, <2>1, AdvanceTypes DEF TaskDecomposedEffect
<1>12. ASSUME e.kind = "task_completed" /\ TaskCompletedEffect(r, s, e)
      PROVE  FieldTypes(r)
  <2>1. WithId(s.tasks, e.id) \in Tasks
    BY <1>1, <1>12, WithIdFinds DEF TaskCompletedEffect, FieldTypes
  <2>2. [WithId(s.tasks, e.id) EXCEPT !.status = "completed"] \in Tasks
    BY <2>1 DEF Tasks
  <2>3. r.tasks \subseteq Tasks
    BY <1>1, <1>12, <2>2 DEF TaskCompletedEffect, FieldTypes, ReplaceById
  <2> QED BY <1>1, <1>12, <2>3, AdvanceTypes DEF TaskCompletedEffect
<1>13. ASSUME e.kind = "context_pruned" /\ ContextPrunedEffect(r, s, e)
      PROVE  FieldTypes(r)
  <2>1. r.epoch \in Epochs /\ r.curated \subseteq CuratedItems
    BY <1>1, <1>13, EventFields DEF ContextPrunedEffect, FieldTypes
  <2> QED BY <1>1, <1>13, <2>1, AdvanceTypes DEF ContextPrunedEffect
<1>14. ASSUME e.kind = "submission_recorded" /\ SubmissionRecordedEffect(r, s, e)
      PROVE  FieldTypes(r)
  <2>1. r.submissions \in Seq(SubmissionIds)
    BY <1>1, <1>14, EventFields DEF SubmissionRecordedEffect, FieldTypes
  <2> QED BY <1>1, <1>14, <2>1, AdvanceTypes DEF SubmissionRecordedEffect
<1>15. ASSUME e.kind = "snapshot_checkpointed" /\ SnapshotCheckpointedEffect(r, s, e)
      PROVE  FieldTypes(r)
  BY <1>1, <1>15, AdvanceTypes DEF SnapshotCheckpointedEffect
<1>16. FieldTypes(r)
  BY <1>1, <1>2, <1>3, <1>4, <1>5, <1>6, <1>7, <1>8, <1>9, <1>10, <1>11, <1>12, <1>13,
     <1>14, <1>15, ReduceEffects
<1>17. IsRecord(r) /\ r.sequence = s.sequence + 1
  BY <1>1, ReduceEffects, Zenon
     DEF Advances, ActionCommittedEffect, ToolInvokedEffect, ToolResultReceivedEffect,
         CandidateAddedEffect, EvidenceCuratedEffect, ClaimCreatedEffect, ClaimRevisedEffect,
         EvidenceLinkedEffect, EvidenceVerifiedEffect, TaskDecomposedEffect,
         TaskCompletedEffect, ContextPrunedEffect, SubmissionRecordedEffect,
         SnapshotCheckpointedEffect
<1> QED BY <1>16, <1>17, SnapshotOfFields

-----------------------------------------------------------------------------
(* How the parts of a snapshot fit together.                               *)

UniqueIds(things) == \A x, y \in things : x.id = y.id => x = y

\* A record is of a link that is still there.
RecordsHaveLinks(s) == \A i \in DOMAIN s.records : s.records[i].link \in Ids(s.links)

Fits(s) ==
    /\ UniqueIds(s.tasks)
    /\ UniqueIds(s.links)
    /\ RecordsHaveLinks(s)
    /\ ClaimsListTheirLinks(s)
    /\ LinksShowLastVerdict(s)

\* Replacing by id keeps the ids, and things with one id each.
LEMMA ReplaceKeepsIds ==
    ASSUME NEW things, NEW id \in Ids(things), NEW new, new.id = id
    PROVE  /\ Ids(ReplaceById(things, id, new)) = Ids(things)
           /\ UniqueIds(things) => UniqueIds(ReplaceById(things, id, new))
           /\ new \in ReplaceById(things, id, new)
           /\ \A x \in ReplaceById(things, id, new) : x = new \/ (x \in things /\ x.id # id)
           /\ \A x \in things : x.id # id => x \in ReplaceById(things, id, new)
<1>1. \A x \in ReplaceById(things, id, new) : x = new \/ (x \in things /\ x.id # id)
  BY DEF ReplaceById
<1>2. new \in ReplaceById(things, id, new)
  BY DEF ReplaceById, Ids
<1>3. \A x \in things : x.id # id => x \in ReplaceById(things, id, new)
  BY DEF ReplaceById
<1>4. Ids(ReplaceById(things, id, new)) = Ids(things)
  BY <1>1, <1>2, <1>3 DEF Ids
<1>5. UniqueIds(things) => UniqueIds(ReplaceById(things, id, new))
  BY <1>1 DEF UniqueIds
<1> QED BY <1>1, <1>2, <1>3, <1>4, <1>5

\* The claims part: links is what a claim and a new version of it list.
LEMMA ClaimEvents ==
    ASSUME NEW s, ClaimsListTheirLinks(s), NEW r, NEW e, NEW now, s.claims \subseteq Claims,
           \/ ClaimCreatedEffect(r, s, e)
           \/ ClaimRevisedEffect(r, s, e, now)
    PROVE  ClaimsListTheirLinks(r)
<1>1. r.links = s.links
  BY DEF ClaimCreatedEffect, ClaimRevisedEffect, Advances, Fields
<1>2. ASSUME ClaimCreatedEffect(r, s, e) PROVE ClaimsListTheirLinks(r)
  <2>1. \A l \in s.links : l.claim # e.id
    BY <1>2 DEF ClaimCreatedEffect, ClaimsListTheirLinks
  <2> DEFINE new == [id |-> e.id, text |-> "original", status |-> "stated", links |-> {},
                 createdAt |-> e.createdAt]
  <2>2. r.claims = s.claims \cup {new} /\ new.id = e.id /\ new.links = {}
    BY <1>2 DEF ClaimCreatedEffect
  <2> HIDE DEF new
  <2>3. {l.id : l \in {k \in s.links : k.claim = e.id}} = {}
    BY <2>1
  <2>4. Ids(s.claims) \subseteq Ids(r.claims)
    BY <2>2 DEF Ids
  <2>5. \A c \in r.claims : c.links = {l.id : l \in {k \in s.links : k.claim = c.id}}
    BY <2>2, <2>3 DEF ClaimsListTheirLinks
  <2> QED BY <1>1, <2>4, <2>5 DEF ClaimsListTheirLinks
<1>3. ASSUME ClaimRevisedEffect(r, s, e, now) PROVE ClaimsListTheirLinks(r)
  <2> DEFINE old == WithId(s.claims, e.id)
             new == RevisedClaim(old, e, now)
  <2>1. old \in s.claims /\ old.id = e.id /\ old \in Claims
    BY <1>3, WithIdFinds DEF ClaimRevisedEffect
  <2>2. new.id = e.id /\ new.links = old.links
    BY <2>1 DEF Claims, RevisedClaim
  <2>3. r.claims = ReplaceById(s.claims, e.id, new) /\ e.id \in Ids(s.claims)
    BY <1>3 DEF ClaimRevisedEffect
  <2> HIDE DEF old, new
  <2>4. Ids(r.claims) = Ids(s.claims) /\ \A c \in r.claims : c = new \/ c \in s.claims
    BY <2>2, <2>3, ReplaceKeepsIds
  <2>5. \A c \in r.claims : c.links = {l.id : l \in {k \in s.links : k.claim = c.id}}
    BY <2>1, <2>2, <2>4 DEF ClaimsListTheirLinks
  <2> QED BY <1>1, <2>4, <2>5 DEF ClaimsListTheirLinks
<1> QED BY <1>2, <1>3

\* A link is listed by its claim from the start.
LEMMA LinkEvents ==
    ASSUME NEW s, ClaimsListTheirLinks(s), NEW r, NEW e, NEW now, s.claims \subseteq Claims,
           EvidenceLinkedEffect(r, s, e, now)
    PROVE  ClaimsListTheirLinks(r)
<1> DEFINE old == WithId(s.claims, e.claim)
           new == [old EXCEPT !.links = @ \cup {e.id}]
           link == NewLink(e, now)
<1>1. old \in s.claims /\ old.id = e.claim /\ old \in Claims
  BY WithIdFinds DEF EvidenceLinkedEffect
<1>2. new.id = e.claim /\ new.links = old.links \cup {e.id}
  BY <1>1 DEF Claims
<1>3. /\ r.claims = ReplaceById(s.claims, e.claim, new) /\ e.claim \in Ids(s.claims)
      /\ r.links = s.links \cup {link}
      /\ link.id = e.id /\ link.claim = e.claim
  BY DEF EvidenceLinkedEffect, NewLink
<1> HIDE DEF old, new, link
<1>4. /\ Ids(r.claims) = Ids(s.claims)
      /\ \A c \in r.claims : c = new \/ (c \in s.claims /\ c.id # e.claim)
  BY <1>2, <1>3, ReplaceKeepsIds
<1>5. {l.id : l \in {k \in r.links : k.claim = e.claim}}
         = {l.id : l \in {k \in s.links : k.claim = e.claim}} \cup {e.id}
  BY <1>3
<1>6. \A c : c # e.claim => {l.id : l \in {k \in r.links : k.claim = c}}
                               = {l.id : l \in {k \in s.links : k.claim = c}}
  BY <1>3
<1>7. ASSUME NEW c \in r.claims
      PROVE  c.links = {l.id : l \in {k \in r.links : k.claim = c.id}}
  <2>1. CASE c = new
    BY <1>1, <1>2, <1>5, <2>1 DEF ClaimsListTheirLinks
  <2>2. CASE c \in s.claims /\ c.id # e.claim
    BY <1>6, <2>2 DEF ClaimsListTheirLinks
  <2> QED BY <1>4, <2>1, <2>2
<1>8. \A l \in r.links : l.claim \in Ids(r.claims)
  BY <1>3, <1>4 DEF ClaimsListTheirLinks
<1> QED BY <1>7, <1>8 DEF ClaimsListTheirLinks

\* A verdict changes neither the id nor the claim of a link.
LEMMA VerdictKeepsIndex ==
    ASSUME NEW s, ClaimsListTheirLinks(s), UniqueIds(s.links), NEW r, NEW e,
           s.links \subseteq Links, EvidenceVerifiedEffect(r, s, e)
    PROVE  ClaimsListTheirLinks(r)
<1> DEFINE old == WithId(s.links, e.link)
           new == Verified(old, e)
<1>1. old \in s.links /\ old.id = e.link /\ old \in Links
  BY WithIdFinds DEF EvidenceVerifiedEffect
<1>2. new.id = e.link /\ new.claim = old.claim
  BY <1>1 DEF Links, Verified
<1>3. /\ r.links = ReplaceById(s.links, e.link, new) /\ e.link \in Ids(s.links)
      /\ r.claims = s.claims
  BY DEF EvidenceVerifiedEffect, Advances, Fields
<1> HIDE DEF old, new
<1>4. /\ new \in r.links
      /\ \A l \in r.links : l = new \/ (l \in s.links /\ l.id # e.link)
      /\ \A l \in s.links : l.id # e.link => l \in r.links
  BY <1>2, <1>3, ReplaceKeepsIds
<1>5. \A l \in s.links : l.id = e.link => l = old
  BY <1>1 DEF UniqueIds
<1>6. \A c : {l.id : l \in {k \in r.links : k.claim = c}}
                = {l.id : l \in {k \in s.links : k.claim = c}}
  BY <1>1, <1>2, <1>4, <1>5
<1>7. \A l \in r.links : l.claim \in Ids(r.claims)
  BY <1>1, <1>2, <1>3, <1>4 DEF ClaimsListTheirLinks
<1> QED BY <1>3, <1>6, <1>7 DEF ClaimsListTheirLinks

\* The records of a link, by position.
RecordsOfLink(s, id) == {i \in DOMAIN s.records : s.records[i].link = id}

\* The last of them, if there is one, is what the link shows.
ShowsLast(s, l) ==
    IF RecordsOfLink(s, l.id) = {}
    THEN l.status = "unverified" /\ l.verification = NoId
    ELSE \E i \in RecordsOfLink(s, l.id) :
            /\ \A j \in RecordsOfLink(s, l.id) : j <= i
            /\ l.verification = s.records[i].id
            /\ l.status = StatusFromResult(s.records[i].result)
            /\ l.claim = s.records[i].claim

\* The invariant, link by link.
LEMMA ShowsLastIs == \A s : LinksShowLastVerdict(s) <=> \A l \in s.links : ShowsLast(s, l)
BY DEF LinksShowLastVerdict, ShowsLast, RecordsOfLink

\* A new link has no record, and other links keep theirs.
LEMMA LinkedShowsNothing ==
    ASSUME NEW s, LinksShowLastVerdict(s), RecordsHaveLinks(s), NEW r, NEW e, NEW now,
           EvidenceLinkedEffect(r, s, e, now)
    PROVE  LinksShowLastVerdict(r) /\ RecordsHaveLinks(r)
<1> DEFINE link == NewLink(e, now)
<1>1. /\ r.links = s.links \cup {link} /\ r.records = s.records
      /\ link.id = e.id /\ link.status = "unverified" /\ link.verification = NoId
  <2>1. link.id = e.id /\ link.status = "unverified" /\ link.verification = NoId
    BY DEF NewLink
  <2> QED BY <2>1 DEF EvidenceLinkedEffect, Advances, Fields
<1>2. e.id \notin Ids(s.links)
  BY DEF EvidenceLinkedEffect
<1> HIDE DEF link
<1>3. RecordsHaveLinks(r)
  BY <1>1 DEF RecordsHaveLinks, Ids
<1>4. \A id : RecordsOfLink(r, id) = RecordsOfLink(s, id)
  BY <1>1 DEF RecordsOfLink
<1>5. RecordsOfLink(r, e.id) = {}
  BY <1>2, <1>4 DEF RecordsOfLink, RecordsHaveLinks
<1>6. ShowsLast(r, link)
  BY <1>1, <1>5 DEF ShowsLast
<1>7. ASSUME NEW l \in s.links PROVE ShowsLast(r, l)
  <2>1. ShowsLast(s, l)
    BY ShowsLastIs
  <2> QED BY <1>1, <1>4, <2>1 DEF ShowsLast
<1> QED BY <1>1, <1>3, <1>6, <1>7, ShowsLastIs

\* A verified link shows its new record, which is the last.
LEMMA VerifiedShowsLast ==
    ASSUME NEW s, LinksShowLastVerdict(s), RecordsHaveLinks(s), NEW r, NEW e,
           s.links \subseteq Links, s.records \in Seq(Records),
           e.id \in RecordIds, e.link \in LinkIds, e.result \in VerificationResults,
           EvidenceVerifiedEffect(r, s, e)
    PROVE  LinksShowLastVerdict(r) /\ RecordsHaveLinks(r)
<1> DEFINE old == WithId(s.links, e.link)
           new == Verified(old, e)
           record == [id |-> e.id, link |-> e.link, claim |-> old.claim, result |-> e.result]
           n == Len(s.records)
<1>1. old \in s.links /\ old.id = e.link /\ old \in Links
  BY WithIdFinds DEF EvidenceVerifiedEffect
<1>2. /\ new.id = e.link /\ new.claim = old.claim /\ new.verification = e.id
      /\ new.status = StatusFromResult(e.result)
  BY <1>1 DEF Links, Verified
<1>3. /\ r.links = ReplaceById(s.links, e.link, new) /\ e.link \in Ids(s.links)
      /\ r.records = Append(s.records, record)
  BY DEF EvidenceVerifiedEffect
<1>4. /\ record.id = e.id /\ record.link = e.link /\ record.claim = old.claim
      /\ record.result = e.result /\ record \in Records
  BY <1>1 DEF Records, Links
<1> HIDE DEF old, new, record
<1>5. /\ n \in Nat /\ DOMAIN s.records = 1..n /\ DOMAIN r.records = 1..(n + 1)
      /\ r.records[n + 1] = record /\ \A i \in 1..n : r.records[i] = s.records[i]
  <2>1. n \in Nat /\ DOMAIN s.records = 1..n
    BY LenProperties
  <2> HIDE DEF n
  <2>2. \A q \in Seq(Records) : \A x \in Records :
           /\ DOMAIN Append(q, x) = 1..(Len(q) + 1) /\ Append(q, x)[Len(q) + 1] = x
           /\ \A i \in 1..Len(q) : Append(q, x)[i] = q[i]
    OBVIOUS
  <2> QED BY <1>3, <1>4, <2>1, <2>2 DEF n
<1> HIDE DEF n
<1>6. /\ Ids(r.links) = Ids(s.links) /\ new \in r.links
      /\ \A l \in r.links : l = new \/ (l \in s.links /\ l.id # e.link)
  BY <1>2, <1>3, ReplaceKeepsIds
<1>7. RecordsHaveLinks(r)
  <2>1. ASSUME NEW i \in 1..(n + 1) PROVE r.records[i].link \in Ids(r.links)
    <3>1. CASE i = n + 1
      BY <1>3, <1>4, <1>5, <1>6, <3>1
    <3>2. CASE i # n + 1
      <4>1. i \in 1..n
        BY <1>5, <3>2
      <4> QED BY <1>5, <1>6, <4>1 DEF RecordsHaveLinks
    <3> QED BY <3>1, <3>2
  <2> QED BY <1>5, <2>1 DEF RecordsHaveLinks
<1>8. ShowsLast(r, new)
  <2>1. n + 1 \in RecordsOfLink(r, e.link) /\ \A j \in RecordsOfLink(r, e.link) : j <= n + 1
    BY <1>4, <1>5 DEF RecordsOfLink
  <2> QED BY <1>2, <1>4, <1>5, <2>1 DEF ShowsLast
<1>9. \A id : id # e.link => RecordsOfLink(r, id) = RecordsOfLink(s, id)
  <2>1. ASSUME NEW id, id # e.link, NEW i \in 1..(n + 1), r.records[i].link = id
        PROVE  i \in 1..n /\ s.records[i].link = id
    BY <1>4, <1>5, <2>1
  <2>2. ASSUME NEW id, NEW i \in 1..n, s.records[i].link = id
        PROVE  i \in 1..(n + 1) /\ r.records[i].link = id
    BY <1>5, <2>2
  <2> QED BY <1>5, <2>1, <2>2 DEF RecordsOfLink
<1>10. ASSUME NEW l \in s.links, l.id # e.link PROVE ShowsLast(r, l)
  <2>1. ShowsLast(s, l)
    BY ShowsLastIs
  <2>2. \A i \in RecordsOfLink(s, l.id) : r.records[i] = s.records[i]
    BY <1>5 DEF RecordsOfLink
  <2> QED BY <1>9, <1>10, <2>1, <2>2 DEF ShowsLast
<1> QED BY <1>6, <1>7, <1>8, <1>10, ShowsLastIs

\* Whatever the event, the parts of what the reducer returns fit together if
\* those of the snapshot it was given did.
THEOREM ReduceFits ==
    ASSUME NEW s \in Snapshots, Fits(s), NEW e \in AnyEvent, NEW now \in Times,
           NEW r \in Reduce(s, e, now)
    PROVE  Fits(r)
<1>1. IsRecord(s) /\ FieldTypes(s)
  BY SnapshotFields
<1>2. ASSUME r.links = s.links, r.records = s.records
      PROVE  UniqueIds(r.links) /\ RecordsHaveLinks(r) /\ LinksShowLastVerdict(r)
  BY <1>2 DEF Fits, RecordsHaveLinks, LinksShowLastVerdict
<1>3. ASSUME r.claims = s.claims, r.links = s.links PROVE ClaimsListTheirLinks(r)
  BY <1>3 DEF Fits, ClaimsListTheirLinks
<1>4. ASSUME \/ ActionCommittedEffect(r, s, e) \/ ToolInvokedEffect(r, s, e)
             \/ ToolResultReceivedEffect(r, s, e) \/ CandidateAddedEffect(r, s, e)
             \/ EvidenceCuratedEffect(r, s, e) \/ ContextPrunedEffect(r, s, e)
             \/ SubmissionRecordedEffect(r, s, e) \/ SnapshotCheckpointedEffect(r, s, e)
      PROVE  Fits(r)
  <2>1. r.tasks = s.tasks /\ r.links = s.links /\ r.records = s.records /\ r.claims = s.claims
    BY <1>4
       DEF ActionCommittedEffect, ToolInvokedEffect, ToolResultReceivedEffect,
           CandidateAddedEffect, EvidenceCuratedEffect, ContextPrunedEffect,
           SubmissionRecordedEffect, SnapshotCheckpointedEffect, Advances, Fields
  <2> QED BY <1>2, <1>3, <2>1 DEF Fits
<1>5. ASSUME ClaimCreatedEffect(r, s, e) \/ ClaimRevisedEffect(r, s, e, now) PROVE Fits(r)
  <2>1. r.tasks = s.tasks /\ r.links = s.links /\ r.records = s.records
    BY <1>5 DEF ClaimCreatedEffect, ClaimRevisedEffect, Advances, Fields
  <2>2. ClaimsListTheirLinks(r)
    BY <1>1, <1>5, ClaimEvents DEF Fits, FieldTypes
  <2> QED BY <1>2, <2>1, <2>2 DEF Fits
<1>6. ASSUME EvidenceLinkedEffect(r, s, e, now) PROVE Fits(r)
  <2>1. /\ r.tasks = s.tasks /\ r.links = s.links \cup {NewLink(e, now)}
        /\ NewLink(e, now).id = e.id /\ e.id \notin Ids(s.links)
    BY <1>6 DEF EvidenceLinkedEffect, Advances, Fields, NewLink
  <2>2. UniqueIds(r.links)
    BY <2>1 DEF Fits, UniqueIds, Ids
  <2>3. ClaimsListTheirLinks(r) /\ LinksShowLastVerdict(r) /\ RecordsHaveLinks(r)
    BY <1>1, <1>6, LinkEvents, LinkedShowsNothing DEF Fits, FieldTypes
  <2> QED BY <2>1, <2>2, <2>3 DEF Fits
<1>7. ASSUME e.kind = "evidence_verified", EvidenceVerifiedEffect(r, s, e) PROVE Fits(r)
  <2>1. r.tasks = s.tasks
    BY <1>7 DEF EvidenceVerifiedEffect, Advances, Fields
  <2>2. UniqueIds(r.links)
    <3>1. WithId(s.links, e.link) \in Links /\ WithId(s.links, e.link).id = e.link
      BY <1>1, <1>7, WithIdFinds DEF EvidenceVerifiedEffect, FieldTypes
    <3>2. Verified(WithId(s.links, e.link), e).id = e.link
      BY <3>1 DEF Verified, Links
    <3>3. /\ r.links = ReplaceById(s.links, e.link, Verified(WithId(s.links, e.link), e))
          /\ e.link \in Ids(s.links) /\ UniqueIds(s.links)
      BY <1>7 DEF EvidenceVerifiedEffect, Fits
    <3> QED BY <3>2, <3>3, ReplaceKeepsIds
  <2>3. ClaimsListTheirLinks(r)
    BY <1>1, <1>7, VerdictKeepsIndex DEF Fits, FieldTypes
  <2>4. LinksShowLastVerdict(r) /\ RecordsHaveLinks(r)
    BY <1>1, <1>7, VerifiedShowsLast, EventFields DEF Fits, FieldTypes
  <2> QED BY <2>1, <2>2, <2>3, <2>4 DEF Fits
<1>8. ASSUME TaskDecomposedEffect(r, s, e) \/ TaskCompletedEffect(r, s, e) PROVE Fits(r)
  <2>1. r.links = s.links /\ r.records = s.records /\ r.claims = s.claims
    BY <1>8 DEF TaskDecomposedEffect, TaskCompletedEffect, Advances, Fields
  <2>2. ASSUME TaskDecomposedEffect(r, s, e) PROVE UniqueIds(r.tasks)
    BY <2>2 DEF TaskDecomposedEffect, Fits, UniqueIds, Ids
  <2>3. ASSUME TaskCompletedEffect(r, s, e) PROVE UniqueIds(r.tasks)
    <3>1. WithId(s.tasks, e.id) \in Tasks /\ WithId(s.tasks, e.id).id = e.id
      BY <1>1, <2>3, WithIdFinds DEF TaskCompletedEffect, FieldTypes
    <3> DEFINE new == [WithId(s.tasks, e.id) EXCEPT !.status = "completed"]
    <3>2. new.id = e.id
      BY <3>1 DEF Tasks
    <3>3. /\ r.tasks = ReplaceById(s.tasks, e.id, new)
          /\ e.id \in Ids(s.tasks) /\ UniqueIds(s.tasks)
      BY <2>3 DEF TaskCompletedEffect, Fits
    <3> HIDE DEF new
    <3> QED BY <3>2, <3>3, ReplaceKeepsIds
  <2> QED BY <1>2, <1>3, <1>8, <2>1, <2>2, <2>3 DEF Fits
<1> QED BY <1>1, <1>4, <1>5, <1>6, <1>7, <1>8, ReduceEffects

\* The snapshot a trajectory begins with.
LEMMA GenesisFits ==
    ASSUME NEW epoch \in Epochs
    PROVE  Genesis(epoch) \in Snapshots /\ Fits(Genesis(epoch)) /\ Genesis(epoch).sequence = 0
<1> DEFINE s == Genesis(epoch)
<1>1. /\ s.sequence = 0 /\ s.epoch = epoch /\ s.candidates = {} /\ s.curated = {}
      /\ s.claims = {} /\ s.links = {} /\ s.records = <<>> /\ s.tasks = {}
      /\ s.submissions = <<>> /\ s.invocations = {} /\ s.results = <<>> /\ s.toolCalls = 0
  BY DEF Genesis
<1>2. IsRecord(s)
  BY DEF Genesis, IsRecord, Fields
<1> HIDE DEF s
<1>3. FieldTypes(s)
  <2>1. <<>> \in Seq(Records) /\ <<>> \in Seq(SubmissionIds) /\ <<>> \in Seq(Results)
    BY EmptySeq
  <2> QED BY <1>1, <2>1 DEF FieldTypes
<1>4. Fits(s)
  BY <1>1 DEF Fits, UniqueIds, RecordsHaveLinks, ClaimsListTheirLinks, LinksShowLastVerdict
<1> QED BY <1>1, <1>2, <1>3, <1>4, SnapshotOfFields DEF s

-----------------------------------------------------------------------------
(* What the reducer keeps.                                                 *)

\* A list and a list with one more element both have it as a prefix.
LEMMA PrefixKept ==
    ASSUME NEW S, NEW q \in Seq(S), NEW p, p = q \/ \E x \in S : p = Append(q, x)
    PROVE  IsPrefixOf(q, p)
<1>1. Len(q) \in Nat /\ \A i \in 1..Len(q) : q[i] \in S
  BY LenProperties, ElementOfSeq
<1>2. SubSeq(q, 1, Len(q)) = q
  OBVIOUS
<1>3. ASSUME NEW x \in S PROVE SubSeq(Append(q, x), 1, Len(q)) = q
  OBVIOUS
<1> QED BY <1>2, <1>3 DEF IsPrefixOf

\* The tasks of s are all in r, and completed ones still are.
TasksKept(s, r) ==
    \A t \in s.tasks : \E u \in r.tasks :
        /\ u.id = t.id /\ u.parent = t.parent /\ u.dependencies = t.dependencies
        /\ t.status = "completed" => u.status = "completed"

\* What the reducer returns still holds what the snapshot held, and only a
\* prune removes curated items: those it does not retain.
LEMMA ReduceKeeps ==
    ASSUME NEW s \in Snapshots, Fits(s), NEW e \in AnyEvent, NEW now \in Times,
           NEW r \in Reduce(s, e, now)
    PROVE  /\ s.candidates \subseteq r.candidates
           /\ Ids(s.claims) \subseteq Ids(r.claims)
           /\ Ids(s.links) \subseteq Ids(r.links)
           /\ IsPrefixOf(s.records, r.records)
           /\ TasksKept(s, r)
           /\ IsPrefixOf(s.results, r.results)
           /\ IsPrefixOf(s.submissions, r.submissions)
           /\ \/ s.curated \subseteq r.curated
              \/ /\ e.kind = "context_pruned"
                 /\ Ids(r.curated) = e.retained
                 /\ r.curated \subseteq s.curated
                 /\ r.epoch = e.epoch
<1>1. IsRecord(s) /\ FieldTypes(s)
  BY SnapshotFields
<1>2. s.candidates \subseteq r.candidates
  <2>1. r.candidates = s.candidates \/ CandidateAddedEffect(r, s, e)
    BY <1>1, ReduceChanges DEF ByCause
  <2> QED BY <2>1 DEF CandidateAddedEffect
<1>3. Ids(s.claims) \subseteq Ids(r.claims)
  <2>1. \/ r.claims = s.claims \/ ClaimCreatedEffect(r, s, e)
        \/ ClaimRevisedEffect(r, s, e, now) \/ EvidenceLinkedEffect(r, s, e, now)
    BY <1>1, ReduceChanges DEF ByCause
  <2>2. ASSUME ClaimCreatedEffect(r, s, e) PROVE Ids(s.claims) \subseteq Ids(r.claims)
    BY <2>2 DEF ClaimCreatedEffect, Ids
  <2>3. ASSUME ClaimRevisedEffect(r, s, e, now) PROVE Ids(s.claims) \subseteq Ids(r.claims)
    <3> DEFINE new == RevisedClaim(WithId(s.claims, e.id), e, now)
    <3>1. WithId(s.claims, e.id) \in Claims /\ WithId(s.claims, e.id).id = e.id
      BY <1>1, <2>3, WithIdFinds DEF ClaimRevisedEffect, FieldTypes
    <3>2. new.id = e.id
      BY <3>1 DEF Claims, RevisedClaim
    <3>3. r.claims = ReplaceById(s.claims, e.id, new) /\ e.id \in Ids(s.claims)
      BY <2>3 DEF ClaimRevisedEffect
    <3> HIDE DEF new
    <3> QED BY <3>2, <3>3, ReplaceKeepsIds
  <2>4. ASSUME EvidenceLinkedEffect(r, s, e, now) PROVE Ids(s.claims) \subseteq Ids(r.claims)
    <3> DEFINE new == [WithId(s.claims, e.claim) EXCEPT !.links = @ \cup {e.id}]
    <3>1. WithId(s.claims, e.claim) \in Claims /\ WithId(s.claims, e.claim).id = e.claim
      BY <1>1, <2>4, WithIdFinds DEF EvidenceLinkedEffect, FieldTypes
    <3>2. new.id = e.claim
      BY <3>1 DEF Claims
    <3>3. r.claims = ReplaceById(s.claims, e.claim, new) /\ e.claim \in Ids(s.claims)
      BY <2>4 DEF EvidenceLinkedEffect
    <3> HIDE DEF new
    <3> QED BY <3>2, <3>3, ReplaceKeepsIds
  <2> QED BY <2>1, <2>2, <2>3, <2>4
<1>4. Ids(s.links) \subseteq Ids(r.links)
  <2>1. \/ r.links = s.links \/ EvidenceLinkedEffect(r, s, e, now)
        \/ EvidenceVerifiedEffect(r, s, e)
    BY <1>1, ReduceChanges DEF ByCause
  <2>2. ASSUME EvidenceLinkedEffect(r, s, e, now) PROVE Ids(s.links) \subseteq Ids(r.links)
    BY <2>2 DEF EvidenceLinkedEffect, Ids
  <2>3. ASSUME EvidenceVerifiedEffect(r, s, e) PROVE Ids(s.links) \subseteq Ids(r.links)
    <3>1. WithId(s.links, e.link) \in Links /\ WithId(s.links, e.link).id = e.link
      BY <1>1, <2>3, WithIdFinds DEF EvidenceVerifiedEffect, FieldTypes
    <3>2. Verified(WithId(s.links, e.link), e).id = e.link
      BY <3>1 DEF Verified, Links
    <3>3. /\ r.links = ReplaceById(s.links, e.link, Verified(WithId(s.links, e.link), e))
          /\ e.link \in Ids(s.links)
      BY <2>3 DEF EvidenceVerifiedEffect
    <3> QED BY <3>2, <3>3, ReplaceKeepsIds
  <2> QED BY <2>1, <2>2, <2>3
<1>5. IsPrefixOf(s.records, r.records)
  <2>1. r.records = s.records \/ (e.kind = "evidence_verified" /\ EvidenceVerifiedEffect(r, s, e))
    BY <1>1, ReduceChanges DEF ByCause
  <2>2. ASSUME e.kind = "evidence_verified", EvidenceVerifiedEffect(r, s, e)
        PROVE  \E x \in Records : r.records = Append(s.records, x)
    <3> DEFINE x == [id |-> e.id, link |-> e.link, claim |-> WithId(s.links, e.link).claim,
                     result |-> e.result]
    <3>1. WithId(s.links, e.link) \in Links
      BY <1>1, <2>2, WithIdFinds DEF EvidenceVerifiedEffect, FieldTypes
    <3>2. x \in Records
      BY <2>2, <3>1, EventFields DEF Links, Records
    <3> QED BY <2>2, <3>2 DEF EvidenceVerifiedEffect
  <2>3. s.records \in Seq(Records)
    BY <1>1 DEF FieldTypes
  <2> QED BY <2>1, <2>2, <2>3, PrefixKept
<1>6. TasksKept(s, r)
  <2>1. r.tasks = s.tasks \/ TaskDecomposedEffect(r, s, e) \/ TaskCompletedEffect(r, s, e)
    BY <1>1, ReduceChanges DEF ByCause
  <2>2. ASSUME s.tasks \subseteq r.tasks PROVE TasksKept(s, r)
    BY <2>2 DEF TasksKept
  <2>3. ASSUME TaskCompletedEffect(r, s, e) PROVE TasksKept(s, r)
    <3> DEFINE old == WithId(s.tasks, e.id)
               new == [old EXCEPT !.status = "completed"]
    <3>1. old \in s.tasks /\ old \in Tasks /\ old.id = e.id
      BY <1>1, <2>3, WithIdFinds DEF TaskCompletedEffect, FieldTypes
    <3>2. /\ new.id = old.id /\ new.parent = old.parent /\ new.dependencies = old.dependencies
          /\ new.status = "completed"
      BY <3>1 DEF Tasks
    <3>3. r.tasks = ReplaceById(s.tasks, e.id, new) /\ e.id \in Ids(s.tasks)
      BY <2>3 DEF TaskCompletedEffect
    <3>4. \A t \in s.tasks : t.id = e.id => t = old
      BY <3>1 DEF Fits, UniqueIds
    <3> HIDE DEF old, new
    <3>5. new \in r.tasks /\ \A t \in s.tasks : t.id # e.id => t \in r.tasks
      BY <3>1, <3>2, <3>3, ReplaceKeepsIds
    <3> QED BY <3>2, <3>4, <3>5 DEF TasksKept
  <2> QED BY <2>1, <2>2, <2>3 DEF TaskDecomposedEffect
<1>7. IsPrefixOf(s.results, r.results)
  <2>1. \/ r.results = s.results
        \/ e.kind = "tool_result_received" /\ ToolResultReceivedEffect(r, s, e)
    BY <1>1, ReduceChanges DEF ByCause
  <2>2. ASSUME e.kind = "tool_result_received", ToolResultReceivedEffect(r, s, e)
        PROVE  \E x \in Results : r.results = Append(s.results, x)
    BY <2>2, EventFields DEF ToolResultReceivedEffect, Results
  <2>3. s.results \in Seq(Results)
    BY <1>1 DEF FieldTypes
  <2> QED BY <2>1, <2>2, <2>3, PrefixKept
<1>8. IsPrefixOf(s.submissions, r.submissions)
  <2>1. \/ r.submissions = s.submissions
        \/ e.id \in SubmissionIds /\ SubmissionRecordedEffect(r, s, e)
    BY <1>1, ReduceChanges, EventFields DEF ByCause
  <2>2. s.submissions \in Seq(SubmissionIds)
    BY <1>1 DEF FieldTypes
  <2> QED BY <2>1, <2>2, PrefixKept DEF SubmissionRecordedEffect
<1>9. \/ s.curated \subseteq r.curated
      \/ /\ e.kind = "context_pruned" /\ Ids(r.curated) = e.retained
         /\ r.curated \subseteq s.curated /\ r.epoch = e.epoch
  <2>1. \/ r.curated = s.curated \/ EvidenceCuratedEffect(r, s, e)
        \/ e.kind = "context_pruned" /\ ContextPrunedEffect(r, s, e)
    BY <1>1, ReduceChanges DEF ByCause
  <2>2. ASSUME ContextPrunedEffect(r, s, e)
        PROVE  Ids(r.curated) = e.retained /\ r.curated \subseteq s.curated /\ r.epoch = e.epoch
    BY <2>2 DEF ContextPrunedEffect, Ids
  <2> QED BY <2>1, <2>2 DEF EvidenceCuratedEffect
<1> QED BY <1>2, <1>3, <1>4, <1>5, <1>6, <1>7, <1>8, <1>9, Zenon

=============================================================================
