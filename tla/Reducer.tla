------------------------------- MODULE Reducer -------------------------------
(***************************************************************************)
(* The pure event reducer of src/rfsn_agent/reducer.py: what each of the   *)
(* fourteen event types does to the semantic part of a snapshot, and which *)
(* events it refuses.                                                      *)
(*                                                                         *)
(* A handler is an operator of a snapshot, an event and the wall clock     *)
(* whose value is the set of the snapshots it may return: empty when it    *)
(* raises InvariantError. Ids are drawn from constants; hashes,            *)
(* provenance, the timestamps taken from the event header and the contents *)
(* that never change (all but that of a claim) are left out. The envelope  *)
(* checks are in module EventStore.                                        *)
(***************************************************************************)
EXTENDS Integers, Sequences, FiniteSets

CONSTANTS
    CandidateIds, ItemIds, ClaimIds, LinkIds, RecordIds, TaskIds,
    InvocationIds, SubmissionIds, Epochs,
    Times,       \* readings of the wall clock
    NoId         \* None, where an id is optional

ASSUME ReducerAssumption ==
    /\ IsFiniteSet(InvocationIds)
    /\ NoId \notin TaskIds \cup RecordIds \cup ItemIds

ClaimStatuses == {"stated", "verified", "contradicted", "withdrawn"}

\* The content of a claim: the one it was created with, or another.
Texts == {"original", "reworded"}

Relationships == {"supports", "contradicts", "neutral"}
VerificationResults == {"confirmed", "refuted", "inconclusive"}
ToolStatuses == {"success", "failure", "timeout"}

CuratedItems == [id : ItemIds, candidates : SUBSET CandidateIds]

\* createdAt: the timestamp of a claim or a link, which the state hash covers.
Claims == [id : ClaimIds, text : Texts, status : ClaimStatuses, links : SUBSET LinkIds,
           createdAt : Times]

Links == [id : LinkIds, claim : ClaimIds, item : ItemIds, relationship : Relationships,
          createdAt : Times,
          status : {"unverified", "verified", "refuted", "inconclusive"},
          verification : RecordIds \cup {NoId}]

Records == [id : RecordIds, link : LinkIds, claim : ClaimIds, result : VerificationResults]

Tasks == [id : TaskIds, parent : TaskIds \cup {NoId}, dependencies : SUBSET TaskIds,
          status : {"pending", "completed"}]

\* Tuples of the code whose order matters to nobody are sets here.
Snapshots ==
    [sequence : Nat,
     epoch : Epochs,
     candidates : SUBSET CandidateIds,
     curated : SUBSET CuratedItems,
     claims : SUBSET Claims,
     links : SUBSET Links,
     records : Seq(Records),
     tasks : SUBSET Tasks,
     submissions : Seq(SubmissionIds),
     invocations : SUBSET InvocationIds,
     results : Seq([id : InvocationIds, status : ToolStatuses]),
     toolCalls : Nat]      \* budget.tool_calls_used

Genesis(epoch) ==
    [sequence |-> 0, epoch |-> epoch, candidates |-> {}, curated |-> {}, claims |-> {},
     links |-> {}, records |-> <<>>, tasks |-> {}, submissions |-> <<>>,
     invocations |-> {}, results |-> <<>>, toolCalls |-> 0]

-----------------------------------------------------------------------------
(* Events: the payloads.                                                   *)

Events ==
    [kind : {"action_committed"}]
    \cup [kind : {"tool_invoked"}, id : InvocationIds]
    \cup [kind : {"tool_result_received"}, id : InvocationIds, status : ToolStatuses]
    \cup [kind : {"candidate_added"}, id : CandidateIds]
    \cup [kind : {"evidence_curated"}, id : ItemIds, candidates : SUBSET CandidateIds]
    \cup [kind : {"claim_created"}, id : ClaimIds, createdAt : Times]
    \cup [kind : {"claim_revised"}, id : ClaimIds, text : Texts \cup {NoId},
          status : ClaimStatuses \cup {NoId}]
    \cup [kind : {"evidence_linked"}, id : LinkIds, claim : ClaimIds, item : ItemIds,
          relationship : Relationships]
    \cup [kind : {"evidence_verified"}, id : RecordIds, link : LinkIds,
          result : VerificationResults]
    \cup [kind : {"task_decomposed"}, id : TaskIds, parent : TaskIds \cup {NoId},
          dependencies : SUBSET TaskIds]
    \cup [kind : {"task_completed"}, id : TaskIds]
    \cup [kind : {"context_pruned"}, retained : SUBSET ItemIds, epoch : Epochs]
    \cup [kind : {"submission_recorded"}, id : SubmissionIds]

\* The payload names a snapshot by its sequence and hash.
CheckpointEvents == [kind : {"snapshot_checkpointed"}, named : Snapshots]

-----------------------------------------------------------------------------
(* Helpers.                                                                *)

Ids(things) == {x.id : x \in things}

RecordsOf(s) == {s.records[i] : i \in DOMAIN s.records}

ResultsOf(s) == {s.results[i] : i \in DOMAIN s.results}

WithId(things, id) == CHOOSE x \in things : x.id = id

\* _replace_at, by id
ReplaceById(things, id, new) == {IF x.id = id THEN new ELSE x : x \in things}

Mutant_NextSnapshot_SameSequence(s) == s

\* _next_snapshot
NextSnapshot(s) == [s EXCEPT !.sequence = @ + 1]

\* A handler that accepts under a condition.
Accept(condition, s) == IF condition THEN {NextSnapshot(s)} ELSE {}

-----------------------------------------------------------------------------
(* Handlers: tools, tasks, submissions.                                    *)

HandleActionCommitted(s, e) == Accept(TRUE, s)

HandleToolInvoked(s, e) ==
    Accept(e.id \notin s.invocations,
           [s EXCEPT !.invocations = @ \cup {e.id}, !.toolCalls = @ + 1])

Mutant_HandleToolResultReceived_Latest(s, e) ==
    Accept(e.id \in s.invocations,
           [s EXCEPT !.results = Append(SelectSeq(@, LAMBDA r : r.id # e.id),
                                        [id |-> e.id, status |-> e.status])])

HandleToolResultReceived(s, e) ==
    Accept(e.id \in s.invocations /\ e.id \notin Ids(ResultsOf(s)),
           [s EXCEPT !.results = Append(@, [id |-> e.id, status |-> e.status])])

HandleTaskDecomposed(s, e) ==
    Accept(e.id \notin Ids(s.tasks),
           [s EXCEPT !.tasks = @ \cup {[id |-> e.id, parent |-> e.parent,
                                        dependencies |-> e.dependencies,
                                        status |-> "pending"]}])

\* Nothing sets a task to cancelled.
HandleTaskCompleted(s, e) ==
    LET old == WithId(s.tasks, e.id) IN
    Accept(e.id \in Ids(s.tasks) /\ old.status # "completed",
           [s EXCEPT !.tasks = ReplaceById(@, e.id, [old EXCEPT !.status = "completed"])])

HandleSubmissionRecorded(s, e) ==
    Accept(\A i \in DOMAIN s.submissions : s.submissions[i] # e.id,
           [s EXCEPT !.submissions = Append(@, e.id)])

-----------------------------------------------------------------------------
(* Handlers: evidence and claims.                                          *)

HandleCandidateAdded(s, e) ==
    Accept(e.id \notin s.candidates, [s EXCEPT !.candidates = @ \cup {e.id}])

HandleEvidenceCurated(s, e) ==
    Accept(e.candidates \subseteq s.candidates /\ e.id \notin Ids(s.curated),
           [s EXCEPT !.curated = @ \cup {[id |-> e.id, candidates |-> e.candidates]}])

\* The claim was created when its event was.
HandleClaimCreated(s, e) ==
    Accept(e.id \notin Ids(s.claims),
           [s EXCEPT !.claims = @ \cup {[id |-> e.id, text |-> "original", status |-> "stated",
                                         links |-> {}, createdAt |-> e.createdAt]}])

\* What a revision that does not say NoId changes.
Revised(old, value) == IF value = NoId THEN old ELSE value

Mutant_HandleClaimRevised_LinksLost(s, e, now) ==
    LET old == WithId(s.claims, e.id)
        new == [id |-> e.id, text |-> Revised(old.text, e.text),
                status |-> Revised(old.status, e.status), links |-> {}, createdAt |-> now] IN
    Accept(e.id \in Ids(s.claims), [s EXCEPT !.claims = ReplaceById(@, e.id, new)])

\* The revision takes its created_at from the wall clock, not from the event.
HandleClaimRevised(s, e, now) ==
    LET new == [WithId(s.claims, e.id) EXCEPT !.text = Revised(@, e.text),
                                              !.status = Revised(@, e.status),
                                              !.createdAt = now] IN
    Accept(e.id \in Ids(s.claims), [s EXCEPT !.claims = ReplaceById(@, e.id, new)])

\* So does a link.
HandleEvidenceLinked(s, e, now) ==
    LET link == [id |-> e.id, claim |-> e.claim, item |-> e.item,
                 relationship |-> e.relationship, createdAt |-> now,
                 status |-> "unverified", verification |-> NoId]
        claim == WithId(s.claims, e.claim)
    IN Accept(/\ e.id \notin Ids(s.links)
              /\ e.claim \in Ids(s.claims)
              /\ e.item \in Ids(s.curated),
              [s EXCEPT !.links = @ \cup {link},
                        !.claims = ReplaceById(@, e.claim, [claim EXCEPT !.links = @ \cup {e.id}])])

\* _verification_status_from_result
StatusFromResult(result) ==
    CASE result = "confirmed" -> "verified"
      [] result = "refuted" -> "refuted"
      [] OTHER -> "inconclusive"

Mutant_HandleEvidenceVerified_FirstVerdict(s, e) ==
    LET old == WithId(s.links, e.link)
        new == IF old.verification = NoId
               THEN [old EXCEPT !.status = StatusFromResult(e.result), !.verification = e.id]
               ELSE old
        record == [id |-> e.id, link |-> e.link, claim |-> old.claim, result |-> e.result]
    IN Accept(e.link \in Ids(s.links) /\ e.id \notin Ids(RecordsOf(s)),
              [s EXCEPT !.records = Append(@, record),
                        !.links = ReplaceById(@, e.link, new)])

HandleEvidenceVerified(s, e) ==
    LET old == WithId(s.links, e.link)
        new == [old EXCEPT !.status = StatusFromResult(e.result), !.verification = e.id]
        record == [id |-> e.id, link |-> e.link, claim |-> old.claim, result |-> e.result]
    IN Accept(e.link \in Ids(s.links) /\ e.id \notin Ids(RecordsOf(s)),
              [s EXCEPT !.records = Append(@, record),
                        !.links = ReplaceById(@, e.link, new)])

HandleContextPruned(s, e) ==
    Accept(e.retained \subseteq Ids(s.curated),
           [s EXCEPT !.epoch = e.epoch, !.curated = {c \in @ : c.id \in e.retained}])

\* The hash covers the snapshot, so that only the snapshot itself is accepted.
HandleSnapshotCheckpointed(s, e) == Accept(e.named = s, s)

\* reduce_event
Reduce(s, e, now) ==
    CASE e.kind = "action_committed"     -> HandleActionCommitted(s, e)
      [] e.kind = "tool_invoked"         -> HandleToolInvoked(s, e)
      [] e.kind = "tool_result_received" -> HandleToolResultReceived(s, e)
      [] e.kind = "candidate_added"      -> HandleCandidateAdded(s, e)
      [] e.kind = "evidence_curated"     -> HandleEvidenceCurated(s, e)
      [] e.kind = "claim_created"        -> HandleClaimCreated(s, e)
      [] e.kind = "claim_revised"        -> HandleClaimRevised(s, e, now)
      [] e.kind = "evidence_linked"      -> HandleEvidenceLinked(s, e, now)
      [] e.kind = "evidence_verified"    -> HandleEvidenceVerified(s, e)
      [] e.kind = "task_decomposed"      -> HandleTaskDecomposed(s, e)
      [] e.kind = "task_completed"       -> HandleTaskCompleted(s, e)
      [] e.kind = "context_pruned"       -> HandleContextPruned(s, e)
      [] e.kind = "submission_recorded"  -> HandleSubmissionRecorded(s, e)
      [] e.kind = "snapshot_checkpointed" -> HandleSnapshotCheckpointed(s, e)

-----------------------------------------------------------------------------
(* What a snapshot must satisfy.                                           *)

IsPrefixOf(short, long) == SubSeq(long, 1, Len(short)) = short

\* Claims and links index each other: a claim lists exactly the links made to it,
\* however it is revised, and every link is to a claim there is.
ClaimsListTheirLinks(s) ==
    /\ \A c \in s.claims : c.links = {l.id : l \in {k \in s.links : k.claim = c.id}}
    /\ \A l \in s.links : l.claim \in Ids(s.claims)

\* A link shows the verdict of its last verification: its status and its
\* verification_id are those of the last record made for it, if there is one.
LinksShowLastVerdict(s) ==
    \A l \in s.links :
        LET mine == {i \in DOMAIN s.records : s.records[i].link = l.id} IN
        IF mine = {}
        THEN l.status = "unverified" /\ l.verification = NoId
        ELSE \E i \in mine :
                /\ \A j \in mine : j <= i
                /\ l.verification = s.records[i].id
                /\ l.status = StatusFromResult(s.records[i].result)
                /\ l.claim = s.records[i].claim
=============================================================================
