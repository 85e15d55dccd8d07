------------------------------ MODULE Runtime ------------------------------
(***************************************************************************)
(* The action loop of src/rfsn_agent/runtime.py, the validation and the    *)
(* planning of actions (actions.py) and the result normalizer              *)
(* (normalizer.py), over one trajectory of the event store.                *)
(*                                                                         *)
(* Several runs of the loop, the tool worker and several normalizers share *)
(* the trajectory.  Each reads a snapshot, decides from it, and commits    *)
(* against the sequence of that snapshot.  A commit is one atomic step     *)
(* here: module EventStore shows what it is made of.  Runtime.execute is a *)
(* run of one step and one try.                                            *)
(***************************************************************************)
EXTENDS Reducer, FiniteSetsExt

CONSTANTS
    Runs,          \* one call of Runtime.run each, with its own run_id
    Normalizers,   \* callers of ResultNormalizer.normalize
    Sessions,      \* the runs and normalizers that are at work together
    Offered,       \* the actions the policy of each run chooses from
    AllowedTools,  \* allowed_tool_names of the security profile
    MaxToolCalls,  \* budget.max_tool_calls
    MaxSteps,      \* max_steps of each run
    MaxTries,      \* max_retries of step
    NoAction

Tools == {"web_search", "read_file"}

\* What a policy may answer.  "safe" is what _validate_safety finds of the
\* query or the path; "filled" is that the content is not blank; a revision
\* may say NoId for what it leaves alone; "wellFormed" is that the relationship and
\* the strength of a link are legal.
Actions ==
    [kind : {"decompose"}, task : TaskIds, parent : TaskIds \cup {NoId},
     dependencies : SUBSET TaskIds]
    \cup [kind : {"tool"}, tool : Tools, safe : BOOLEAN]
    \cup [kind : {"curate"}, item : ItemIds, candidates : SUBSET CandidateIds]
    \cup [kind : {"discard"}, candidates : SUBSET CandidateIds]
    \cup [kind : {"verify"}, link : LinkIds, record : RecordIds, result : VerificationResults]
    \cup [kind : {"revise"}, claim : ClaimIds, text : Texts \cup {NoId},
          status : ClaimStatuses \cup {NoId}]
    \cup [kind : {"prune"}, retained : SUBSET ItemIds, epoch : Epochs]
    \cup [kind : {"request_context"}]
    \cup [kind : {"submit"}, submission : SubmissionIds, filled : BOOLEAN]
    \cup [kind : {"add_candidate"}, candidate : CandidateIds]
    \cup [kind : {"create_claim"}, claim : ClaimIds]
    \cup [kind : {"link"}, link : LinkIds, claim : ClaimIds, item : ItemIds,
          relationship : Relationships, wellFormed : BOOLEAN]

\* action_id: f"run-{run_id}-step-{step_idx}"
ActionIdsOf(r) == {r} \X (0..MaxSteps[r] - 1)

ActionIds == UNION {ActionIdsOf(r) : r \in Runs}

\* f"auto-cand-{invocation_id}"
AutoCandidate(id) == <<"auto-cand", id>>

\* The author of an event: an action of a run, or one of the other two actors.
Authors == ActionIds \cup {<<"worker">>, <<"normalizer">>}

ASSUME RuntimeAssumption ==
    /\ Sessions \subseteq SUBSET (Runs \cup Normalizers)
    /\ Offered \in [Runs -> SUBSET Actions]
    /\ AllowedTools \subseteq Tools
    /\ MaxToolCalls \in Nat
    /\ MaxSteps \in [Runs -> Nat \ {0}]
    /\ MaxTries \in Nat \ {0}
    /\ NoAction \notin Actions
    /\ ActionIds \subseteq InvocationIds    \* f"tool-{action_id}"
    /\ \A id \in InvocationIds : AutoCandidate(id) \in CandidateIds

VARIABLES
    head,     \* the snapshot at the head of the trajectory
    authors,  \* who committed each event, and of which kind
    run,      \* where each run is
    norm      \* where each normalizer is

vars == <<head, authors, run, norm>>

EventKinds == {e.kind : e \in Events}

RunPhases == {"idle", "committing", "committed", "done", "stopped", "raised"}

TypeOK ==
    /\ head \in Snapshots
    /\ authors \in Seq([by : Authors, kind : EventKinds])
    /\ Len(authors) = head.sequence
    /\ run \in [Runs -> [phase : RunPhases, view : Snapshots, action : Actions \cup {NoAction},
                         tries : 0..MaxTries, step : Nat]]
    /\ norm \in [Normalizers -> [phase : {"idle", "scan", "committing", "done"}, view : Snapshots,
                                 new : SUBSET InvocationIds]]

Init ==
    /\ \E epoch \in Epochs : head = Genesis(epoch)
    /\ authors = <<>>
    /\ \E session \in Sessions :
          LET Phase(x) == IF x \in session THEN "idle" ELSE "done" IN
          /\ run = [r \in Runs |-> [phase |-> Phase(r), view |-> head, action |-> NoAction,
                                    tries |-> 0, step |-> 0]]
          /\ norm = [n \in Normalizers |-> [phase |-> Phase(n), view |-> head, new |-> {}]]

-----------------------------------------------------------------------------
(* validate_action                                                         *)

\* _validate_safety
Safe(a) == a.kind = "tool" => a.safe

Mutant_WithinBudget_OffByOne(a, s) == a.kind = "tool" => s.toolCalls <= MaxToolCalls

\* _validate_budget; no estimate of tokens is given
WithinBudget(a, s) == a.kind = "tool" => s.toolCalls < MaxToolCalls

\* _validate_preconditions, one operator for each kind of action
CanDecompose(a, s) ==
    /\ a.task \notin Ids(s.tasks)
    /\ a.parent \in Ids(s.tasks) \cup {NoId}
    /\ a.dependencies \subseteq Ids(s.tasks)

CanCurate(a, s) ==
    /\ a.candidates \subseteq s.candidates
    /\ a.item \notin Ids(s.curated)

CanDiscard(a, s) == a.candidates \subseteq s.candidates

CanVerify(a, s) == a.link \in Ids(s.links)

CanRevise(a, s) == a.claim \in Ids(s.claims) /\ (a.text # NoId \/ a.status # NoId)

CanPrune(a, s) == a.retained \subseteq Ids(s.curated)

CanSubmit(a, s) == a.filled

CanAddCandidate(a, s) == a.candidate \notin s.candidates

CanCreateClaim(a, s) == a.claim \notin Ids(s.claims)

Mutant_CanLink_AnyItem(a, s) == a.claim \in Ids(s.claims) /\ a.wellFormed

CanLink(a, s) ==
    /\ a.claim \in Ids(s.claims)
    /\ a.item \in Ids(s.curated)
    /\ a.wellFormed

Preconditions(a, s) ==
    CASE a.kind = "decompose"       -> CanDecompose(a, s)
      [] a.kind = "tool"            -> a.tool \in AllowedTools
      [] a.kind = "curate"          -> CanCurate(a, s)
      [] a.kind = "discard"         -> CanDiscard(a, s)
      [] a.kind = "verify"          -> CanVerify(a, s)
      [] a.kind = "revise"          -> CanRevise(a, s)
      [] a.kind = "prune"           -> CanPrune(a, s)
      [] a.kind = "request_context" -> TRUE
      [] a.kind = "submit"          -> CanSubmit(a, s)
      [] a.kind = "add_candidate"   -> CanAddCandidate(a, s)
      [] a.kind = "create_claim"    -> CanCreateClaim(a, s)
      [] a.kind = "link"            -> CanLink(a, s)

Valid(a, s) == Safe(a) /\ WithinBudget(a, s) /\ Preconditions(a, s)

-----------------------------------------------------------------------------
(* plan_events: every action becomes one event.                            *)

Plan(a, id, now) ==
    CASE a.kind = "decompose" ->
            [kind |-> "task_decomposed", id |-> a.task, parent |-> a.parent,
             dependencies |-> a.dependencies]
      [] a.kind = "tool" -> [kind |-> "tool_invoked", id |-> id]
      [] a.kind = "curate" ->
            [kind |-> "evidence_curated", id |-> a.item, candidates |-> a.candidates]
      [] a.kind \in {"discard", "request_context"} -> [kind |-> "action_committed"]
      [] a.kind = "verify" ->
            [kind |-> "evidence_verified", id |-> a.record, link |-> a.link, result |-> a.result]
      [] a.kind = "revise" ->
            [kind |-> "claim_revised", id |-> a.claim, text |-> a.text, status |-> a.status]
      [] a.kind = "prune" ->
            [kind |-> "context_pruned", retained |-> a.retained, epoch |-> a.epoch]
      [] a.kind = "submit" -> [kind |-> "submission_recorded", id |-> a.submission]
      [] a.kind = "add_candidate" -> [kind |-> "candidate_added", id |-> a.candidate]
      [] a.kind = "create_claim" ->
            [kind |-> "claim_created", id |-> a.claim, createdAt |-> now]
      [] a.kind = "link" ->
            [kind |-> "evidence_linked", id |-> a.link, claim |-> a.claim, item |-> a.item,
             relationship |-> a.relationship]

-----------------------------------------------------------------------------
(* The action loop.                                                        *)

Mutant_HeadUnmoved_Unchecked(view) == TRUE

\* The optimistic lock of commit_events.
HeadUnmoved(view) == view.sequence = head.sequence

Mutant_ActionId_NextStep(r) == <<r, run[r].step + 1>>

\* action_id of the step a run is at
ActionId(r) == <<r, run[r].step>>

\* What committing the action of run r would make of the head.
Outcomes(r, now) == Reduce(head, Plan(run[r].action, ActionId(r), now), now)

\* step: read the head, compile the context, ask the policy, validate.  An
\* ActionError is in stop_on and ends the run.
Decide(r) ==
    /\ run[r].phase = "idle"
    /\ \E a \in Offered[r] :
          run' = [run EXCEPT ![r].view = head, ![r].action = a,
                             ![r].phase = IF Valid(a, head) THEN "committing" ELSE "stopped"]
    /\ UNCHANGED <<head, authors, norm>>

CommitAction(r) ==
    /\ run[r].phase = "committing"
    /\ HeadUnmoved(run[r].view)
    /\ \E now \in Times :
          /\ head' \in Outcomes(r, now)
          /\ authors' = Append(authors, [by |-> ActionId(r),
                                         kind |-> Plan(run[r].action, ActionId(r), now).kind])
    /\ run' = [run EXCEPT ![r].phase = "committed"]
    /\ UNCHANGED norm

\* The reducer refuses the event: commit_events raises StoreError, which no one catches.
CommitRefused(r) ==
    /\ run[r].phase = "committing"
    /\ HeadUnmoved(run[r].view)
    /\ \E now \in Times : Outcomes(r, now) = {}
    /\ run' = [run EXCEPT ![r].phase = "raised"]
    /\ UNCHANGED <<head, authors, norm>>

\* StaleContextError: the step is tried again with fresh context, MaxTries times at most.
CommitStale(r) ==
    /\ run[r].phase = "committing"
    /\ ~HeadUnmoved(run[r].view)
    /\ run' = [run EXCEPT ![r].tries = @ + 1,
                          ![r].phase = IF run[r].tries + 1 = MaxTries THEN "raised" ELSE "idle"]
    /\ UNCHANGED <<head, authors, norm>>

SubmissionsIn(history) == {i \in DOMAIN history : history[i].kind = "submission_recorded"}

Mutant_LatestSubmissionIsOwn_BeforeCommit(r) ==
    LET seen == SubmissionsIn(SubSeq(authors, 1, run[r].view.sequence)) IN
    seen # {} /\ authors[Max(seen)].by[1] = r

\* The last submission of the snapshot re-read after the commit has an action
\* id of this run.
LatestSubmissionIsOwn(r) ==
    LET seen == SubmissionsIn(authors) IN
    seen # {} /\ authors[Max(seen)].by[1] = r

\* The end of an iteration of run.
NextStep(r) ==
    /\ run[r].phase = "committed"
    /\ run' = [run EXCEPT ![r].step = @ + 1, ![r].tries = 0,
                          ![r].phase = IF LatestSubmissionIsOwn(r) \/ run[r].step + 1 = MaxSteps[r]
                                       THEN "done" ELSE "idle"]
    /\ UNCHANGED <<head, authors, norm>>

-----------------------------------------------------------------------------
(* The tool worker commits results (module ToolWorker), the normalizer     *)
(* turns the successful ones into candidates.                              *)

WorkerCommits ==
    /\ \E id \in head.invocations, status \in ToolStatuses, now \in Times :
          head' \in Reduce(head, [kind |-> "tool_result_received", id |-> id,
                                  status |-> status], now)
    /\ authors' = Append(authors, [by |-> <<"worker">>, kind |-> "tool_result_received"])
    /\ UNCHANGED <<run, norm>>

Succeeded(s) == {r.id : r \in {q \in ResultsOf(s) : q.status = "success"}}

\* normalize: get_latest_snapshot
NormalizeRead(n) ==
    /\ norm[n].phase = "idle"
    /\ norm' = [norm EXCEPT ![n].view = head, ![n].phase = "scan"]
    /\ UNCHANGED <<head, authors, run>>

\* normalize: get_events, a read of its own, which may see later results.
NormalizeScan(n) ==
    LET new == {id \in Succeeded(head) : AutoCandidate(id) \notin norm[n].view.candidates} IN
    /\ norm[n].phase = "scan"
    /\ norm' = [norm EXCEPT ![n].new = new,
                            ![n].phase = IF new = {} THEN "idle" ELSE "committing"]
    /\ UNCHANGED <<head, authors, run>>

\* normalize: the candidates are committed in one batch, all or none.
NormalizeCommit(n) ==
    LET new == norm[n].new
        candidates == {AutoCandidate(id) : id \in new}
    IN /\ norm[n].phase = "committing"
       /\ HeadUnmoved(norm[n].view)
       /\ candidates \cap head.candidates = {}
       /\ head' = [head EXCEPT !.candidates = @ \cup candidates,
                               !.sequence = @ + Cardinality(new)]
       /\ authors' = authors \o [i \in 1..Cardinality(new) |->
                                   [by |-> <<"normalizer">>, kind |-> "candidate_added"]]
       /\ norm' = [norm EXCEPT ![n].phase = "idle"]
       /\ UNCHANGED run

\* The head moved, or another normalizer used the idempotency keys: the call
\* raises, or gets the old receipts; either way nothing is committed.
NormalizeRefused(n) ==
    /\ norm[n].phase = "committing"
    /\ \/ ~HeadUnmoved(norm[n].view)
       \/ \E id \in norm[n].new : AutoCandidate(id) \in head.candidates
    /\ norm' = [norm EXCEPT ![n].phase = "idle"]
    /\ UNCHANGED <<head, authors, run>>

\* Every run has ended.
Finished ==
    /\ \A r \in Runs : run[r].phase \in {"done", "stopped", "raised"}
    /\ UNCHANGED vars

Next ==
    \/ \E r \in Runs : Decide(r) \/ CommitAction(r) \/ CommitRefused(r) \/ CommitStale(r)
                       \/ NextStep(r)
    \/ WorkerCommits
    \/ \E n \in Normalizers : NormalizeRead(n) \/ NormalizeScan(n) \/ NormalizeCommit(n)
                              \/ NormalizeRefused(n)
    \/ Finished

Spec == Init /\ [][Next]_vars

-----------------------------------------------------------------------------
(* Properties.                                                             *)

\* However many runs share the trajectory, they never invoke more tools than
\* the budget allows, although each checks the budget in a snapshot that may be
\* stale by the time it commits (_validate_budget, step).
ToolBudgetKept == head.toolCalls <= MaxToolCalls

\* A run that raises out of the loop without having lost its race MaxTries
\* times reused an id that validation does not look at: that of a verification
\* record, of a link or of a submission.  Every other action that passes
\* _validate_preconditions is accepted by the reducer, and every other illegal
\* one ends the run quietly with an ActionError.
RaisesOnlyForReusedIds ==
    \A r \in Runs :
        LET a == run[r].action IN
        run[r].phase = "raised" /\ run[r].tries < MaxTries =>
            \/ a.kind = "verify" /\ a.record \in Ids(RecordsOf(head))
            \/ a.kind = "link" /\ a.link \in Ids(head.links)
            \/ a.kind = "submit" /\ \E i \in DOMAIN head.submissions :
                                        head.submissions[i] = a.submission

\* A run commits nothing after a submission of its own, unless the submission
\* of another run hides it ("the loop terminates cleanly as soon as the policy
\* emits a SubmitAction", runtime.py 157-159).
SubmissionEndsRun ==
    \A i \in SubmissionsIn(authors), j \in DOMAIN authors, r \in Runs :
        /\ i < j
        /\ authors[i].by \in ActionIdsOf(r)
        /\ authors[j].by \in ActionIdsOf(r)
        => \E k \in SubmissionsIn(authors) :
              i < k /\ k < j /\ authors[k].by \notin ActionIdsOf(r)

\* A normalization that commits leaves no successful result of the trajectory
\* without its candidate, although it reads the snapshot and the events
\* separately and results arrive meanwhile (normalize).
NormalizationIsComplete ==
    [][ (\E id \in InvocationIds : AutoCandidate(id) \in head'.candidates \ head.candidates)
        => \A id \in Succeeded(head') : AutoCandidate(id) \in head'.candidates ]_vars
=============================================================================
