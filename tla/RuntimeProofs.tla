--------------------------- MODULE RuntimeProofs ----------------------------
(***************************************************************************)
(* For any number of runs and normalizers, any policies, and any budget:   *)
(* the runtime is well typed, keeps the budget of tool calls, raises only  *)
(* for ids it does not look at, and stops after its own submission; and a  *)
(* normalization that commits is complete.                                 *)
(***************************************************************************)
EXTENDS Runtime, ReducerProofs, FiniteSetTheorems

-----------------------------------------------------------------------------
(* The invariant.                                                          *)

\* A run that has not ended has steps and tries left.
Working ==
    \A r \in Runs : run[r].phase \in {"idle", "committing", "committed"} =>
        run[r].step < MaxSteps[r] /\ run[r].tries < MaxTries

\* A snapshot that was the head once: if it has the sequence of the head, it
\* still is the head.
Seen(s, current) ==
    /\ s.sequence <= current.sequence
    /\ s.sequence = current.sequence => s = current

\* What a run is about to commit was valid in the snapshot it has read.
Deciding ==
    \A r \in Runs : run[r].phase = "committing" =>
        /\ Seen(run[r].view, head)
        /\ run[r].action \in Offered[r]
        /\ Valid(run[r].action, run[r].view)

\* The successful results without a candidate.
Missing(s) == {id \in Succeeded(s) : AutoCandidate(id) \notin s.candidates}

\* What a normalizer is about to commit is missing, unless the head has moved.
Normalizing ==
    \A n \in Normalizers :
        /\ norm[n].phase \in {"scan", "committing"} => Seen(norm[n].view, head)
        /\ norm[n].phase = "committing" =>
              /\ norm[n].new # {}
              /\ norm[n].view.sequence = head.sequence => norm[n].new = Missing(head)

WorkInv == TypeOK /\ Fits(head) /\ Working /\ Deciding /\ Normalizing

-----------------------------------------------------------------------------
(* Types.                                                                  *)

\* A valid action is planned as an event.
LEMMA PlanIsEvent ==
    ASSUME NEW a \in Actions, NEW s, Valid(a, s), NEW id \in InvocationIds, NEW now \in Times
    PROVE  /\ Plan(a, id, now) \in Events
           /\ Plan(a, id, now).kind \in EventKinds
<1>1. a.kind \in {"decompose", "tool", "curate", "discard", "verify", "revise", "prune",
                  "request_context", "submit", "add_candidate", "create_claim", "link"}
  BY DEF Actions
<1>2. /\ a.kind = "decompose" =>
            /\ a.task \in TaskIds /\ a.parent \in TaskIds \cup {NoId}
            /\ a.dependencies \subseteq TaskIds
      /\ a.kind = "curate" => a.item \in ItemIds /\ a.candidates \subseteq CandidateIds
      /\ a.kind = "verify" =>
            a.link \in LinkIds /\ a.record \in RecordIds /\ a.result \in VerificationResults
      /\ a.kind = "revise" =>
            /\ a.claim \in ClaimIds /\ a.text \in Texts \cup {NoId}
            /\ a.status \in ClaimStatuses \cup {NoId}
      /\ a.kind = "prune" => a.retained \subseteq ItemIds /\ a.epoch \in Epochs
      /\ a.kind = "submit" => a.submission \in SubmissionIds
      /\ a.kind = "add_candidate" => a.candidate \in CandidateIds
      /\ a.kind = "create_claim" => a.claim \in ClaimIds
      /\ a.kind = "link" =>
            /\ a.link \in LinkIds /\ a.claim \in ClaimIds /\ a.item \in ItemIds
            /\ a.relationship \in Relationships
  BY DEF Actions
<1>4. Plan(a, id, now) \in Events
  BY <1>1, <1>2 DEF Plan, Events
<1> QED BY <1>4 DEF EventKinds

Author == [by : Authors, kind : EventKinds]

\* The ids of the action a run is at.
LEMMA ActionIdTypes ==
    ASSUME TypeOK, Working, NEW r \in Runs,
           run[r].phase \in {"idle", "committing", "committed"}
    PROVE  ActionId(r) \in ActionIdsOf(r) /\ ActionId(r) \in InvocationIds
           /\ ActionId(r) \in Authors
<1>1. run[r].step \in Nat /\ run[r].step < MaxSteps[r] /\ MaxSteps[r] \in Nat
  BY RuntimeAssumption DEF TypeOK, Working
<1>2. run[r].step \in 0..MaxSteps[r] - 1
  BY <1>1
<1>3. ActionId(r) \in ActionIdsOf(r)
  BY <1>2 DEF ActionId, ActionIdsOf
<1>4. ActionId(r) \in ActionIds
  BY <1>3 DEF ActionIds
<1> QED BY <1>3, <1>4, RuntimeAssumption DEF Authors

\* One event makes the head and the list of its authors one longer.
LEMMA OneEvent ==
    ASSUME TypeOK, Fits(head), NEW e \in Events, NEW now \in Times, NEW by \in Authors,
           head' \in Reduce(head, e, now),
           authors' = Append(authors, [by |-> by, kind |-> e.kind])
    PROVE  /\ head' \in Snapshots /\ Fits(head') /\ head'.sequence = head.sequence + 1
           /\ authors' \in Seq(Author) /\ Len(authors') = head'.sequence
           /\ head.sequence \in Nat
<1>1. head \in Snapshots /\ authors \in Seq(Author) /\ Len(authors) = head.sequence
  BY DEF TypeOK, Author
<1>2. e \in AnyEvent
  BY DEF AnyEvent
<1>3. head' \in Snapshots /\ Fits(head') /\ head'.sequence = head.sequence + 1
  BY <1>1, <1>2, ReduceTypes, ReduceFits
<1>4. [by |-> by, kind |-> e.kind] \in Author
  BY DEF Author, EventKinds
<1>5. \A q \in Seq(Author) : \A x \in Author :
         Append(q, x) \in Seq(Author) /\ Len(Append(q, x)) = Len(q) + 1
  OBVIOUS
<1>6. head.sequence \in Nat
  BY <1>1, SnapshotFields DEF FieldTypes
<1> QED BY <1>1, <1>3, <1>4, <1>5, <1>6

\* The event of a run's action, and of a tool's result.
LEMMA CommitActionEvent ==
    ASSUME WorkInv, NEW r \in Runs, CommitAction(r)
    PROVE  /\ head = run[r].view /\ run[r].action \in Actions /\ run[r].phase = "committing"
           /\ run[r].action \in Offered[r] /\ Valid(run[r].action, head)
           /\ ActionId(r) \in Authors /\ ActionId(r) \in InvocationIds
           /\ \E now \in Times : LET e == Plan(run[r].action, ActionId(r), now) IN
                 /\ e \in Events /\ head' \in Reduce(head, e, now)
                 /\ authors' = Append(authors, [by |-> ActionId(r), kind |-> e.kind])
<1>1. head = run[r].view /\ run[r].phase = "committing"
  BY DEF CommitAction, HeadUnmoved, WorkInv, Deciding, Seen
<1>2. run[r].action \in Actions /\ run[r].action \in Offered[r] /\ Valid(run[r].action, head)
  BY <1>1, RuntimeAssumption DEF WorkInv, Deciding
<1>3. ActionId(r) \in Authors /\ ActionId(r) \in InvocationIds
  BY <1>1, ActionIdTypes DEF WorkInv
<1> QED BY <1>1, <1>2, <1>3, PlanIsEvent DEF CommitAction, Outcomes

\* What a commit of the worker adds to the log.
LEMMA WorkerEvent ==
    ASSUME WorkInv, WorkerCommits
    PROVE  /\ <<"worker">> \in Authors
           /\ \E now \in Times : \E e \in Events :
                 /\ e.kind = "tool_result_received" /\ head' \in Reduce(head, e, now)
                 /\ authors' = Append(authors, [by |-> <<"worker">>, kind |-> e.kind])
<1>1. PICK id \in head.invocations, status \in ToolStatuses, now \in Times :
         head' \in Reduce(head, [kind |-> "tool_result_received", id |-> id,
                                 status |-> status], now)
  BY DEF WorkerCommits
<1> DEFINE e == [kind |-> "tool_result_received", id |-> id, status |-> status]
<1>2. id \in InvocationIds
  BY SnapshotFields DEF WorkInv, TypeOK, FieldTypes
<1>3. e \in Events /\ e.kind = "tool_result_received"
  BY <1>2 DEF Events
<1>4. authors' = Append(authors, [by |-> <<"worker">>, kind |-> "tool_result_received"])
  BY DEF WorkerCommits
<1> HIDE DEF e
<1>5. head' \in Reduce(head, e, now)
  BY <1>1 DEF e
<1> QED BY <1>3, <1>4, <1>5 DEF Authors

\* What a normalizer commits: the missing candidates, and nothing else.
LEMMA NormalizedHead ==
    ASSUME WorkInv, NEW n \in Normalizers, NormalizeCommit(n)
    PROVE  /\ head' \in Snapshots /\ Fits(head') /\ head'.sequence > head.sequence
           /\ authors' \in Seq(Author) /\ Len(authors') = head'.sequence
           /\ norm[n].new = Missing(head)
           /\ head'.candidates = head.candidates \cup {AutoCandidate(id) : id \in norm[n].new}
           /\ \A f \in Fields \ {"candidates", "sequence"} : head'[f] = head[f]
           /\ head.sequence \in Nat
           /\ \E k \in Nat : authors' = authors \o
                 [i \in 1..k |-> [by |-> <<"normalizer">>, kind |-> "candidate_added"]]
<1> DEFINE new == norm[n].new
           c == Cardinality(new)
           added == {AutoCandidate(id) : id \in new}
           x == [by |-> <<"normalizer">>, kind |-> "candidate_added"]
           some == [i \in 1..c |-> x]
<1>1. /\ head' = [head EXCEPT !.candidates = @ \cup added, !.sequence = @ + c]
      /\ authors' = authors \o some
      /\ norm[n].phase = "committing" /\ HeadUnmoved(norm[n].view)
  BY DEF NormalizeCommit
<1>2. new # {} /\ new = Missing(head)
  BY <1>1 DEF HeadUnmoved, WorkInv, Normalizing
<1>3. new \subseteq InvocationIds
  BY DEF WorkInv, TypeOK
<1>4. added \subseteq CandidateIds
  BY <1>3, RuntimeAssumption
<1>5. c \in Nat \ {0}
  <2>1. IsFiniteSet(new)
    BY <1>3, ReducerAssumption, FS_Subset
  <2> HIDE DEF new
  <2> QED BY <1>2, <2>1, FS_CardinalityType, FS_EmptySet
<1>6. IsRecord(head) /\ FieldTypes(head) /\ head.sequence \in Nat
  BY SnapshotFields DEF WorkInv, TypeOK, FieldTypes
<1>7. x \in Author
  <2>1. \E e \in Events : e.kind = "candidate_added"
    <3>1. PICK id \in new : TRUE
      BY <1>2
    <3>2. [kind |-> "candidate_added", id |-> AutoCandidate(id)] \in Events
      BY <1>4 DEF Events
    <3> QED BY <3>2
  <2> QED BY <2>1 DEF Author, Authors, EventKinds
<1>8. authors \in Seq(Author) /\ Len(authors) = head.sequence
  BY DEF WorkInv, TypeOK, Author
<1> HIDE DEF new, c, added, x
<1>9. some \in Seq(Author) /\ Len(some) = c
  <2>1. some \in [1..c -> Author]
    BY <1>7
  <2> QED BY <1>5, <2>1
<1> HIDE DEF some
<1>10. authors' \in Seq(Author) /\ Len(authors') = head.sequence + c
  <2>1. \A p, q \in Seq(Author) : p \o q \in Seq(Author) /\ Len(p \o q) = Len(p) + Len(q)
    BY ConcatProperties
  <2> QED BY <1>1, <1>8, <1>9, <2>1
<1>a. \E k \in Nat : authors' = authors \o [i \in 1..k |-> x]
  BY <1>1, <1>5 DEF some
<1>11. /\ IsRecord(head') /\ head'.sequence = head.sequence + c
       /\ head'.candidates = head.candidates \cup added
       /\ \A f \in Fields \ {"candidates", "sequence"} : head'[f] = head[f]
  BY <1>1, <1>6 DEF IsRecord, Fields
<1>12. /\ head'.epoch = head.epoch /\ head'.curated = head.curated /\ head'.claims = head.claims
       /\ head'.links = head.links /\ head'.records = head.records /\ head'.tasks = head.tasks
       /\ head'.submissions = head.submissions /\ head'.invocations = head.invocations
       /\ head'.results = head.results /\ head'.toolCalls = head.toolCalls
  BY <1>11 DEF Fields
<1>13. FieldTypes(head')
  <2>1. head'.sequence \in Nat /\ head'.candidates \subseteq CandidateIds
    BY <1>4, <1>5, <1>6, <1>11 DEF FieldTypes
  <2> QED BY <1>6, <1>12, <2>1 DEF FieldTypes
<1>14. Fits(head')
  BY <1>12 DEF WorkInv, Fits, RecordsHaveLinks, ClaimsListTheirLinks, LinksShowLastVerdict
<1>15. head'.sequence > head.sequence
  BY <1>5, <1>6, <1>11
<1> QED BY <1>2, <1>6, <1>10, <1>11, <1>13, <1>14, <1>15, <1>a, SnapshotOfFields
           DEF new, added, x

-----------------------------------------------------------------------------
(* The invariant is inductive.                                             *)

\* It holds before anybody works.
LEMMA InitWork == Init => WorkInv
<1> SUFFICES ASSUME Init PROVE WorkInv
  OBVIOUS
<1>1. head \in Snapshots /\ Fits(head) /\ head.sequence = 0
  BY GenesisFits DEF Init
<1>2. /\ authors = <<>>
      /\ run \in [Runs -> [phase : {"idle", "done"}, view : {head}, action : {NoAction},
                           tries : {0}, step : {0}]]
      /\ norm \in [Normalizers -> [phase : {"idle", "done"}, view : {head}, new : {{}}]]
  BY DEF Init
<1>3. authors \in Seq(Author) /\ Len(authors) = 0
  BY <1>2, EmptySeq
<1>4. TypeOK
  <2>1. 0 \in 0..MaxTries
    BY RuntimeAssumption
  <2> QED BY <1>1, <1>2, <1>3, <2>1 DEF TypeOK, Author, RunPhases
<1>5. Working
  BY <1>2, RuntimeAssumption DEF Working
<1>6. Deciding /\ Normalizing
  BY <1>2 DEF Deciding, Normalizing
<1> QED BY <1>1, <1>4, <1>5, <1>6 DEF WorkInv

\* A step leaves the head and the authors, or moves both on.
HeadGrows ==
    /\ head' \in Snapshots /\ Fits(head')
    /\ authors' \in Seq(Author) /\ Len(authors') = head'.sequence
    /\ \/ head' = head /\ authors' = authors
       \/ head'.sequence > head.sequence

\* The head moves on or stays as it is, with the list of authors.
LEMMA HeadSteps == ASSUME WorkInv, [Next]_vars PROVE HeadGrows
<1>1. CASE head' = head /\ authors' = authors
  BY <1>1 DEF HeadGrows, WorkInv, TypeOK, Author, Fits, UniqueIds, Ids, RecordsHaveLinks,
     ClaimsListTheirLinks, LinksShowLastVerdict
<1>2. ASSUME NEW by \in Authors, NEW now \in Times, NEW e \in Events,
             head' \in Reduce(head, e, now),
             authors' = Append(authors, [by |-> by, kind |-> e.kind])
      PROVE  HeadGrows
  <2>1. /\ head' \in Snapshots /\ Fits(head') /\ head'.sequence = head.sequence + 1
        /\ authors' \in Seq(Author) /\ Len(authors') = head'.sequence
        /\ head.sequence \in Nat
    BY <1>2, OneEvent DEF WorkInv
  <2> QED BY <2>1 DEF HeadGrows
<1>3. ASSUME NEW r \in Runs, CommitAction(r) PROVE HeadGrows
  <2>1. ActionId(r) \in Authors
    BY <1>3, CommitActionEvent
  <2>2. PICK now \in Times : LET e == Plan(run[r].action, ActionId(r), now) IN
           /\ e \in Events /\ head' \in Reduce(head, e, now)
           /\ authors' = Append(authors, [by |-> ActionId(r), kind |-> e.kind])
    BY <1>3, CommitActionEvent
  <2> QED BY <1>2, <2>1, <2>2
<1>5. ASSUME WorkerCommits PROVE HeadGrows
  <2>1. <<"worker">> \in Authors
    BY <1>5, WorkerEvent
  <2>2. PICK now \in Times, e \in Events :
           /\ e.kind = "tool_result_received" /\ head' \in Reduce(head, e, now)
           /\ authors' = Append(authors, [by |-> <<"worker">>, kind |-> e.kind])
    BY <1>5, WorkerEvent
  <2> QED BY <1>2, <2>1, <2>2
<1>4. CASE \E n \in Normalizers : NormalizeCommit(n)
  BY <1>4, NormalizedHead DEF HeadGrows
<1> QED BY <1>1, <1>3, <1>4, <1>5 DEF Next, vars, Decide, CommitRefused, CommitStale, NextStep,
           NormalizeRead, NormalizeScan, NormalizeRefused, Finished

\* What has been seen stays a version of the log; and if it is the head, the head
\* has not moved.
LEMMA SeenStays ==
    ASSUME WorkInv, HeadGrows, NEW s \in Snapshots, Seen(s, head)
    PROVE  Seen(s, head') /\ (s.sequence = head'.sequence => s.sequence = head.sequence /\ head' = head)
<1>1. head \in Snapshots
  BY DEF WorkInv, TypeOK
<1>2. s.sequence \in Nat /\ head.sequence \in Nat /\ head'.sequence \in Nat
  BY <1>1, SnapshotFields DEF HeadGrows, FieldTypes
<1> QED BY <1>2 DEF Seen, HeadGrows

\* The runs are well typed after a step of run r.
LEMMA RunSteps ==
    ASSUME WorkInv, NEW r \in Runs,
           Decide(r) \/ CommitAction(r) \/ CommitRefused(r) \/ CommitStale(r) \/ NextStep(r)
    PROVE  /\ run' \in [Runs -> [phase : RunPhases, view : Snapshots,
                                 action : Actions \cup {NoAction}, tries : 0..MaxTries, step : Nat]]
           /\ \A q \in Runs \ {r} : run'[q] = run[q]
           /\ run'[r].phase \in {"idle", "committing", "committed"} =>
                 run'[r].step < MaxSteps[r] /\ run'[r].tries < MaxTries
           /\ run'[r].phase = "committing" =>
                 /\ run'[r].view = head /\ head' = head
                 /\ run'[r].action \in Offered[r]
                 /\ Valid(run'[r].action, head)
           /\ norm' = norm
<1> DEFINE Run == [phase : RunPhases, view : Snapshots, action : Actions \cup {NoAction},
                   tries : 0..MaxTries, step : Nat]
<1>1. run \in [Runs -> Run] /\ run[r] \in Run /\ head \in Snapshots
  BY DEF WorkInv, TypeOK
<1>2. /\ run[r].tries \in 0..MaxTries /\ run[r].step \in Nat /\ MaxTries \in Nat \ {0}
      /\ MaxSteps[r] \in Nat \ {0}
      /\ run[r].phase \in {"idle", "committing", "committed"} =>
            run[r].step < MaxSteps[r] /\ run[r].tries < MaxTries
  BY <1>1, RuntimeAssumption DEF WorkInv, Working
<1>3. CASE Decide(r)
  <2>1. PICK a \in Offered[r] :
           run' = [run EXCEPT ![r].view = head, ![r].action = a,
                              ![r].phase = IF Valid(a, head) THEN "committing" ELSE "stopped"]
    BY <1>3 DEF Decide
  <2>2. PICK phase \in {"committing", "stopped"} :
           phase = (IF Valid(a, head) THEN "committing" ELSE "stopped")
    OBVIOUS
  <2>3. run' = [run EXCEPT ![r].view = head, ![r].action = a, ![r].phase = phase]
    BY <2>1, <2>2
  <2>4. a \in Actions
    BY RuntimeAssumption
  <2>5. PICK new \in Run : new = [run[r] EXCEPT !.view = head, !.action = a, !.phase = phase]
    BY <1>1, <2>4 DEF RunPhases
  <2>6. new.view = head /\ new.action = a /\ new.phase = phase /\ new.step = run[r].step
        /\ new.tries = run[r].tries
    BY <1>1, <2>5
  <2>7. run' = [run EXCEPT ![r] = new]
    BY <1>1, <2>3, <2>5
  <2>8. run' \in [Runs -> Run] /\ run'[r] = new /\ \A q \in Runs \ {r} : run'[q] = run[q]
    BY <1>1, <2>7
  <2>9. new.phase = "committing" => Valid(new.action, head)
    BY <2>2, <2>6
  <2> QED BY <1>2, <1>3, <2>6, <2>8, <2>9 DEF Decide
<1>4. CASE CommitAction(r)
  BY <1>1, <1>2, <1>4 DEF CommitAction, RunPhases
<1>5. CASE CommitRefused(r)
  BY <1>1, <1>2, <1>5 DEF CommitRefused, RunPhases
<1>6. CASE CommitStale(r)
  BY <1>1, <1>2, <1>6 DEF CommitStale, RunPhases
<1>7. CASE NextStep(r)
  BY <1>1, <1>2, <1>7 DEF NextStep, RunPhases
<1> QED BY <1>3, <1>4, <1>5, <1>6, <1>7

\* And so are the normalizers after a step of normalizer n.
LEMMA NormSteps ==
    ASSUME WorkInv, NEW n \in Normalizers,
           NormalizeRead(n) \/ NormalizeScan(n) \/ NormalizeCommit(n) \/ NormalizeRefused(n)
    PROVE  /\ norm' \in [Normalizers -> [phase : {"idle", "scan", "committing", "done"},
                                         view : Snapshots, new : SUBSET InvocationIds]]
           /\ \A m \in Normalizers \ {n} : norm'[m] = norm[m]
           /\ norm'[n].phase = "scan" => norm'[n].view = head /\ head' = head
           /\ norm'[n].phase = "committing" =>
                 /\ Seen(norm'[n].view, head) /\ head' = head
                 /\ norm'[n].new # {}
                 /\ norm'[n].view.sequence = head.sequence => norm'[n].new = Missing(head)
           /\ run' = run
<1> DEFINE Norm == [phase : {"idle", "scan", "committing", "done"}, view : Snapshots,
                    new : SUBSET InvocationIds]
<1>1. norm \in [Normalizers -> Norm] /\ norm[n] \in Norm /\ head \in Snapshots
  BY DEF WorkInv, TypeOK
<1>2. CASE NormalizeRead(n)
  BY <1>1, <1>2 DEF NormalizeRead
<1>3. CASE NormalizeScan(n)
  <2> DEFINE new == {id \in Succeeded(head) : AutoCandidate(id) \notin norm[n].view.candidates}
  <2>1. /\ norm[n].phase = "scan" /\ head' = head /\ run' = run
        /\ norm' = [norm EXCEPT ![n].new = new,
                                ![n].phase = IF new = {} THEN "idle" ELSE "committing"]
    BY <1>3 DEF NormalizeScan
  <2>2. new \subseteq InvocationIds
    <3>1. head.results \in Seq(Results)
      BY <1>1, SnapshotFields DEF FieldTypes
    <3>2. \A q \in ResultsOf(head) : q \in Results
      BY <3>1, ElementOfSeq DEF ResultsOf
    <3> QED BY <3>2 DEF Succeeded, Results
  <2>3. Seen(norm[n].view, head)
    BY <2>1 DEF WorkInv, Normalizing
  <2>4. norm[n].view.sequence = head.sequence => new = Missing(head)
    BY <2>3 DEF Seen, Missing
  <2> HIDE DEF new
  <2>5. PICK phase \in {"idle", "committing"} :
           phase = (IF new = {} THEN "idle" ELSE "committing")
    OBVIOUS
  <2>6. PICK x \in Norm : x = [norm[n] EXCEPT !.new = new, !.phase = phase]
    BY <1>1, <2>2
  <2>7. x.phase = phase /\ x.new = new /\ x.view = norm[n].view
    BY <1>1, <2>6
  <2>8. norm' = [norm EXCEPT ![n] = x]
    BY <1>1, <2>1, <2>5, <2>6
  <2>9. norm' \in [Normalizers -> Norm] /\ norm'[n] = x
        /\ \A m \in Normalizers \ {n} : norm'[m] = norm[m]
    BY <1>1, <2>8
  <2> QED BY <2>1, <2>3, <2>4, <2>5, <2>7, <2>9
<1>4. CASE NormalizeCommit(n) \/ NormalizeRefused(n)
  <2>1. norm' = [norm EXCEPT ![n].phase = "idle"] /\ run' = run
    BY <1>4 DEF NormalizeCommit, NormalizeRefused
  <2> QED BY <1>1, <2>1
<1> QED BY <1>2, <1>3, <1>4

\* Every step keeps the invariant.
LEMMA NextWork == WorkInv /\ [Next]_vars => WorkInv'
<1> SUFFICES ASSUME WorkInv, [Next]_vars PROVE WorkInv'
  OBVIOUS
<1>1. HeadGrows
  BY HeadSteps
<1>2. /\ run \in [Runs -> [phase : RunPhases, view : Snapshots, action : Actions \cup {NoAction},
                           tries : 0..MaxTries, step : Nat]]
      /\ norm \in [Normalizers -> [phase : {"idle", "scan", "committing", "done"},
                                   view : Snapshots, new : SUBSET InvocationIds]]
  BY DEF WorkInv, TypeOK
<1>3. \A s \in Snapshots : Seen(s, head) =>
         Seen(s, head') /\ (s.sequence = head'.sequence => s.sequence = head.sequence /\ head' = head)
  BY <1>1, SeenStays
<1>4. ASSUME NEW r \in Runs, run'[r] = run[r], run[r].phase = "committing"
      PROVE  /\ Seen(run'[r].view, head') /\ run'[r].action \in Offered[r]
             /\ Valid(run'[r].action, run'[r].view)
  BY <1>2, <1>3, <1>4 DEF WorkInv, Deciding
<1>5. ASSUME NEW n \in Normalizers, norm'[n] = norm[n]
      PROVE  /\ norm[n].phase \in {"scan", "committing"} => Seen(norm'[n].view, head')
             /\ norm[n].phase = "committing" =>
                   /\ norm'[n].new # {}
                   /\ norm'[n].view.sequence = head'.sequence => norm'[n].new = Missing(head')
  <2>1. norm[n].view \in Snapshots
    BY <1>2
  <2>2. /\ norm[n].phase \in {"scan", "committing"} => Seen(norm[n].view, head)
        /\ norm[n].phase = "committing" =>
              /\ norm[n].new # {}
              /\ norm[n].view.sequence = head.sequence => norm[n].new = Missing(head)
    BY DEF WorkInv, Normalizing
  <2> QED BY <1>3, <1>5, <2>1, <2>2
<1>6. Seen(head, head)
  BY SnapshotFields DEF WorkInv, TypeOK, FieldTypes, Seen
<1>7. ASSUME NEW r \in Runs,
             Decide(r) \/ CommitAction(r) \/ CommitRefused(r) \/ CommitStale(r) \/ NextStep(r)
      PROVE  WorkInv'
  <2>1. /\ run' \in [Runs -> [phase : RunPhases, view : Snapshots,
                               action : Actions \cup {NoAction}, tries : 0..MaxTries, step : Nat]]
        /\ \A q \in Runs \ {r} : run'[q] = run[q]
        /\ run'[r].phase \in {"idle", "committing", "committed"} =>
              run'[r].step < MaxSteps[r] /\ run'[r].tries < MaxTries
        /\ run'[r].phase = "committing" =>
              /\ run'[r].view = head /\ head' = head
              /\ run'[r].action \in Offered[r]
              /\ Valid(run'[r].action, head)
        /\ norm' = norm
    BY <1>7, RunSteps
  <2>2. TypeOK'
    BY <1>1, <1>2, <2>1 DEF TypeOK, HeadGrows, Author
  <2>3. Working'
    BY <2>1 DEF WorkInv, Working
  <2>4. Deciding'
    <3> SUFFICES ASSUME NEW q \in Runs, run'[q].phase = "committing"
                 PROVE  /\ Seen(run'[q].view, head') /\ run'[q].action \in Offered[q]
                        /\ Valid(run'[q].action, run'[q].view)
      BY DEF Deciding
    <3>1. CASE q = r
      BY <1>6, <2>1, <3>1
    <3>2. CASE q # r
      BY <1>4, <2>1, <3>2
    <3> QED BY <3>1, <3>2
  <2>5. Normalizing'
    BY <1>5, <2>1 DEF Normalizing
  <2> QED BY <1>1, <2>2, <2>3, <2>4, <2>5 DEF WorkInv, HeadGrows
<1>8. ASSUME UNCHANGED <<run, norm>> PROVE WorkInv'
  <2>1. TypeOK'
    BY <1>1, <1>2, <1>8 DEF TypeOK, HeadGrows, Author
  <2>2. Working'
    BY <1>8 DEF WorkInv, Working
  <2>3. Deciding'
    BY <1>4, <1>8 DEF Deciding
  <2>4. Normalizing'
    BY <1>5, <1>8 DEF Normalizing
  <2> QED BY <1>1, <2>1, <2>2, <2>3, <2>4 DEF WorkInv, HeadGrows
<1>9. ASSUME NEW n \in Normalizers,
             NormalizeRead(n) \/ NormalizeScan(n) \/ NormalizeCommit(n) \/ NormalizeRefused(n)
      PROVE  WorkInv'
  <2>1. /\ norm' \in [Normalizers -> [phase : {"idle", "scan", "committing", "done"},
                                       view : Snapshots, new : SUBSET InvocationIds]]
        /\ \A m \in Normalizers \ {n} : norm'[m] = norm[m]
        /\ norm'[n].phase = "scan" => norm'[n].view = head /\ head' = head
        /\ norm'[n].phase = "committing" =>
              /\ Seen(norm'[n].view, head) /\ head' = head
              /\ norm'[n].new # {}
              /\ norm'[n].view.sequence = head.sequence => norm'[n].new = Missing(head)
        /\ run' = run
    BY <1>9, NormSteps
  <2>2. TypeOK'
    BY <1>1, <1>2, <2>1 DEF TypeOK, HeadGrows, Author
  <2>3. Working'
    BY <2>1 DEF WorkInv, Working
  <2>4. Deciding'
    BY <1>4, <2>1 DEF Deciding
  <2>5. Normalizing'
    <3> SUFFICES ASSUME NEW m \in Normalizers
                 PROVE  /\ norm'[m].phase \in {"scan", "committing"} => Seen(norm'[m].view, head')
                        /\ norm'[m].phase = "committing" =>
                              /\ norm'[m].new # {}
                              /\ norm'[m].view.sequence = head'.sequence =>
                                    norm'[m].new = Missing(head')
      BY DEF Normalizing
    <3>1. CASE m = n
      BY <1>6, <2>1, <3>1
    <3>2. CASE m # n
      BY <1>5, <2>1, <3>2
    <3> QED BY <3>1, <3>2
  <2> QED BY <1>1, <2>2, <2>3, <2>4, <2>5 DEF WorkInv, HeadGrows
<1> QED BY <1>7, <1>8, <1>9 DEF Next, vars, WorkerCommits, Finished

\* The runtime never leaves its types: in particular the head stays a snapshot
\* and has as many authors as events, whoever commits.
THEOREM RuntimeTypes == Spec => []TypeOK
<1>1. WorkInv => TypeOK
  BY DEF WorkInv
<1> QED BY <1>1, InitWork, NextWork, PTL DEF Spec

-----------------------------------------------------------------------------
(* The budget, and what is refused.                                        *)

\* What an action is planned as.
LEMMA PlanKinds ==
    ASSUME NEW a \in Actions, NEW id, NEW now, NEW e, e = Plan(a, id, now)
    PROVE  /\ e.kind = "tool_invoked" => a.kind = "tool" /\ e.id = id
           /\ e.kind = "submission_recorded" => a.kind = "submit" /\ e.id = a.submission
           /\ e.kind # "tool_result_received"
           /\ e.kind = "candidate_added" => a.kind = "add_candidate" /\ e.id = a.candidate
<1>1. a.kind \in {"decompose", "tool", "curate", "discard", "verify", "revise", "prune",
                  "request_context", "submit", "add_candidate", "create_claim", "link"}
  BY DEF Actions
<1> QED BY <1>1 DEF Plan

\* How a step moves the head.
LEMMA HeadCauses ==
    ASSUME WorkInv, [Next]_vars
    PROVE  \/ head' = head /\ authors' = authors
           \/ \E r \in Runs : CommitAction(r)
           \/ WorkerCommits
           \/ \E n \in Normalizers : NormalizeCommit(n)
BY DEF Next, vars, Decide, CommitRefused, CommitStale, NextStep, NormalizeRead, NormalizeScan,
       NormalizeRefused, Finished

\* An event of the worker or of a normalizer leaves calls, links and submissions alone.
LEMMA WorkerKeeps ==
    ASSUME WorkInv, WorkerCommits
    PROVE  /\ head'.toolCalls = head.toolCalls /\ head'.invocations = head.invocations
           /\ head'.submissions = head.submissions /\ head'.links = head.links
           /\ head'.records = head.records /\ head'.candidates = head.candidates
<1>1. PICK now \in Times, e \in Events :
         e.kind = "tool_result_received" /\ head' \in Reduce(head, e, now)
  BY WorkerEvent
<1>2. e \in AnyEvent
  BY DEF AnyEvent
<1>3. IsRecord(head)
  BY SnapshotFields DEF WorkInv, TypeOK
<1>4. ByCause(head', head, e, now)
  BY <1>1, <1>2, <1>3, ReduceChanges
<1> QED BY <1>1, <1>4 DEF ByCause

\* However many runs share the trajectory, tool calls stay within the budget:
\* a run commits a call only if the head it was validated against has not moved.
THEOREM ToolBudget == Spec => []ToolBudgetKept
<1>1. Init => ToolBudgetKept
  BY RuntimeAssumption DEF Init, Genesis, ToolBudgetKept
<1>2. WorkInv /\ ToolBudgetKept /\ [Next]_vars => ToolBudgetKept'
  <2> SUFFICES ASSUME WorkInv, ToolBudgetKept, [Next]_vars PROVE ToolBudgetKept'
    OBVIOUS
  <2>1. head.toolCalls \in Nat /\ MaxToolCalls \in Nat /\ IsRecord(head)
    BY SnapshotFields, RuntimeAssumption DEF WorkInv, TypeOK, FieldTypes
  <2>2. ASSUME NEW r \in Runs, CommitAction(r) PROVE ToolBudgetKept'
    <3>1. PICK now \in Times : LET e == Plan(run[r].action, ActionId(r), now) IN
             e \in Events /\ head' \in Reduce(head, e, now)
      BY <2>2, CommitActionEvent
    <3>2. run[r].action \in Actions /\ Valid(run[r].action, head)
      BY <2>2, CommitActionEvent
    <3>3. PICK e \in Events : e = Plan(run[r].action, ActionId(r), now)
      BY <3>1
    <3>4. ByCause(head', head, e, now)
      BY <2>1, <3>1, <3>3, ReduceChanges DEF AnyEvent
    <3>5. CASE e.kind = "tool_invoked"
      <4>1. run[r].action.kind = "tool"
        BY <3>2, <3>3, <3>5, PlanKinds
      <4>2. head.toolCalls < MaxToolCalls
        BY <3>2, <4>1 DEF Valid, WithinBudget
      <4>3. head'.toolCalls = head.toolCalls \/ head'.toolCalls = head.toolCalls + 1
        BY <3>4 DEF ByCause, ToolInvokedEffect
      <4> QED BY <2>1, <4>2, <4>3 DEF ToolBudgetKept
    <3>6. CASE e.kind # "tool_invoked"
      BY <3>4, <3>6 DEF ByCause, ToolBudgetKept
    <3> QED BY <3>5, <3>6
  <2>3. ASSUME WorkerCommits PROVE ToolBudgetKept'
    BY <2>3, WorkerKeeps DEF ToolBudgetKept
  <2>4. ASSUME NEW n \in Normalizers, NormalizeCommit(n) PROVE ToolBudgetKept'
    <3>1. head'["toolCalls"] = head["toolCalls"]
      BY <2>4, NormalizedHead DEF Fields
    <3> QED BY <3>1 DEF ToolBudgetKept
  <2> QED BY <2>2, <2>3, <2>4, HeadCauses DEF ToolBudgetKept
<1>3. Spec => []WorkInv
  BY InitWork, NextWork, PTL DEF Spec
<1> QED BY <1>1, <1>2, <1>3, PTL DEF Spec

\* The ids that validation does not look at.
Reused(a, s) ==
    \/ a.kind = "verify" /\ a.record \in Ids(RecordsOf(s))
    \/ a.kind = "link" /\ a.link \in Ids(s.links)
    \/ a.kind = "submit" /\ \E i \in DOMAIN s.submissions : s.submissions[i] = a.submission

\* A valid action whose event the reducer refuses reuses one of them, or the
\* invocation id.
LEMMA RefusedForReuse ==
    ASSUME NEW s, NEW a \in Actions, Valid(a, s), NEW id, id \notin s.invocations,
           NEW now, Reduce(s, Plan(a, id, now), now) = {}
    PROVE  Reused(a, s)
<1> DEFINE e == Plan(a, id, now)
<1>1. a.kind \in {"decompose", "tool", "curate", "discard", "verify", "revise", "prune",
                  "request_context", "submit", "add_candidate", "create_claim", "link"}
  BY DEF Actions
<1>2. Preconditions(a, s)
  BY DEF Valid
<1>3. CASE a.kind = "verify"
  <2>1. e = [kind |-> "evidence_verified", id |-> a.record, link |-> a.link, result |-> a.result]
    BY <1>3 DEF Plan
  <2>2. HandleEvidenceVerified(s, e) = {}
    BY <2>1 DEF Reduce
  <2>3. ~(e.link \in Ids(s.links) /\ e.id \notin Ids(RecordsOf(s)))
    BY <2>2 DEF HandleEvidenceVerified, Accept
  <2>4. a.link \in Ids(s.links)
    BY <1>2, <1>3 DEF Preconditions, CanVerify
  <2> QED BY <1>3, <2>1, <2>3, <2>4 DEF Reused
<1>4. CASE a.kind = "link"
  <2>1. e = [kind |-> "evidence_linked", id |-> a.link, claim |-> a.claim, item |-> a.item,
             relationship |-> a.relationship]
    BY <1>4 DEF Plan
  <2>2. HandleEvidenceLinked(s, e, now) = {}
    BY <2>1 DEF Reduce
  <2>3. ~(e.id \notin Ids(s.links) /\ e.claim \in Ids(s.claims) /\ e.item \in Ids(s.curated))
    BY <2>2 DEF HandleEvidenceLinked, Accept
  <2>4. a.claim \in Ids(s.claims) /\ a.item \in Ids(s.curated)
    BY <1>2, <1>4 DEF Preconditions, CanLink
  <2> QED BY <1>4, <2>1, <2>3, <2>4 DEF Reused
<1>5. CASE a.kind = "submit"
  <2>1. e = [kind |-> "submission_recorded", id |-> a.submission]
    BY <1>5 DEF Plan
  <2>2. HandleSubmissionRecorded(s, e) = {}
    BY <2>1 DEF Reduce
  <2>3. \E i \in DOMAIN s.submissions : s.submissions[i] = e.id
    BY <2>2 DEF HandleSubmissionRecorded, Accept
  <2> QED BY <1>5, <2>1, <2>3 DEF Reused
<1>6. CASE a.kind = "decompose"
  <2>1. e = [kind |-> "task_decomposed", id |-> a.task, parent |-> a.parent,
             dependencies |-> a.dependencies]
    BY <1>6 DEF Plan
  <2>2. HandleTaskDecomposed(s, e) = {}
    BY <2>1 DEF Reduce
  <2>3. e.id \in Ids(s.tasks)
    BY <2>2 DEF HandleTaskDecomposed, Accept
  <2> QED BY <1>2, <1>6, <2>1, <2>3 DEF Preconditions, CanDecompose
<1>7. CASE a.kind = "tool"
  <2>1. e = [kind |-> "tool_invoked", id |-> id]
    BY <1>7 DEF Plan
  <2>2. HandleToolInvoked(s, e) = {}
    BY <2>1 DEF Reduce
  <2> QED BY <2>1, <2>2 DEF HandleToolInvoked, Accept
<1>8. CASE a.kind = "curate"
  <2>1. e = [kind |-> "evidence_curated", id |-> a.item, candidates |-> a.candidates]
    BY <1>8 DEF Plan
  <2>2. HandleEvidenceCurated(s, e) = {}
    BY <2>1 DEF Reduce
  <2>3. ~(e.candidates \subseteq s.candidates /\ e.id \notin Ids(s.curated))
    BY <2>2 DEF HandleEvidenceCurated, Accept
  <2> QED BY <1>2, <1>8, <2>1, <2>3 DEF Preconditions, CanCurate
<1>9. CASE a.kind \in {"discard", "request_context"}
  <2>1. e = [kind |-> "action_committed"]
    BY <1>9 DEF Plan
  <2>2. HandleActionCommitted(s, e) = {}
    BY <2>1 DEF Reduce
  <2> QED BY <2>2 DEF HandleActionCommitted, Accept
<1>10. CASE a.kind = "revise"
  <2>1. e = [kind |-> "claim_revised", id |-> a.claim, text |-> a.text, status |-> a.status]
    BY <1>10 DEF Plan
  <2>2. HandleClaimRevised(s, e, now) = {}
    BY <2>1 DEF Reduce
  <2>3. e.id \notin Ids(s.claims)
    BY <2>2 DEF HandleClaimRevised, Accept
  <2> QED BY <1>2, <1>10, <2>1, <2>3 DEF Preconditions, CanRevise
<1>11. CASE a.kind = "prune"
  <2>1. e = [kind |-> "context_pruned", retained |-> a.retained, epoch |-> a.epoch]
    BY <1>11 DEF Plan
  <2>2. HandleContextPruned(s, e) = {}
    BY <2>1 DEF Reduce
  <2>3. ~(e.retained \subseteq Ids(s.curated))
    BY <2>2 DEF HandleContextPruned, Accept
  <2> QED BY <1>2, <1>11, <2>1, <2>3 DEF Preconditions, CanPrune
<1>12. CASE a.kind = "add_candidate"
  <2>1. e = [kind |-> "candidate_added", id |-> a.candidate]
    BY <1>12 DEF Plan
  <2>2. HandleCandidateAdded(s, e) = {}
    BY <2>1 DEF Reduce
  <2>3. e.id \in s.candidates
    BY <2>2 DEF HandleCandidateAdded, Accept
  <2> QED BY <1>2, <1>12, <2>1, <2>3 DEF Preconditions, CanAddCandidate
<1>13. CASE a.kind = "create_claim"
  <2>1. e = [kind |-> "claim_created", id |-> a.claim, createdAt |-> now]
    BY <1>13 DEF Plan
  <2>2. HandleClaimCreated(s, e) = {}
    BY <2>1 DEF Reduce
  <2>3. e.id \in Ids(s.claims)
    BY <2>2 DEF HandleClaimCreated, Accept
  <2> QED BY <1>2, <1>13, <2>1, <2>3 DEF Preconditions, CanCreateClaim
<1> QED BY <1>1, <1>3, <1>4, <1>5, <1>6, <1>7, <1>8, <1>9, <1>10, <1>11, <1>12, <1>13

\* A run has invoked no tool under the action id it is at, until it has
\* committed, nor under a later one.
Invoked ==
    \A r \in Runs, k \in Nat : <<r, k>> \in head.invocations =>
        /\ k <= run[r].step
        /\ k = run[r].step => run[r].phase \notin {"idle", "committing"}

\* A run that raised, and did not lose its race too often, reused an id.
RaisedForReuse ==
    \A r \in Runs : run[r].phase = "raised" /\ run[r].tries < MaxTries =>
        Reused(run[r].action, head)

\* Ids that are in use stay in use.
LEMMA ReusedStays ==
    ASSUME WorkInv, [Next]_vars, NEW a, Reused(a, head) PROVE Reused(a, head')
<1>1. ASSUME head'.links = head.links, head'.records = head.records,
             head'.submissions = head.submissions
      PROVE  Reused(a, head')
  BY <1>1 DEF Reused, RecordsOf
<1>2. ASSUME NEW now \in Times, NEW e \in Events, head' \in Reduce(head, e, now)
      PROVE  Reused(a, head')
  <2>1. e \in AnyEvent /\ head \in Snapshots /\ Fits(head)
    BY DEF AnyEvent, WorkInv, TypeOK
  <2>2. Ids(head.links) \subseteq Ids(head'.links)
    BY <1>2, <2>1, ReduceKeeps
  <2>3. IsRecord(head) /\ head.records \in Seq(Records) /\ head.submissions \in Seq(SubmissionIds)
    BY <2>1, SnapshotFields DEF FieldTypes
  <2>4. \A S : \A q \in Seq(S) : \A x \in S : \A i \in DOMAIN q :
           i \in DOMAIN Append(q, x) /\ Append(q, x)[i] = q[i]
    OBVIOUS
  <2>5. ByCause(head', head, e, now)
    BY <1>2, <2>1, <2>3, ReduceChanges
  <2>6. head'.records = head.records \/ \E x \in Records : head'.records = Append(head.records, x)
    <3>1. head' \in Snapshots /\ head'.records \in Seq(Records)
      BY <1>2, <2>1, ReduceTypes, SnapshotFields DEF FieldTypes
    <3>2. \A p : \A x : p = Append(head.records, x) /\ p \in Seq(Records) => x \in Records
      BY <2>3
    <3> QED BY <2>5, <3>1, <3>2 DEF ByCause, EvidenceVerifiedEffect
  <2>7. RecordsOf(head) \subseteq RecordsOf(head')
    BY <2>3, <2>4, <2>6 DEF RecordsOf
  <2>8. \/ head'.submissions = head.submissions
        \/ \E x \in SubmissionIds : head'.submissions = Append(head.submissions, x)
    <3>1. e.kind = "submission_recorded" => e.id \in SubmissionIds
      BY <2>1, EventFields
    <3> QED BY <2>5, <3>1 DEF ByCause, SubmissionRecordedEffect
  <2>9. \A i \in DOMAIN head.submissions :
           i \in DOMAIN head'.submissions /\ head'.submissions[i] = head.submissions[i]
    BY <2>3, <2>4, <2>8
  <2> QED BY <2>2, <2>7, <2>9 DEF Reused, Ids
<1>3. ASSUME NEW r \in Runs, CommitAction(r) PROVE Reused(a, head')
  BY <1>2, <1>3, CommitActionEvent
<1>4. ASSUME WorkerCommits PROVE Reused(a, head')
  BY <1>1, <1>4, WorkerKeeps
<1>5. ASSUME NEW n \in Normalizers, NormalizeCommit(n) PROVE Reused(a, head')
  <2>1. \A f \in {"links", "records", "submissions"} : head'[f] = head[f]
    BY <1>5, NormalizedHead DEF Fields
  <2> QED BY <1>1, <2>1
<1> QED BY <1>3, <1>4, <1>5, HeadCauses

\* Every invocation but the one that is committed was there.
LEMMA InvocationsGrow ==
    ASSUME WorkInv, [Next]_vars
    PROVE  \/ head'.invocations = head.invocations
           \/ \E r \in Runs : CommitAction(r)
                              /\ head'.invocations = head.invocations \cup {ActionId(r)}
<1>1. ASSUME NEW r \in Runs, CommitAction(r)
      PROVE  \/ head'.invocations = head.invocations
             \/ head'.invocations = head.invocations \cup {ActionId(r)}
  <2>1. PICK now \in Times : LET e == Plan(run[r].action, ActionId(r), now) IN
           e \in Events /\ head' \in Reduce(head, e, now)
    BY <1>1, CommitActionEvent
  <2>2. run[r].action \in Actions
    BY <1>1, CommitActionEvent
  <2>3. PICK e \in Events : e = Plan(run[r].action, ActionId(r), now)
    BY <2>1
  <2>4. ByCause(head', head, e, now)
    BY <2>1, <2>3, ReduceChanges, SnapshotFields DEF AnyEvent, WorkInv, TypeOK
  <2>5. e.kind = "tool_invoked" => e.id = ActionId(r)
    BY <2>2, <2>3, PlanKinds
  <2> QED BY <2>4, <2>5 DEF ByCause, ToolInvokedEffect
<1>2. ASSUME NEW n \in Normalizers, NormalizeCommit(n)
      PROVE  head'.invocations = head.invocations
  <2>1. head'["invocations"] = head["invocations"]
    BY <1>2, NormalizedHead DEF Fields
  <2> QED BY <2>1
<1> QED BY <1>1, <1>2, WorkerKeeps, HeadCauses

\* A run invokes a tool under the id of its step by committing, and in no other way.
LEMMA NextInvoked == WorkInv /\ Invoked /\ [Next]_vars => Invoked'
<1> SUFFICES ASSUME WorkInv, Invoked, [Next]_vars, NEW r \in Runs, NEW k \in Nat,
                    <<r, k>> \in head'.invocations
             PROVE  /\ k <= run'[r].step
                    /\ k = run'[r].step => run'[r].phase \notin {"idle", "committing"}
  BY DEF Invoked
<1>1. run \in [Runs -> [phase : RunPhases, view : Snapshots, action : Actions \cup {NoAction},
                        tries : 0..MaxTries, step : Nat]]
  BY DEF WorkInv, TypeOK
<1>2. run[r].step \in Nat
  BY <1>1
<1>3. CASE \E q \in Runs : CommitAction(q)
  <2>1. PICK q \in Runs : CommitAction(q)
    BY <1>3
  <2>2. run' = [run EXCEPT ![q].phase = "committed"]
    BY <2>1 DEF CommitAction
  <2>3. run'[r].step = run[r].step /\ (r = q => run'[r].phase = "committed")
        /\ (r # q => run'[r] = run[r])
    BY <1>1, <2>2
  <2>4. \/ <<r, k>> \in head.invocations \/ <<r, k>> = ActionId(q)
    <3>1. \A p \in Runs : CommitAction(p) => run[p].phase = "committing"
                              /\ run' = [run EXCEPT ![p].phase = "committed"]
      BY DEF CommitAction
    <3>2. \A p \in Runs : CommitAction(p) => p = q
      BY <1>1, <2>1, <3>1
    <3> QED BY <2>1, <3>2, InvocationsGrow
  <2>5. <<r, k>> = ActionId(q) => r = q /\ k = run[r].step
    BY DEF ActionId
  <2> QED BY <1>2, <2>3, <2>4, <2>5 DEF Invoked
<1>4. CASE ~ \E q \in Runs : CommitAction(q)
  <2>1. <<r, k>> \in head.invocations
    BY <1>4, InvocationsGrow
  <2>2. /\ k <= run[r].step
        /\ k = run[r].step => run[r].phase \notin {"idle", "committing"}
    BY <2>1 DEF Invoked
  <2>3. CASE run'[r] = run[r]
    BY <2>2, <2>3
  <2>4. CASE Decide(r)
    <3>1. run[r].phase = "idle" /\ run'[r].step = run[r].step
      BY <1>1, <2>4 DEF Decide
    <3> QED BY <2>2, <3>1
  <2>5. CASE CommitRefused(r) \/ CommitStale(r)
    <3>1. run[r].phase = "committing" /\ run'[r].step = run[r].step
      BY <1>1, <2>5 DEF CommitRefused, CommitStale
    <3> QED BY <2>2, <3>1
  <2>6. CASE NextStep(r)
    <3>1. run'[r].step = run[r].step + 1
      BY <1>1, <2>6 DEF NextStep
    <3> QED BY <1>2, <2>2, <3>1
  <2>7. \/ run'[r] = run[r]
        \/ Decide(r) \/ CommitRefused(r) \/ CommitStale(r) \/ NextStep(r)
    <3>1. ASSUME NEW q \in Runs,
                 Decide(q) \/ CommitRefused(q) \/ CommitStale(q) \/ NextStep(q)
          PROVE  q = r \/ run'[r] = run[r]
      BY <3>1, RunSteps
    <3> QED BY <1>4, <3>1, NormSteps DEF Next, vars, WorkerCommits, Finished
  <2> QED BY <2>3, <2>4, <2>5, <2>6, <2>7
<1> QED BY <1>3, <1>4

\* A run raises early only for an id that is in use.
LEMMA NextRaised == WorkInv /\ Invoked /\ RaisedForReuse /\ [Next]_vars => RaisedForReuse'
<1> SUFFICES ASSUME WorkInv, Invoked, RaisedForReuse, [Next]_vars, NEW r \in Runs,
                    run'[r].phase = "raised", run'[r].tries < MaxTries
             PROVE  Reused(run'[r].action, head')
  BY DEF RaisedForReuse
<1>1. run \in [Runs -> [phase : RunPhases, view : Snapshots, action : Actions \cup {NoAction},
                        tries : 0..MaxTries, step : Nat]]
  BY DEF WorkInv, TypeOK
<1>2. CASE run'[r] = run[r]
  BY <1>2, ReusedStays DEF RaisedForReuse
<1>3. ASSUME CommitRefused(r) PROVE Reused(run'[r].action, head')
  <2>1. /\ run[r].phase = "committing" /\ run[r].view.sequence = head.sequence
        /\ head' = head /\ run'[r].action = run[r].action
    BY <1>1, <1>3 DEF CommitRefused, HeadUnmoved
  <2>2. PICK now \in Times : Reduce(head, Plan(run[r].action, ActionId(r), now), now) = {}
    BY <1>3 DEF CommitRefused, Outcomes
  <2>3. Valid(run[r].action, head) /\ run[r].action \in Actions
    BY <2>1, RuntimeAssumption DEF WorkInv, Deciding, Seen
  <2>4. ActionId(r) \notin head.invocations
    BY <1>1, <2>1 DEF Invoked, ActionId
  <2> QED BY <2>1, <2>2, <2>3, <2>4, RefusedForReuse
<1>4. ASSUME Decide(r) \/ CommitAction(r) \/ CommitStale(r) \/ NextStep(r) PROVE FALSE
  <2>1. CASE Decide(r)
    BY <1>1, <2>1 DEF Decide
  <2>2. CASE CommitAction(r)
    BY <1>1, <2>2 DEF CommitAction
  <2>3. CASE CommitStale(r)
    BY <1>1, <2>3, RuntimeAssumption DEF CommitStale
  <2>4. CASE NextStep(r)
    BY <1>1, <2>4 DEF NextStep
  <2> QED BY <1>4, <2>1, <2>2, <2>3, <2>4
<1>5. \/ run'[r] = run[r] \/ CommitRefused(r)
      \/ Decide(r) \/ CommitAction(r) \/ CommitStale(r) \/ NextStep(r)
  <2>1. ASSUME NEW q \in Runs, Decide(q) \/ CommitAction(q) \/ CommitRefused(q) \/ CommitStale(q)
                               \/ NextStep(q)
        PROVE  q = r \/ run'[r] = run[r]
    BY <2>1, RunSteps
  <2> QED BY <2>1, NormSteps DEF Next, vars, WorkerCommits, Finished
<1> QED BY <1>2, <1>3, <1>4, <1>5

\* A run raises out of its loop only if it lost its race too often, or because
\* of an id that validation does not look at: validation and reducer agree on
\* everything else, for every policy.
THEOREM RaisesForReuse == Spec => []RaisesOnlyForReusedIds
<1>1. Init => Invoked /\ RaisedForReuse
  BY DEF Init, Genesis, Invoked, RaisedForReuse
<1>2. Spec => [](WorkInv /\ Invoked /\ RaisedForReuse)
  BY <1>1, InitWork, NextWork, NextInvoked, NextRaised, PTL DEF Spec
<1>3. RaisedForReuse => RaisesOnlyForReusedIds
  BY DEF RaisedForReuse, RaisesOnlyForReusedIds, Reused
<1> QED BY <1>2, <1>3, PTL

-----------------------------------------------------------------------------
(* A run stops after its own submission.                                   *)

Helpers == {<<"worker">>, <<"normalizer">>}

\* The worker and the normalizer commit under no action id.
LEMMA NotARun ==
    ASSUME NEW r \in Runs, NEW x \in Helpers
    PROVE  x \notin ActionIdsOf(r)
<1>1. \A y \in ActionIdsOf(r) : Len(y) = 2
  BY DEF ActionIdsOf
<1>2. Len(x) = 1
  BY DEF Helpers
<1> QED BY <1>1, <1>2

\* The list of authors only grows: by the commit of one run, or by events that
\* are no submissions.
AuthorsGrow ==
    /\ Len(authors) \in Nat /\ Len(authors') \in Nat /\ Len(authors) <= Len(authors')
    /\ DOMAIN authors = 1..Len(authors) /\ DOMAIN authors' = 1..Len(authors')
    /\ \A i \in 1..Len(authors) : authors'[i] = authors[i]
    /\ \A j \in 1..Len(authors') : j > Len(authors) =>
          \/ /\ authors'[j].by \in Helpers
             /\ authors'[j].kind # "submission_recorded"
          \/ \E r \in Runs : /\ CommitAction(r) /\ authors'[j].by = ActionId(r)
                             /\ j = Len(authors')

\* The list of authors grows by one batch, of one run or of others.
LEMMA AuthorsSteps == ASSUME WorkInv, [Next]_vars PROVE AuthorsGrow
<1>1. authors \in Seq(Author) /\ authors' \in Seq(Author)
  BY HeadSteps DEF HeadGrows, WorkInv, TypeOK, Author
<1>2. /\ Len(authors) \in Nat /\ Len(authors') \in Nat
      /\ DOMAIN authors = 1..Len(authors) /\ DOMAIN authors' = 1..Len(authors')
  BY <1>1
<1>3. CASE authors' = authors
  <2>1. \A j \in 1..Len(authors) : ~(j > Len(authors))
    BY <1>2
  <2>2. Len(authors') = Len(authors) /\ Len(authors) <= Len(authors)
    BY <1>2, <1>3
  <2> QED BY <1>2, <1>3, <2>1, <2>2 DEF AuthorsGrow
<1>4. ASSUME NEW x \in Author, authors' = Append(authors, x)
      PROVE  /\ Len(authors') = Len(authors) + 1 /\ authors'[Len(authors')] = x
             /\ \A i \in 1..Len(authors) : authors'[i] = authors[i]
             /\ \A j \in 1..Len(authors') : j > Len(authors) => j = Len(authors')
  <2>1. \A q \in Seq(Author) : /\ Len(Append(q, x)) = Len(q) + 1
                                /\ Append(q, x)[Len(q) + 1] = x
                                /\ \A i \in 1..Len(q) : Append(q, x)[i] = q[i]
    OBVIOUS
  <2> QED BY <1>1, <1>2, <1>4, <2>1
<1>5. ASSUME NEW r \in Runs, CommitAction(r) PROVE AuthorsGrow
  <2>1. PICK now \in Times : LET e == Plan(run[r].action, ActionId(r), now) IN
           /\ e \in Events
           /\ authors' = Append(authors, [by |-> ActionId(r), kind |-> e.kind])
    BY <1>5, CommitActionEvent
  <2>2. PICK e \in Events : e = Plan(run[r].action, ActionId(r), now)
    BY <2>1
  <2>3. ActionId(r) \in Authors
    BY <1>5, CommitActionEvent
  <2>4. PICK x \in Author : x = [by |-> ActionId(r), kind |-> e.kind]
    BY <2>3 DEF Author, EventKinds
  <2>5. authors' = Append(authors, x) /\ x.by = ActionId(r)
    BY <2>1, <2>2, <2>4
  <2> QED BY <1>2, <1>4, <1>5, <2>5 DEF AuthorsGrow
<1>6. ASSUME WorkerCommits PROVE AuthorsGrow
  <2>1. PICK e \in Events : e.kind = "tool_result_received"
    BY <1>6, WorkerEvent
  <2>2. PICK x \in Author : x = [by |-> <<"worker">>, kind |-> "tool_result_received"]
    BY <2>1 DEF Author, Authors, EventKinds
  <2>3. authors' = Append(authors, x) /\ x.by \in Helpers /\ x.kind = "tool_result_received"
    BY <1>6, <2>2 DEF WorkerCommits, Helpers
  <2> QED BY <1>2, <1>4, <2>3 DEF AuthorsGrow
<1>7. ASSUME NEW n \in Normalizers, NormalizeCommit(n) PROVE AuthorsGrow
  <2>1. PICK k \in Nat : authors' = authors \o
           [i \in 1..k |-> [by |-> <<"normalizer">>, kind |-> "candidate_added"]]
    BY <1>7, NormalizedHead
  <2> DEFINE x == [by |-> <<"normalizer">>, kind |-> "candidate_added"]
             some == [i \in 1..k |-> x]
  <2>2. x.by \in Helpers /\ x.kind = "candidate_added"
    BY DEF Helpers
  <2>3. some \in Seq({x}) /\ Len(some) = k /\ \A i \in 1..k : some[i] = x
    OBVIOUS
  <2>4. authors' = authors \o some
    BY <2>1
  <2> HIDE DEF x, some
  <2>5. authors \in Seq(Author \cup {x}) /\ some \in Seq(Author \cup {x})
    BY <1>1, <2>3
  <2>6. /\ Len(authors') = Len(authors) + k
        /\ \A i \in 1..Len(authors) : authors'[i] = authors[i]
        /\ \A i \in 1..k : authors'[Len(authors) + i] = some[i]
    <3>1. \A i \in 1..k : Len(authors) + i \in 1..Len(authors) + k /\ ~(Len(authors) + i <= Len(authors))
                          /\ Len(authors) + i - Len(authors) = i
      BY <1>2
    <3>2. \A i \in 1..Len(authors) : i \in 1..Len(authors) + k /\ i <= Len(authors)
      BY <1>2
    <3>3. /\ Len(authors \o some) = Len(authors) + k
          /\ \A i \in 1..Len(authors) + k : (authors \o some)[i] =
                IF i <= Len(authors) THEN authors[i] ELSE some[i - Len(authors)]
      BY <2>3, <2>5, ConcatProperties
    <3> QED BY <2>4, <3>1, <3>2, <3>3
  <2>7. ASSUME NEW j \in 1..Len(authors'), j > Len(authors) PROVE authors'[j] = x
    <3>1. j - Len(authors) \in 1..k /\ Len(authors) + (j - Len(authors)) = j
      BY <1>2, <2>6, <2>7
    <3> QED BY <2>3, <2>6, <3>1
  <2> QED BY <1>2, <2>2, <2>6, <2>7 DEF AuthorsGrow
<1> QED BY <1>3, <1>5, <1>6, <1>7, HeadCauses

\* The submissions of a history have a last one.
HasLast == SubmissionsIn(authors) # {} =>
    \E m \in SubmissionsIn(authors) : \A i \in SubmissionsIn(authors) : i <= m

\* Submissions of a run that still works are hidden by later ones of others.
Hidden ==
    \A r \in Runs : run[r].phase \in {"idle", "committing"} =>
        \A i \in SubmissionsIn(authors) : authors[i].by \in ActionIdsOf(r) =>
            \E k \in SubmissionsIn(authors) : i < k /\ authors[k].by \notin ActionIdsOf(r)

\* What a step makes of the submissions.
LEMMA SubmissionSteps ==
    ASSUME WorkInv, [Next]_vars
    PROVE  /\ \A i \in SubmissionsIn(authors) :
                 i \in SubmissionsIn(authors') /\ authors'[i] = authors[i]
           /\ \A i \in SubmissionsIn(authors') \ SubmissionsIn(authors) :
                 \E r \in Runs : CommitAction(r) /\ authors'[i].by = ActionId(r)
                                 /\ i = Len(authors') /\ i > Len(authors)
           /\ SubmissionsIn(authors) \subseteq 1..Len(authors)
           /\ SubmissionsIn(authors') \subseteq 1..Len(authors')
<1>1. AuthorsGrow
  BY AuthorsSteps
<1>a. Len(authors) \in Nat /\ Len(authors') \in Nat /\ Len(authors) <= Len(authors')
  BY <1>1 DEF AuthorsGrow
<1>2. ASSUME NEW i \in SubmissionsIn(authors)
      PROVE  i \in SubmissionsIn(authors') /\ authors'[i] = authors[i]
  <2>1. i \in 1..Len(authors) /\ authors[i].kind = "submission_recorded"
    BY <1>1 DEF SubmissionsIn, AuthorsGrow
  <2>2. i \in 1..Len(authors')
    BY <1>a, <2>1
  <2> QED BY <1>1, <2>1, <2>2 DEF SubmissionsIn, AuthorsGrow
<1>3. ASSUME NEW i \in SubmissionsIn(authors') \ SubmissionsIn(authors)
      PROVE  \E r \in Runs : CommitAction(r) /\ authors'[i].by = ActionId(r)
                             /\ i = Len(authors') /\ i > Len(authors)
  <2>1. i \in 1..Len(authors') /\ authors'[i].kind = "submission_recorded"
    BY <1>1 DEF SubmissionsIn, AuthorsGrow
  <2>2. i > Len(authors)
    <3>1. CASE i \in 1..Len(authors)
      BY <1>1, <1>3, <2>1, <3>1 DEF SubmissionsIn, AuthorsGrow
    <3>2. CASE i \notin 1..Len(authors)
      BY <1>a, <2>1, <3>2
    <3> QED BY <3>1, <3>2
  <2> QED BY <1>1, <2>1, <2>2 DEF AuthorsGrow
<1>4. SubmissionsIn(authors) \subseteq 1..Len(authors)
      /\ SubmissionsIn(authors') \subseteq 1..Len(authors')
  BY <1>1 DEF SubmissionsIn, AuthorsGrow
<1> QED BY <1>2, <1>3, <1>4

\* Every step leaves a last submission.
LEMMA NextHasLast == WorkInv /\ HasLast /\ [Next]_vars => HasLast'
<1> SUFFICES ASSUME WorkInv, HasLast, [Next]_vars, SubmissionsIn(authors') # {}
             PROVE  \E m \in SubmissionsIn(authors') : \A i \in SubmissionsIn(authors') : i <= m
  BY DEF HasLast
<1>1. /\ Len(authors) \in Nat /\ Len(authors') \in Nat
  BY AuthorsSteps DEF AuthorsGrow
<1>2. CASE SubmissionsIn(authors') \subseteq SubmissionsIn(authors)
  BY <1>2, SubmissionSteps DEF HasLast
<1>3. CASE \E i \in SubmissionsIn(authors') : i \notin SubmissionsIn(authors)
  <2>1. PICK i \in SubmissionsIn(authors') : i \notin SubmissionsIn(authors)
    BY <1>3
  <2>2. i = Len(authors')
    BY <2>1, SubmissionSteps
  <2>3. \A j \in SubmissionsIn(authors') : j <= i
    BY <1>1, <2>2, SubmissionSteps
  <2> QED BY <2>1, <2>3
<1> QED BY <1>2, <1>3

\* Max of the submissions is the last one.
LEMMA MaxIsLast ==
    ASSUME HasLast, SubmissionsIn(authors) # {}, SubmissionsIn(authors) \subseteq Nat
    PROVE  /\ Max(SubmissionsIn(authors)) \in SubmissionsIn(authors)
           /\ \A i \in SubmissionsIn(authors) : i <= Max(SubmissionsIn(authors))
<1>1. \E m \in SubmissionsIn(authors) : \A i \in SubmissionsIn(authors) : m >= i
  BY DEF HasLast
<1>2. /\ Max(SubmissionsIn(authors)) \in SubmissionsIn(authors)
      /\ \A i \in SubmissionsIn(authors) : Max(SubmissionsIn(authors)) >= i
  BY <1>1 DEF Max
<1> QED BY <1>2

\* A run goes on after a submission of its own only if another's followed.
LEMMA NextHidden == WorkInv /\ HasLast /\ Hidden /\ [Next]_vars => Hidden'
<1> SUFFICES ASSUME WorkInv, HasLast, Hidden, [Next]_vars, NEW r \in Runs,
                    run'[r].phase \in {"idle", "committing"},
                    NEW i \in SubmissionsIn(authors'), authors'[i].by \in ActionIdsOf(r)
             PROVE  \E k \in SubmissionsIn(authors') :
                       i < k /\ authors'[k].by \notin ActionIdsOf(r)
  BY DEF Hidden
<1>1. run \in [Runs -> [phase : RunPhases, view : Snapshots, action : Actions \cup {NoAction},
                        tries : 0..MaxTries, step : Nat]]
  BY DEF WorkInv, TypeOK
<1>2. ASSUME NEW q \in Runs, CommitAction(q)
      PROVE  q # r /\ run'[r] = run[r] /\ ActionId(q) \notin ActionIdsOf(r)
  <2>1. run' = [run EXCEPT ![q].phase = "committed"]
    BY <1>2 DEF CommitAction
  <2>2. q # r
    BY <1>1, <2>1
  <2>3. run'[r] = run[r]
    BY <1>1, <2>1, <2>2
  <2>4. ActionId(q) \notin ActionIdsOf(r)
    BY <2>2 DEF ActionId, ActionIdsOf
  <2> QED BY <2>2, <2>3, <2>4
<1>3. i \in SubmissionsIn(authors) /\ authors'[i] = authors[i]
  BY <1>2, SubmissionSteps
<1>4. CASE run[r].phase \in {"idle", "committing"}
  <2>1. PICK k \in SubmissionsIn(authors) : i < k /\ authors[k].by \notin ActionIdsOf(r)
    BY <1>3, <1>4 DEF Hidden
  <2>2. k \in SubmissionsIn(authors') /\ authors'[k] = authors[k]
    BY SubmissionSteps
  <2> QED BY <2>1, <2>2
<1>5. CASE NextStep(r)
  <2>1. ~LatestSubmissionIsOwn(r) /\ authors' = authors
    BY <1>1, <1>5 DEF NextStep
  <2>2. Len(authors) \in Nat
    BY AuthorsSteps DEF AuthorsGrow
  <2>3. SubmissionsIn(authors) \subseteq Nat
    BY <2>2, SubmissionSteps
  <2>4. PICK k : k = Max(SubmissionsIn(authors))
    OBVIOUS
  <2>5. k \in SubmissionsIn(authors) /\ i <= k
    BY <1>3, <2>3, <2>4, MaxIsLast
  <2>6. authors[k].by[1] # r
    BY <1>3, <2>1, <2>4 DEF LatestSubmissionIsOwn
  <2>7. authors[k].by \notin ActionIdsOf(r)
    BY <2>6 DEF ActionIdsOf
  <2>8. i # k
    BY <1>3, <2>7
  <2> QED BY <2>1, <2>3, <2>5, <2>7, <2>8, <1>3
<1>6. run[r].phase \in {"idle", "committing"} \/ NextStep(r)
  <2>1. ASSUME NEW q \in Runs, Decide(q) \/ CommitAction(q) \/ CommitRefused(q) \/ CommitStale(q)
                               \/ NextStep(q)
        PROVE  q = r \/ run'[r] = run[r]
    BY <2>1, RunSteps
  <2>2. \/ run'[r] = run[r] \/ Decide(r) \/ CommitAction(r) \/ CommitRefused(r) \/ CommitStale(r)
        \/ NextStep(r)
    BY <2>1, NormSteps DEF Next, vars, WorkerCommits, Finished
  <2> QED BY <2>2 DEF Decide, CommitAction, CommitRefused, CommitStale
<1> QED BY <1>4, <1>5, <1>6

\* However the runs interleave, a run that has submitted commits nothing more,
\* unless the submission of another run hides its own.
THEOREM SubmissionEnds == Spec => []SubmissionEndsRun
<1>1. Init => HasLast /\ Hidden /\ SubmissionEndsRun
  <2>1. Init => SubmissionsIn(authors) = {}
    BY DEF Init, SubmissionsIn
  <2> QED BY <2>1 DEF HasLast, Hidden, SubmissionEndsRun
<1>2. WorkInv /\ Hidden /\ SubmissionEndsRun /\ [Next]_vars => SubmissionEndsRun'
  <2> SUFFICES ASSUME WorkInv, Hidden, SubmissionEndsRun, [Next]_vars,
                      NEW i \in SubmissionsIn(authors'), NEW j \in DOMAIN authors',
                      NEW r \in Runs, i < j,
                      authors'[i].by \in ActionIdsOf(r), authors'[j].by \in ActionIdsOf(r)
               PROVE  \E k \in SubmissionsIn(authors') :
                         i < k /\ k < j /\ authors'[k].by \notin ActionIdsOf(r)
    BY DEF SubmissionEndsRun
  <2>1. AuthorsGrow
    BY AuthorsSteps
  <2>2. j \in 1..Len(authors') /\ i \in 1..Len(authors')
    BY <2>1, SubmissionSteps DEF AuthorsGrow
  <2>a. Len(authors) \in Nat /\ Len(authors') \in Nat /\ Len(authors) <= Len(authors')
    BY <2>1 DEF AuthorsGrow
  <2>3. i \in SubmissionsIn(authors) /\ authors'[i] = authors[i] /\ i \in 1..Len(authors)
    <3>1. i # Len(authors')
      BY <2>2, <2>a
    <3> QED BY <3>1, SubmissionSteps
  <2>4. CASE j \in 1..Len(authors)
    <3>1. j \in DOMAIN authors /\ authors'[j] = authors[j]
      BY <2>1, <2>4 DEF AuthorsGrow
    <3>2. PICK k \in SubmissionsIn(authors) :
             i < k /\ k < j /\ authors[k].by \notin ActionIdsOf(r)
      BY <2>3, <3>1 DEF SubmissionEndsRun
    <3>3. k \in SubmissionsIn(authors') /\ authors'[k] = authors[k]
      BY SubmissionSteps
    <3> QED BY <3>2, <3>3
  <2>5. CASE j > Len(authors)
    <3>1. PICK q \in Runs : CommitAction(q) /\ authors'[j].by = ActionId(q)
      BY <2>1, <2>2, <2>5, NotARun DEF AuthorsGrow
    <3>2. q = r
      BY <3>1 DEF ActionId, ActionIdsOf
    <3>3. run[r].phase = "committing"
      BY <3>1, <3>2 DEF CommitAction
    <3>4. PICK k \in SubmissionsIn(authors) : i < k /\ authors[k].by \notin ActionIdsOf(r)
      BY <2>3, <3>3 DEF Hidden
    <3>5. k \in SubmissionsIn(authors') /\ authors'[k] = authors[k] /\ k \in 1..Len(authors)
      BY SubmissionSteps
    <3>6. k < j
      BY <2>2, <2>5, <2>a, <3>5
    <3> QED BY <3>4, <3>5, <3>6
  <2>6. j \in 1..Len(authors) \/ j > Len(authors)
    BY <2>2, <2>a
  <2> QED BY <2>4, <2>5, <2>6
<1>3. Spec => [](WorkInv /\ HasLast /\ Hidden /\ SubmissionEndsRun)
  BY <1>1, <1>2, InitWork, NextWork, NextHasLast, NextHidden, PTL DEF Spec
<1> QED BY <1>3, PTL

-----------------------------------------------------------------------------
(* A normalization that commits is complete.                               *)

\* No policy adds a candidate under an id that the normalizer makes.
OwnCandidates ==
    \A r \in Runs : \A a \in Offered[r] : a.kind = "add_candidate" =>
        \A id \in InvocationIds : a.candidate # AutoCandidate(id)

\* Where no policy takes the ids of the normalizer, a normalization that commits
\* leaves no successful result without its candidate: the scan may see results
\* that came after the snapshot, but then the commit is refused.
THEOREM NormalizationComplete == ASSUME OwnCandidates PROVE Spec => NormalizationIsComplete
<1> DEFINE Complete ==
       (\E id \in InvocationIds : AutoCandidate(id) \in head'.candidates \ head.candidates)
       => \A id \in Succeeded(head') : AutoCandidate(id) \in head'.candidates
<1>1. WorkInv /\ [Next]_vars => Complete
  <2> SUFFICES ASSUME WorkInv, [Next]_vars PROVE Complete
    OBVIOUS
  <2>1. ASSUME NEW n \in Normalizers, NormalizeCommit(n) PROVE Complete
    <3>1. /\ norm[n].new = Missing(head)
          /\ head'.candidates = head.candidates \cup {AutoCandidate(id) : id \in norm[n].new}
          /\ head'["results"] = head["results"]
      BY <2>1, NormalizedHead DEF Fields
    <3>2. Succeeded(head') = Succeeded(head)
      BY <3>1 DEF Succeeded, ResultsOf
    <3> QED BY <3>1, <3>2 DEF Missing
  <2>2. ASSUME NEW r \in Runs, CommitAction(r) PROVE Complete
    <3>1. PICK now \in Times : LET e == Plan(run[r].action, ActionId(r), now) IN
             e \in Events /\ head' \in Reduce(head, e, now)
      BY <2>2, CommitActionEvent
    <3>2. run[r].action \in Actions /\ run[r].action \in Offered[r]
      BY <2>2, CommitActionEvent
    <3>3. PICK e \in Events : e = Plan(run[r].action, ActionId(r), now)
      BY <3>1
    <3>4. ByCause(head', head, e, now)
      BY <3>1, <3>3, ReduceChanges, SnapshotFields DEF AnyEvent, WorkInv, TypeOK
    <3>5. \/ head'.candidates = head.candidates
          \/ /\ head'.candidates = head.candidates \cup {e.id}
             /\ run[r].action.kind = "add_candidate" /\ e.id = run[r].action.candidate
      BY <3>2, <3>3, <3>4, PlanKinds DEF ByCause, CandidateAddedEffect
    <3> QED BY <3>2, <3>5 DEF OwnCandidates
  <2>3. ASSUME WorkerCommits PROVE Complete
    BY <2>3, WorkerKeeps
  <2> QED BY <2>1, <2>2, <2>3, HeadCauses
<1>2. WorkInv /\ [Next]_vars => [Complete]_vars
  BY <1>1
<1> HIDE DEF Complete
<1>3. Spec => [][Complete]_vars
  BY <1>2, InitWork, NextWork, PTL DEF Spec
<1> QED BY <1>3 DEF NormalizationIsComplete, Complete

=============================================================================
