------------------------------- MODULE Context -------------------------------
(***************************************************************************)
(* The context compiler of src/rfsn_agent/context.py: which parts of a     *)
(* snapshot the model is shown, within a token budget, and how much of the *)
(* previous prompt the KV cache can use again.                             *)
(*                                                                         *)
(* A segment is its kind, its content (what its lines say), the number of  *)
(* tokens and the ids it names as its sources. The text of an item and of  *)
(* a task never changes, so that a line is the records it is made of; the  *)
(* text of a claim may, and is in its line. The token counter is injected  *)
(* into the code; here a heading is one token and a line is TokensOfLine.  *)
(* Deduplication by content is left out: no two segments have the same     *)
(* heading. So are the roles and the rendering to one string.              *)
(***************************************************************************)
EXTENDS Reducer, Subsequences

SectionKinds == {"task_constraints", "plan", "verified_evidence", "contradiction_notes",
                 "active_evidence", "tool_results", "retrieval_handles", "candidate_previews"}

\* CompilerConfig: the global budget, the budgets of the sections that have
\* one, max_tool_results, include_candidate_previews, max_candidate_previews.
ContextConfigs == [max : Nat,
                   budget : UNION {[kinds -> Nat] : kinds \in SUBSET SectionKinds},
                   toolResults : Nat,
                   previews : BOOLEAN,
                   maxPreviews : Nat]

\* The defaults of CompilerConfig.
Priority(kind) ==
    CASE kind = "task_constraints"    -> 100
      [] kind = "plan"                -> 95
      [] kind = "verified_evidence"   -> 90
      [] kind = "contradiction_notes" -> 85
      [] kind = "active_evidence"     -> 80
      [] kind = "tool_results"        -> 70
      [] kind = "retrieval_handles"   -> 60
      [] kind = "candidate_previews"  -> 40

\* Items and results bring their text along, the others are one line each.
TokensOfLine(kind) ==
    IF kind \in {"verified_evidence", "active_evidence", "tool_results"} THEN 2 ELSE 1

\* ContextSegment.create and with_token_count.  A segment without lines is
\* not made at all.
Segment(kind, content, lines, sources) ==
    IF lines = 0 THEN <<>>
    ELSE << [kind |-> kind, content |-> <<kind, content>>,
             tokens |-> 1 + TokensOfLine(kind) * lines, sources |-> sources] >>

\* The tokens of the segments at some positions.
TokensAt(segments, positions) ==
    LET sum[n \in 0..Len(segments)] ==
            IF n = 0 THEN 0
            ELSE IF n \in positions THEN sum[n - 1] + segments[n].tokens ELSE sum[n - 1]
    IN sum[Len(segments)]

TokensOf(segments) == TokensAt(segments, DOMAIN segments)

-----------------------------------------------------------------------------
(* _collect_segments                                                       *)

\* The line of the budget counts as the heading; init_trajectory gives every
\* trajectory a budget (store.py 283-288), so that the segment is always there.
TaskConstraints(s) ==
    << [kind |-> "task_constraints", content |-> <<"task_constraints", <<s.toolCalls, s.tasks>> >>,
        tokens |-> 1 + Cardinality(s.tasks), sources |-> {}] >>

\* _plan_segment: the tasks that are still pending
PlanSegment(s) ==
    LET unresolved == Ids({t \in s.tasks : t.status = "pending"})
    IN Segment("plan", unresolved, Cardinality(unresolved), {})

\* _verified_curated_item_ids
VerifiedItemIds(s) ==
    {l.item : l \in {k \in s.links : /\ k.relationship = "supports"
                                     /\ \E c \in s.claims : c.id = k.claim
                                                            /\ c.status = "verified"}}

VerifiedEvidence(s) ==
    LET items == {c \in s.curated : c.id \in VerifiedItemIds(s)}
    IN Segment("verified_evidence", items, Cardinality(items), Ids(items))

ActiveEvidence(s) ==
    LET items == {c \in s.curated : c.id \notin VerifiedItemIds(s)}
    IN Segment("active_evidence", items, Cardinality(items), Ids(items))

\* _contradiction_segments: a link outlives its item, which is then "unknown
\* evidence"; the withdrawn claims are a second segment of the same kind.
ContradictionSegments(s) ==
    LET contradicting == {l \in s.links : l.relationship = "contradicts"}
        said(claims) == {<<c.id, c.text>> : c \in claims}
        notes == {[link |-> l.id,
                   claim |-> said({c \in s.claims : c.id = l.claim}),
                   item |-> IF l.item \in Ids(s.curated) THEN l.item ELSE NoId] :
                  l \in contradicting}
        withdrawn == said({c \in s.claims : c.status = "withdrawn"})
    IN Segment("contradiction_notes", <<"contradictions", notes>>, Cardinality(notes), {})
       \o Segment("contradiction_notes", <<"withdrawn", withdrawn>>, Cardinality(withdrawn), {})

\* The last max_tool_results of them; [-0:] is all of them.
ToolResultsSegment(s, c) ==
    LET n == Len(s.results)
        recent == IF c.toolResults = 0 \/ c.toolResults >= n THEN s.results
                  ELSE SubSeq(s.results, n - c.toolResults + 1, n)
    IN Segment("tool_results", recent, Len(recent), {recent[i].id : i \in DOMAIN recent})

\* All of them: PromptAssumption lets the last max_candidate_previews be all.
CandidatePreviews(s, c) ==
    IF c.previews
    THEN Segment("candidate_previews", s.candidates, Cardinality(s.candidates), s.candidates)
    ELSE <<>>

Mutant_CollectSegments_ResultsFirst(s, c) ==
    ToolResultsSegment(s, c) \o TaskConstraints(s) \o PlanSegment(s) \o VerifiedEvidence(s)
    \o ActiveEvidence(s) \o ContradictionSegments(s) \o CandidatePreviews(s, c)

CollectSegments(s, c) ==
    TaskConstraints(s) \o PlanSegment(s) \o VerifiedEvidence(s) \o ActiveEvidence(s)
    \o ContradictionSegments(s) \o ToolResultsSegment(s, c) \o CandidatePreviews(s, c)

-----------------------------------------------------------------------------
(* _allocate_tokens                                                        *)

\* The positions of the segments that are kept: the budget of a section lasts
\* for those before and this one.
WithinSections(segments, c) ==
    LET kept[n \in 0..Len(segments)] ==
            IF n = 0 THEN {}
            ELSE LET before == kept[n - 1]
                     kind == segments[n].kind
                     used == TokensAt(segments, {i \in before : segments[i].kind = kind})
                 IN IF kind \in DOMAIN c.budget
                       /\ used + segments[n].tokens > c.budget[kind]
                    THEN before
                    ELSE before \cup {n}
    IN kept[Len(segments)]

\* The order of eviction: the lowest priority first, of equals the last one.
GoesFirst(segments, i, j) ==
    \/ Priority(segments[i].kind) < Priority(segments[j].kind)
    \/ Priority(segments[i].kind) = Priority(segments[j].kind) /\ i > j

Mutant_Evicted_OneTooMany(segments, kept, c) ==
    LET gone[n \in 0..Len(segments)] ==
            IF n = 0 THEN {}
            ELSE LET before == gone[n - 1]
                     left == kept \ before
                 IN IF TokensAt(segments, left) < c.max THEN before
                    ELSE before \cup {i \in left :
                                        \A j \in left \ {i} : GoesFirst(segments, i, j)}
    IN gone[Len(segments)]

\* One segment after the other goes until the rest fits.
Evicted(segments, kept, c) ==
    LET gone[n \in 0..Len(segments)] ==
            IF n = 0 THEN {}
            ELSE LET before == gone[n - 1]
                     left == kept \ before
                 IN IF TokensAt(segments, left) <= c.max THEN before
                    ELSE before \cup {i \in left :
                                        \A j \in left \ {i} : GoesFirst(segments, i, j)}
    IN gone[Len(segments)]

\* What is left, in the original order.
AllocateTokens(segments, c) ==
    LET kept == WithinSections(segments, c)
    IN At(segments, kept \ Evicted(segments, kept, c))

-----------------------------------------------------------------------------
(* _add_retrieval_handles, compile_context, compute_epoch                  *)

SourcesOf(segments) == UNION {segments[i].sources : i \in DOMAIN segments}

\* What can be fetched again: the curated items and all the tool results.
Retrievable(s) == Ids(s.curated) \cup Ids(ResultsOf(s))

Mutant_AddRetrievalHandles_Recent(segments, s, c) ==
    LET omitted == (Ids(s.curated) \cup SourcesOf(ToolResultsSegment(s, c)))
                   \ SourcesOf(segments)
        handle == Segment("retrieval_handles", omitted, Cardinality(omitted), omitted)
        size == TokensOf(handle)
    IN IF \/ "retrieval_handles" \in DOMAIN c.budget /\ size > c.budget["retrieval_handles"]
          \/ TokensOf(segments) + size > c.max
       THEN segments
       ELSE segments \o handle

\* Handles for all of the material that is not shown, or for none of it.
AddRetrievalHandles(segments, s, c) ==
    LET omitted == Retrievable(s) \ SourcesOf(segments)
        handle == Segment("retrieval_handles", omitted, Cardinality(omitted), omitted)
        size == TokensOf(handle)
    IN IF \/ "retrieval_handles" \in DOMAIN c.budget /\ size > c.budget["retrieval_handles"]
          \/ TokensOf(segments) + size > c.max
       THEN segments
       ELSE segments \o handle

\* DefaultContextSelector.select
SelectedSegments(s, c) == AddRetrievalHandles(AllocateTokens(CollectSegments(s, c), c), s, c)

\* compile_context
CompileContext(s, c) ==
    LET segments == SelectedSegments(s, c) IN
    [epoch |-> s.epoch, sequence |-> s.sequence, segments |-> segments,
     total |-> TokensOf(segments)]

\* compute_epoch: the tokens of the leading segments that are the same.
CommonPrefixTokens(previous, current) ==
    LET Same(i) == /\ i \in DOMAIN previous.segments
                   /\ previous.segments[i].content = current.segments[i].content
    IN TokensAt(current.segments,
                {n \in DOMAIN current.segments : \A i \in 1..n : Same(i)})
=============================================================================
