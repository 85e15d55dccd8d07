------------------------------- MODULE Prompt --------------------------------
(***************************************************************************)
(* The prompts of a trajectory: the context compiler (module Context)      *)
(* applied to the snapshot at the head after every event (module Replay),  *)
(* as Runtime.step does before it asks the policy.                         *)
(***************************************************************************)
EXTENDS Replay, Context

\* Previews, when a configuration has them, have room for all candidates, or no
\* limit ([-0:] is all of them): the snapshots here keep no order of candidates.
ASSUME PromptAssumption ==
    \A w \in Workloads : \A c \in w.configs :
        /\ c \in [max : Nat, budget : [DOMAIN c.budget -> Nat], toolResults : Nat,
                  previews : BOOLEAN, maxPreviews : Nat]
        /\ DOMAIN c.budget \subseteq SectionKinds
        /\ c.previews => c.maxPreviews = 0 \/ Cardinality(CandidateIds) <= c.maxPreviews

\* The segments of a packet without the retrieval handles, as a set.
Shown(packet) ==
    {seg \in {packet.segments[i] : i \in DOMAIN packet.segments} :
        seg.kind # "retrieval_handles"}

\* A packet fits the global budget, and what the budget costs is the bottom of
\* the order of priorities and no more: a segment its section can afford is
\* shown exactly if it fits together with all that comes before it by priority,
\* earlier ones first among equals (_allocate_tokens, _add_retrieval_handles).
EvictsFromTheBottom ==
    \A c \in workload.configs :
        LET packet == CompileContext(head, c)
            all == CollectSegments(head, c)
            affordable == WithinSections(all, c)
            Rank(i) == Priority(all[i].kind)
            UpTo(i) == {j \in affordable :
                           Rank(j) > Rank(i) \/ (Rank(j) = Rank(i) /\ j <= i)}
            Cost(i) == TokensAt(all, UpTo(i))
        IN /\ packet.total <= c.max
           /\ Shown(packet) = {all[i] : i \in {j \in affordable : Cost(j) <= c.max}}

\* Nothing is lost silently: every curated item and every tool result is in the
\* prompt or has a retrieval handle there, unless the handles themselves do not
\* fit (_add_retrieval_handles; results older than max_tool_results, sections
\* over their budget and evicted segments all count as omitted).
NothingSilentlyLost ==
    \A c \in workload.configs :
        LET packet == CompileContext(head, c)
            missing == Retrievable(head) \ SourcesOf(packet.segments)
            handles == 1 + Cardinality(missing)
        IN missing # {} =>
              \/ packet.total + handles > c.max
              \/ /\ "retrieval_handles" \in DOMAIN c.budget
                 /\ handles > c.budget["retrieval_handles"]

\* The sections a prompt begins with.
Leading(segments) ==
    At(segments, {i \in DOMAIN segments :
                     segments[i].kind \in {"task_constraints", "plan", "verified_evidence"}})

\* The head of the prompt, which the KV cache keeps, is stable: an event that
\* changes neither the tasks, the tool-call counter nor the verified evidence
\* leaves all the segments of these that were shown reusable, whatever
\* candidates, evidence, claims and results it adds and however full the
\* budget is (_collect_segments, _allocate_tokens, compute_epoch).
StablePrefixKept ==
    [][ \A c \in workload.configs :
           LET before == CompileContext(head, c)
               after == CompileContext(head', c)
           IN Leading(CollectSegments(head, c)) = Leading(CollectSegments(head', c))
              => CommonPrefixTokens(before, after) >= TokensOf(Leading(before.segments)) ]_vars
=============================================================================
