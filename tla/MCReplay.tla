------------------------------ MODULE MCReplay ------------------------------
(***************************************************************************)
(* Small instances of Replay, and of Prompt, for TLC.                      *)
(***************************************************************************)
EXTENDS Prompt, TLC

OfKinds(kinds) == {e \in Events : e.kind \in kinds}

EvidenceKinds == {"candidate_added", "evidence_curated", "claim_created", "claim_revised",
                  "evidence_linked", "evidence_verified", "context_pruned"}

\* Two outcomes of a verification and one of a revision are enough to tell
\* which verdict a link shows and whether a revision keeps the links.
EvidenceEvents ==
    {e \in OfKinds(EvidenceKinds) :
        /\ e.kind = "claim_created" => e.createdAt = 0
        /\ e.kind = "claim_revised" => e.status = "verified" /\ e.text = NoId
        /\ e.kind = "evidence_curated" => e.id = "m1"
        /\ e.kind = "evidence_linked" => e.item = "m1" /\ e.relationship = "supports"
        /\ e.kind = "context_pruned" => e.retained \subseteq {"m1"}
        /\ e.kind = "evidence_verified" => e.result # "inconclusive"}

WorkEvents == OfKinds({"action_committed", "tool_invoked", "tool_result_received",
                       "task_decomposed", "task_completed", "submission_recorded"})

ClaimEvents == OfKinds({"claim_created", "claim_revised"})

\* For prompts: two items, of which one supports a claim and one contradicts
\* it, two tool calls that succeed, and a task.
PromptEvents ==
    {e \in OfKinds({"candidate_added", "evidence_curated", "claim_created", "claim_revised",
                    "evidence_linked", "context_pruned", "tool_invoked",
                    "tool_result_received", "task_decomposed", "task_completed"}) :
        /\ e.kind = "evidence_curated" => e.candidates = {"c1"}
        /\ e.kind = "claim_created" => e.createdAt = 0
        /\ e.kind = "claim_revised" =>
              <<e.text, e.status>> \in {<<NoId, "verified">>, <<NoId, "withdrawn">>,
                                        <<"reworded", NoId>>}
        /\ e.kind = "evidence_linked" =>
              <<e.id, e.item, e.relationship>> \in {<<"l1", "m1", "supports">>,
                                                    <<"l2", "m2", "contradicts">>}
        /\ e.kind = "context_pruned" => e.epoch = "e1" /\ e.retained # {"m1", "m2"}
        /\ e.kind = "tool_result_received" => e.status = "success"
        /\ e.kind = "task_decomposed" => e.parent = NoId /\ e.dependencies = {}}

\* Budgets that are exceeded by everything, by little, in one section, never.
PromptConfigs ==
    {[max |-> 6, budget |-> <<>>, toolResults |-> 0, previews |-> TRUE, maxPreviews |-> 3],
     [max |-> 9, budget |-> <<>>, toolResults |-> 1, previews |-> TRUE, maxPreviews |-> 3],
     [max |-> 12, budget |-> "verified_evidence" :> 3 @@ "contradiction_notes" :> 2
                             @@ "retrieval_handles" :> 2,
      toolResults |-> 1, previews |-> FALSE, maxPreviews |-> 3],
     [max |-> 30, budget |-> "active_evidence" :> 3, toolResults |-> 1, previews |-> TRUE, maxPreviews |-> 3]}

Workload(offered, replayed, length, configs) ==
    [events |-> offered, replayed |-> replayed, length |-> length, configs |-> configs]

\* Work is replayed; evidence, whose preconditions chain, needs the longer log.
Histories == {Workload(WorkEvents, TRUE, 5, {}), Workload(EvidenceEvents, FALSE, 8, {}),
              Workload(PromptEvents, FALSE, 10, PromptConfigs)}

ClaimHistories == {Workload(ClaimEvents, TRUE, 2, {})}
=============================================================================
