----------------------------- MODULE MCRuntime -----------------------------
(***************************************************************************)
(* A small instance of Runtime for TLC.                                    *)
(***************************************************************************)
EXTENDS Runtime, TLC

CONSTANTS c1, r1, r2, r3, r4, n1, n2

\* r1 goes through chains of actions on its own; r2 and r3 race; r4 searches
\* while two normalizers are at work.
TheSessions == {{r1}, {r2, r3}, {r4, n1, n2}}

Steps == r1 :> 6 @@ r2 :> 2 @@ r3 :> 2 @@ r4 :> 2

RunTools == UNION {{r} \X (0..Steps[r] - 1) : r \in Runs}

\* The candidate r1 adds, and those that searches turn into.
SomeCandidates == {c1} \cup {<<"auto-cand", id>> : id \in RunTools}

\* Tools and submissions: two runs race for one tool call.
RaceActions ==
    [kind : {"tool"}, tool : Tools, safe : BOOLEAN]
    \cup [kind : {"submit"}, submission : SubmissionIds, filled : BOOLEAN]

\* The chain of evidence, with every precondition that can fail.
ChainActions ==
    [kind : {"add_candidate"}, candidate : {c1}]
    \cup [kind : {"curate"}, item : ItemIds, candidates : {{c1}}]
    \cup [kind : {"discard"}, candidates : {{c1}}]
    \cup [kind : {"create_claim"}, claim : ClaimIds]
    \cup [kind : {"link"}, link : LinkIds, claim : ClaimIds, item : ItemIds,
          relationship : {"supports"}, wellFormed : BOOLEAN]
    \cup [kind : {"verify"}, link : LinkIds, record : RecordIds, result : {"confirmed"}]
    \cup [kind : {"revise"}, claim : ClaimIds, text : {"reworded", NoId},
       status : {"verified", NoId}]
    \cup [kind : {"prune"}, retained : SUBSET ItemIds, epoch : Epochs]
    \cup [kind : {"decompose"}, task : TaskIds, parent : {NoId}, dependencies : {{}}]
    \cup [kind : {"submit"}, submission : {"b1"}, filled : BOOLEAN]

\* Searches only: what the normalizer is for.
SearchActions == [kind : {"tool"}, tool : Tools, safe : {TRUE}] \cup [kind : {"request_context"}]

Policies == r1 :> ChainActions @@ r2 :> RaceActions @@ r3 :> RaceActions @@ r4 :> SearchActions
=============================================================================
