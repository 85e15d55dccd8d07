------------------------------- MODULE Replay -------------------------------
(***************************************************************************)
(* One log of events and two reductions of it: the snapshot the committing *)
(* store holds (head), and the one that another store, or the same store   *)
(* after a restart, rebuilds event by event (replica).                     *)
(* SQLiteEventStore.replay and _load_trajectory_head (store.py).           *)
(***************************************************************************)
EXTENDS Reducer

CONSTANTS
    Workloads    \* what the clients do, one of:
                 \*   events    the events they may commit
                 \*   replayed  whether the log is replayed too
                 \*   length    bound on the length of the log
                 \*   configs   what a prompt is compiled with (module Prompt)

VARIABLES
    workload,    \* the workload of this behaviour
    events,      \* the committed events, while a replica needs them
    head,        \* the snapshot of the committing store
    replica,     \* the snapshot rebuilt so far
    clock        \* the wall clock

vars == <<workload, events, head, replica, clock>>

ASSUME ReplayAssumption ==
    /\ Times = 0..1
    /\ \A w \in Workloads :
          w.events \subseteq Events /\ w.replayed \in BOOLEAN /\ w.length \in Nat

TypeOK ==
    /\ workload \in Workloads
    /\ events \in Seq(Events \cup CheckpointEvents)
    /\ head \in Snapshots
    /\ replica \in Snapshots
    /\ clock \in Times
    /\ events # <<>> => Len(events) = head.sequence
    /\ replica.sequence <= head.sequence

Init ==
    /\ workload \in Workloads
    /\ events = <<>>
    /\ \E epoch \in Epochs : head = Genesis(epoch)
    /\ replica = head
    /\ clock = 0

\* The committing store reduces an event; if that succeeds the event is stored.
CommitOf(e) ==
    /\ head.sequence < workload.length
    /\ head' \in Reduce(head, e, clock)
    /\ events' = IF workload.replayed THEN Append(events, e) ELSE events
    /\ UNCHANGED <<workload, replica, clock>>

Commit == \E e \in workload.events : CommitOf(e)

\* A client checkpoints the snapshot it has rebuilt.
Checkpoint ==
    /\ workload.replayed
    /\ CommitOf([kind |-> "snapshot_checkpointed", named |-> replica])

Mutant_ReplayNext_NewestFirst ==
    /\ workload.replayed /\ replica.sequence < Len(events)
    /\ replica' \in Reduce(replica, events[Len(events) - replica.sequence], clock)
    /\ UNCHANGED <<workload, events, head, clock>>

\* One more event of the log is replayed.
ReplayNext ==
    /\ workload.replayed /\ replica.sequence < Len(events)
    /\ replica' \in Reduce(replica, events[replica.sequence + 1], clock)
    /\ UNCHANGED <<workload, events, head, clock>>

Tick ==
    /\ workload.replayed /\ clock < 1
    /\ clock' = clock + 1
    /\ UNCHANGED <<workload, events, head, replica>>

Next == Commit \/ Checkpoint \/ ReplayNext \/ Tick

Spec == Init /\ [][Next]_vars

-----------------------------------------------------------------------------

\* However evidence is curated, linked, verified, revised and pruned, the claims
\* and the links of a snapshot keep indexing each other (_handle_evidence_linked,
\* _handle_claim_revised).
ClaimIndexConsistent == ClaimsListTheirLinks(head)

\* A link verified twice shows the later verdict, with the record that gave it
\* (_handle_evidence_verified).
VerdictsCurrent == LinksShowLastVerdict(head)

\* Nothing semantic is ever forgotten: only a prune removes anything, and only
\* curated items; claims, links, verdicts, tasks, results and submissions stay,
\* and a completed task stays completed (_handle_context_pruned).
HistoryIsKept ==
    [][ /\ head.candidates \subseteq head'.candidates
        /\ Ids(head.claims) \subseteq Ids(head'.claims)
        /\ Ids(head.links) \subseteq Ids(head'.links)
        /\ IsPrefixOf(head.records, head'.records)
        /\ \A t \in head.tasks : \E u \in head'.tasks :
              /\ u.id = t.id /\ u.parent = t.parent /\ u.dependencies = t.dependencies
              /\ t.status = "completed" => u.status = "completed"
        /\ IsPrefixOf(head.results, head'.results)
        /\ IsPrefixOf(head.submissions, head'.submissions)
        /\ \/ head.curated \subseteq head'.curated
           \/ \E e \in workload.events :
                 /\ e.kind = "context_pruned"
                 /\ Ids(head'.curated) = e.retained
                 /\ head'.curated \subseteq head.curated
                 /\ head'.epoch = e.epoch ]_vars

\* "The same snapshot and event always produce the same resulting snapshot"
\* (reducer.py 63-64): a store that has replayed the whole log holds the
\* snapshot the committing store holds.
ReplayReproducesHead == replica.sequence = head.sequence => replica = head
=============================================================================
