--------------------------- MODULE TrajectoryLog ----------------------------
(***************************************************************************)
(* What the event store promises, with no transactions, caches or          *)
(* checkpoints: one history of requests per trajectory, which grows by     *)
(* whole batches of requests whose idempotency keys are new, each appended *)
(* by a client that has observed the entire history it extends.            *)
(***************************************************************************)
EXTENDS Integers, Sequences, FiniteSets

CONSTANTS
    Trajectories, Clients, Keys, Requests,
    Batches   \* the batches a client may submit

VARIABLES
    history,  \* the requests of each trajectory, in order
    basis     \* the prefix a client has observed last, as a set of at most one

vars == <<history, basis>>

Proposal == [key : Keys, request : Requests]

Observation(tr, n) == [trajectory |-> tr, length |-> n]

Init ==
    /\ history = [tr \in Trajectories |-> <<>>]
    /\ basis = [c \in Clients |-> {}]

NewKeys(old, new) ==
    /\ SubSeq(new, 1, Len(old)) = old
    /\ Len(new) > Len(old)
    /\ \A i \in (Len(old) + 1)..Len(new) : \A j \in 1..(i - 1) : new[i].key # new[j].key

Contents(proposals) == {proposals[i] : i \in DOMAIN proposals}

\* All of a batch is added, each request once, and nothing besides.
IsWhole(old, new, batch) ==
    Contents(SubSeq(new, Len(old) + 1, Len(new))) = Contents(batch)

\* A client that knows the whole history extends it by one of its batches.
AppendBatch(c, tr) ==
    /\ basis[c] = {Observation(tr, Len(history[tr]))}
    /\ history'[tr] \in Seq(Proposal)
    /\ NewKeys(history[tr], history'[tr])
    /\ \E b \in Batches[c] : IsWhole(history[tr], history'[tr], b)
    /\ history' = [history EXCEPT ![tr] = history'[tr]]
    /\ UNCHANGED basis

\* Clients look at the histories, or lose what they knew.
Observe ==
    /\ UNCHANGED history
    /\ DOMAIN basis' = Clients
    /\ \A c \in Clients :
          \/ basis'[c] = basis[c]
          \/ basis'[c] = {}
          \/ \E tr \in Trajectories : \E n \in 0..Len(history[tr]) :
                basis'[c] = {Observation(tr, n)}

Next == Observe \/ \E c \in Clients, tr \in Trajectories : AppendBatch(c, tr)

Spec == Init /\ [][Next]_vars
=============================================================================
