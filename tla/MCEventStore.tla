---------------------------- MODULE MCEventStore ----------------------------
(***************************************************************************)
(* Small instances of EventStore for TLC.  A behaviour has a cast: the     *)
(* threads that are at work in it.                                         *)
(***************************************************************************)
EXTENDS EventStore, TLC

CONSTANTS tr1, tr2, t1, t2, t3, t4, t5, s1, s2, s3, key,
          Casts     \* the sets of threads that may be at work together

VARIABLE cast

MCInit == Init /\ cast \in Casts

\* The others do nothing.
Idle(t) == UNCHANGED <<pc[t], view[t], answer[t]>>

MCNext == Next /\ UNCHANGED cast /\ \A t \in Threads \ cast : Idle(t)

MCSpec == MCInit /\ [][MCNext]_<<vars, cast>>

\* The fairness of the store's threads.  It is about every thread, so that it
\* goes with Casts = {Threads}.
MCFairSpec == MCSpec /\ Fairness

P(k, r) == [key |-> k, request |-> r]

\* t1 and t2 use one store object; t3, t4 and t5 have a process each.
StoresOfThreads == [t \in Threads |-> CASE t \in {t1, t2, t3} -> s1 [] t = t4 -> s2 [] t = t5 -> s3]

Unsigned == [s \in Stores |-> NoKey]
SignedByThird == [s \in Stores |-> IF s = s3 THEN key ELSE NoKey]
AllSigned == [s \in Stores |-> key]

\* Races between a batch of two, a retry of its first half, another request
\* under the same key, a repetition within a batch and a refused request; and
\* between processes, a request that two have in common and others that one
\* makes.
RacingJobs ==
    t1 :> { <<P("a", "x"), P("b", "x")>>, <<P("a", "x")>> } @@
    t2 :> { <<P("a", "y")>>, <<P("b", "x"), P("b", "x")>>,
            <<P("c", "x"), P("b", "bad")>>, <<P("a", "x"), P("a", "y")>> } @@
    t3 :> { <<P("a", "x")>>, <<P("b", "x")>> } @@
    t4 :> { <<P("a", "x")>> } @@
    t5 :> { <<P("c", "x")>> }

\* Keys that no two threads share.
DisjointJobs ==
    t1 :> { <<P("a", "x")>> } @@ t2 :> { <<P("b", "x"), P("c", "x")>> }

\* Two threads that submit the same request, as two normalizers do.
SameJob == t1 :> { <<P("a", "x")>> } @@ t2 :> { <<P("a", "x")>> }
=============================================================================
