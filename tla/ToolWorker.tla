----------------------------- MODULE ToolWorker -----------------------------
(***************************************************************************)
(* ToolWorker (src/rfsn_agent/tool_worker.py): asyncio tasks that execute  *)
(* the pending tool invocations of one trajectory and commit their results *)
(* to the event store, while a policy commits further invocations.         *)
(*                                                                         *)
(* A pass is one task that runs _process_trajectory over and over (a poll  *)
(* loop, or a caller of process_pending).  It reads a snapshot, gathers    *)
(* one child task per pending invocation, reads again, commits the results *)
(* against the second snapshot and releases the leases.  What runs between *)
(* two awaits is one action.  The claim lock is never held across an await *)
(* and so adds none.                                                       *)
(*                                                                         *)
(* The store is the one of module EventStore, seen from here: the log of   *)
(* the trajectory, a snapshot as the length of the prefix it was reduced   *)
(* from, one unvalidated cache per store object, and commit_events up to   *)
(* its COMMIT as one action; the cache is dropped after that.              *)
(***************************************************************************)
EXTENDS Integers, Sequences, FiniteSets

CONSTANTS
    Invocations,     \* invocation ids
    DependsOn,       \* dependency_ids of each
    Refused,         \* invocations the security profile refuses
    Deadlined,       \* invocations whose deadline may pass
    Successes,       \* contents a tool may return
    Preloaded,       \* invocations in the log when the workers start, in order
    PolicyStore,     \* the store object of the policy
    Stores,          \* SQLiteEventStore objects
    Workers,         \* ToolWorker objects
    StoreOf,         \* the store object of a worker
    Passes,          \* tasks that run _process_trajectory
    Sessions,        \* the sets of passes that are started together
    WorkerOf,        \* the worker a pass runs for
    Stoppable,       \* passes that stop() may cancel
    MaxDetached,     \* bound on the commits that outlive their pass at a time
    NoPass

ASSUME WorkerAssumption ==
    /\ IsFiniteSet(Invocations)
    /\ DependsOn \in [Invocations -> SUBSET Invocations]
    /\ Refused \subseteq Invocations
    /\ Deadlined \subseteq Invocations
    /\ Preloaded \in Seq(Invocations)
    /\ PolicyStore \in Stores
    /\ StoreOf \in [Workers -> Stores]
    /\ WorkerOf \in [Passes -> Workers]
    /\ Sessions \subseteq SUBSET Passes
    /\ Stoppable \subseteq Passes
    /\ MaxDetached \in Nat
    /\ NoPass \notin Passes
    /\ Successes \cap {"failed", "refused", "late", "invoked", "none", "ready",
                       "reread", "run", "skipped"} = {}

\* What a tool result says: its content, which fixes its status.
Outcomes == Successes \cup {"failed", "refused", "late"}

StatusOf(o) ==
    CASE o \in Successes -> "success"
      [] o = "late" -> "timeout"
      [] OTHER -> "failure"

\* An event of the trajectory: a tool_invoked, or a tool_result_received.
Entry == [id : Invocations, outcome : Outcomes \cup {"invoked"}]

NoView == -1

VARIABLES
    log,       \* the committed events
    cache,     \* _snapshot_cache of each store object
    locked,    \* a connection was left inside a transaction
    policy,    \* whether the policy still has to drop the cache after a commit
    late,      \* invocations whose deadline has passed
    leases,    \* _lease_owners of each worker
    pc,        \* where a pass is
    base,      \* the snapshot it has read last
    task,      \* the child task of each invocation, and what it returned
    batch,     \* the invocations whose results it commits
    loaded,    \* a snapshot loaded in a thread, not yet offered to the cache
    detached   \* commits whose pass was cancelled: their threads go on

storeVars == <<log, cache, locked, policy>>
passVars  == <<pc, base, task, batch, loaded>>
vars == <<storeVars, late, leases, passVars, detached>>

\* The two readers of a pass: the pass itself, and its children.
Readers == Invocations \cup {"self"}

TaskStates == {"none", "ready", "reread", "run", "skipped"} \cup Outcomes

DetachedCommits == [store : Stores, base : Nat, results : SUBSET Entry]

TypeOK ==
    /\ log \in Seq(Entry)
    /\ cache \in [Stores -> Nat \cup {NoView}]
    /\ locked \in BOOLEAN
    /\ policy \in {"idle", "invalidate"}
    /\ late \subseteq Deadlined
    /\ leases \in [Workers -> [Invocations -> Passes \cup {NoPass}]]
    /\ pc \in [Passes -> {"off", "idle", "first", "gather", "commit", "invalidate"}]
    /\ base \in [Passes -> Nat]
    /\ task \in [Passes -> [Invocations -> TaskStates]]
    /\ batch \in [Passes -> SUBSET Invocations]
    /\ loaded \in [Passes -> [Readers -> Nat \cup {NoView}]]
    /\ detached \subseteq DetachedCommits

Init ==
    /\ log = [k \in DOMAIN Preloaded |-> [id |-> Preloaded[k], outcome |-> "invoked"]]
    /\ cache = [s \in Stores |-> NoView]
    /\ locked = FALSE
    /\ policy = "idle"
    /\ late = {}
    /\ leases = [w \in Workers |-> [i \in Invocations |-> NoPass]]
    /\ \E session \in Sessions :
          pc = [p \in Passes |-> IF p \in session THEN "idle" ELSE "off"]
    /\ base = [p \in Passes |-> 0]
    /\ task = [p \in Passes |-> [i \in Invocations |-> "none"]]
    /\ batch = [p \in Passes |-> {}]
    /\ loaded = [p \in Passes |-> [r \in Readers |-> NoView]]
    /\ detached = {}

-----------------------------------------------------------------------------
(* Snapshots: what the prefix of length n shows.                           *)

Results(n) == {log[k] : k \in {j \in 1..n : log[j].outcome # "invoked"}}

Invoked(n) == {log[k].id : k \in {j \in 1..n : log[j].outcome = "invoked"}}

Completed(n) == {r.id : r \in Results(n)}

\* _find_pending_invocations
Pending(n) == Invoked(n) \ Completed(n)

Succeeded(n) == {r.id : r \in {q \in Results(n) : q.outcome \in Successes}}

-----------------------------------------------------------------------------
(* _get_latest_snapshot_thread_safe, called in a thread.                   *)

StoreFor(p) == StoreOf[WorkerOf[p]]

\* Whether reader r of pass p is waiting for a snapshot.
AtRead(p, r) ==
    IF r = "self"
    THEN \/ pc[p] = "first"
         \/ pc[p] = "gather" /\ \A i \in Invocations : task[p][i] \notin {"ready", "reread", "run"}
    ELSE pc[p] = "gather" /\ task[p][r] = "reread"

\* Nothing is cached: the snapshot is loaded from the database.
Load(p, r) ==
    /\ AtRead(p, r)
    /\ cache[StoreFor(p)] = NoView /\ loaded[p][r] = NoView
    /\ loaded' = [loaded EXCEPT ![p][r] = Len(log)]
    /\ UNCHANGED <<storeVars, late, leases, pc, base, task, batch, detached>>

\* A loaded snapshot is cached whatever was committed meanwhile.
Offer(p, r) == cache' = [cache EXCEPT ![StoreFor(p)] = loaded[p][r]]

\* The read ends with snapshot n: a cached one as it is, or the loaded one.
Obtain(p, r, n) ==
    /\ AtRead(p, r)
    /\ \/ /\ loaded[p][r] = NoView /\ n = cache[StoreFor(p)]
          /\ UNCHANGED <<cache, loaded>>
       \/ /\ n = loaded[p][r]
          /\ Offer(p, r)
          /\ loaded' = [loaded EXCEPT ![p][r] = NoView]
    /\ n # NoView

\* The thread of a read whose task was cancelled: it fills the cache all the same.
LateOffer(p, r) ==
    /\ ~ AtRead(p, r) /\ loaded[p][r] # NoView
    /\ Offer(p, r)
    /\ loaded' = [loaded EXCEPT ![p][r] = NoView]
    /\ UNCHANGED <<log, locked, policy, late, leases, pc, base, task, batch, detached>>

-----------------------------------------------------------------------------
(* _process_trajectory up to the gather.                                   *)

NoTasks == [i \in Invocations |-> "none"]

\* Bound: a pass starts over only when the reads of a cancelled one are done.
Start(p) ==
    /\ pc[p] = "idle"
    /\ \A r \in Readers : loaded[p][r] = NoView
    /\ pc' = [pc EXCEPT ![p] = "first"]
    /\ UNCHANGED <<storeVars, late, leases, base, task, batch, loaded, detached>>

FirstRead(p) ==
    /\ pc[p] = "first"
    /\ batch' = [batch EXCEPT ![p] = {}]
    /\ \E n \in 0..Len(log) :
          /\ Obtain(p, "self", n)
          /\ IF Pending(n) = {}
             THEN /\ pc' = [pc EXCEPT ![p] = "idle"]
                  /\ UNCHANGED task
             ELSE /\ pc' = [pc EXCEPT ![p] = "gather"]
                  /\ task' = [task EXCEPT ![p] =
                                 [i \in Invocations |-> IF i \in Pending(n) THEN "ready" ELSE "none"]]
    /\ UNCHANGED <<log, locked, policy, late, leases, base, detached>>

-----------------------------------------------------------------------------
(* _execute_one                                                            *)

Mutant_Claim_OwnerUnset(p, i) ==
    LET w == WorkerOf[p] IN
    /\ pc[p] = "gather" /\ task[p][i] = "ready"
    /\ leases' = [leases EXCEPT ![w][i] = "claimed"]
    /\ task' = [task EXCEPT ![p][i] = "reread"]
    /\ UNCHANGED <<storeVars, late, pc, base, batch, loaded, detached>>

\* The lease is taken, or the child gives up because somebody holds it.
Claim(p, i) ==
    LET w == WorkerOf[p] IN
    /\ pc[p] = "gather" /\ task[p][i] = "ready"
    /\ IF leases[w][i] = NoPass
       THEN /\ leases' = [leases EXCEPT ![w][i] = p]
            /\ task' = [task EXCEPT ![p][i] = "reread"]
       ELSE /\ task' = [task EXCEPT ![p][i] = "skipped"]
            /\ UNCHANGED leases
    /\ UNCHANGED <<storeVars, late, pc, base, batch, loaded, detached>>

Mutant_DependenciesMet_Completed(i, n) == DependsOn[i] \subseteq Completed(n)

DependenciesMet(i, n) == DependsOn[i] \subseteq Succeeded(n)

\* What a child does after its own read of the snapshot.
Decision(i, n) ==
    IF i \notin Pending(n) THEN "skipped"
    ELSE IF i \in Refused THEN "refused"
    ELSE IF ~ DependenciesMet(i, n) THEN "skipped"
    ELSE IF i \in late THEN "late"
    ELSE "run"

Reread(p, i) ==
    /\ pc[p] = "gather" /\ task[p][i] = "reread"
    /\ \E n \in 0..Len(log) :
          /\ Obtain(p, i, n)
          /\ task' = [task EXCEPT ![p][i] = Decision(i, n)]
    /\ UNCHANGED <<log, locked, policy, late, leases, pc, base, batch, detached>>

\* _run_tool returns or raises.
RunTool(p, i) ==
    /\ pc[p] = "gather" /\ task[p][i] = "run"
    /\ \E o \in Successes \cup {"failed"} : task' = [task EXCEPT ![p][i] = o]
    /\ UNCHANGED <<storeVars, late, leases, pc, base, batch, loaded, detached>>

-----------------------------------------------------------------------------
(* _process_trajectory after the gather, and commit_events.                *)

HasRow(p) == {i \in Invocations : task[p][i] # "none"}

Mutant_Release_OnlyCommitted(p) ==
    LET w == WorkerOf[p] IN
    /\ leases' = [leases EXCEPT ![w] =
                     [i \in Invocations |-> IF i \in batch[p] THEN NoPass ELSE leases[w][i]]]
    /\ pc' = [pc EXCEPT ![p] = "idle"]
    /\ task' = [task EXCEPT ![p] = NoTasks]
    /\ batch' = [batch EXCEPT ![p] = {}]

\* All claims of the batch are released, whoever holds them; the pass returns.
Release(p) ==
    LET w == WorkerOf[p] IN
    /\ leases' = [leases EXCEPT ![w] =
                     [i \in Invocations |-> IF i \in HasRow(p) THEN NoPass ELSE leases[w][i]]]
    /\ pc' = [pc EXCEPT ![p] = "idle"]
    /\ task' = [task EXCEPT ![p] = NoTasks]
    /\ batch' = [batch EXCEPT ![p] = {}]

\* The snapshot is read again, and results it already shows are dropped.
SecondRead(p) ==
    /\ pc[p] = "gather"
    /\ \E n \in 0..Len(log) :
          /\ Obtain(p, "self", n)
          /\ base' = [base EXCEPT ![p] = n]
          /\ LET valid == {i \in Invocations : task[p][i] \in Outcomes} \ Completed(n) IN
             IF valid = {}
             THEN Release(p)
             ELSE /\ batch' = [batch EXCEPT ![p] = valid]
                  /\ pc' = [pc EXCEPT ![p] = "commit"]
                  /\ UNCHANGED <<leases, task>>
    /\ UNCHANGED <<log, locked, policy, late, detached>>

Proposals(p) == {[id |-> i, outcome |-> task[p][i]] : i \in batch[p]}

\* The key of a proposal is result-<invocation>-<status>.
KeyTaken(r) ==
    \E e \in Results(Len(log)) : e.id = r.id /\ StatusOf(e.outcome) = StatusOf(r.outcome)

\* How commit_events ends for a batch proposed against snapshot n.
Busy(results) == locked

Replayed(results) ==
    /\ ~ locked /\ results \subseteq Results(Len(log))

Conflict(results) ==
    /\ ~ locked /\ ~ (results \subseteq Results(Len(log)))
    /\ \E r \in results : KeyTaken(r)

Stale(results, n) ==
    /\ ~ locked /\ \A r \in results : ~ KeyTaken(r)
    /\ n # Len(log)

\* The snapshot is the head: the reducer, which refuses a result of a completed
\* invocation, has nothing to refuse.
Fresh(results, n) ==
    /\ ~ locked /\ \A r \in results : ~ KeyTaken(r)
    /\ n = Len(log)

InvokedAt(i) == CHOOSE k \in DOMAIN log : log[k].id = i /\ log[k].outcome = "invoked"

\* The results are appended in the order in which they were invoked.
AppendResults(results) ==
    \E q \in [1..Cardinality(results) -> results] :
        /\ \A a, b \in DOMAIN q : a < b => InvokedAt(q[a].id) < InvokedAt(q[b].id)
        /\ log' = log \o q

CommitRaises(p) ==
    /\ pc[p] = "commit"
    /\ Busy(Proposals(p)) \/ Conflict(Proposals(p))
    /\ pc' = [pc EXCEPT ![p] = "idle"]
    /\ task' = [task EXCEPT ![p] = NoTasks]
    /\ batch' = [batch EXCEPT ![p] = {}]
    /\ UNCHANGED <<storeVars, late, leases, base, loaded, detached>>

\* The receipts are returned from inside a transaction that stays open.
CommitReplayed(p) ==
    /\ pc[p] = "commit"
    /\ Replayed(Proposals(p))
    /\ locked' = TRUE
    /\ Release(p)
    /\ UNCHANGED <<log, cache, policy, late, base, loaded, detached>>

\* StaleContextError is swallowed.
CommitStale(p) ==
    /\ pc[p] = "commit"
    /\ Stale(Proposals(p), base[p])
    /\ Release(p)
    /\ UNCHANGED <<storeVars, late, base, loaded, detached>>

Commit(p) ==
    /\ pc[p] = "commit"
    /\ Fresh(Proposals(p), base[p])
    /\ AppendResults(Proposals(p))
    /\ pc' = [pc EXCEPT ![p] = "invalidate"]
    /\ UNCHANGED <<cache, locked, policy, late, leases, base, task, batch, loaded, detached>>

\* _invalidate_snapshot_cache; the thread is joined and the pass returns.
Invalidate(p) ==
    /\ pc[p] = "invalidate"
    /\ cache' = [cache EXCEPT ![StoreFor(p)] = NoView]
    /\ Release(p)
    /\ UNCHANGED <<log, locked, policy, late, base, loaded, detached>>

-----------------------------------------------------------------------------
(* stop: the task and its children are cancelled, their threads are not,   *)
(* and the leases stay.                                                    *)

Stop(p) ==
    /\ p \in Stoppable /\ pc[p] \notin {"off", "idle"}
    /\ pc[p] \in {"commit", "invalidate"} => Cardinality(detached) < MaxDetached
    /\ detached' =
          IF pc[p] = "commit"
          THEN detached \cup {[store |-> StoreFor(p), base |-> base[p], results |-> Proposals(p)]}
          ELSE IF pc[p] = "invalidate"
          THEN detached \cup {[store |-> StoreFor(p), base |-> base[p], results |-> {}]}
          ELSE detached
    /\ pc' = [pc EXCEPT ![p] = "idle"]
    /\ task' = [task EXCEPT ![p] = NoTasks]
    /\ batch' = [batch EXCEPT ![p] = {}]
    /\ UNCHANGED <<storeVars, late, leases, base, loaded>>

\* The thread of a cancelled commit that has not reached COMMIT.
DetachedCommit(d) ==
    /\ d \in detached /\ d.results # {}
    /\ IF Fresh(d.results, d.base)
       THEN /\ AppendResults(d.results)
            /\ detached' = (detached \ {d}) \cup {[store |-> d.store, base |-> d.base, results |-> {}]}
            /\ UNCHANGED locked
       ELSE /\ detached' = detached \ {d}
            /\ locked' = (locked \/ Replayed(d.results))
            /\ UNCHANGED log
    /\ UNCHANGED <<cache, policy, late, leases, passVars>>

\* The thread of a cancelled commit that has reached COMMIT.
DetachedInvalidate(d) ==
    /\ d \in detached /\ d.results = {}
    /\ cache' = [cache EXCEPT ![d.store] = NoView]
    /\ detached' = detached \ {d}
    /\ UNCHANGED <<log, locked, policy, late, leases, passVars>>

-----------------------------------------------------------------------------
(* The environment: a policy that invokes tools, and the clock.            *)

InvokeTool(i) ==
    /\ policy = "idle" /\ ~ locked
    /\ i \notin Invoked(Len(log))
    /\ log' = Append(log, [id |-> i, outcome |-> "invoked"])
    /\ policy' = "invalidate"
    /\ UNCHANGED <<cache, locked, late, leases, passVars, detached>>

InvalidatePolicy ==
    /\ policy = "invalidate"
    /\ cache' = [cache EXCEPT ![PolicyStore] = NoView]
    /\ policy' = "idle"
    /\ UNCHANGED <<log, locked, late, leases, passVars, detached>>

Expire(i) ==
    /\ i \in Deadlined \ late
    /\ late' = late \cup {i}
    /\ UNCHANGED <<storeVars, leases, passVars, detached>>

-----------------------------------------------------------------------------

PassStep(p) ==
    \/ Start(p) \/ FirstRead(p) \/ SecondRead(p)
    \/ CommitRaises(p) \/ CommitReplayed(p) \/ CommitStale(p) \/ Commit(p) \/ Invalidate(p)
    \/ \E r \in Readers : Load(p, r)
    \/ \E i \in Invocations : Claim(p, i) \/ Reread(p, i) \/ RunTool(p, i)

Next ==
    \/ \E p \in Passes : PassStep(p) \/ Stop(p) \/ \E r \in Readers : LateOffer(p, r)
    \/ \E d \in detached : DetachedCommit(d) \/ DetachedInvalidate(d)
    \/ \E i \in Invocations : InvokeTool(i) \/ Expire(i)
    \/ InvalidatePolicy

Spec == Init /\ [][Next]_vars

\* The event loop runs every task that can run, threads end, and every tool
\* returns or raises.  Nothing makes the policy act or a deadline pass.
Fairness ==
    /\ \A p \in Passes :
          /\ WF_vars(Start(p) \/ FirstRead(p) \/ SecondRead(p) \/ Load(p, "self")
                     \/ CommitRaises(p) \/ CommitReplayed(p) \/ CommitStale(p)
                     \/ Commit(p) \/ Invalidate(p))
          /\ \A i \in Invocations :
                WF_vars(Claim(p, i) \/ Load(p, i) \/ Reread(p, i) \/ RunTool(p, i))
          /\ \A r \in Readers : WF_vars(LateOffer(p, r))
    /\ WF_vars(\E d \in detached : DetachedCommit(d) \/ DetachedInvalidate(d))
    /\ WF_vars(InvalidatePolicy)

FairSpec == Spec /\ Fairness

-----------------------------------------------------------------------------
(* Properties.                                                             *)

\* A tool succeeds only after the tools it depends on: whatever stale snapshots
\* the tasks decide on, and whoever races to commit, the log shows a success
\* of each dependency before a success or a timeout of the dependent
\* (_execute_one, "only run if all dependencies succeeded").
DependenciesFirst ==
    \A k \in DOMAIN log :
        log[k].outcome \in Successes \cup {"late"} =>
            DependsOn[log[k].id] \subseteq Succeeded(k - 1)

\* Every pending invocation that can run gets a result: one whose dependencies
\* have succeeded, or that security refuses, does not stay pending
\* (_poll_loop, process_pending).
Executable(i) ==
    /\ i \in Pending(Len(log))
    /\ i \in Refused \/ DependenciesMet(i, Len(log))

EveryExecutableCompletes ==
    \A i \in Invocations : Executable(i) ~> i \in Completed(Len(log))

\* No invocation is executed by two tasks of one worker at a time: "Each
\* invocation is protected by an in-memory lease" (tool_worker.py 37-38).
NotRunTwice ==
    \A i \in Invocations : \A p, q \in Passes :
        WorkerOf[p] = WorkerOf[q] /\ task[p][i] = "run" /\ task[q][i] = "run" => p = q
=============================================================================
