--------------------------- MODULE ToolWorkerProofs ---------------------------
(***************************************************************************)
(* Tools succeed only after their dependencies, proved of ToolWorker for   *)
(* any number of workers, passes, stores and invocations.                  *)
(***************************************************************************)
EXTENDS ToolWorker, FiniteSetTheorems, SequenceTheorems, TLAPS

\* The outcomes that presuppose the dependencies.
Dependent == Successes \cup {"late"}

Met(i) == DependsOn[i] \subseteq Succeeded(Len(log))

Shapes ==
    /\ log \in Seq(Entry)
    /\ task \in [Passes -> [Invocations -> TaskStates]]
    /\ batch \in [Passes -> SUBSET Invocations]
    /\ \A p \in Passes : \A i \in batch[p] : task[p][i] \in Outcomes
    /\ \A d \in detached : d.results \subseteq Entry /\ IsFiniteSet(d.results)

\* A child that runs its tool, a result that waits to be committed and one that
\* a cancelled commit still carries have their dependencies in the log.
DependencyInv ==
    /\ Shapes
    /\ DependenciesFirst
    /\ \A p \in Passes, i \in Invocations : task[p][i] \in Dependent \cup {"run"} => Met(i)
    /\ \A d \in detached : \A r \in d.results : r.outcome \in Dependent => Met(r.id)

-----------------------------------------------------------------------------
(* Prefixes of the log.                                                    *)

\* What a shorter prefix of the log shows as succeeded, a longer one shows too.
LEMMA SucceededMonotone ==
    ASSUME NEW m \in Int, NEW n \in Int, m <= n
    PROVE  Succeeded(m) \subseteq Succeeded(n)
BY DEF Succeeded, Results

\* Appending to the log changes nothing of its prefixes.
LEMMA AppendedLog ==
    ASSUME log \in Seq(Entry), NEW new \in Seq(Entry), log' = log \o new
    PROVE  /\ log' \in Seq(Entry)
           /\ Len(log') = Len(log) + Len(new)
           /\ \A n \in 0..Len(log) : Succeeded(n)' = Succeeded(n)
           /\ \A k \in 1..Len(log) : log'[k] = log[k]
           /\ \A k \in DOMAIN log' : k > Len(log) =>
                 k - Len(log) \in DOMAIN new /\ log'[k] = new[k - Len(log)]
<1>1. /\ log' \in Seq(Entry) /\ Len(log') = Len(log) + Len(new)
      /\ \A k \in 1..Len(log) : log'[k] = log[k]
      /\ \A k \in DOMAIN log' : k > Len(log) =>
            k - Len(log) \in DOMAIN new /\ log'[k] = new[k - Len(log)]
  BY ConcatProperties, LenProperties
<1>2. ASSUME NEW n \in 0..Len(log) PROVE Succeeded(n)' = Succeeded(n)
  <2>1. \A k \in 1..n : log'[k] = log[k]
    BY <1>1, LenProperties
  <2>2. Results(n)' = Results(n)
    BY <2>1 DEF Results
  <2> QED BY <2>2 DEF Succeeded
<1> QED BY <1>1, <1>2

\* Appending events whose dependencies are met keeps what the log promises.
LEMMA AppendKeepsOrder ==
    ASSUME log \in Seq(Entry), DependenciesFirst, NEW new \in Seq(Entry), log' = log \o new,
           \A k \in DOMAIN new : new[k].outcome \in Dependent => Met(new[k].id)
    PROVE  /\ log' \in Seq(Entry)
           /\ DependenciesFirst'
           /\ \A i \in Invocations : Met(i) => Met(i)'
<1>1. /\ log' \in Seq(Entry)
      /\ Len(log) \in Nat /\ Len(new) \in Nat /\ Len(log') = Len(log) + Len(new)
      /\ DOMAIN log' = 1..Len(log') /\ DOMAIN log = 1..Len(log)
  BY AppendedLog, LenProperties
<1>2. \A n \in 0..Len(log) : Succeeded(n)' = Succeeded(n)
  BY AppendedLog
<1>3. ASSUME NEW n \in Int, Len(log) <= n, NEW x \in Succeeded(Len(log))
      PROVE  x \in Succeeded(n)'
  <2>1. PICK k \in 1..Len(log) : log[k].outcome # "invoked" /\ log[k].outcome \in Successes
                                /\ x = log[k].id
    BY <1>3 DEF Succeeded, Results
  <2>2. k \in 1..n /\ log'[k] = log[k]
    BY <1>1, <1>3, AppendedLog
  <2> QED BY <2>1, <2>2 DEF Succeeded, Results
<1>4. ASSUME NEW k \in DOMAIN log', log'[k].outcome \in Dependent
      PROVE  DependsOn[log'[k].id] \subseteq Succeeded(k - 1)'
  <2>0. k \in 1..Len(log')
    BY <1>1
  <2>1. CASE k <= Len(log)
    <3>1. k \in DOMAIN log /\ log'[k] = log[k] /\ k - 1 \in 0..Len(log)
      BY <1>1, <2>0, <2>1, AppendedLog
    <3>2. DependsOn[log[k].id] \subseteq Succeeded(k - 1)
      BY <1>4, <3>1 DEF DependenciesFirst, Dependent
    <3> QED BY <1>2, <3>1, <3>2
  <2>2. CASE k > Len(log)
    <3>1. k - Len(log) \in DOMAIN new /\ log'[k] = new[k - Len(log)]
      BY <2>2, AppendedLog
    <3>2. DependsOn[log'[k].id] \subseteq Succeeded(Len(log))
      BY <1>4, <3>1 DEF Met
    <3>3. k - 1 \in Int /\ Len(log) <= k - 1
      BY <1>1, <2>0, <2>2
    <3> QED BY <1>3, <3>2, <3>3
  <2> QED BY <1>1, <2>0, <2>1, <2>2
<1>5. DependenciesFirst'
  BY <1>4 DEF DependenciesFirst, Dependent
<1>6. ASSUME NEW i \in Invocations, Met(i) PROVE Met(i)'
  <2>1. \A x \in Succeeded(Len(log)) : x \in (Succeeded(Len(log)))'
    <3>1. Len(log') \in Int /\ Len(log) <= Len(log')
      BY <1>1
    <3>2. \A x \in Succeeded(Len(log)) : \A n \in Int : Len(log) <= n => x \in Succeeded(n)'
      BY <1>3
    <3> QED BY <3>1, <3>2
  <2> QED BY <1>6, <2>1 DEF Met
<1> QED BY <1>1, <1>5, <1>6

-----------------------------------------------------------------------------
(* The results of a batch.                                                 *)

\* A set of results that may be appended to the log.
Sound(results) ==
    /\ results \subseteq Entry
    /\ IsFiniteSet(results)
    /\ \A r \in results : r.outcome \in Dependent => Met(r.id)

\* What a pass proposes to commit are results whose dependencies have succeeded.
LEMMA ProposalsMet ==
    ASSUME DependencyInv, NEW p \in Passes
    PROVE  Sound(Proposals(p))
<1>1. batch[p] \subseteq Invocations /\ \A i \in batch[p] : task[p][i] \in Outcomes
  BY DEF DependencyInv, Shapes
<1>2. Proposals(p) \subseteq Entry
  BY <1>1 DEF Proposals, Entry
<1>3. IsFiniteSet(batch[p])
  BY <1>1, WorkerAssumption, FS_Subset
<1>4. IsFiniteSet(Proposals(p))
  <2> DEFINE P(i) == [id |-> i, outcome |-> task[p][i]]
             f == [i \in batch[p] |-> P(i)]
  <2>1. f \in Surjection(batch[p], Proposals(p))
    BY DEF Surjection, Proposals
  <2> QED BY <1>3, <2>1, FS_Surjection
<1>5. \A r \in Proposals(p) : r.outcome \in Dependent => Met(r.id)
  BY <1>1 DEF Proposals, DependencyInv
<1> QED BY <1>2, <1>4, <1>5 DEF Sound

\* Committing sound results keeps the order of dependencies.
LEMMA ResultsAppended ==
    ASSUME DependencyInv, NEW results, Sound(results), AppendResults(results)
    PROVE  /\ log' \in Seq(Entry)
           /\ DependenciesFirst'
           /\ \A i \in Invocations : Met(i) => Met(i)'
<1>1. Cardinality(results) \in Nat
  BY FS_CardinalityType DEF Sound
<1>2. PICK q \in [1..Cardinality(results) -> results] : log' = log \o q
  BY DEF AppendResults
<1>3. q \in Seq(Entry) /\ \A k \in DOMAIN q : q[k] \in results
  <2>1. PICK n \in Nat : n = Cardinality(results)
    BY <1>1
  <2>2. q \in [1..n -> results]
    BY <1>2, <2>1
  <2>3. q \in [1..n -> Entry]
    BY <2>2 DEF Sound
  <2> QED BY <2>2, <2>3
<1>4. \A k \in DOMAIN q : q[k].outcome \in Dependent => Met(q[k].id)
  BY <1>3 DEF Sound
<1> QED BY <1>2, <1>3, <1>4, AppendKeepsOrder DEF DependencyInv, Shapes

-----------------------------------------------------------------------------
(* Steps that leave the log alone.                                         *)

\* A step that gives pass p the tasks f and the batch b.
LEMMA LocalStep ==
    ASSUME DependencyInv, NEW p \in Passes, UNCHANGED log,
           \A d \in detached' : d \in detached \/ Sound(d.results),
           NEW f \in [Invocations -> TaskStates], NEW b \in SUBSET Invocations,
           task' = [task EXCEPT ![p] = f], batch' = [batch EXCEPT ![p] = b],
           \A i \in b : f[i] \in Outcomes,
           \A i \in Invocations : f[i] \in Dependent \cup {"run"} => Met(i)
    PROVE  DependencyInv'
<1>1. Shapes'
  <2>1. /\ task' \in [Passes -> [Invocations -> TaskStates]]
        /\ batch' \in [Passes -> SUBSET Invocations]
    BY DEF DependencyInv, Shapes
  <2>2. \A q \in Passes : \A i \in batch'[q] : task'[q][i] \in Outcomes
    BY DEF DependencyInv, Shapes
  <2>3. \A d \in detached' : d.results \subseteq Entry /\ IsFiniteSet(d.results)
    BY DEF DependencyInv, Shapes, Sound
  <2> QED BY <2>1, <2>2, <2>3 DEF DependencyInv, Shapes
<1>2. DependenciesFirst' /\ \A i \in Invocations : Met(i)' = Met(i)
  BY DEF DependencyInv, DependenciesFirst, Met, Succeeded, Results
<1>3. \A q \in Passes, i \in Invocations : task'[q][i] \in Dependent \cup {"run"} => Met(i)'
  BY <1>2 DEF DependencyInv, Shapes
<1>4. \A d \in detached' : \A r \in d.results : r.outcome \in Dependent => Met(r.id)'
  <2>1. \A d \in detached' : \A r \in d.results : r.id \in Invocations
    BY DEF DependencyInv, Shapes, Sound, Entry
  <2>2. \A d \in detached' : \A r \in d.results : r.outcome \in Dependent => Met(r.id)
    BY DEF DependencyInv, Sound
  <2> QED BY <1>2, <2>1, <2>2
<1> QED BY <1>1, <1>2, <1>3, <1>4 DEF DependencyInv, Dependent

\* A step that moves one child of pass p, which had returned nothing.
LEMMA ChildStep ==
    ASSUME DependencyInv, NEW p \in Passes, NEW i \in Invocations, NEW x \in TaskStates,
           task[p][i] \notin Outcomes,
           task' = [task EXCEPT ![p][i] = x], UNCHANGED <<log, detached, batch>>,
           x \in Dependent \cup {"run"} => Met(i)
    PROVE  DependencyInv'
<1> DEFINE f == [task[p] EXCEPT ![i] = x]
<1>1. f \in [Invocations -> TaskStates] /\ task' = [task EXCEPT ![p] = f]
  BY DEF DependencyInv, Shapes
<1>2. batch[p] \in SUBSET Invocations /\ batch' = [batch EXCEPT ![p] = batch[p]]
  BY DEF DependencyInv, Shapes
<1>3. \A j \in batch[p] : f[j] \in Outcomes
  BY DEF DependencyInv, Shapes
<1>4. \A j \in Invocations : f[j] \in Dependent \cup {"run"} => Met(j)
  BY DEF DependencyInv, Shapes
<1> HIDE DEF f
<1> QED BY <1>1, <1>2, <1>3, <1>4, LocalStep

\* A step that ends pass p, however its log and its detached commits fare.
LEMMA NoTasksHarmless ==
    /\ NoTasks \in [Invocations -> TaskStates]
    /\ \A i \in Invocations : NoTasks[i] \notin Dependent \cup {"run"}
BY WorkerAssumption DEF NoTasks, TaskStates, Dependent

\* A step that changes neither the log, nor tasks, nor batches, and detaches nothing.
LEMMA IdleStep ==
    ASSUME DependencyInv, UNCHANGED <<log, task, batch>>, detached' \subseteq detached
    PROVE  DependencyInv'
<1>1. Shapes'
  BY DEF DependencyInv, Shapes
<1>2. DependenciesFirst' /\ \A i \in Invocations : Met(i)' = Met(i)
  BY DEF DependencyInv, DependenciesFirst, Met, Succeeded, Results
<1>3. \A d \in detached' : \A r \in d.results : r.outcome \in Dependent => Met(r.id)'
  <2>1. \A d \in detached : \A r \in d.results : r.id \in Invocations
    BY DEF DependencyInv, Shapes, Entry
  <2> QED BY <1>2, <2>1 DEF DependencyInv
<1> QED BY <1>1, <1>2, <1>3 DEF DependencyInv, Dependent

\* A step that appends to the log and moves no task.
LEMMA GrowStep ==
    ASSUME DependencyInv, UNCHANGED <<task, batch>>,
           log' \in Seq(Entry), DependenciesFirst',
           \A i \in Invocations : Met(i) => Met(i)',
           \A d \in detached' : d \in detached \/ d.results = {}
    PROVE  DependencyInv'
<1>1. Shapes'
  BY FS_EmptySet DEF DependencyInv, Shapes
<1>2. \A d \in detached' : \A r \in d.results : r.outcome \in Dependent => Met(r.id)'
  <2>1. \A d \in detached : \A r \in d.results : r.id \in Invocations
    BY DEF DependencyInv, Shapes, Entry
  <2> QED BY <2>1 DEF DependencyInv
<1> QED BY <1>1, <1>2 DEF DependencyInv, Dependent

-----------------------------------------------------------------------------
(* Every step.                                                             *)

\* The log the workers start with holds no result.
LEMMA InitDependencyInv == Init => DependencyInv
<1> SUFFICES ASSUME Init PROVE DependencyInv
  OBVIOUS
<1>1. log \in Seq(Entry) /\ \A k \in DOMAIN log : log[k].outcome = "invoked"
  <2>1. PICK n \in Nat : Preloaded \in [1..n -> Invocations]
    BY WorkerAssumption
  <2>2. log \in [1..n -> Entry] /\ \A k \in 1..n : log[k].outcome = "invoked"
    BY <2>1 DEF Init, Entry
  <2> QED BY <2>1, <2>2
<1>2. \A k \in DOMAIN log : log[k].outcome \notin Dependent
  BY <1>1, WorkerAssumption DEF Dependent
<1>3. DependenciesFirst
  BY <1>2 DEF DependenciesFirst, Dependent
<1>4. \A p \in Passes : task[p] = NoTasks /\ batch[p] = {}
  BY DEF Init, NoTasks
<1>5. Shapes
  BY <1>1, NoTasksHarmless DEF Init, Shapes, NoTasks
<1> QED BY <1>3, <1>4, <1>5, NoTasksHarmless DEF DependencyInv, Init

\* Every step of a pass, and its cancellation, keeps the invariant.
LEMMA PassKeepsDependencyInv ==
    ASSUME DependencyInv, NEW p \in Passes, PassStep(p) \/ Stop(p)
    PROVE  DependencyInv'
<1> USE DEF storeVars, passVars
<1>1. ASSUME Start(p) \/ \E r \in Readers : Load(p, r) PROVE DependencyInv'
  BY <1>1, IdleStep DEF Start, Load
<1>2. ASSUME UNCHANGED <<log, detached>>, task' = [task EXCEPT ![p] = NoTasks],
             batch' = [batch EXCEPT ![p] = {}]
      PROVE  DependencyInv'
  BY <1>2, NoTasksHarmless, LocalStep
<1>3. ASSUME FirstRead(p) PROVE DependencyInv'
  <2>1. PICK n \in 0..Len(log) :
           IF Pending(n) = {} THEN UNCHANGED task
           ELSE task' = [task EXCEPT ![p] =
                           [i \in Invocations |-> IF i \in Pending(n) THEN "ready" ELSE "none"]]
    BY <1>3 DEF FirstRead
  <2>2. UNCHANGED <<log, detached>> /\ batch' = [batch EXCEPT ![p] = {}]
    BY <1>3 DEF FirstRead
  <2>3. CASE UNCHANGED task
    <3>1. task[p] \in [Invocations -> TaskStates] /\ task' = [task EXCEPT ![p] = task[p]]
      BY <2>3 DEF DependencyInv, Shapes
    <3>2. \A i \in Invocations : task[p][i] \in Dependent \cup {"run"} => Met(i)
      BY DEF DependencyInv
    <3> QED BY <2>2, <3>1, <3>2, LocalStep
  <2>4. CASE Pending(n) # {}
    <3> DEFINE f == [i \in Invocations |-> IF i \in Pending(n) THEN "ready" ELSE "none"]
    <3>1. f \in [Invocations -> TaskStates] /\ task' = [task EXCEPT ![p] = f]
      BY <2>1, <2>4 DEF TaskStates
    <3>2. \A i \in Invocations : f[i] \notin Dependent \cup {"run"}
      BY WorkerAssumption DEF Dependent
    <3> HIDE DEF f
    <3> QED BY <2>2, <3>1, <3>2, LocalStep
  <2> QED BY <2>1, <2>3, <2>4
<1>4. ASSUME NEW i \in Invocations, Claim(p, i) PROVE DependencyInv'
  <2>1. /\ task[p][i] = "ready" /\ UNCHANGED <<log, detached, batch>>
        /\ \E x \in {"reread", "skipped"} : task' = [task EXCEPT ![p][i] = x]
    BY <1>4 DEF Claim
  <2>2. "ready" \notin Outcomes /\ \A x \in {"reread", "skipped"} :
           x \in TaskStates /\ x \notin Dependent \cup {"run"}
    BY WorkerAssumption DEF Outcomes, TaskStates, Dependent
  <2> QED BY <2>1, <2>2, ChildStep
<1>5. ASSUME NEW i \in Invocations, Reread(p, i) PROVE DependencyInv'
  <2>1. PICK n \in 0..Len(log) : task' = [task EXCEPT ![p][i] = Decision(i, n)]
    BY <1>5 DEF Reread
  <2>2. task[p][i] = "reread" /\ UNCHANGED <<log, detached, batch>>
    BY <1>5 DEF Reread
  <2>3. "reread" \notin Outcomes /\ Decision(i, n) \in TaskStates
    BY WorkerAssumption DEF Outcomes, TaskStates, Decision
  <2>4. Decision(i, n) \in Dependent \cup {"run"} => Met(i)
    <3>1. Decision(i, n) \in Dependent \cup {"run"} => DependenciesMet(i, n)
      BY WorkerAssumption DEF Decision, Dependent
    <3>2. Succeeded(n) \subseteq Succeeded(Len(log))
      BY SucceededMonotone, LenProperties DEF DependencyInv, Shapes
    <3> QED BY <3>1, <3>2 DEF DependenciesMet, Met
  <2> QED BY <2>1, <2>2, <2>3, <2>4, ChildStep
<1>6. ASSUME NEW i \in Invocations, RunTool(p, i) PROVE DependencyInv'
  <2>1. PICK x \in Successes \cup {"failed"} : task' = [task EXCEPT ![p][i] = x]
    BY <1>6 DEF RunTool
  <2>2. task[p][i] = "run" /\ UNCHANGED <<log, detached, batch>>
    BY <1>6 DEF RunTool
  <2>3. "run" \notin Outcomes /\ x \in TaskStates
    BY WorkerAssumption DEF Outcomes, TaskStates
  <2>4. Met(i)
    BY <2>2 DEF DependencyInv
  <2> QED BY <2>1, <2>2, <2>3, <2>4, ChildStep
<1>7. ASSUME SecondRead(p) PROVE DependencyInv'
  <2> DEFINE fits(b) == b \in SUBSET Invocations /\ \A i \in b : task[p][i] \in Outcomes
  <2>1. UNCHANGED <<log, detached>>
    BY <1>7 DEF SecondRead
  <2>2. \/ task' = [task EXCEPT ![p] = NoTasks] /\ batch' = [batch EXCEPT ![p] = {}]
        \/ UNCHANGED task /\ \E b : fits(b) /\ batch' = [batch EXCEPT ![p] = b]
    BY <1>7 DEF SecondRead, Release
  <2>3. ASSUME NEW b, fits(b), UNCHANGED task, batch' = [batch EXCEPT ![p] = b]
        PROVE  DependencyInv'
    <3>1. task[p] \in [Invocations -> TaskStates] /\ task' = [task EXCEPT ![p] = task[p]]
      BY <2>3 DEF DependencyInv, Shapes
    <3>2. \A i \in Invocations : task[p][i] \in Dependent \cup {"run"} => Met(i)
      BY DEF DependencyInv
    <3> QED BY <2>1, <2>3, <3>1, <3>2, LocalStep
  <2> QED BY <1>2, <2>1, <2>2, <2>3
<1>8. ASSUME CommitRaises(p) \/ CommitReplayed(p) \/ CommitStale(p) \/ Invalidate(p)
      PROVE  DependencyInv'
  BY <1>2, <1>8 DEF CommitRaises, CommitReplayed, CommitStale, Invalidate, Release
<1>9. ASSUME Commit(p) PROVE DependencyInv'
  <2>1. AppendResults(Proposals(p)) /\ UNCHANGED <<task, batch, detached>>
    BY <1>9 DEF Commit
  <2> QED BY <2>1, ProposalsMet, ResultsAppended, GrowStep
<1>10. ASSUME Stop(p) PROVE DependencyInv'
  <2>1. UNCHANGED log /\ task' = [task EXCEPT ![p] = NoTasks] /\ batch' = [batch EXCEPT ![p] = {}]
    BY <1>10 DEF Stop
  <2>2. Sound({}) /\ Sound(Proposals(p))
    BY ProposalsMet, FS_EmptySet DEF Sound
  <2>3. \A d \in detached' : d \in detached \/ d.results = {} \/ d.results = Proposals(p)
    BY <1>10 DEF Stop
  <2> QED BY <2>1, <2>2, <2>3, NoTasksHarmless, LocalStep
<1> QED BY <1>1, <1>3, <1>4, <1>5, <1>6, <1>7, <1>8, <1>9, <1>10 DEF PassStep

\* Every step of the system keeps the invariant.
LEMMA NextDependencyInv == DependencyInv /\ [Next]_vars => DependencyInv'
<1> SUFFICES ASSUME DependencyInv, [Next]_vars PROVE DependencyInv'
  OBVIOUS
<1> USE DEF storeVars, passVars
<1>1. ASSUME NEW p \in Passes, NEW r \in Readers, LateOffer(p, r) PROVE DependencyInv'
  BY <1>1, IdleStep DEF LateOffer
<1>2. ASSUME NEW d \in detached, DetachedCommit(d) PROVE DependencyInv'
  <2>1. UNCHANGED <<task, batch>>
    BY <1>2 DEF DetachedCommit
  <2>2. CASE Fresh(d.results, d.base)
    <3>1. Sound(d.results) /\ AppendResults(d.results)
      BY <1>2, <2>2 DEF DetachedCommit, DependencyInv, Shapes, Sound
    <3>2. \A e \in detached' : e \in detached \/ e.results = {}
      BY <1>2, <2>2 DEF DetachedCommit
    <3> QED BY <2>1, <3>1, <3>2, ResultsAppended, GrowStep
  <2>3. CASE ~ Fresh(d.results, d.base)
    BY <1>2, <2>1, <2>3, IdleStep DEF DetachedCommit
  <2> QED BY <2>2, <2>3
<1>3. ASSUME NEW d \in detached, DetachedInvalidate(d) PROVE DependencyInv'
  BY <1>3, IdleStep DEF DetachedInvalidate
<1>4. ASSUME NEW i \in Invocations, InvokeTool(i) PROVE DependencyInv'
  <2> DEFINE new == <<[id |-> i, outcome |-> "invoked"]>>
  <2>1. new \in Seq(Entry) /\ log' = log \o new
    BY <1>4 DEF InvokeTool, Entry, DependencyInv, Shapes
  <2>2. \A k \in DOMAIN new : new[k].outcome \notin Dependent
    BY WorkerAssumption DEF Dependent
  <2>3. UNCHANGED <<task, batch, detached>>
    BY <1>4 DEF InvokeTool
  <2> HIDE DEF new
  <2> QED BY <2>1, <2>2, <2>3, AppendKeepsOrder, GrowStep DEF DependencyInv, Shapes
<1>5. ASSUME \/ InvalidatePolicy \/ UNCHANGED vars
             \/ \E i \in Invocations : Expire(i)
      PROVE  DependencyInv'
  BY <1>5, IdleStep DEF InvalidatePolicy, Expire, vars
<1> QED BY <1>1, <1>2, <1>3, <1>4, <1>5, PassKeepsDependencyInv DEF Next

\* Whatever stale snapshots its tasks decide on and whoever races them, no
\* worker ever makes the log show a success or a timeout of a tool before the
\* success of everything it depends on (_execute_one).
THEOREM DependenciesRespected == Spec => []DependenciesFirst
<1>1. DependencyInv => DependenciesFirst
  BY DEF DependencyInv
<1> QED BY <1>1, InitDependencyInv, NextDependencyInv, PTL DEF Spec

-----------------------------------------------------------------------------
(* Types.                                                                  *)

\* The types of what DependencyInv does not look at.
Typed ==
    /\ cache \in [Stores -> Nat \cup {NoView}]
    /\ locked \in BOOLEAN
    /\ policy \in {"idle", "invalidate"}
    /\ late \subseteq Deadlined
    /\ leases \in [Workers -> [Invocations -> Passes \cup {NoPass}]]
    /\ pc \in [Passes -> {"off", "idle", "first", "gather", "commit", "invalidate"}]
    /\ base \in [Passes -> Nat]
    /\ loaded \in [Passes -> [Readers -> Nat \cup {NoView}]]
    /\ detached \subseteq DetachedCommits

\* It holds at the start.
LEMMA InitTyped == Init => Typed
<1> SUFFICES ASSUME Init PROVE Typed
  OBVIOUS
<1>1. pc \in [Passes -> {"off", "idle", "first", "gather", "commit", "invalidate"}]
  <2>1. PICK session \in Sessions :
           pc = [p \in Passes |-> IF p \in session THEN "idle" ELSE "off"]
    BY DEF Init
  <2> QED BY <2>1
<1>2. locked \in BOOLEAN
  BY DEF Init
<1>3. /\ cache \in [Stores -> Nat \cup {NoView}] /\ base \in [Passes -> Nat]
      /\ loaded \in [Passes -> [Readers -> Nat \cup {NoView}]]
      /\ leases \in [Workers -> [Invocations -> Passes \cup {NoPass}]]
  BY DEF Init
<1>4. policy = "idle" /\ late = {} /\ detached = {}
  BY DEF Init
<1> QED BY <1>1, <1>2, <1>3, <1>4 DEF Typed

\* A read leaves the cache and what is loaded of their types.
LEMMA ObtainTyped ==
    ASSUME Typed, NEW p \in Passes, NEW r \in Readers, NEW n, Obtain(p, r, n)
    PROVE  /\ cache' \in [Stores -> Nat \cup {NoView}]
           /\ loaded' \in [Passes -> [Readers -> Nat \cup {NoView}]]
<1>1. StoreFor(p) \in Stores /\ loaded[p][r] \in Nat \cup {NoView}
  BY WorkerAssumption DEF StoreFor, Typed
<1>2. CASE UNCHANGED <<cache, loaded>>
  BY <1>2 DEF Typed
<1>3. CASE Offer(p, r) /\ loaded' = [loaded EXCEPT ![p][r] = NoView]
  BY <1>1, <1>3 DEF Typed, Offer
<1> QED BY <1>2, <1>3 DEF Obtain

\* Releasing a batch leaves leases and program counters of their types.
LEMMA ReleaseTyped ==
    ASSUME Typed, NEW p \in Passes, Release(p)
    PROVE  /\ leases' \in [Workers -> [Invocations -> Passes \cup {NoPass}]]
           /\ pc' \in [Passes -> {"off", "idle", "first", "gather", "commit", "invalidate"}]
<1> DEFINE w == WorkerOf[p]
           f == [i \in Invocations |-> IF i \in HasRow(p) THEN NoPass ELSE leases[w][i]]
<1>1. w \in Workers
  BY WorkerAssumption
<1>2. f \in [Invocations -> Passes \cup {NoPass}]
  BY <1>1 DEF Typed
<1>3. leases' = [leases EXCEPT ![w] = f] /\ pc' = [pc EXCEPT ![p] = "idle"]
  BY DEF Release
<1> HIDE DEF w, f
<1> QED BY <1>1, <1>2, <1>3 DEF Typed

\* The steps of a pass keep the types.
LEMMA PassKeepsTypes ==
    ASSUME DependencyInv, Typed, NEW p \in Passes, PassStep(p) \/ Stop(p)
    PROVE  Typed'
<1> USE DEF storeVars, passVars
<1>a. "self" \in Readers /\ Invocations \subseteq Readers
  BY DEF Readers
<1>b. StoreFor(p) \in Stores /\ WorkerOf[p] \in Workers
  BY WorkerAssumption DEF StoreFor
<1>c. Len(log) \in Nat
  BY LenProperties DEF DependencyInv, Shapes
<1>1. CASE Start(p)
  BY <1>1 DEF Start, Typed
<1>2. ASSUME NEW r \in Readers, Load(p, r) PROVE Typed'
  BY <1>2, <1>c DEF Load, Typed
<1>3. CASE FirstRead(p)
  <2>1. \E n : Obtain(p, "self", n)
    BY <1>3 DEF FirstRead
  <2>2. pc' \in [Passes -> {"off", "idle", "first", "gather", "commit", "invalidate"}]
    BY <1>3 DEF FirstRead, Typed
  <2> QED BY <1>3, <1>a, <2>1, <2>2, ObtainTyped DEF FirstRead, Typed
<1>4. ASSUME NEW i \in Invocations, Claim(p, i) PROVE Typed'
  <2>1. \/ UNCHANGED leases
        \/ leases' = [leases EXCEPT ![WorkerOf[p]][i] = p]
    BY <1>4 DEF Claim
  <2>2. leases' \in [Workers -> [Invocations -> Passes \cup {NoPass}]]
    <3>1. PICK w \in Workers : w = WorkerOf[p]
      BY <1>b
    <3>2. leases \in [Workers -> [Invocations -> Passes \cup {NoPass}]]
      BY DEF Typed
    <3>3. PICK f \in [Invocations -> Passes \cup {NoPass}] : f = [leases[w] EXCEPT ![i] = p]
      BY <3>2
    <3>4. leases' = leases \/ leases' = [leases EXCEPT ![w] = f]
      BY <2>1, <3>1, <3>2, <3>3
    <3> QED BY <3>2, <3>4
  <2> QED BY <1>4, <2>2 DEF Claim, Typed
<1>5. ASSUME NEW i \in Invocations, Reread(p, i) PROVE Typed'
  <2>1. \E n : Obtain(p, i, n)
    BY <1>5 DEF Reread
  <2> QED BY <1>5, <1>a, <2>1, ObtainTyped DEF Reread, Typed
<1>6. ASSUME NEW i \in Invocations, RunTool(p, i) PROVE Typed'
  BY <1>6 DEF RunTool, Typed
<1>7. CASE SecondRead(p)
  <2>1. PICK n \in 0..Len(log) : /\ Obtain(p, "self", n) /\ base' = [base EXCEPT ![p] = n]
                                 /\ \/ Release(p)
                                    \/ pc' = [pc EXCEPT ![p] = "commit"] /\ UNCHANGED leases
    BY <1>7 DEF SecondRead
  <2>2. base' \in [Passes -> Nat]
    BY <1>c, <2>1 DEF Typed
  <2>3. /\ leases' \in [Workers -> [Invocations -> Passes \cup {NoPass}]]
        /\ pc' \in [Passes -> {"off", "idle", "first", "gather", "commit", "invalidate"}]
    <3>1. CASE Release(p)
      BY <3>1, ReleaseTyped
    <3>2. CASE pc' = [pc EXCEPT ![p] = "commit"] /\ UNCHANGED leases
      BY <3>2 DEF Typed
    <3> QED BY <2>1, <3>1, <3>2
  <2>4. /\ cache' \in [Stores -> Nat \cup {NoView}]
        /\ loaded' \in [Passes -> [Readers -> Nat \cup {NoView}]]
    BY <1>a, <2>1, ObtainTyped
  <2> QED BY <1>7, <2>2, <2>3, <2>4 DEF SecondRead, Typed
<1>8. CASE CommitRaises(p) \/ Commit(p)
  BY <1>8 DEF CommitRaises, Commit, Typed
<1>9. CASE CommitReplayed(p) \/ CommitStale(p)
  BY <1>9, ReleaseTyped DEF CommitReplayed, CommitStale, Typed
<1>10. CASE Invalidate(p)
  <2>1. cache' \in [Stores -> Nat \cup {NoView}]
    BY <1>10, <1>b DEF Invalidate, Typed
  <2> QED BY <1>10, <2>1, ReleaseTyped DEF Invalidate, Typed
<1>11. CASE Stop(p)
  <2>1. pc' \in [Passes -> {"off", "idle", "first", "gather", "commit", "invalidate"}]
    BY <1>11 DEF Stop, Typed
  <2>2. Proposals(p) \in SUBSET Entry /\ base[p] \in Nat
    BY ProposalsMet DEF Sound, Typed
  <2>3. [store |-> StoreFor(p), base |-> base[p], results |-> Proposals(p)] \in DetachedCommits
        /\ [store |-> StoreFor(p), base |-> base[p], results |-> {}] \in DetachedCommits
    BY <1>b, <2>2 DEF DetachedCommits
  <2>4. detached' \subseteq DetachedCommits
    BY <1>11, <2>3 DEF Stop, Typed
  <2> QED BY <1>11, <2>1, <2>4 DEF Stop, Typed
<1> QED BY <1>1, <1>2, <1>3, <1>4, <1>5, <1>6, <1>7, <1>8, <1>9, <1>10, <1>11 DEF PassStep

\* And so do all others.
LEMMA NextTyped == DependencyInv /\ Typed /\ [Next]_vars => Typed'
<1> SUFFICES ASSUME DependencyInv, Typed, [Next]_vars PROVE Typed'
  OBVIOUS
<1> USE DEF storeVars, passVars
<1>1. ASSUME NEW p \in Passes, NEW r \in Readers, LateOffer(p, r) PROVE Typed'
  <2>1. StoreFor(p) \in Stores /\ loaded[p][r] \in Nat \cup {NoView}
    BY WorkerAssumption DEF StoreFor, Typed
  <2> QED BY <1>1, <2>1 DEF LateOffer, Offer, Typed
<1>2. ASSUME NEW d \in detached, DetachedCommit(d) PROVE Typed'
  <2>1. d.store \in Stores /\ d.base \in Nat
    BY DEF Typed, DetachedCommits
  <2>2. [store |-> d.store, base |-> d.base, results |-> {}] \in DetachedCommits
    BY <2>1 DEF DetachedCommits
  <2>3. detached' \subseteq DetachedCommits
    BY <1>2, <2>2 DEF DetachedCommit, Typed
  <2>4. locked' \in BOOLEAN
    BY <1>2 DEF DetachedCommit, Typed
  <2> QED BY <1>2, <2>3, <2>4 DEF DetachedCommit, Typed
<1>3. ASSUME NEW d \in detached, DetachedInvalidate(d) PROVE Typed'
  <2>1. d.store \in Stores
    BY DEF Typed, DetachedCommits
  <2> QED BY <1>3, <2>1 DEF DetachedInvalidate, Typed
<1>4. ASSUME NEW i \in Invocations, InvokeTool(i) \/ Expire(i) PROVE Typed'
  BY <1>4 DEF InvokeTool, Expire, Typed
<1>5. CASE InvalidatePolicy
  BY <1>5, WorkerAssumption DEF InvalidatePolicy, Typed
<1>6. CASE UNCHANGED vars
  BY <1>6 DEF vars, Typed
<1> QED BY <1>1, <1>2, <1>3, <1>4, <1>5, <1>6, PassKeepsTypes DEF Next

\* Whatever is cancelled and whoever races, the workers keep their types.
THEOREM WorkerTypes == Spec => []TypeOK
<1>1. DependencyInv /\ Typed => TypeOK
  BY DEF DependencyInv, Shapes, Typed, TypeOK
<1> QED BY <1>1, InitDependencyInv, InitTyped, NextDependencyInv, NextTyped, PTL DEF Spec

=============================================================================
