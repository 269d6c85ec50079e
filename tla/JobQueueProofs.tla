--------------------------- MODULE JobQueueProofs ---------------------------
(***************************************************************************)
(* The job queue for any number of jobs, attempts, workers and ticks.      *)
(***************************************************************************)
EXTENDS JobQueue, TLAPS

\* The counts: a job yet to come has no run, and one that waits has one left.
Counted ==
    \A j \in Job :
        /\ j > seq => status[j] = "absent"
        /\ status[j] = "absent" => attempts[j] = 0
        /\ status[j] = "queued" => attempts[j] < MaxAttempts

\* A loop works on a run that has begun.
RunBegun ==
    \A w \in Worker : doing[w] # 0 => run[w] <= attempts[doing[w]] /\ run[w] > 0

JobInv == TypeOK /\ Counted /\ RunBegun /\ OneLoopPerRun

\* Whoever holds a job's lease, by name, works on its latest run.
HolderIsLatest ==
    \A w \in Worker :
        doing[w] # 0 /\ status[doing[w]] = "leased" /\ leasedBy[doing[w]] = Name[w]
            => run[w] = attempts[doing[w]]

-----------------------------------------------------------------------------
\* Taking leases back leaves each job in a status of the machine, and one that
\* goes back to the queue with an attempt left.
LEMMA ReclaimedOK ==
    ASSUME TypeOK, Counted
    PROVE  /\ Reclaimed \in [Job -> Statuses]
           /\ ReclaimedNames \in [Job -> Names \cup {None}]
           /\ \A j \in Job : /\ Reclaimed[j] = "queued" => attempts[j] < MaxAttempts
                             /\ Reclaimed[j] = "leased" => status[j] = "leased"
                                                           /\ ReclaimedNames[j] = leasedBy[j]
                             /\ Reclaimed[j] # status[j] =>
                                    /\ status[j] = "leased"
                                    /\ \/ Reclaimed[j] = "queued"
                                       \/ Reclaimed[j] = "failed" /\ attempts[j] = MaxAttempts
  BY JobQueueAssumption
  DEF TypeOK, Counted, Reclaimed, ReclaimedNames, AfterFailure, Expired, Statuses, Terminal

\* What a lease does to the job handed out, and to the others.
LEMMA HandOutEffect ==
    ASSUME JobInv, NEW w \in Worker, NEW j \in Job, First(j, Queued), HandOut(j, w)
    PROVE  /\ Reclaimed[j] = "queued" /\ attempts[j] < MaxAttempts
           /\ status' \in [Job -> Statuses] /\ leasedBy' \in [Job -> Names \cup {None}]
           /\ attempts' \in [Job -> 0..MaxAttempts] /\ left' \in [Job -> 0..LeaseFor]
           /\ status'[j] = "leased" /\ leasedBy'[j] = Name[w] /\ attempts'[j] = attempts[j] + 1
           /\ \A i \in Job : i # j => /\ status'[i] = Reclaimed[i]
                                      /\ leasedBy'[i] = ReclaimedNames[i]
                                      /\ attempts'[i] = attempts[i]
<1>1. TypeOK /\ Counted
  BY DEF JobInv
<1>2. Reclaimed[j] = "queued" /\ attempts[j] < MaxAttempts
  BY <1>1, ReclaimedOK DEF First, Queued
<1>3. /\ Reclaimed \in [Job -> Statuses]
      /\ ReclaimedNames \in [Job -> Names \cup {None}]
  BY <1>1, ReclaimedOK
<1>. HIDE DEF Reclaimed, ReclaimedNames
<1>. QED  BY <1>1, <1>2, <1>3, JobQueueAssumption DEF HandOut, TypeOK, Names, Statuses

-----------------------------------------------------------------------------
(* The inductive invariant.                                                *)

\* An empty queue with idle loops satisfies the invariant.
LEMMA InitInv == Init => JobInv /\ HolderIsLatest
  BY JobQueueAssumption
  DEF Init, JobInv, TypeOK, Counted, RunBegun, OneLoopPerRun, HolderIsLatest, Statuses, Names

\* Every step but a lease: jobs move on, and loops only put their work down.
LEMMA OtherStepInv ==
    ASSUME JobInv,
           \/ \E p \in Priority : Enqueue(p)
           \/ \E j \in Job : Cancel(j)
           \/ \E w \in Worker : LeaseNothing(w) \/ Complete(w) \/ Fail(w) \/ ReportDropped(w)
                                \/ Stop(w) \/ Restart(w)
           \/ Tick
           \/ UNCHANGED vars
    PROVE  JobInv' /\ (HolderIsLatest => HolderIsLatest')
<1>. USE JobQueueAssumption
<1>0. TypeOK /\ Counted /\ RunBegun /\ OneLoopPerRun
  BY DEF JobInv
<1>1. ASSUME NEW p \in Priority, Enqueue(p) PROVE JobInv' /\ (HolderIsLatest => HolderIsLatest')
  <2>1. TypeOK'
    BY SMTT(30), <1>0, <1>1 DEF Enqueue, TypeOK, Statuses, Job, loopVars
  <2>2. Counted'
    BY <1>0, <1>1 DEF Enqueue, TypeOK, Counted, Job, Statuses
  <2>3. RunBegun' /\ OneLoopPerRun'
    BY <1>0, <1>1 DEF Enqueue, RunBegun, OneLoopPerRun, loopVars
  <2>4. HolderIsLatest => HolderIsLatest'
    BY <1>0, <1>1 DEF Enqueue, HolderIsLatest, TypeOK, loopVars, Job
  <2>. QED  BY <2>1, <2>2, <2>3, <2>4 DEF JobInv
<1>2. ASSUME NEW j \in Job, Cancel(j) PROVE JobInv' /\ (HolderIsLatest => HolderIsLatest')
  <2>1. TypeOK'
    BY <1>0, <1>2 DEF Cancel, TypeOK, Statuses, Terminal, loopVars
  <2>2. Counted' /\ RunBegun' /\ OneLoopPerRun'
    BY <1>0, <1>2 DEF Cancel, TypeOK, Counted, RunBegun, OneLoopPerRun, loopVars
  <2>3. HolderIsLatest => HolderIsLatest'
    BY <1>0, <1>2 DEF Cancel, HolderIsLatest, TypeOK, loopVars
  <2>. QED  BY <2>1, <2>2, <2>3 DEF JobInv
<1>3. ASSUME NEW w \in Worker, LeaseNothing(w) PROVE JobInv' /\ (HolderIsLatest => HolderIsLatest')
  <2>1. /\ status' = Reclaimed /\ leasedBy' = ReclaimedNames
        /\ UNCHANGED <<seq, priority, attempts, left, result, doing, run, up>>
    BY <1>3 DEF LeaseNothing, loopVars
  <2>2. TypeOK'
    BY <1>0, <2>1, ReclaimedOK DEF TypeOK
  <2>3. Counted'
    <3>1. \A j \in Job : /\ Reclaimed[j] = "queued" => attempts[j] < MaxAttempts
                         /\ status[j] = "absent" <=> Reclaimed[j] = "absent"
      BY <1>0, ReclaimedOK
    <3>. HIDE DEF Reclaimed
    <3>. QED  BY <1>0, <2>1, <3>1 DEF Counted
  <2>4. RunBegun' /\ OneLoopPerRun'
    BY <1>0, <2>1 DEF RunBegun, OneLoopPerRun
  <2>5. HolderIsLatest => HolderIsLatest'
    BY <1>0, <2>1, ReclaimedOK DEF HolderIsLatest, TypeOK
  <2>. QED  BY <2>2, <2>3, <2>4, <2>5 DEF JobInv
<1>4. ASSUME NEW w \in Worker, Complete(w) PROVE JobInv' /\ (HolderIsLatest => HolderIsLatest')
  <2>1. TypeOK' /\ Counted' /\ RunBegun' /\ OneLoopPerRun'
    BY <1>0, <1>4 DEF Complete, Reported, HasLease, Working, TypeOK, Counted, RunBegun,
                      OneLoopPerRun, Statuses, Terminal
  <2>2. HolderIsLatest => HolderIsLatest'
    BY <1>0, <1>4 DEF Complete, Reported, HasLease, Working, HolderIsLatest, TypeOK
  <2>. QED  BY <2>1, <2>2 DEF JobInv
<1>5. ASSUME NEW w \in Worker, Fail(w) PROVE JobInv' /\ (HolderIsLatest => HolderIsLatest')
  <2>1. TypeOK' /\ Counted' /\ RunBegun' /\ OneLoopPerRun'
    BY <1>0, <1>5 DEF Fail, Reported, HasLease, Working, AfterFailure, TypeOK, Counted, RunBegun,
                      OneLoopPerRun, Statuses, Terminal
  <2>2. HolderIsLatest => HolderIsLatest'
    BY <1>0, <1>5 DEF Fail, Reported, HasLease, Working, AfterFailure, HolderIsLatest, TypeOK
  <2>. QED  BY <2>1, <2>2 DEF JobInv
<1>6. ASSUME NEW w \in Worker, ReportDropped(w) \/ Stop(w) PROVE JobInv' /\ (HolderIsLatest => HolderIsLatest')
  <2>1. /\ doing' = [doing EXCEPT ![w] = 0] /\ run' = [run EXCEPT ![w] = 0]
        /\ up' \in [Worker -> BOOLEAN] /\ UNCHANGED queueVars
    BY <1>0, <1>6 DEF ReportDropped, Stop, Reported, TypeOK
  <2>2. TypeOK' /\ Counted' /\ RunBegun' /\ OneLoopPerRun'
    BY <1>0, <2>1 DEF queueVars, TypeOK, Counted, RunBegun, OneLoopPerRun
  <2>3. HolderIsLatest => HolderIsLatest'
    BY <1>0, <2>1 DEF queueVars, HolderIsLatest, TypeOK
  <2>. QED  BY <2>2, <2>3 DEF JobInv
<1>7. ASSUME \/ Tick \/ UNCHANGED vars \/ \E w \in Worker : Restart(w)
      PROVE  JobInv' /\ (HolderIsLatest => HolderIsLatest')
  <2>1. /\ UNCHANGED <<seq, priority, status, attempts, leasedBy, result, doing, run>>
        /\ left' \in [Job -> 0..LeaseFor] /\ up' \in [Worker -> BOOLEAN]
    <3>1. CASE Tick
      BY <1>0, <3>1 DEF Tick, loopVars, TypeOK
    <3>2. CASE \/ UNCHANGED vars \/ \E w \in Worker : Restart(w)
      BY <1>0, <3>2 DEF Restart, vars, queueVars, TypeOK
    <3>. QED  BY <1>7, <3>1, <3>2
  <2>. QED  BY <1>0, <2>1 DEF JobInv, TypeOK, Counted, RunBegun, OneLoopPerRun, HolderIsLatest
<1>. QED  BY <1>1, <1>2, <1>3, <1>4, <1>5, <1>6, <1>7

\* A lease begins a run later than every other: whoever worked on the job before
\* works on an older one, and with a name for each loop is no longer its holder.
LEMMA LeaseInv ==
    ASSUME JobInv, NEW w \in Worker, Lease(w) \/ LeaseUnheard(w)
    PROVE  JobInv' /\ (DistinctNames /\ HolderIsLatest => HolderIsLatest')
<1>. USE JobQueueAssumption
<1>0. TypeOK /\ Counted /\ RunBegun /\ OneLoopPerRun
  BY DEF JobInv
<1>1. PICK j \in Job : /\ First(j, Queued) /\ HandOut(j, w)
                       /\ \/ doing' = [doing EXCEPT ![w] = j] /\ run' = [run EXCEPT ![w] = attempts[j] + 1]
                          \/ doing' = doing /\ run' = run
                       /\ up' = up
  BY DEF Lease, LeaseUnheard, loopVars
<1>2. doing[w] = 0
  BY DEF Lease, LeaseUnheard, Polling
<1>3. /\ Reclaimed[j] = "queued" /\ attempts[j] < MaxAttempts
      /\ status' \in [Job -> Statuses] /\ leasedBy' \in [Job -> Names \cup {None}]
      /\ attempts' \in [Job -> 0..MaxAttempts] /\ left' \in [Job -> 0..LeaseFor]
      /\ status'[j] = "leased" /\ leasedBy'[j] = Name[w] /\ attempts'[j] = attempts[j] + 1
      /\ \A i \in Job : i # j => /\ status'[i] = Reclaimed[i]
                                 /\ leasedBy'[i] = ReclaimedNames[i]
                                 /\ attempts'[i] = attempts[i]
  BY <1>1, HandOutEffect
<1>4. seq' = seq /\ priority' = priority /\ result' = result
  BY <1>1 DEF HandOut
<1>5. j <= seq
  <2>1. status[j] # "absent"
    BY <1>0, <1>3, ReclaimedOK
  <2>. QED  BY <1>0, <2>1 DEF Counted, TypeOK, Job
<1>6. \A i \in Job : /\ Reclaimed[i] = "queued" => attempts[i] < MaxAttempts
                     /\ Reclaimed[i] = "leased" => status[i] = "leased" /\ ReclaimedNames[i] = leasedBy[i]
                     /\ status[i] = "absent" <=> Reclaimed[i] = "absent"
  BY <1>0, ReclaimedOK
<1>. HIDE DEF Reclaimed, ReclaimedNames
<1>7. TypeOK'
  BY <1>0, <1>1, <1>3, <1>4 DEF TypeOK
<1>8. Counted'
  BY <1>0, <1>3, <1>4, <1>5, <1>6 DEF Counted, TypeOK, Job
<1>9. RunBegun'
  BY <1>0, <1>1, <1>3 DEF RunBegun, TypeOK
<1>10. OneLoopPerRun'
  BY <1>0, <1>1, <1>2, <1>3 DEF RunBegun, OneLoopPerRun, TypeOK
<1>11. DistinctNames /\ HolderIsLatest => HolderIsLatest'
  <2>. SUFFICES ASSUME DistinctNames, HolderIsLatest, NEW v \in Worker, doing'[v] # 0, status'[doing'[v]] = "leased",
                       leasedBy'[doing'[v]] = Name[v]
                PROVE  run'[v] = attempts'[doing'[v]]
    BY DEF HolderIsLatest
  <2>1. CASE v = w
    BY <1>0, <1>1, <1>2, <1>3, <2>1 DEF TypeOK
  <2>2. CASE v # w
    <3>1. doing'[v] = doing[v] /\ run'[v] = run[v] /\ doing[v] \in Job
      BY <1>0, <1>1, <2>2 DEF TypeOK
    <3>2. doing[v] # j
      BY <1>3, <2>2, <3>1 DEF DistinctNames
    <3>. QED  BY <1>3, <1>6, <3>1, <3>2 DEF HolderIsLatest
  <2>. QED  BY <2>1, <2>2
<1>. QED  BY <1>7, <1>8, <1>9, <1>10, <1>11 DEF JobInv

LEMMA StepInv ==
    ASSUME JobInv, [Next]_vars
    PROVE  JobInv' /\ (DistinctNames /\ HolderIsLatest => HolderIsLatest')
  BY OtherStepInv, LeaseInv DEF Next, LoopStep

-----------------------------------------------------------------------------
(* The theorems.  Types and runs need nothing of a deployment; the fence and *)
(* the lifecycle, which keeps the results, need a name for each loop.      *)

\* The inductive invariant of the counts and the runs, whatever names the loops
\* have.
THEOREM CountsInvariant == SafeSpec => []JobInv
<1>1. Init => JobInv
  BY InitInv
<1>2. JobInv /\ [Next]_vars => JobInv'
  BY StepInv
<1>. QED  BY <1>1, <1>2, PTL DEF SafeSpec

\* The inductive invariant with the holders of the leases.
THEOREM JobInvariant == DistinctNames => (SafeSpec => [](JobInv /\ HolderIsLatest))
<1>. SUFFICES ASSUME DistinctNames PROVE SafeSpec => [](JobInv /\ HolderIsLatest)
  OBVIOUS
<1>1. Init => JobInv /\ HolderIsLatest
  BY InitInv
<1>2. JobInv /\ HolderIsLatest /\ [Next]_vars => (JobInv /\ HolderIsLatest)'
  BY StepInv
<1>. QED  BY <1>1, <1>2, PTL DEF SafeSpec

\* Type correctness; in particular no job is ever run more than MaxAttempts times,
\* even by loops that share a name.
THEOREM JobTypes == SafeSpec => []TypeOK
<1>1. JobInv => TypeOK
  BY DEF JobInv
<1>. QED  BY <1>1, CountsInvariant, PTL

\* No two loops are ever given the same run of a job, even loops that share a name.
THEOREM RunsUnshared == SafeSpec => []OneLoopPerRun
<1>1. JobInv => OneLoopPerRun
  BY DEF JobInv
<1>. QED  BY <1>1, CountsInvariant, PTL

\* A job that has ended is not run, cancelled or reported on again: its run count
\* and the result that is kept stay as they are.
EndedStays ==
    [][\A j \in Job : status[j] \in Terminal =>
          status'[j] = status[j] /\ attempts'[j] = attempts[j] /\ result'[j] = result[j]]_vars

\* Reports that come late, and cancels, find a job that has ended as it ended
\* (requireLease and cancel refuse), even if loops share a name.
THEOREM EndedIsFinal == SafeSpec => EndedStays
<1>. DEFINE Stays(j) ==
       status[j] \in Terminal =>
          status'[j] = status[j] /\ attempts'[j] = attempts[j] /\ result'[j] = result[j]
<1>1. ASSUME JobInv, [Next]_vars PROVE [\A j \in Job : Stays(j)]_vars
  <2>. SUFFICES ASSUME Next, NEW j \in Job PROVE Stays(j)
    BY <1>1
  <2>0. TypeOK /\ Counted
    BY <1>1 DEF JobInv
  <2>1. ASSUME NEW p \in Priority, Enqueue(p) PROVE Stays(j)
    BY <2>0, <2>1 DEF Enqueue, TypeOK, Counted, Terminal, Job
  <2>2. CASE Tick \/ \E i \in Job : Cancel(i)
    BY <2>0, <2>2 DEF Tick, Cancel, TypeOK, Terminal
  <2>3. ASSUME NEW w \in Worker, LeaseNothing(w) PROVE Stays(j)
    BY <2>0, <2>3 DEF LeaseNothing, Reclaimed, Expired, Terminal
  <2>4. ASSUME NEW w \in Worker, NEW i \in Job, First(i, Queued), HandOut(i, w) PROVE Stays(j)
    <3>1. Reclaimed[i] = "queued" /\ result' = result
          /\ \A k \in Job : k # i => status'[k] = Reclaimed[k] /\ attempts'[k] = attempts[k]
      BY <1>1, <2>4, HandOutEffect DEF HandOut
    <3>2. status[j] \in Terminal => Reclaimed[j] = status[j] /\ j # i
      BY <2>0, <3>1 DEF Reclaimed, Expired, Terminal
    <3>. QED  BY <3>1, <3>2
  <2>5. ASSUME NEW w \in Worker, Complete(w) \/ Fail(w) PROVE Stays(j)
    BY <2>0, <2>5 DEF Complete, Fail, HasLease, TypeOK, Terminal
  <2>6. ASSUME NEW w \in Worker, ReportDropped(w) \/ Stop(w) \/ Restart(w) PROVE Stays(j)
    BY <2>6 DEF ReportDropped, Stop, Restart, queueVars
  <2>. QED  BY <2>1, <2>2, <2>3, <2>4, <2>5, <2>6 DEF Next, LoopStep, Lease, LeaseUnheard
<1>. QED  BY <1>1, CountsInvariant, PTL DEF SafeSpec, EndedStays

\* The fence: a stale report never changes a job.
THEOREM FenceHolds == DistinctNames => (SafeSpec => StaleReportsDropped)
<1>. DEFINE Fenced ==
       \A w \in Worker :
         Working(w) /\ doing'[w] = 0 /\ status'[doing[w]] # status[doing[w]]
            => run[w] = attempts[doing[w]]
<1>1. ASSUME JobInv, HolderIsLatest, [Next]_vars PROVE [Fenced]_vars
  <2>. SUFFICES ASSUME Next, NEW w \in Worker, Working(w), doing'[w] = 0,
                       status'[doing[w]] # status[doing[w]]
                PROVE  run[w] = attempts[doing[w]]
    BY <1>1
  <2>0. TypeOK /\ doing[w] # 0 /\ doing[w] \in Job
    BY <1>1 DEF JobInv, TypeOK, Working
  <2>1. PICK v \in Worker : LoopStep(v)
    BY <2>0 DEF Next, Enqueue, Cancel, Tick, loopVars
  <2>2. CASE v = w /\ (Complete(v) \/ Fail(v))
    BY <1>1, <2>0, <2>2 DEF Complete, Fail, HasLease, HolderIsLatest
  <2>3. CASE v # w
    BY <2>0, <2>1, <2>3
    DEF LoopStep, LeaseNothing, Lease, LeaseUnheard, Complete, Fail, ReportDropped, Reported,
        Stop, Restart, TypeOK, loopVars
  <2>4. CASE v = w /\ ~(Complete(v) \/ Fail(v))
    BY <2>0, <2>1, <2>4
    DEF LoopStep, LeaseNothing, Lease, LeaseUnheard, ReportDropped, Stop, Restart, Polling,
        TypeOK, loopVars, queueVars
  <2>. QED  BY <2>2, <2>3, <2>4
<1>. QED  BY <1>1, JobInvariant, PTL DEF SafeSpec, StaleReportsDropped

\* One step of the queue, seen by each job.
LEMMA StepLives ==
    ASSUME JobInv, HolderIsLatest, [Next]_vars
    PROVE  [Life!Next]_(Life!lifeVars)
<1>. USE JobQueueAssumption
<1>. USE DEF Life!Submit, Life!Run, Life!Succeed, Life!Retry, Life!GiveUp, Life!Cancel, Life!Same,
             Life!Moves, Life!Next, Life!lifeVars
<1>0. TypeOK /\ Counted
  BY DEF JobInv
<1>1. ASSUME NEW p \in Priority, Enqueue(p) PROVE Life!Next
  BY <1>0, <1>1 DEF Enqueue, TypeOK, Counted, Job
<1>2. ASSUME NEW j \in Job, Cancel(j) PROVE Life!Next
  BY <1>0, <1>2 DEF Cancel, TypeOK
<1>3. ASSUME NEW w \in Worker, LeaseNothing(w) PROVE Life!Next
  <2>1. status' = Reclaimed /\ attempts' = attempts /\ result' = result
    BY <1>3 DEF LeaseNothing
  <2>2. \A j \in Job : /\ Reclaimed[j] = "queued" => attempts[j] < MaxAttempts
                       /\ Reclaimed[j] # status[j] =>
                            /\ status[j] = "leased"
                            /\ \/ Reclaimed[j] = "queued"
                               \/ Reclaimed[j] = "failed" /\ attempts[j] = MaxAttempts
    BY <1>0, ReclaimedOK
  <2>. HIDE DEF Reclaimed
  <2>. QED  BY <2>1, <2>2
<1>4. ASSUME NEW w \in Worker, Lease(w) \/ LeaseUnheard(w) PROVE Life!Next
  <2>1. PICK j \in Job : First(j, Queued) /\ HandOut(j, w)
    BY <1>4 DEF Lease, LeaseUnheard
  <2>2. /\ Reclaimed[j] = "queued" /\ attempts[j] < MaxAttempts
        /\ status'[j] = "leased" /\ attempts'[j] = attempts[j] + 1
        /\ \A i \in Job : i # j => status'[i] = Reclaimed[i] /\ attempts'[i] = attempts[i]
    BY <2>1, HandOutEffect
  <2>3. result' = result
    BY <2>1 DEF HandOut
  <2>4. \A i \in Job : /\ Reclaimed[i] = "queued" => attempts[i] < MaxAttempts
                       /\ Reclaimed[i] # status[i] =>
                            /\ status[i] = "leased"
                            /\ \/ Reclaimed[i] = "queued"
                               \/ Reclaimed[i] = "failed" /\ attempts[i] = MaxAttempts
    BY <1>0, ReclaimedOK
  <2>. HIDE DEF Reclaimed
  <2>5. Life!Run(j)
    BY <2>2, <2>3, <2>4
  <2>6. ASSUME NEW i \in Job, i # j PROVE Life!Retry(i) \/ Life!GiveUp(i) \/ Life!Same(i)
    BY <2>2, <2>3, <2>4, <2>6
  <2>. QED  BY <2>5, <2>6
<1>5. ASSUME NEW w \in Worker, Complete(w) PROVE Life!Next
  <2>1. run[w] = attempts[doing[w]]
    BY <1>5 DEF Complete, Reported, Working, HasLease, HolderIsLatest
  <2>. QED  BY <1>0, <1>5, <2>1 DEF Complete, Reported, Working, HasLease, TypeOK
<1>6. ASSUME NEW w \in Worker, Fail(w) PROVE Life!Next
  BY <1>0, <1>6 DEF Fail, Reported, Working, HasLease, AfterFailure, TypeOK
<1>7. ASSUME \/ Tick \/ UNCHANGED vars
             \/ \E w \in Worker : ReportDropped(w) \/ Stop(w) \/ Restart(w)
      PROVE  UNCHANGED Life!lifeVars
  BY <1>7 DEF Tick, vars, ReportDropped, Stop, Restart, queueVars
<1>. QED  BY <1>1, <1>2, <1>3, <1>4, <1>5, <1>6, <1>7 DEF Next, LoopStep

\* The queue implements the lifecycle it promises for each job.
THEOREM QueueRefinesLifecycle == DistinctNames => (SafeSpec => LifecycleKept)
<1>1. Init => Life!Init
  BY DEF Init, Life!Init
<1>2. JobInv /\ HolderIsLatest /\ [Next]_vars => [Life!Next]_(Life!lifeVars)
  BY StepLives
<1>. QED  BY <1>1, <1>2, JobInvariant, PTL DEF SafeSpec, LifecycleKept, Life!Spec
=============================================================================
