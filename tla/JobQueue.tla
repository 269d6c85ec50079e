------------------------------ MODULE JobQueue ------------------------------
(***************************************************************************)
(* The portal's job queue (apps/portal/shared/jobs.ts, InMemoryJobQueue)   *)
(* with the consumer loops of the runtime workers that drain it            *)
(* (apps/runtime-worker/queue-consumer.mjs).                               *)
(*                                                                         *)
(* Each method of the queue runs without an await, so it is one action, as *)
(* it must be for a durable backend too (the contract of JobQueue).  A     *)
(* call may be lost on its way there or back: the loop catches that.       *)
(*                                                                         *)
(* The clock matters only through the time a lease has left, which is what *)
(* the model keeps; it has no other bound on time.                         *)
(***************************************************************************)
EXTENDS Integers

CONSTANTS
    MaxJob,        \* bound: jobs enqueued
    Priority,      \* the priorities jobs are given
    MaxAttempts,   \* job.maxAttempts
    Worker,        \* consumer loops
    Name,          \* Name[w]: the workerId of loop w
    LeaseFor,      \* leaseSeconds, in ticks of the clock
    None

ASSUME JobQueueAssumption ==
    /\ MaxJob \in Nat
    /\ Priority \subseteq Int
    /\ MaxAttempts \in Nat \ {0}
    /\ LeaseFor \in Nat \ {0}
    /\ \A w \in Worker : Name[w] # None

\* A job's id is its place in the order of enqueue, which is also that of
\* createdAt: the clock does not go back, and sort() is stable.
Job == 1..MaxJob

VARIABLES
    seq,        \* this.seq: jobs enqueued so far
    priority,   \* the fields of a job
    status,
    attempts,
    leasedBy,
    left,       \* time until leaseExpiresAt; 0 when it has passed or is null
    result,     \* the number of the run whose result is kept, or 0
    doing,      \* the job loop w works on, or 0
    run,        \* which run of that job, as lease() returned it
    up          \* whether loop w runs

queueVars == <<seq, priority, status, attempts, leasedBy, left, result>>
loopVars  == <<doing, run, up>>
vars == <<seq, priority, status, attempts, leasedBy, left, result, doing, run, up>>

Terminal == {"succeeded", "failed", "cancelled"}
Statuses == {"absent", "queued", "leased"} \cup Terminal

Names == {Name[w] : w \in Worker}

\* What runQueueConsumer's default, worker_<pid>, gives on one machine only.
DistinctNames == \A v, w \in Worker : v # w => Name[v] # Name[w]

Init ==
    /\ seq      = 0
    /\ priority = [j \in Job |-> 0]
    /\ status   = [j \in Job |-> "absent"]
    /\ attempts = [j \in Job |-> 0]
    /\ leasedBy = [j \in Job |-> None]
    /\ left     = [j \in Job |-> 0]
    /\ result   = [j \in Job |-> 0]
    /\ doing    = [w \in Worker |-> 0]
    /\ run      = [w \in Worker |-> 0]
    /\ up       = [w \in Worker |-> TRUE]

-----------------------------------------------------------------------------
(* The queue.                                                              *)

Enqueue(p) ==
    LET j == seq + 1 IN
    /\ seq < MaxJob
    /\ seq' = j
    /\ status'   = [status EXCEPT ![j] = "queued"]
    /\ priority' = [priority EXCEPT ![j] = p]
    /\ UNCHANGED <<attempts, leasedBy, left, result, loopVars>>

\* Mutant: a job whose workers keep crashing is retried for ever.
AlwaysAgain(j) == "queued"

\* Where a run that has failed, or lost its lease, leaves its job.
AfterFailure(j) == IF attempts[j] < MaxAttempts THEN "queued" ELSE "failed"

\* Mutant: no lease ever expires.
ExpiredNever(j) == FALSE

Expired(j) == status[j] = "leased" /\ left[j] = 0

\* lease() first takes back every expired lease.
Reclaimed      == [j \in Job |-> IF Expired(j) THEN AfterFailure(j) ELSE status[j]]
ReclaimedNames == [j \in Job |-> IF Expired(j) THEN None ELSE leasedBy[j]]

\* The job that is handed out: of the highest priority, the oldest.
First(j, queued) ==
    /\ j \in queued
    /\ \A i \in queued : \/ priority[i] < priority[j]
                         \/ priority[i] = priority[j] /\ i >= j

\* Mutant: runs are counted when they fail, not when they begin.
HandOutUncounted(j, w) ==
    /\ status'   = [Reclaimed EXCEPT ![j] = "leased"]
    /\ leasedBy' = [ReclaimedNames EXCEPT ![j] = Name[w]]
    /\ left'     = [left EXCEPT ![j] = LeaseFor]
    /\ UNCHANGED <<seq, priority, attempts, result>>

HandOut(j, w) ==
    /\ status'   = [Reclaimed EXCEPT ![j] = "leased"]
    /\ leasedBy' = [ReclaimedNames EXCEPT ![j] = Name[w]]
    /\ attempts' = [attempts EXCEPT ![j] = @ + 1]
    /\ left'     = [left EXCEPT ![j] = LeaseFor]
    /\ UNCHANGED <<seq, priority, result>>

\* What cancel() does to a job that is over is no change: an error for a completed
\* or a dead one, nothing at all for a cancelled one.
Cancel(j) ==
    /\ status[j] \in {"queued", "leased"}
    /\ status'   = [status EXCEPT ![j] = "cancelled"]
    /\ leasedBy' = [leasedBy EXCEPT ![j] = None]
    /\ left'     = [left EXCEPT ![j] = 0]
    /\ UNCHANGED <<seq, priority, attempts, result, loopVars>>

Tick ==
    /\ \E j \in Job : left[j] > 0
    /\ left' = [j \in Job |-> IF left[j] > 0 THEN left[j] - 1 ELSE 0]
    /\ UNCHANGED <<seq, priority, status, attempts, leasedBy, result, loopVars>>

-----------------------------------------------------------------------------
(* The consumer loop.                                                      *)

Polling(w) == up[w] /\ doing[w] = 0

Working(w) == up[w] /\ doing[w] # 0

Queued == {j \in Job : Reclaimed[j] = "queued"}

\* Nothing to run: the loop sleeps and polls again.
LeaseNothing(w) ==
    /\ Polling(w)
    /\ Queued = {}
    /\ status'   = Reclaimed
    /\ leasedBy' = ReclaimedNames
    /\ UNCHANGED <<seq, priority, attempts, left, result, loopVars>>

Lease(w) ==
    /\ Polling(w)
    /\ \E j \in Job :
        /\ First(j, Queued)
        /\ HandOut(j, w)
        /\ doing' = [doing EXCEPT ![w] = j]
        /\ run'   = [run EXCEPT ![w] = attempts[j] + 1]
    /\ UNCHANGED up

\* The job is leased and the answer is lost: a lease error, and a new poll.
LeaseUnheard(w) ==
    /\ Polling(w)
    /\ \E j \in Job : First(j, Queued) /\ HandOut(j, w)
    /\ UNCHANGED loopVars

\* Mutants: the fence forgets who holds the lease; there is no fence.
AnyLease(j, w) == status[j] = "leased" /\ left[j] > 0
NoFence(j, w)  == TRUE

\* requireLease.
HasLease(j, w) == status[j] = "leased" /\ leasedBy[j] = Name[w] /\ left[j] > 0

\* The loop goes on to its next poll, whatever became of its report.
Reported(w) ==
    /\ Working(w)
    /\ doing' = [doing EXCEPT ![w] = 0]
    /\ run'   = [run EXCEPT ![w] = 0]
    /\ UNCHANGED up

Complete(w) ==
    LET j == doing[w] IN
    /\ Reported(w)
    /\ HasLease(j, w)
    /\ status'   = [status EXCEPT ![j] = "succeeded"]
    /\ result'   = [result EXCEPT ![j] = run[w]]
    /\ leasedBy' = [leasedBy EXCEPT ![j] = None]
    /\ left'     = [left EXCEPT ![j] = 0]
    /\ UNCHANGED <<seq, priority, attempts>>

Fail(w) ==
    LET j == doing[w] IN
    /\ Reported(w)
    /\ HasLease(j, w)
    /\ status'   = [status EXCEPT ![j] = AfterFailure(j)]
    /\ leasedBy' = [leasedBy EXCEPT ![j] = None]
    /\ left'     = [left EXCEPT ![j] = 0]
    /\ UNCHANGED <<seq, priority, attempts, result>>

\* The report is refused as stale, or is lost on its way: it is not repeated.
ReportDropped(w) ==
    /\ Reported(w)
    /\ UNCHANGED queueVars

\* The abort signal ends the loop at its next poll; a crash ends it anywhere.
Stop(w) ==
    /\ up[w]
    /\ up'    = [up EXCEPT ![w] = FALSE]
    /\ doing' = [doing EXCEPT ![w] = 0]
    /\ run'   = [run EXCEPT ![w] = 0]
    /\ UNCHANGED queueVars

\* A new process, under the name of the one that ended.
Restart(w) ==
    /\ ~up[w]
    /\ up' = [up EXCEPT ![w] = TRUE]
    /\ UNCHANGED <<queueVars, doing, run>>

-----------------------------------------------------------------------------
LoopStep(w) ==
    \/ LeaseNothing(w) \/ Lease(w) \/ LeaseUnheard(w)
    \/ Complete(w) \/ Fail(w) \/ ReportDropped(w)
    \/ Stop(w) \/ Restart(w)

Next ==
    \/ \E p \in Priority : Enqueue(p)
    \/ \E j \in Job : Cancel(j)
    \/ \E w \in Worker : LoopStep(w)
    \/ Tick

SafeSpec == Init /\ [][Next]_vars

\* Time passes; a loop that stays up polls, and its captures end, being held to
\* a navigation timeout and a settle time.  No loop is obliged to stay up.
Fairness ==
    /\ WF_vars(Tick)
    /\ \A w \in Worker :
        /\ WF_vars(LeaseNothing(w) \/ Lease(w))
        /\ WF_vars(Complete(w) \/ Fail(w) \/ ReportDropped(w))

Spec == SafeSpec /\ Fairness

-----------------------------------------------------------------------------
(* Properties.                                                             *)

\* The shapes of the jobs and the loops; no job is run more than maxAttempts times,
\* however its workers end.
TypeOK ==
    /\ seq      \in 0..MaxJob
    /\ priority \in [Job -> Priority \cup {0}]
    /\ status   \in [Job -> Statuses]
    /\ attempts \in [Job -> 0..MaxAttempts]
    /\ leasedBy \in [Job -> Names \cup {None}]
    /\ left     \in [Job -> 0..LeaseFor]
    /\ result   \in [Job -> 0..MaxAttempts]
    /\ doing    \in [Worker -> Job \cup {0}]
    /\ run      \in [Worker -> 0..MaxAttempts]
    /\ up       \in [Worker -> BOOLEAN]

\* No two loops ever work on the same run of a job, even when a lease is lost
\* and handed out again while its first holder is still at work.
OneLoopPerRun ==
    \A v, w \in Worker :
        v # w /\ doing[v] # 0 /\ doing[v] = doing[w] => run[v] # run[w]

\* A report changes a job only if it is of the job's latest run: a loop whose
\* lease lapsed cannot complete, fail or requeue a job another loop now runs.
StaleReportsDropped ==
    [][\A w \in Worker :
         Working(w) /\ doing'[w] = 0 /\ status'[doing[w]] # status[doing[w]]
            => run[w] = attempts[doing[w]]]_vars

\* The queue implements the lifecycle of each job.
Life == INSTANCE JobLifecycle WITH
    Job         <- Job,
    MaxAttempts <- MaxAttempts,
    status      <- status,
    attempts    <- attempts,
    result      <- result

\* Each job moves only as the worker transitions of jobs.ts allow, keeps the
\* result of its latest run alone, and is given up after maxAttempts runs.
LifecycleKept == Life!Spec

\* No job is left behind by crashes, lost calls or lost leases: as long as some
\* loop stays up in the end, each job ends.
JobsEnd ==
    (\E w \in Worker : <>[]up[w])
        => \A j \in Job : (status[j] = "queued") ~> (status[j] \in Terminal)
=============================================================================
