---------------------------- MODULE JobLifecycle ----------------------------
(***************************************************************************)
(* What the job queue promises about each job, whatever workers, clocks    *)
(* and leases do: the transitions of WORKER_TRANSITIONS                    *)
(* (apps/portal/shared/jobs.ts), the bound on runs, and whose result is    *)
(* kept.  Jobs do not depend on each other, and one call may move several. *)
(***************************************************************************)
EXTENDS Integers

CONSTANTS Job, MaxAttempts

VARIABLES
    status,     \* where the job is; "absent" before it is enqueued
    attempts,   \* runs begun so far: the number of the latest run
    result      \* the number of the run whose result is kept, or 0

lifeVars == <<status, attempts, result>>

Terminal == {"succeeded", "failed", "cancelled"}

Init ==
    /\ status   = [j \in Job |-> "absent"]
    /\ attempts = [j \in Job |-> 0]
    /\ result   = [j \in Job |-> 0]

\* The job moves, and neither its runs nor its result change.
Moves(j, from, to) ==
    /\ status[j] \in from /\ status'[j] = to
    /\ attempts'[j] = attempts[j] /\ result'[j] = result[j]

Submit(j) == Moves(j, {"absent"}, "queued")

\* A new run, of a queued job or of one whose lease has just been lost.
Run(j) ==
    /\ status[j] \in {"queued", "leased"}
    /\ attempts[j] < MaxAttempts
    /\ status'[j] = "leased"
    /\ attempts'[j] = attempts[j] + 1
    /\ result'[j] = result[j]

\* Only the latest run may end the job with its result.
Succeed(j) ==
    /\ status[j] = "leased"
    /\ status'[j] = "succeeded"
    /\ attempts'[j] = attempts[j]
    /\ result'[j] = attempts[j]

Retry(j)  == attempts[j] < MaxAttempts /\ Moves(j, {"leased"}, "queued")
GiveUp(j) == attempts[j] = MaxAttempts /\ Moves(j, {"leased"}, "failed")
Cancel(j) == Moves(j, {"queued", "leased"}, "cancelled")

Same(j) == status'[j] = status[j] /\ attempts'[j] = attempts[j] /\ result'[j] = result[j]

Next ==
    \A j \in Job :
        Submit(j) \/ Run(j) \/ Succeed(j) \/ Retry(j) \/ GiveUp(j) \/ Cancel(j) \/ Same(j)

Spec == Init /\ [][Next]_lifeVars
=============================================================================
