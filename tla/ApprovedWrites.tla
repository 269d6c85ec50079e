--------------------------- MODULE ApprovedWrites ---------------------------
(***************************************************************************)
(* What the chat orchestrator promises about the tool calls of its turns   *)
(* (apps/chat-orchestrator/src/loop.ts and approvals.ts): calls run one at *)
(* a time, those above the tier the user has left open run only when its   *)
(* owner said yes, a turn that was stopped begins none, and a call is run  *)
(* again at most once in a turn.                                           *)
(***************************************************************************)
EXTENDS Integers

CONSTANTS Turn, Call, Gated, Owner, Nobody

VARIABLES
    stopped,    \* turns whose client left or whose time ran out
    fate,       \* what became of each call
    tier,       \* the tier of each call that was begun
    approver,   \* who approved it
    runs        \* how often it was sent

promiseVars == <<stopped, fate, tier, approver, runs>>

OneEach(f, v) == f = [t \in Turn |-> [c \in Call |-> v]]

Init ==
    /\ stopped = {}
    /\ OneEach(fate, "none")
    /\ OneEach(tier, "none")
    /\ OneEach(approver, Nobody)
    /\ OneEach(runs, 0)

Busy(t) == \E c \in Call : fate[t][c] \in {"waiting", "running"}

Retried(t) == \E c \in Call : runs[t][c] = 2

Becomes(t, c, from, to) ==
    /\ fate[t][c] = from
    /\ fate' = [fate EXCEPT ![t][c] = to]

\* A turn that stops takes its open question back, and only its own.
Stop(t) ==
    /\ t \notin stopped
    /\ stopped' = stopped \cup {t}
    /\ fate' = [fate EXCEPT ![t] =
                 [c \in Call |-> IF @[c] = "waiting" THEN "unsent" ELSE @[c]]]
    /\ UNCHANGED <<tier, approver, runs>>

Begin(t, c, to) == t \notin stopped /\ ~Busy(t) /\ Becomes(t, c, "none", to)

Ask(t, c) ==
    /\ Begin(t, c, "waiting")
    /\ \E k \in Gated : tier' = [tier EXCEPT ![t][c] = k]
    /\ UNCHANGED <<stopped, approver, runs>>

RunFreely(t, c) ==
    /\ Begin(t, c, "running")
    /\ tier' = [tier EXCEPT ![t][c] = "direct"]
    /\ runs' = [runs EXCEPT ![t][c] = 1]
    /\ UNCHANGED <<stopped, approver>>

\* A call that nobody has to be asked about and that changes nothing.
Skip(t, c) == Begin(t, c, "unsent") /\ UNCHANGED <<stopped, tier, approver, runs>>

Approve(t, c) ==
    /\ t \notin stopped
    /\ Becomes(t, c, "waiting", "running")
    /\ approver' = [approver EXCEPT ![t][c] = Owner[t]]
    /\ runs' = [runs EXCEPT ![t][c] = 1]
    /\ UNCHANGED <<stopped, tier>>

Refuse(t, c) == Becomes(t, c, "waiting", "unsent") /\ UNCHANGED <<stopped, tier, approver, runs>>

Answered(t, c) == Becomes(t, c, "running", "over") /\ UNCHANGED <<stopped, tier, approver, runs>>

\* Once in a turn, and even in one that was stopped meanwhile.
RunAgain(t, c) ==
    /\ fate[t][c] = "running" /\ ~Retried(t)
    /\ runs' = [runs EXCEPT ![t][c] = 2]
    /\ UNCHANGED <<stopped, fate, tier, approver>>

Next ==
    \E t \in Turn :
        \/ Stop(t)
        \/ \E c \in Call :
            \/ Ask(t, c) \/ RunFreely(t, c) \/ Skip(t, c)
            \/ Approve(t, c) \/ Refuse(t, c) \/ Answered(t, c) \/ RunAgain(t, c)

Spec == Init /\ [][Next]_promiseVars
=============================================================================
