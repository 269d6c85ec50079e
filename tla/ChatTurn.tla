------------------------------ MODULE ChatTurn ------------------------------
(***************************************************************************)
(* Chat turns of the orchestrator: the route POST /v1/chat                 *)
(* (apps/chat-orchestrator/src/index.ts), the rounds of model and tool     *)
(* calls (loop.ts, openai.ts), and the broker that parks a write until its *)
(* user has decided (approvals.ts).                                        *)
(*                                                                         *)
(* One thread runs all turns.  The code between two awaits is cut into     *)
(* several actions here, and `thread` names the turn it belongs to: while  *)
(* it is set nothing else happens.  An abort, a timer, an answer or an     *)
(* incoming request comes only when the thread is free.                    *)
(***************************************************************************)
EXTENDS Integers, Sequences, FiniteSets, Functions

CONSTANTS
    Turn,         \* requests to /v1/chat
    User,
    Owner,        \* Owner[t]: the user of turn t
    Batches,      \* the lists of tool calls the model may answer with
    MaxCalls,     \* cfg.limits.maxToolCallsPerTurn
    MaxRetries,   \* MAX_RETRIES: attempts after the first of a model call
    None

\* The tiers of a call.  "refused" is answered on the spot: malformed arguments,
\* the group gate, a tool outside the permitted set.  "own" is a memory or a site
\* tool.  "direct" goes to the MCP at once, "live" and "delete" after approval.
Gated == {"live", "delete"}
Tier  == {"refused", "own", "direct"} \cup Gated

ASSUME ChatTurnAssumption ==
    /\ Owner \in [Turn -> User]
    /\ None \notin Turn \cup User
    /\ Batches \subseteq Seq(Tier) /\ <<>> \notin Batches
    /\ MaxCalls \in Nat \ {0}
    /\ MaxRetries \in Nat

Call == 1..MaxCalls

VARIABLES
    thread,     \* the turn whose code is running, or None
    pc,         \* where each turn is
    gone,       \* its client has left: controller.signal
    timeUp,     \* its time budget has run out
    held,       \* uses of children it must release
    batch,      \* the calls of this round still to be handled, this one first
    used,       \* toolCallsUsed
    attempt,    \* retries of this model call so far
    retryUsed,  \* authRetryUsed
    billed,     \* how often the turn was closed and billed
    pending,    \* the broker's map: parked calls, as <<turn, number of the call>>
    fate,       \* what became of each call
    tier,       \* its tier, once it is parked or sent
    approver,   \* who approved it
    typed,      \* whether the confirmation word came with it
    runs        \* how often it was sent to the MCP

routeVars  == <<gone, timeUp, held>>
roundVars  == <<batch, used, attempt, retryUsed>>
callVars   == <<fate, tier, approver, typed, runs>>
vars == <<thread, pc, routeVars, roundVars, billed, pending, callVars>>

\* The awaits before the turn, in runTurn, and of one call.
Before == {"quota", "acquiring", "reading", "opening"}
InTurn == {"setup", "model", "wait", "own", "card", "tool", "refresh", "again"}
Ends   == {"left", "done"}
Pc     == {"idle", "top", "calls"} \cup Before \cup InTurn \cup Ends

Init ==
    /\ thread    = None
    /\ pc        = [t \in Turn |-> "idle"]
    /\ gone      = [t \in Turn |-> FALSE]
    /\ timeUp    = [t \in Turn |-> FALSE]
    /\ held      = [t \in Turn |-> 0]
    /\ batch     = [t \in Turn |-> <<>>]
    /\ used      = [t \in Turn |-> 0]
    /\ attempt   = [t \in Turn |-> 0]
    /\ retryUsed = [t \in Turn |-> FALSE]
    /\ billed    = [t \in Turn |-> 0]
    /\ pending   = {}
    /\ fate      = [t \in Turn |-> [c \in Call |-> "none"]]
    /\ tier      = [t \in Turn |-> [c \in Call |-> "none"]]
    /\ approver  = [t \in Turn |-> [c \in Call |-> None]]
    /\ typed     = [t \in Turn |-> [c \in Call |-> FALSE]]
    /\ runs      = [t \in Turn |-> [c \in Call |-> 0]]

\* turnSignal.aborted.
Stopped(t) == gone[t] \/ timeUp[t]

Free == thread = None

\* Turn t was awaiting at p, the thread is free, and it goes on to q.
Goes(t, p, q) ==
    /\ Free /\ pc[t] = p
    /\ pc' = [pc EXCEPT ![t] = q]
    /\ thread' = IF q \in {"top", "calls"} THEN t ELSE None

\* The code of turn t runs on from p to q.
Runs(t, p, q) ==
    /\ thread = t /\ pc[t] = p
    /\ pc' = [pc EXCEPT ![t] = q]
    /\ thread' = IF q \in {"top", "calls"} THEN t ELSE None

-----------------------------------------------------------------------------
(* The route: what happens before the stream opens.                        *)

\* Refused at once when paused or over the rate limit, which leaves no trace.
Arrive(t) ==
    /\ Goes(t, "idle", "quota")
    /\ UNCHANGED <<routeVars, roundVars, billed, pending, callVars>>

\* Over the plan, or a malformed body.
Rejected(t) ==
    /\ Goes(t, "quota", "left")
    /\ UNCHANGED <<routeVars, roundVars, billed, pending, callVars>>

Admitted(t) ==
    /\ Goes(t, "quota", "acquiring")
    /\ UNCHANGED <<routeVars, roundVars, billed, pending, callVars>>

AcquireFails(t) ==
    /\ Goes(t, "acquiring", "left")
    /\ UNCHANGED <<routeVars, roundVars, billed, pending, callVars>>

\* Mutant: a return before the turn forgets the child it has acquired.
NotReleased(t, uses) == held' = [held EXCEPT ![t] = uses]

\* A return before the turn gives the acquired child back itself.
Released(t, uses) == held' = [held EXCEPT ![t] = uses - 1]

Acquired(t) ==
    /\ \/ /\ ~gone[t] /\ Goes(t, "acquiring", "reading")
          /\ held' = [held EXCEPT ![t] = 1]
       \/ /\ gone[t] /\ Goes(t, "acquiring", "left")
          /\ Released(t, 1)
    /\ UNCHANGED <<gone, timeUp, roundVars, billed, pending, callVars>>

\* All attachments were unreadable, or the client left while they were read.
ReadInVain(t) ==
    /\ Goes(t, "reading", "left")
    /\ Released(t, 1)
    /\ UNCHANGED <<gone, timeUp, roundVars, billed, pending, callVars>>

Read(t) ==
    /\ ~gone[t]
    /\ Goes(t, "reading", "opening")
    /\ UNCHANGED <<routeVars, roundVars, billed, pending, callVars>>

\* beginConversation and the group lookup answer, whether they worked or not.
Opened(t) ==
    /\ Goes(t, "opening", "setup")
    /\ UNCHANGED <<routeVars, roundVars, billed, pending, callVars>>

-----------------------------------------------------------------------------
(* The rounds of a turn.                                                   *)

\* finish(), the return of runTurn, and the route's finally.
Close(t) ==
    /\ billed' = [billed EXCEPT ![t] = @ + 1]
    /\ held'   = [held EXCEPT ![t] = 0]

\* Mutant: an error of the model leaves without finish().
CloseUnbilled(t) ==
    /\ held' = [held EXCEPT ![t] = 0]
    /\ UNCHANGED billed

CloseInError(t) == Close(t)

\* Memories and the workspace snapshot have been read, or could not be.
SetUp(t) ==
    /\ Goes(t, "setup", "top")
    /\ UNCHANGED <<routeVars, roundVars, billed, pending, callVars>>

\* Mutant: the top of the loop looks only at the client's own signal.
ClientLeft(t) == gone[t]

\* Aborted, or out of time.
MustClose(t) == Stopped(t)

TopCloses(t) ==
    /\ MustClose(t)
    /\ Runs(t, "top", "done")
    /\ Close(t)
    /\ UNCHANGED <<gone, timeUp, roundVars, pending, callVars>>

AskModel(t) ==
    /\ ~MustClose(t)
    /\ Runs(t, "top", "model")
    /\ UNCHANGED <<routeVars, roundVars, billed, pending, callVars>>

\* Mutant: the budget is compared before the round is added.
BeforeRound(t, b) == used[t] < MaxCalls

WithinBudget(t, b) == used[t] + Len(b) <= MaxCalls

\* An abort ends the request, but may come too late for an answer that is in.
ModelCalls(t) ==
    /\ \E b \in Batches :
        /\ WithinBudget(t, b)
        /\ batch' = [batch EXCEPT ![t] = b]
    /\ Goes(t, "model", "calls")
    /\ attempt' = [attempt EXCEPT ![t] = 0]
    /\ UNCHANGED <<routeVars, used, retryUsed, billed, pending, callVars>>

\* No tool calls, or more than the budget has left: the turn is over.
ModelEnds(t) ==
    /\ Goes(t, "model", "done")
    /\ Close(t)
    /\ attempt' = [attempt EXCEPT ![t] = 0]
    /\ UNCHANGED <<gone, timeUp, batch, used, retryUsed, pending, callVars>>

\* A rate limit or a server error: streamChat waits, and the wait has no abort.
ModelBusy(t) ==
    /\ attempt[t] < MaxRetries
    /\ Goes(t, "model", "wait")
    /\ attempt' = [attempt EXCEPT ![t] = @ + 1]
    /\ UNCHANGED <<routeVars, batch, used, retryUsed, billed, pending, callVars>>

WaitOver(t) ==
    /\ ~Stopped(t)
    /\ Goes(t, "wait", "model")
    /\ UNCHANGED <<routeVars, roundVars, billed, pending, callVars>>

\* The request is aborted, or not tried again after a wait.
ModelStopped(t) ==
    /\ Stopped(t)
    /\ Goes(t, "model", "top") \/ Goes(t, "wait", "top")
    /\ attempt' = [attempt EXCEPT ![t] = 0]
    /\ UNCHANGED <<routeVars, batch, used, retryUsed, billed, pending, callVars>>

\* The request timed out or was refused: runTurn closes the turn and throws.
ModelFails(t) ==
    /\ ~Stopped(t)
    /\ Goes(t, "model", "done")
    /\ CloseInError(t)
    /\ attempt' = [attempt EXCEPT ![t] = 0]
    /\ UNCHANGED <<gone, timeUp, batch, used, retryUsed, pending, callVars>>

-----------------------------------------------------------------------------
(* The calls of a round.                                                   *)

\* Mutant: the calls queued behind a card run although the turn was stopped.
NoBreak(t) == batch[t] = <<>>

RoundOver(t) == batch[t] = <<>> \/ Stopped(t)

EndRound(t) ==
    /\ RoundOver(t)
    /\ Runs(t, "calls", "top")
    /\ batch' = [batch EXCEPT ![t] = <<>>]
    /\ UNCHANGED <<routeVars, used, attempt, retryUsed, billed, pending, callVars>>

\* The next call is taken up and counted.
Takes(t, k) ==
    /\ ~RoundOver(t)
    /\ Head(batch[t]) = k
    /\ used' = [used EXCEPT ![t] = @ + 1]
    /\ UNCHANGED <<routeVars, attempt, retryUsed, billed>>

HandleRefused(t) ==
    /\ Runs(t, "calls", "calls")
    /\ Takes(t, "refused")
    /\ batch' = [batch EXCEPT ![t] = Tail(@)]
    /\ fate'  = [fate EXCEPT ![t][used'[t]] = "unsent"]
    /\ UNCHANGED <<pending, tier, approver, typed, runs>>

HandleOwn(t) ==
    /\ Runs(t, "calls", "own")
    /\ Takes(t, "own")
    /\ fate' = [fate EXCEPT ![t][used'[t]] = "unsent"]
    /\ UNCHANGED <<batch, pending, tier, approver, typed, runs>>

HandleDirect(t) ==
    /\ Runs(t, "calls", "tool")
    /\ Takes(t, "direct")
    /\ fate' = [fate EXCEPT ![t][used'[t]] = "running"]
    /\ tier' = [tier EXCEPT ![t][used'[t]] = "direct"]
    /\ runs' = [runs EXCEPT ![t][used'[t]] = 1]
    /\ UNCHANGED <<batch, pending, approver, typed>>

\* approvals.request.  The turn is not stopped here, so the card is parked.
HandleGated(t, k) ==
    /\ Runs(t, "calls", "card")
    /\ Takes(t, k)
    /\ pending' = pending \cup {<<t, used'[t]>>}
    /\ fate' = [fate EXCEPT ![t][used'[t]] = "waiting"]
    /\ tier' = [tier EXCEPT ![t][used'[t]] = k]
    /\ UNCHANGED <<batch, approver, typed, runs>>

\* The current call is over, and the code goes on to the next one.
NextCall(t, p, how) ==
    /\ Goes(t, p, "calls")
    /\ batch' = [batch EXCEPT ![t] = Tail(@)]
    /\ fate'  = [fate EXCEPT ![t][used[t]] = how]
    /\ UNCHANGED <<held, used, attempt, retryUsed, billed, tier, approver, typed, runs>>

OwnDone(t) == NextCall(t, "own", "unsent") /\ UNCHANGED <<gone, timeUp, pending>>

\* A result, an error, or the timeout of the request.
ToolDone(t) ==
    /\ NextCall(t, "tool", "over") \/ NextCall(t, "again", "over")
    /\ UNCHANGED <<gone, timeUp, pending>>

\* Google rejected the identity: the pool mints another child.
AuthFails(t) ==
    /\ ~retryUsed[t]
    /\ Goes(t, "tool", "refresh")
    /\ retryUsed' = [retryUsed EXCEPT ![t] = TRUE]
    /\ UNCHANGED <<routeVars, batch, used, attempt, billed, pending, callVars>>

\* The call is sent again, without another look at the signal.
Refreshed(t) ==
    /\ Goes(t, "refresh", "again")
    /\ held' = [held EXCEPT ![t] = @ + 1]
    /\ runs' = [runs EXCEPT ![t][used[t]] = @ + 1]
    /\ UNCHANGED <<gone, timeUp, roundVars, billed, pending, fate, tier, approver, typed>>

RefreshFails(t) == NextCall(t, "refresh", "over") /\ UNCHANGED <<gone, timeUp, pending>>

-----------------------------------------------------------------------------
(* The broker, and what stops a turn.                                      *)

\* Mutants: no check of whose card it is; no check of the word.
AnyUser(t, u) == TRUE
NoWord(t, word) == TRUE

OwnsCard(t, u) == u = Owner[t]
WordGiven(t, word) == tier[t][used[t]] = "delete" => word

\* Any other answer is refused and changes nothing; a word is asked for, and
\* looked at, on the card of a delete only.  What follows the await of
\* the parked turn runs before any other callback, up to the call of the MCP.
Approve(u, t, word) ==
    LET card == <<t, used[t]>> IN
    /\ card \in pending /\ OwnsCard(t, u) /\ WordGiven(t, word)
    /\ word => tier[t][used[t]] = "delete"
    /\ Goes(t, "card", "tool")
    /\ pending'  = pending \ {card}
    /\ fate'     = [fate EXCEPT ![t][used[t]] = "running"]
    /\ approver' = [approver EXCEPT ![t][used[t]] = u]
    /\ typed'    = [typed EXCEPT ![t][used[t]] = word]
    /\ runs'     = [runs EXCEPT ![t][used[t]] = 1]
    /\ UNCHANGED <<routeVars, roundVars, billed, tier>>

Decline(u, t) ==
    /\ <<t, used[t]>> \in pending /\ OwnsCard(t, u)
    /\ pending' = pending \ {<<t, used[t]>>}
    /\ NextCall(t, "card", "unsent")
    /\ UNCHANGED <<gone, timeUp>>

\* Nobody answered in time.
Expire(t) ==
    /\ <<t, used[t]>> \in pending
    /\ pending' = pending \ {<<t, used[t]>>}
    /\ NextCall(t, "card", "unsent")
    /\ UNCHANGED <<gone, timeUp>>

\* Mutant: a stop withdraws every card of the user.
AllOfUser(t) == {card \in pending : Owner[card[1]] = Owner[t]}

\* onAbort: the cards that listen to the signal of turn t.
Withdrawn(t) == {card \in pending : card[1] = t}

\* The signal of turn t fires.  A card it has parked settles at once.
Abort(t) ==
    /\ Free /\ pc[t] \in Before \cup InTurn
    /\ pending' = pending \ Withdrawn(t)
    /\ IF pc[t] = "card"
         THEN NextCall(t, "card", "unsent")
         ELSE UNCHANGED <<thread, pc, held, roundVars, billed, callVars>>

\* onClientGone.
Leave(t) ==
    /\ ~gone[t]
    /\ gone' = [gone EXCEPT ![t] = TRUE]
    /\ Abort(t)
    /\ UNCHANGED timeUp

\* The timer of runTurn.
TimeUp(t) ==
    /\ pc[t] \in InTurn /\ ~timeUp[t]
    /\ timeUp' = [timeUp EXCEPT ![t] = TRUE]
    /\ Abort(t)
    /\ UNCHANGED gone

-----------------------------------------------------------------------------
RouteStep(t) ==
    \/ Rejected(t) \/ Admitted(t) \/ AcquireFails(t) \/ Acquired(t)
    \/ ReadInVain(t) \/ Read(t) \/ Opened(t) \/ SetUp(t)

ModelStep(t) ==
    \/ ModelCalls(t) \/ ModelEnds(t) \/ ModelBusy(t)
    \/ ModelStopped(t) \/ ModelFails(t)

\* The running code of turn t.
CodeStep(t) ==
    \/ TopCloses(t) \/ AskModel(t) \/ EndRound(t)
    \/ HandleRefused(t) \/ HandleOwn(t) \/ HandleDirect(t)
    \/ \E k \in Gated : HandleGated(t, k)

CallStep(t) ==
    \/ OwnDone(t) \/ ToolDone(t) \/ AuthFails(t) \/ Refreshed(t) \/ RefreshFails(t)

UserStep(t) ==
    \E u \in User :
        \/ \E word \in BOOLEAN : Approve(u, t, word)
        \/ Decline(u, t)

Next ==
    \E t \in Turn :
        \/ Arrive(t) \/ RouteStep(t)
        \/ ModelStep(t) \/ WaitOver(t) \/ CodeStep(t) \/ CallStep(t)
        \/ UserStep(t) \/ Expire(t)
        \/ Leave(t) \/ TimeUp(t)

\* Every turn has ended.
Done == (\A t \in Turn : pc[t] \in Ends) /\ UNCHANGED vars

SafeSpec == Init /\ [][Next \/ Done]_vars

\* Requests, waits and timers end; nobody has to answer a card, leave, or fail.
Fairness ==
    \A t \in Turn :
        /\ WF_vars(RouteStep(t))
        /\ WF_vars(ModelStep(t))
        /\ WF_vars(WaitOver(t))
        /\ WF_vars(CodeStep(t))
        /\ WF_vars(CallStep(t))
        /\ WF_vars(Expire(t))
        /\ WF_vars(TimeUp(t))

Spec == SafeSpec /\ Fairness

-----------------------------------------------------------------------------
(* Properties.                                                             *)

\* The shapes of the turns, of the broker's map and of the calls.
TypeOK ==
    /\ thread    \in Turn \cup {None}
    /\ pc        \in [Turn -> Pc]
    /\ gone      \in [Turn -> BOOLEAN]
    /\ timeUp    \in [Turn -> BOOLEAN]
    /\ held      \in [Turn -> 0..2]
    /\ batch     \in [Turn -> Seq(Tier)]
    /\ used      \in [Turn -> 0..MaxCalls]
    /\ attempt   \in [Turn -> 0..MaxRetries]
    /\ retryUsed \in [Turn -> BOOLEAN]
    /\ billed    \in [Turn -> 0..1]
    /\ pending   \subseteq Turn \X Call
    /\ fate      \in [Turn -> [Call -> {"none", "waiting", "unsent", "running", "over"}]]
    /\ tier      \in [Turn -> [Call -> {"none", "direct"} \cup Gated]]
    /\ approver  \in [Turn -> [Call -> User \cup {None}]]
    /\ typed     \in [Turn -> [Call -> BOOLEAN]]
    /\ runs      \in [Turn -> [Call -> 0..2]]

\* However answers, timeouts and aborts cross, the broker keeps exactly the
\* cards that a turn is parked on: none is left behind, none is lost, and a stop
\* takes none of the user's other conversation.
CardsParked == pending = {<<t, used[t]>> : t \in {s \in Turn : pc[s] = "card"}}

\* No gated call was ever sent but with the approval of the turn's own user,
\* and no delete without the word retyped.
RunsApproved ==
    \A t \in Turn, c \in Call :
        runs[t][c] > 0 /\ tier[t][c] \in Gated =>
            /\ approver[t][c] = Owner[t]
            /\ tier[t][c] = "delete" => typed[t][c]

\* On every way out of the route, early or late, what the turn held of the pool
\* is given back; while it runs it holds the first child and what it refreshed.
HeldReleased ==
    \A t \in Turn :
        held[t] = IF pc[t] \in Ends \cup {"idle", "quota", "acquiring"} THEN 0
                  ELSE 1 + Cardinality({c \in Call : runs[t][c] = 2})

\* A turn that began is billed once, however it ends; others are not billed.
BilledOnce == \A t \in Turn : billed[t] = IF pc[t] = "done" THEN 1 ELSE 0

Promise == INSTANCE ApprovedWrites WITH
    Nobody  <- None,
    stopped <- {t \in Turn : Stopped(t)}

\* The turns implement the promise about their calls: after a stop no call
\* begins, and the only one sent is the one retry of a call that was running.
PromiseKept == Promise!Spec

\* Each turn ends, whatever the model answers and though no one answers a card.
TurnEnds == \A t \in Turn : (pc[t] = "quota") ~> (pc[t] \in Ends)
=============================================================================
