---------------------------- MODULE DesktopChat ----------------------------
(***************************************************************************)
(* Chat turns of the desktop app: Stop and the approval cards              *)
(* (ipc/chat-ipc.ts), the agentic loop (llm/gateway.ts), the executor that *)
(* guards a tool call (tools/registry.ts), the account a turn is pinned to *)
(* (services/chat-service.ts), and the journal that lets the user revert   *)
(* what the last turn wrote (google/change-journal.ts).                    *)
(*                                                                         *)
(* One thread runs everything.  `thread` is the turn whose code has the    *)
(* thread between two awaits; anything else happens while it is free.      *)
(***************************************************************************)
EXTENDS Integers, Sequences, FiniteSets

CONSTANTS
    Turn,       \* chat requests that work on a container of Tag Manager
    Account,    \* Google accounts that are connected
    First,      \* the one active at the start
    Entity,     \* tags, triggers and variables
    Batches,    \* Batches[t]: the lists of tool calls the model may answer turn t with
    Clicks,     \* how many presses of Revert may overlap
    Soft,       \* MAX_TOOL_STEPS
    Hard,       \* HARD_MAX_TOOL_STEPS
    Stall,      \* stallSteps
    MaxSame,    \* MAX_IDENTICAL_WRITES
    None

\* A call: whether its tool writes, whether its data calls are put in the journal
\* (those that create or update a tag, trigger or variable are), whether a precheck
\* comes first, how many approval cards it needs, and the entities its handler
\* touches, one data call each.
ToolCall == [write : BOOLEAN, journalled : BOOLEAN, check : BOOLEAN, cards : 0..2,
             touches : Seq(Entity)]

\* Places for the reverts under way.
Click == 1..Clicks

Calls == UNION {UNION {{b[i] : i \in DOMAIN b} : b \in Batches[t]} : t \in Turn}

ASSUME DesktopChatAssumption ==
    /\ \A t \in Turn : Batches[t] \subseteq Seq(ToolCall) \ {<<>>}
    /\ \A c \in Calls : c.touches # <<>> /\ (c.journalled \/ c.check \/ c.cards > 0 => c.write)
    /\ Soft \in Nat /\ Hard \in Nat /\ Stall \in Nat \ {0}
    /\ Stall <= Soft /\ Soft <= Hard
    /\ MaxSame \in Nat \ {0}
    /\ First \in Account
    /\ Clicks \in Nat
    /\ None \notin Turn \cup Account

VARIABLES
    active,     \* the active Google account
    thread,     \* the turn whose code is running, or None
    pc,         \* where each turn is
    pinned,     \* turnAccountId
    stopped,    \* signal.aborted
    late,       \* Stop came while a precheck was being awaited
    pending,    \* pendingConfirms: the turns parked on a card
    step,       \* steps taken
    since,      \* stepsSinceWrite
    landed,     \* the last step in which a write landed
    batch,      \* the calls still to be handled, the current one first
    wrote,      \* stepHadWrite
    same,       \* writeCallCounts
    yes,        \* cards of the current call approved so far
    item,       \* the data call of the handler that is under way
    token,      \* the account whose token that call uses
    newest,     \* the turn opened last in the journal
    refs,       \* the entities in each turn's journal, without repeats
    revert,     \* the reverts under way: their turn and what they claimed
    written,    \* how often a turn's write of an entity was answered
    changed     \* <<turn, entity>>: answered writes not undone since

stepVars == <<step, since, landed, wrote, same>>
callVars == <<batch, yes, item, token>>
journalVars == <<newest, refs, revert, written, changed>>
vars == <<active, thread, pc, pinned, stopped, late, pending,
          stepVars, callVars, journalVars>>

Awaits == {"opening", "model", "check", "card", "item"}
Pc == Awaits \cup {"idle", "top", "calls", "done"}

\* stepsSinceWrite before any step has ended: Number.MAX_SAFE_INTEGER.
Never == Hard + Stall

NoRevert == [turn |-> None, todo |-> {}, failed |-> {}]

Init ==
    /\ active  = First
    /\ thread  = None
    /\ pc      = [t \in Turn |-> "idle"]
    /\ pinned  = [t \in Turn |-> None]
    /\ stopped = [t \in Turn |-> FALSE]
    /\ late    = [t \in Turn |-> FALSE]
    /\ pending = {}
    /\ step    = [t \in Turn |-> 0]
    /\ since   = [t \in Turn |-> Never]
    /\ landed  = [t \in Turn |-> 0]
    /\ batch   = [t \in Turn |-> <<>>]
    /\ wrote   = [t \in Turn |-> FALSE]
    /\ same    = [t \in Turn |-> [c \in Calls |-> 0]]
    /\ yes     = [t \in Turn |-> 0]
    /\ item    = [t \in Turn |-> 0]
    /\ token   = [t \in Turn |-> None]
    /\ newest  = None
    /\ refs    = [t \in Turn |-> {}]
    /\ revert  = [r \in Click |-> NoRevert]
    /\ written = [t \in Turn |-> [e \in Entity |-> 0]]
    /\ changed = {}

Free == thread = None

To(t, q) ==
    /\ pc' = [pc EXCEPT ![t] = q]
    /\ thread' = IF q \in {"top", "calls"} THEN t ELSE None

\* Turn t was awaiting at p, the thread is free, and it goes on to q.
Goes(t, p, q) == Free /\ pc[t] = p /\ To(t, q)

\* The code of turn t runs on from p to q.
Runs(t, p, q) == thread = t /\ pc[t] = p /\ To(t, q)

Call(t) == Head(batch[t])

-----------------------------------------------------------------------------
(* A turn opens, and the top of each step.                                 *)

\* The account is pinned; memory and the container's kind are then awaited.
Open(t) ==
    /\ Goes(t, "idle", "opening")
    /\ pinned' = [pinned EXCEPT ![t] = active]
    /\ UNCHANGED <<active, stopped, late, pending, stepVars, callVars, journalVars>>

\* changeJournal.runTurn.
Begin(t) ==
    /\ Goes(t, "opening", "top")
    /\ newest' = t
    /\ UNCHANGED <<active, pinned, stopped, late, pending, stepVars, callVars,
                   refs, revert, written, changed>>

\* Mutant: nothing caps a turn whose writes land.
NoHardCap(t) == step[t] >= Soft => since[t] < Stall

\* Mutant: one stalled step more than the budget allows.
OneStepMore(t) ==
    step[t] < Hard /\ (step[t] >= Soft => since[t] <= Stall)

\* Past the soft ceiling a turn goes on only while its writes land.
MayStep(t) ==
    step[t] < Hard /\ (step[t] >= Soft => since[t] < Stall)

\* runChat returns: its counters and its account guard are gone, and activeChats
\* drops its controller.
Returns(t) ==
    /\ pinned' = [pinned EXCEPT ![t] = None]
    /\ stopped' = [stopped EXCEPT ![t] = FALSE]
    /\ late'   = [late   EXCEPT ![t] = FALSE]
    /\ step'   = [step   EXCEPT ![t] = 0]
    /\ since'  = [since  EXCEPT ![t] = Never]
    /\ landed' = [landed EXCEPT ![t] = 0]
    /\ wrote'  = [wrote  EXCEPT ![t] = FALSE]
    /\ same'   = [same   EXCEPT ![t] = [c \in Calls |-> 0]]

OutOfSteps(t) ==
    /\ ~MayStep(t) \/ stopped[t]
    /\ Runs(t, "top", "done") /\ Returns(t)
    /\ UNCHANGED <<active, pending, callVars, journalVars>>

AskModel(t) ==
    /\ MayStep(t) /\ ~stopped[t]
    /\ Runs(t, "top", "model")
    /\ step' = [step EXCEPT ![t] = @ + 1]
    /\ wrote' = [wrote EXCEPT ![t] = FALSE]
    /\ UNCHANGED <<active, pinned, stopped, late, pending, since, landed, same,
                   callVars, journalVars>>

ModelCalls(t) ==
    /\ Goes(t, "model", "calls")
    /\ \E b \in Batches[t] : batch' = [batch EXCEPT ![t] = b]
    /\ UNCHANGED <<active, pinned, stopped, late, pending, stepVars,
                   yes, item, token, journalVars>>

\* A final answer, the abort of the request, or its failure.
ModelEnds(t) ==
    /\ Goes(t, "model", "done") /\ Returns(t)
    /\ UNCHANGED <<active, pending, callVars, journalVars>>

\* The batch is through, or the rest is skipped because of a Stop.
EndStep(t) ==
    /\ batch[t] = <<>> \/ stopped[t]
    /\ Runs(t, "calls", "top")
    /\ batch' = [batch EXCEPT ![t] = <<>>]
    /\ since' = [since EXCEPT ![t] = IF wrote[t] THEN 0 ELSE IF @ = Never THEN 1 ELSE @ + 1]
    /\ UNCHANGED <<active, pinned, stopped, late, pending, step, landed, wrote, same,
                   yes, item, token, journalVars>>

-----------------------------------------------------------------------------
(* One call: the checks of the loop and of execute().                      *)

\* The call at the head is over; an error gives up the rest of the batch.
Over(t, failed) ==
    /\ batch' = [batch EXCEPT ![t] = IF failed THEN <<>> ELSE Tail(@)]
    /\ yes'   = [yes   EXCEPT ![t] = 0]
    /\ item'  = [item  EXCEPT ![t] = 0]
    /\ token' = [token EXCEPT ![t] = None]

InCalls(t) == thread = t /\ pc[t] = "calls" /\ batch[t] # <<>> /\ ~stopped[t]

Repeated(t) == Call(t).write /\ same[t][Call(t)] = MaxSame

\* A write made MaxSame times already is refused, which counts as an error to
\* the model only.
Blocked(t) ==
    /\ InCalls(t) /\ Repeated(t)
    /\ To(t, "calls") /\ Over(t, FALSE)
    /\ UNCHANGED <<active, pinned, stopped, late, pending, stepVars, journalVars>>

Counted(t) ==
    IF Call(t).write THEN same' = [same EXCEPT ![t][Call(t)] = @ + 1] ELSE UNCHANGED same

\* The account guard on entry declines the call.
Declined(t) ==
    /\ InCalls(t) /\ ~Repeated(t)
    /\ active # pinned[t]
    /\ To(t, "calls") /\ Over(t, FALSE) /\ Counted(t)
    /\ UNCHANGED <<active, pinned, stopped, late, pending, step, since, landed, wrote,
                   journalVars>>

\* Missing arguments; a tool that does not exist fares alike.
Malformed(t) ==
    /\ InCalls(t) /\ ~Repeated(t)
    /\ active = pinned[t]
    /\ To(t, "calls") /\ Over(t, TRUE) /\ Counted(t)
    /\ UNCHANGED <<active, pinned, stopped, late, pending, step, since, landed, wrote,
                   journalVars>>

\* Mutant: only the guard on entry looks at the account.
GuardedOnEntryOnly(t) == TRUE

\* The account guard when the cards have been answered; the data layer resolves
\* the active account in the same stretch of code.
StillPinned(t) == active = pinned[t]

\* The handler starts with its first data call.
Starts(t) ==
    /\ StillPinned(t)
    /\ To(t, "item")
    /\ item'  = [item  EXCEPT ![t] = 1]
    /\ token' = [token EXCEPT ![t] = active]
    /\ UNCHANGED <<batch, yes>>

\* Past the checks and the cards: the handler starts, or the guard declines.
Apply(t) == Starts(t) \/ (~StillPinned(t) /\ To(t, "calls") /\ Over(t, FALSE))

Parks(t) ==
    /\ To(t, "card")
    /\ pending' = pending \cup {t}
    /\ UNCHANGED callVars

Enter(t) ==
    /\ InCalls(t) /\ ~Repeated(t)
    /\ active = pinned[t]
    /\ Counted(t)
    /\ \/ /\ Call(t).check
          /\ To(t, "check")
          /\ token' = [token EXCEPT ![t] = active]
          /\ UNCHANGED <<pending, batch, yes, item>>
       \/ ~Call(t).check /\ Call(t).cards > 0 /\ Parks(t)
       \/ ~Call(t).check /\ Call(t).cards = 0 /\ Apply(t) /\ UNCHANGED pending
    /\ UNCHANGED <<active, pinned, stopped, late, step, since, landed, wrote, journalVars>>

\* The write landed, as far as its result says; a no-op does not count.
Progress(t) ==
    \/ UNCHANGED <<wrote, landed>>
    \/ /\ Call(t).write
       /\ wrote'  = [wrote  EXCEPT ![t] = TRUE]
       /\ landed' = [landed EXCEPT ![t] = step[t]]

\* The precheck finds the call already done, or fails.
CheckEnds(t) ==
    /\ Goes(t, "check", "calls")
    /\ \/ Over(t, FALSE) /\ Progress(t)
       \/ Over(t, TRUE) /\ UNCHANGED <<wrote, landed>>
    /\ UNCHANGED <<active, pinned, stopped, late, pending, step, since, same, journalVars>>

\* It finds nothing.  No one looks at the signal here: a card may be parked, or
\* a draft write started, after a Stop.
CheckPasses(t) ==
    /\ Free /\ pc[t] = "check"
    /\ \/ Call(t).cards > 0 /\ Parks(t)
       \/ Call(t).cards = 0 /\ Apply(t) /\ UNCHANGED pending
    /\ UNCHANGED <<active, pinned, stopped, late, stepVars, journalVars>>

-----------------------------------------------------------------------------
(* The user: answers, Stop, and a switch of the account.                   *)

\* llm:confirm:respond.  The second card of a delete opens at once.
Approve(t) ==
    /\ Free /\ t \in pending
    /\ IF yes[t] + 1 < Call(t).cards
       THEN /\ yes' = [yes EXCEPT ![t] = @ + 1]
            /\ UNCHANGED <<thread, pc, pending, batch, item, token>>
       ELSE pending' = pending \ {t} /\ Apply(t)
    /\ UNCHANGED <<active, pinned, stopped, late, stepVars, journalVars>>

Decline(t) ==
    /\ Free /\ t \in pending
    /\ pending' = pending \ {t}
    /\ To(t, "calls") /\ Over(t, FALSE)
    /\ UNCHANGED <<active, pinned, stopped, late, stepVars, journalVars>>

\* Mutant: the card stays, and the turn with it.
KeepsCard(t) == UNCHANGED <<thread, pc, pending, callVars>>

\* llm:chat:stop resolves the turn's card as declined.
FreesCard(t) ==
    IF t \in pending
    THEN pending' = pending \ {t} /\ To(t, "calls") /\ Over(t, FALSE)
    ELSE UNCHANGED <<thread, pc, pending, callVars>>

\* A second press finds the card of a turn stopped in a precheck.
Stop(t) ==
    /\ Free /\ pc[t] \in Awaits
    /\ ~stopped[t] \/ t \in pending
    /\ stopped' = [stopped EXCEPT ![t] = TRUE]
    /\ late' = [late EXCEPT ![t] = @ \/ pc[t] = "check"]
    /\ FreesCard(t)
    /\ UNCHANGED <<active, pinned, stepVars, journalVars>>

Switch(a) ==
    /\ Free /\ a # active
    /\ active' = a
    /\ UNCHANGED <<thread, pc, pinned, stopped, late, pending, stepVars, callVars, journalVars>>

-----------------------------------------------------------------------------
(* The handler: one data call after the other, each under the account that *)
(* is active when it is made.                                              *)

\* On to the next data call, or the handler has returned.
NextItem(t) ==
    IF item[t] < Len(Call(t).touches)
    THEN /\ To(t, "item")
         /\ item'  = [item  EXCEPT ![t] = @ + 1]
         /\ token' = [token EXCEPT ![t] = active]
         /\ UNCHANGED <<batch, yes, wrote, landed>>
    ELSE To(t, "calls") /\ Over(t, FALSE) /\ Progress(t)

\* Mutant: record() files into the newest turn, whoever made the write.
RecordInNewest(t, e) == refs' = [refs EXCEPT ![newest] = @ \cup {e}]

\* record(): into the turn whose async call tree is running.
Record(t, e) == refs' = [refs EXCEPT ![t] = @ \cup {e}]

ItemDone(t) ==
    /\ Free /\ pc[t] = "item"
    /\ LET e == Call(t).touches[item[t]] IN
       IF Call(t).journalled
       THEN /\ Record(t, e)
            /\ written' = [written EXCEPT ![t][e] = @ + 1]
            /\ changed' = changed \cup {<<t, e>>}
       ELSE UNCHANGED <<refs, written, changed>>
    /\ NextItem(t)
    /\ UNCHANGED <<active, pinned, stopped, late, pending, step, since, same, newest, revert>>

\* The data call fails.  A best-effort handler goes on, another one throws.
ItemFails(t) ==
    /\ Free /\ pc[t] = "item"
    /\ \/ NextItem(t)
       \/ To(t, "calls") /\ Over(t, TRUE) /\ UNCHANGED <<wrote, landed>>
    /\ UNCHANGED <<active, pinned, stopped, late, pending, step, since, same, journalVars>>

-----------------------------------------------------------------------------
(* Revert.                                                                 *)

\* Mutant: the journal keeps what a revert is working on.
CopiesRefs == UNCHANGED refs

\* The refs of the newest turn are taken out of its array for the duration.
TakesRefs == refs' = [refs EXCEPT ![newest] = {}]

RevertLast(r) ==
    /\ Free /\ revert[r] = NoRevert /\ \A q \in 1..(r - 1) : revert[q] # NoRevert
    /\ newest # None /\ refs[newest] # {}
    /\ revert' = [revert EXCEPT ![r] = [turn |-> newest, todo |-> refs[newest], failed |-> {}]]
    /\ TakesRefs
    /\ UNCHANGED <<active, thread, pc, pinned, stopped, late, pending, stepVars, callVars,
                   newest, written, changed>>

\* Mutant: what failed to revert is dropped, as takeLast() once did.
DropsFailed(t, failed) == UNCHANGED refs

\* What failed is handed back to the same turn.
HandsBack(t, failed) == refs' = [refs EXCEPT ![t] = @ \cup failed]

\* Entity e is put back to its published version, whoever changed it, or not.
RevertOne(r, e, ok) ==
    /\ Free /\ e \in revert[r].todo
    /\ LET todo   == revert[r].todo \ {e}
           failed == revert[r].failed \cup (IF ok THEN {} ELSE {e}) IN
       IF todo = {}
       THEN revert' = [revert EXCEPT ![r] = NoRevert] /\ HandsBack(revert[r].turn, failed)
       ELSE /\ revert' = [revert EXCEPT ![r].todo = todo, ![r].failed = failed]
            /\ UNCHANGED refs
    /\ changed' = IF ok THEN changed \ (Turn \X {e}) ELSE changed
    /\ UNCHANGED <<active, thread, pc, pinned, stopped, late, pending, stepVars, callVars,
                   newest, written>>

-----------------------------------------------------------------------------
\* The running code of turn t, and the answers it awaits.
CodeStep(t) ==
    \/ OutOfSteps(t) \/ AskModel(t) \/ EndStep(t)
    \/ Blocked(t) \/ Declined(t) \/ Malformed(t) \/ Enter(t)

AnswerStep(t) ==
    \/ Begin(t) \/ ModelCalls(t) \/ ModelEnds(t)
    \/ CheckEnds(t) \/ CheckPasses(t) \/ ItemDone(t) \/ ItemFails(t)

RevertStep(r) == \E e \in Entity, ok \in BOOLEAN : RevertOne(r, e, ok)

Next ==
    \/ \E t \in Turn :
        \/ Open(t) \/ CodeStep(t) \/ AnswerStep(t)
        \/ Approve(t) \/ Decline(t) \/ Stop(t)
    \/ \E a \in Account : Switch(a)
    \/ \E r \in Click : RevertLast(r) \/ RevertStep(r)

\* The code runs and requests are answered; the user need not do anything.
Spec ==
    /\ Init /\ [][Next]_vars
    /\ \A t \in Turn : WF_vars(CodeStep(t) \/ AnswerStep(t))

-----------------------------------------------------------------------------
(* Properties.                                                             *)

\* The shapes of the turns, their calls, the journal and the reverts.
TypeOK ==
    /\ active  \in Account
    /\ thread  \in Turn \cup {None}
    /\ pc      \in [Turn -> Pc]
    /\ pinned  \in [Turn -> Account \cup {None}]
    /\ stopped \in [Turn -> BOOLEAN]
    /\ late    \in [Turn -> BOOLEAN]
    /\ pending \subseteq Turn
    /\ step    \in [Turn -> 0..Hard]
    /\ since   \in [Turn -> 0..Never]
    /\ landed  \in [Turn -> 0..Hard]
    /\ batch   \in [Turn -> Seq(Calls)]
    /\ wrote   \in [Turn -> BOOLEAN]
    /\ same    \in [Turn -> [Calls -> 0..MaxSame]]
    /\ yes     \in [Turn -> 0..1]
    /\ item    \in [Turn -> Nat]
    /\ token   \in [Turn -> Account \cup {None}]
    /\ newest  \in Turn \cup {None}
    /\ refs    \in [Turn -> SUBSET Entity]
    /\ revert  \in [Click -> [turn : Turn \cup {None}, todo : SUBSET Entity, failed : SUBSET Entity]]
    /\ written \in [Turn -> [Entity -> Nat]]
    /\ changed \subseteq Turn \X Entity

\* The refs of turn t that revert r has taken and not yet reverted.
Claimed(r, t) == IF revert[r].turn = t THEN revert[r].todo \cup revert[r].failed ELSE {}

\* Whatever turns, reverts and failures overlap, a draft change that was answered
\* and not undone is in the journal of the turn that made it, or in the hands of
\* a revert of that turn.
NoChangeLost ==
    \A c \in changed :
        c[2] \in refs[c[1]] \cup UNION {Claimed(r, c[1]) : r \in Click}

\* A write gives rise to one revert at a time: a second press of Revert meets
\* only what was written again or handed back.
RevertedOnce ==
    \A t \in Turn, e \in Entity :
        Cardinality({r \in Click : e \in Claimed(r, t)})
            + (IF e \in refs[t] THEN 1 ELSE 0) <= written[t][e]

\* A call's first request to Google, precheck or data call, bears the token of
\* the account its turn began with, however long its cards were open.  (The
\* later data calls of one handler need not: see the README.)
FirstRequestPinned ==
    \A t \in Turn :
        pc[t] = "check" \/ (pc[t] = "item" /\ item[t] = 1) => token[t] = pinned[t]

\* A turn past the soft ceiling has landed a write in one of the last steps.
BudgetKept ==
    \A t \in Turn :
        pc[t] = "model" /\ step[t] > Soft => landed[t] > 0 /\ step[t] - landed[t] <= Stall

\* A turn that is stopped unwinds without the user, unless the Stop came during
\* a precheck and the call behind it parks a card.
StoppedUnwinds ==
    \A t \in Turn : stopped[t] ~> pc[t] = "done" \/ (t \in pending /\ late[t])
=============================================================================
