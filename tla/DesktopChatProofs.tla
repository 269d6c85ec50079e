-------------------------- MODULE DesktopChatProofs --------------------------
(***************************************************************************)
(* The desktop's chat turns, for any turns, tools, accounts, budgets and   *)
(* overlapping reverts: the account a call starts under, the step budget,  *)
(* and what the journal knows.                                             *)
(***************************************************************************)
EXTENDS DesktopChat, FiniteSetTheorems, TLAPS

\* The variables of the turns, and those of the journal.
TurnsTyped ==
    /\ active  \in Account
    /\ thread  \in Turn \cup {None}
    /\ pc      \in [Turn -> Pc]
    /\ pinned  \in [Turn -> Account \cup {None}]
    /\ stopped \in [Turn -> BOOLEAN]
    /\ late    \in [Turn -> BOOLEAN]
    /\ pending \subseteq Turn
    /\ step    \in [Turn -> 0..Hard]
    /\ since   \in [Turn -> 0..Never]
    /\ landed  \in [Turn -> 0..Hard]
    /\ batch   \in [Turn -> Seq(Calls)]
    /\ wrote   \in [Turn -> BOOLEAN]
    /\ same    \in [Turn -> [Calls -> 0..MaxSame]]
    /\ yes     \in [Turn -> 0..1]
    /\ item    \in [Turn -> Nat]
    /\ token   \in [Turn -> Account \cup {None}]

JournalTyped ==
    /\ newest  \in Turn \cup {None}
    /\ refs    \in [Turn -> SUBSET Entity]
    /\ revert  \in [Click -> [turn : Turn \cup {None}, todo : SUBSET Entity, failed : SUBSET Entity]]
    /\ written \in [Turn -> [Entity -> Nat]]
    /\ changed \subseteq Turn \X Entity

\* A turn is parked on the card of a call it handles; a handler is at one of its
\* data calls.
Handling(t) ==
    /\ t \in pending => pc[t] = "card"
    /\ pc[t] \in {"check", "card", "item"} => batch[t] # <<>>
    /\ pc[t] = "item" => item[t] \in 1..Len(Call(t).touches)

Pinned(t) == pc[t] = "check" \/ (pc[t] = "item" /\ item[t] = 1) => token[t] = pinned[t]

\* How the counters stand after n steps.
After(t, n) ==
    /\ n = 0 => landed[t] = 0 /\ since[t] = Never
    /\ n > 0 /\ landed[t] = 0 => since[t] = n
    /\ landed[t] > 0 => landed[t] <= n /\ since[t] = n - landed[t]

\* A step that has landed a write has counted it; one that has not leaves the
\* counters as they were after the step before.
Paced(t) ==
    /\ pc[t] \in {"idle", "opening", "done"} => step[t] = 0 /\ After(t, 0)
    /\ pc[t] = "top" => After(t, step[t])
    /\ pc[t] \in {"model", "calls", "check", "card", "item"} =>
          /\ step[t] > 0
          /\ wrote[t] => landed[t] = step[t]
          /\ ~wrote[t] => After(t, step[t] - 1)
    /\ pc[t] = "model" => ~wrote[t]

Budgeted(t) ==
    pc[t] = "model" /\ step[t] > Soft => landed[t] > 0 /\ step[t] - landed[t] <= Stall

Good(t) == Handling(t) /\ Pinned(t) /\ Paced(t) /\ Budgeted(t)

TurnsInv == TurnsTyped /\ \A t \in Turn : Good(t)

\* A revert that has work to do is one of a turn.
RevertsOfTurns == \A r \in Click : revert[r].todo # {} => revert[r].turn \in Turn

JournalInv == JournalTyped /\ RevertsOfTurns /\ NoChangeLost /\ RevertedOnce

DesktopInv == TurnsInv /\ JournalInv

-----------------------------------------------------------------------------
(* The calls of the model.                                                 *)

LEMMA CallsTyped ==
    /\ \A c \in Calls : /\ c \in ToolCall /\ c.touches # <<>> /\ c.touches \in Seq(Entity)
                        /\ c.journalled \/ c.check \/ c.cards > 0 => c.write
    /\ \A t \in Turn : \A b \in Batches[t] : b \in Seq(Calls) /\ b # <<>>
<1>1. ASSUME NEW t \in Turn, NEW b \in Batches[t], NEW i \in DOMAIN b
      PROVE  b[i] \in Calls /\ b[i] \in ToolCall
  BY DesktopChatAssumption DEF Calls
<1>2. \A c \in Calls : c \in ToolCall
  BY <1>1 DEF Calls
<1>3. ASSUME NEW t \in Turn, NEW b \in Batches[t] PROVE b \in Seq(Calls) /\ b # <<>>
  BY <1>1, DesktopChatAssumption
<1>4. \A c \in Calls : c.touches \in Seq(Entity)
  BY <1>2 DEF ToolCall
<1>. QED  BY <1>2, <1>3, <1>4, DesktopChatAssumption

\* The call at the head of a batch, and what is left behind it.
LEMMA HeadTail ==
    ASSUME TurnsTyped, NEW t \in Turn, batch[t] # <<>>
    PROVE  /\ Call(t) \in Calls /\ Tail(batch[t]) \in Seq(Calls) /\ <<>> \in Seq(Calls)
           /\ Call(t).cards \in 0..2 /\ Call(t).touches \in Seq(Entity)
           /\ Len(Call(t).touches) > 0
<1>1. batch[t] \in Seq(Calls)
  BY DEF TurnsTyped
<1>2. Call(t) \in Calls /\ Tail(batch[t]) \in Seq(Calls) /\ <<>> \in Seq(Calls)
  BY <1>1 DEF Call
<1>3. Call(t) \in ToolCall /\ Call(t).touches # <<>> /\ Call(t).touches \in Seq(Entity)
  BY <1>2, CallsTyped
<1>4. Call(t).cards \in 0..2
  BY <1>3 DEF ToolCall
<1>5. Len(Call(t).touches) > 0
  BY <1>3
<1>. QED  BY <1>2, <1>3, <1>4, <1>5

-----------------------------------------------------------------------------
(* A step of one turn leaves the others as they are.                       *)

Same(t) ==
    /\ pc'[t] = pc[t] /\ pinned'[t] = pinned[t]
    /\ t \in pending' <=> t \in pending
    /\ step'[t] = step[t] /\ since'[t] = since[t] /\ landed'[t] = landed[t]
    /\ wrote'[t] = wrote[t] /\ batch'[t] = batch[t]
    /\ item'[t] = item[t] /\ token'[t] = token[t]

LEMMA SameGood == ASSUME NEW t \in Turn, Good(t), Same(t) PROVE Good(t)'
  BY DEF Good, Same, Handling, Pinned, After, Paced, Budgeted, Call

\* What a step of turn t must keep.
Keeps(t) == TurnsTyped' /\ Good(t)' /\ \A s \in Turn \ {t} : Same(s)

LEMMA KeepsInv == ASSUME TurnsInv, NEW t \in Turn, Keeps(t) PROVE TurnsInv'
<1>1. ASSUME NEW s \in Turn PROVE Good(s)'
  BY SameGood DEF TurnsInv, Keeps
<1>. QED  BY <1>1 DEF TurnsInv, Keeps

\* The variables of the current call, after whatever can happen to it.
LEMMA OverTyped ==
    ASSUME TurnsTyped, NEW t \in Turn, batch[t] # <<>>, NEW failed \in BOOLEAN, Over(t, failed)
    PROVE  /\ batch' \in [Turn -> Seq(Calls)] /\ yes' \in [Turn -> 0..1]
           /\ item' \in [Turn -> Nat] /\ token' \in [Turn -> Account \cup {None}]
<1>1. /\ Tail(batch[t]) \in Seq(Calls) /\ <<>> \in Seq(Calls)
  BY HeadTail
<1>2. batch' \in [Turn -> Seq(Calls)]
  BY <1>1 DEF TurnsTyped, Over
<1>3. yes' \in [Turn -> 0..1] /\ item' \in [Turn -> Nat]
  BY DEF TurnsTyped, Over
<1>4. token' \in [Turn -> Account \cup {None}]
  BY DEF TurnsTyped, Over
<1>. QED  BY <1>2, <1>3, <1>4

LEMMA StartsTyped ==
    ASSUME TurnsTyped, NEW t \in Turn, Starts(t)
    PROVE  /\ batch' \in [Turn -> Seq(Calls)] /\ yes' \in [Turn -> 0..1]
           /\ item' \in [Turn -> Nat] /\ token' \in [Turn -> Account \cup {None}]
  BY DEF TurnsTyped, Starts

LEMMA ApplyTyped ==
    ASSUME TurnsTyped, NEW t \in Turn, batch[t] # <<>>, Apply(t)
    PROVE  /\ batch' \in [Turn -> Seq(Calls)] /\ yes' \in [Turn -> 0..1]
           /\ item' \in [Turn -> Nat] /\ token' \in [Turn -> Account \cup {None}]
  BY StartsTyped, OverTyped DEF Apply

LEMMA CallKept ==
    ASSUME TurnsTyped, UNCHANGED callVars
    PROVE  /\ batch' \in [Turn -> Seq(Calls)] /\ yes' \in [Turn -> 0..1]
           /\ item' \in [Turn -> Nat] /\ token' \in [Turn -> Account \cup {None}]
  BY DEF TurnsTyped, callVars

LEMMA NextItemTyped ==
    ASSUME TurnsTyped, NEW t \in Turn, batch[t] # <<>>, NextItem(t)
    PROVE  /\ batch' \in [Turn -> Seq(Calls)] /\ yes' \in [Turn -> 0..1]
           /\ item' \in [Turn -> Nat] /\ token' \in [Turn -> Account \cup {None}]
<1>1. CASE item[t] < Len(Call(t).touches)
  <2>1. /\ item' = [item EXCEPT ![t] = @ + 1] /\ token' = [token EXCEPT ![t] = active]
        /\ UNCHANGED <<batch, yes>>
    BY <1>1 DEF NextItem
  <2>2. item' \in [Turn -> Nat]
    BY <2>1 DEF TurnsTyped
  <2>3. token' \in [Turn -> Account \cup {None}]
    BY <2>1 DEF TurnsTyped
  <2>4. batch' \in [Turn -> Seq(Calls)] /\ yes' \in [Turn -> 0..1]
    BY <2>1 DEF TurnsTyped
  <2>. QED  BY <2>2, <2>3, <2>4
<1>2. CASE ~(item[t] < Len(Call(t).touches))
  BY <1>2, OverTyped DEF NextItem
<1>. QED  BY <1>1, <1>2

LEMMA ProgressTyped ==
    ASSUME TurnsTyped, NEW t \in Turn, Progress(t) \/ UNCHANGED <<wrote, landed>>
    PROVE  wrote' \in [Turn -> BOOLEAN] /\ landed' \in [Turn -> 0..Hard]
<1>1. wrote' \in [Turn -> BOOLEAN]
  BY DEF TurnsTyped, Progress
<1>2. landed' \in [Turn -> 0..Hard]
  BY DEF TurnsTyped, Progress
<1>. QED  BY <1>1, <1>2

LEMMA CountedTyped ==
    ASSUME TurnsTyped, NEW t \in Turn, batch[t] # <<>>, ~Repeated(t), Counted(t)
    PROVE  same' \in [Turn -> [Calls -> 0..MaxSame]]
<1>1. Call(t) \in Calls
  BY HeadTail
<1>2. CASE Call(t).write
  <2>1. same[t][Call(t)] \in 0..MaxSame /\ same[t][Call(t)] # MaxSame
    BY <1>1, <1>2 DEF TurnsTyped, Repeated
  <2>2. same' = [same EXCEPT ![t][Call(t)] = @ + 1]
    BY <1>2 DEF Counted
  <2>. QED  BY SMTT(30), <1>1, <2>1, <2>2, DesktopChatAssumption DEF TurnsTyped
<1>3. CASE ~Call(t).write
  BY <1>3 DEF Counted, TurnsTyped
<1>. QED  BY <1>2, <1>3

LEMMA OpenKeeps ==
    ASSUME TurnsInv, NEW t \in Turn, Open(t) PROVE Keeps(t)
<1>1. TurnsTyped /\ Good(t)
  BY DEF TurnsInv
<1>3. TurnsTyped'
  <2>1. /\ active' \in Account /\ thread' \in Turn \cup {None} /\ pc' \in [Turn -> Pc]
        /\ pinned' \in [Turn -> Account \cup {None}] /\ pending' \subseteq Turn
    BY <1>1 DEF TurnsTyped, Pc, Awaits, Open, Goes, To, stepVars, callVars
  <2>2. stopped' \in [Turn -> BOOLEAN] /\ late' \in [Turn -> BOOLEAN]
    BY <1>1 DEF TurnsTyped, Open, Goes, To, stepVars, callVars
  <2>3. wrote' \in [Turn -> BOOLEAN] /\ landed' \in [Turn -> 0..Hard]
    BY <1>1 DEF TurnsTyped, Open, Goes, To, stepVars, callVars
  <2>4. step' \in [Turn -> 0..Hard] /\ since' \in [Turn -> 0..Never]
    BY <1>1, DesktopChatAssumption DEF TurnsTyped, Never, Good, Paced, After, Open, Goes,
       To, stepVars, callVars
  <2>5. /\ batch' \in [Turn -> Seq(Calls)] /\ yes' \in [Turn -> 0..1]
        /\ item' \in [Turn -> Nat] /\ token' \in [Turn -> Account \cup {None}]
    BY <1>1 DEF TurnsTyped, Open, Goes, To, stepVars, callVars
  <2>6. same' \in [Turn -> [Calls -> 0..MaxSame]]
    BY <1>1 DEF TurnsTyped, Open, Goes, To, stepVars, callVars
  <2>. QED  BY <2>1, <2>2, <2>3, <2>4, <2>5, <2>6 DEF TurnsTyped
<1>4. \A s \in Turn \ {t} : Same(s)
  BY <1>1 DEF TurnsTyped, Same, Open, Goes, To, stepVars, callVars
<1>5. Handling(t)'
  BY <1>1 DEF TurnsTyped, Good, Handling, Call, Open, Goes, To, stepVars, callVars
<1>6. Pinned(t)'
  BY <1>1 DEF TurnsTyped, Good, Pinned, Handling, Open, Goes, To, stepVars, callVars
<1>7. Paced(t)'
  BY <1>1 DEF TurnsTyped, Good, Paced, After, Handling, Open, Goes, To, stepVars, callVars
<1>8. Budgeted(t)'
  BY <1>1 DEF TurnsTyped, Good, Budgeted, Handling, Open, Goes, To, stepVars, callVars
<1>. QED  BY <1>3, <1>4, <1>5, <1>6, <1>7, <1>8 DEF Keeps, Good

LEMMA BeginKeeps ==
    ASSUME TurnsInv, NEW t \in Turn, Begin(t) PROVE Keeps(t)
<1>1. TurnsTyped /\ Good(t)
  BY DEF TurnsInv
<1>3. TurnsTyped'
  BY <1>1, DesktopChatAssumption DEF TurnsTyped, Pc, Never, Begin, Goes, To, stepVars,
     callVars
<1>4. \A s \in Turn \ {t} : Same(s)
  BY <1>1 DEF TurnsTyped, Same, Begin, Goes, To, stepVars, callVars
<1>5. Handling(t)'
  BY <1>1 DEF TurnsTyped, Good, Handling, Call, Begin, Goes, To, stepVars, callVars
<1>6. Pinned(t)'
  BY <1>1 DEF TurnsTyped, Good, Pinned, Handling, Begin, Goes, To, stepVars, callVars
<1>7. Paced(t)'
  BY <1>1 DEF TurnsTyped, Good, Paced, After, Handling, Begin, Goes, To, stepVars, callVars
<1>8. Budgeted(t)'
  BY <1>1 DEF TurnsTyped, Good, Budgeted, Handling, Begin, Goes, To, stepVars, callVars
<1>. QED  BY <1>3, <1>4, <1>5, <1>6, <1>7, <1>8 DEF Keeps, Good

LEMMA OutOfStepsKeeps ==
    ASSUME TurnsInv, NEW t \in Turn, OutOfSteps(t) PROVE Keeps(t)
<1>1. TurnsTyped /\ Good(t)
  BY DEF TurnsInv
<1>3. TurnsTyped'
  BY <1>1, DesktopChatAssumption DEF TurnsTyped, Pc, Never, OutOfSteps, Runs, To, Returns,
     stepVars, callVars
<1>4. \A s \in Turn \ {t} : Same(s)
  BY <1>1 DEF TurnsTyped, Same, OutOfSteps, Runs, To, Returns, stepVars, callVars
<1>5. Handling(t)'
  BY <1>1 DEF TurnsTyped, Good, Handling, Call, OutOfSteps, Runs, To, Returns, stepVars,
     callVars
<1>6. Pinned(t)'
  BY <1>1 DEF TurnsTyped, Good, Pinned, Handling, OutOfSteps, Runs, To, Returns, stepVars,
     callVars
<1>7. Paced(t)'
  BY <1>1 DEF TurnsTyped, Good, Paced, After, Handling, OutOfSteps, Runs, To, Returns,
     stepVars, callVars
<1>8. Budgeted(t)'
  BY <1>1 DEF TurnsTyped, Good, Budgeted, Handling, OutOfSteps, Runs, To, Returns,
     stepVars, callVars
<1>. QED  BY <1>3, <1>4, <1>5, <1>6, <1>7, <1>8 DEF Keeps, Good

LEMMA AskModelKeeps ==
    ASSUME TurnsInv, NEW t \in Turn, AskModel(t) PROVE Keeps(t)
<1>1. TurnsTyped /\ Good(t)
  BY DEF TurnsInv
<1>3. TurnsTyped'
  <2>1. /\ active' \in Account /\ thread' \in Turn \cup {None} /\ pc' \in [Turn -> Pc]
        /\ pinned' \in [Turn -> Account \cup {None}] /\ pending' \subseteq Turn
    BY <1>1 DEF TurnsTyped, Pc, Awaits, AskModel, Runs, To, MayStep, stepVars, callVars
  <2>2. stopped' \in [Turn -> BOOLEAN] /\ late' \in [Turn -> BOOLEAN]
    BY <1>1 DEF TurnsTyped, AskModel, Runs, To, MayStep, stepVars, callVars
  <2>3. wrote' \in [Turn -> BOOLEAN] /\ landed' \in [Turn -> 0..Hard]
    BY <1>1 DEF TurnsTyped, AskModel, Runs, To, MayStep, stepVars, callVars
  <2>4. step' \in [Turn -> 0..Hard] /\ since' \in [Turn -> 0..Never]
    BY <1>1, DesktopChatAssumption DEF TurnsTyped, Never, Good, Paced, After, AskModel,
       Runs, To, MayStep, stepVars, callVars
  <2>5. /\ batch' \in [Turn -> Seq(Calls)] /\ yes' \in [Turn -> 0..1]
        /\ item' \in [Turn -> Nat] /\ token' \in [Turn -> Account \cup {None}]
    BY <1>1 DEF TurnsTyped, AskModel, Runs, To, MayStep, stepVars, callVars
  <2>6. same' \in [Turn -> [Calls -> 0..MaxSame]]
    BY <1>1 DEF TurnsTyped, AskModel, Runs, To, MayStep, stepVars, callVars
  <2>. QED  BY <2>1, <2>2, <2>3, <2>4, <2>5, <2>6 DEF TurnsTyped
<1>4. \A s \in Turn \ {t} : Same(s)
  BY <1>1 DEF TurnsTyped, Same, AskModel, Runs, To, MayStep, stepVars, callVars
<1>5. Handling(t)'
  BY <1>1 DEF TurnsTyped, Good, Handling, Call, AskModel, Runs, To, MayStep, stepVars,
     callVars
<1>6. Pinned(t)'
  BY <1>1 DEF TurnsTyped, Good, Pinned, Handling, AskModel, Runs, To, MayStep, stepVars,
     callVars
<1>7. Paced(t)'
  BY <1>1 DEF TurnsTyped, Good, Paced, After, Handling, AskModel, Runs, To, MayStep,
     stepVars, callVars
<1>8. Budgeted(t)'
  <2>1. /\ pc[t] = "top" /\ step'[t] = step[t] + 1 /\ UNCHANGED <<landed, since>>
        /\ step[t] >= Soft => since[t] < Stall
    BY <1>1 DEF TurnsTyped, AskModel, Runs, MayStep
  <2>2. After(t, step[t]) /\ step[t] \in 0..Hard /\ landed[t] \in 0..Hard /\ since[t] \in 0..Never
    BY <1>1, <2>1 DEF TurnsTyped, Good, Paced
  <2>3. Stall <= Soft /\ Soft \in Nat /\ Stall \in Nat /\ Stall > 0 /\ Hard \in Nat
    BY DesktopChatAssumption
  <2>. QED  BY <2>1, <2>2, <2>3 DEF Budgeted, After
<1>. QED  BY <1>3, <1>4, <1>5, <1>6, <1>7, <1>8 DEF Keeps, Good

LEMMA ModelCallsKeeps ==
    ASSUME TurnsInv, NEW t \in Turn, ModelCalls(t) PROVE Keeps(t)
<1>1. TurnsTyped /\ Good(t)
  BY DEF TurnsInv
<1>3. TurnsTyped'
  <2>1. /\ active' \in Account /\ thread' \in Turn \cup {None} /\ pc' \in [Turn -> Pc]
        /\ pinned' \in [Turn -> Account \cup {None}] /\ pending' \subseteq Turn
    BY <1>1 DEF TurnsTyped, Pc, Awaits, ModelCalls, Goes, To, stepVars, callVars
  <2>2. stopped' \in [Turn -> BOOLEAN] /\ late' \in [Turn -> BOOLEAN]
    BY <1>1 DEF TurnsTyped, ModelCalls, Goes, To, stepVars, callVars
  <2>3. wrote' \in [Turn -> BOOLEAN] /\ landed' \in [Turn -> 0..Hard]
    BY <1>1 DEF TurnsTyped, ModelCalls, Goes, To, stepVars, callVars
  <2>4. step' \in [Turn -> 0..Hard] /\ since' \in [Turn -> 0..Never]
    BY <1>1, DesktopChatAssumption DEF TurnsTyped, Never, Good, Paced, After, ModelCalls,
       Goes, To, stepVars, callVars
  <2>5. /\ batch' \in [Turn -> Seq(Calls)] /\ yes' \in [Turn -> 0..1]
        /\ item' \in [Turn -> Nat] /\ token' \in [Turn -> Account \cup {None}]
    BY <1>1, CallsTyped DEF ModelCalls, TurnsTyped
  <2>6. same' \in [Turn -> [Calls -> 0..MaxSame]]
    BY <1>1 DEF TurnsTyped, ModelCalls, Goes, To, stepVars, callVars
  <2>. QED  BY <2>1, <2>2, <2>3, <2>4, <2>5, <2>6 DEF TurnsTyped
<1>4. \A s \in Turn \ {t} : Same(s)
  BY <1>1 DEF TurnsTyped, Same, ModelCalls, Goes, To, stepVars, callVars
<1>5. Handling(t)'
  BY <1>1 DEF TurnsTyped, Good, Handling, Call, ModelCalls, Goes, To, stepVars, callVars
<1>6. Pinned(t)'
  BY <1>1 DEF TurnsTyped, Good, Pinned, Handling, ModelCalls, Goes, To, stepVars, callVars
<1>7. Paced(t)'
  BY <1>1 DEF TurnsTyped, Good, Paced, After, Handling, ModelCalls, Goes, To, stepVars,
     callVars
<1>8. Budgeted(t)'
  BY <1>1 DEF TurnsTyped, Good, Budgeted, Handling, ModelCalls, Goes, To, stepVars, callVars
<1>. QED  BY <1>3, <1>4, <1>5, <1>6, <1>7, <1>8 DEF Keeps, Good

LEMMA ModelEndsKeeps ==
    ASSUME TurnsInv, NEW t \in Turn, ModelEnds(t) PROVE Keeps(t)
<1>1. TurnsTyped /\ Good(t)
  BY DEF TurnsInv
<1>3. TurnsTyped'
  BY SMTT(30), <1>1, DesktopChatAssumption DEF TurnsTyped, Pc, Never, ModelEnds, Goes, To, Returns,
     stepVars, callVars
<1>4. \A s \in Turn \ {t} : Same(s)
  BY <1>1 DEF TurnsTyped, Same, ModelEnds, Goes, To, Returns, stepVars, callVars
<1>5. Handling(t)'
  BY <1>1 DEF TurnsTyped, Good, Handling, Call, ModelEnds, Goes, To, Returns, stepVars,
     callVars
<1>6. Pinned(t)'
  BY <1>1 DEF TurnsTyped, Good, Pinned, Handling, ModelEnds, Goes, To, Returns, stepVars,
     callVars
<1>7. Paced(t)'
  BY <1>1 DEF TurnsTyped, Good, Paced, After, Handling, ModelEnds, Goes, To, Returns,
     stepVars, callVars
<1>8. Budgeted(t)'
  BY <1>1 DEF TurnsTyped, Good, Budgeted, Handling, ModelEnds, Goes, To, Returns, stepVars,
     callVars
<1>. QED  BY <1>3, <1>4, <1>5, <1>6, <1>7, <1>8 DEF Keeps, Good

LEMMA EndStepKeeps ==
    ASSUME TurnsInv, NEW t \in Turn, EndStep(t) PROVE Keeps(t)
<1>1. TurnsTyped /\ Good(t)
  BY DEF TurnsInv
<1>3. TurnsTyped'
  <2>1. /\ active' \in Account /\ thread' \in Turn \cup {None} /\ pc' \in [Turn -> Pc]
        /\ pinned' \in [Turn -> Account \cup {None}] /\ pending' \subseteq Turn
    BY <1>1 DEF TurnsTyped, Pc, Awaits, EndStep, Runs, To, stepVars, callVars
  <2>2. stopped' \in [Turn -> BOOLEAN] /\ late' \in [Turn -> BOOLEAN]
    BY <1>1 DEF TurnsTyped, EndStep, Runs, To, stepVars, callVars
  <2>3. wrote' \in [Turn -> BOOLEAN] /\ landed' \in [Turn -> 0..Hard]
    BY <1>1 DEF TurnsTyped, EndStep, Runs, To, stepVars, callVars
  <2>4. step' \in [Turn -> 0..Hard] /\ since' \in [Turn -> 0..Never]
    <3>1. step[t] \in 1..Hard /\ since[t] \in 0..Never /\ Never > Hard /\ Never \in Nat /\ Hard \in Nat
      BY <1>1, DesktopChatAssumption DEF TurnsTyped, Never, Good, Paced, EndStep, Runs
    <3>2. ~wrote[t] => After(t, step[t] - 1) /\ landed[t] \in 0..Hard
      BY <1>1 DEF TurnsTyped, Good, Paced, EndStep, Runs
    <3>3. ~wrote[t] /\ since[t] # Never => since[t] + 1 \in 0..Never
      BY <3>1, <3>2 DEF After
    <3>4. since' = [since EXCEPT ![t] = IF wrote[t] THEN 0
                                       ELSE IF since[t] = Never THEN 1 ELSE since[t] + 1]
      BY DEF EndStep
    <3>5. since' \in [Turn -> 0..Never]
      BY <1>1, <3>1, <3>3, <3>4 DEF TurnsTyped
    <3>. QED  BY <1>1, <3>5 DEF TurnsTyped, EndStep
  <2>5. /\ batch' \in [Turn -> Seq(Calls)] /\ yes' \in [Turn -> 0..1]
        /\ item' \in [Turn -> Nat] /\ token' \in [Turn -> Account \cup {None}]
    BY <1>1 DEF TurnsTyped, EndStep, Runs, To, stepVars, callVars
  <2>6. same' \in [Turn -> [Calls -> 0..MaxSame]]
    BY <1>1 DEF TurnsTyped, EndStep, Runs, To, stepVars, callVars
  <2>. QED  BY <2>1, <2>2, <2>3, <2>4, <2>5, <2>6 DEF TurnsTyped
<1>4. \A s \in Turn \ {t} : Same(s)
  BY <1>1 DEF TurnsTyped, Same, EndStep, Runs, To, stepVars, callVars
<1>5. Handling(t)'
  BY <1>1 DEF TurnsTyped, Good, Handling, Call, EndStep, Runs, To, stepVars, callVars
<1>6. Pinned(t)'
  BY <1>1 DEF TurnsTyped, Good, Pinned, Handling, EndStep, Runs, To, stepVars, callVars
<1>7. Paced(t)'
  <2>1. /\ pc[t] = "calls" /\ pc'[t] = "top" /\ UNCHANGED <<step, landed>> /\ step[t] > 0
        /\ since'[t] = IF wrote[t] THEN 0 ELSE IF since[t] = Never THEN 1 ELSE since[t] + 1
    BY <1>1 DEF TurnsTyped, EndStep, Runs, To, Good, Paced
  <2>2. CASE wrote[t]
    <3>1. since'[t] = 0 /\ landed[t] = step[t]
      BY <1>1, <2>1, <2>2 DEF Good, Paced
    <3>. QED  BY <1>1, <2>1, <3>1 DEF TurnsTyped, Paced, After
  <2>3. CASE ~wrote[t]
    <3>1. After(t, step[t] - 1) /\ since'[t] = IF since[t] = Never THEN 1 ELSE since[t] + 1
      BY <1>1, <2>1, <2>3 DEF Good, Paced
    <3>2. /\ step[t] \in 1..Hard /\ landed[t] \in 0..Hard /\ since[t] \in 0..Never
          /\ Never > Hard /\ Never \in Nat /\ Hard \in Nat
      BY <1>1, <2>1, DesktopChatAssumption DEF TurnsTyped, Never
    <3>3. step'[t] = step[t] /\ landed'[t] = landed[t]
      BY <2>1
    <3>4. CASE landed[t] = 0
      <4>1. since'[t] = step[t]
        BY <3>1, <3>2, <3>4 DEF After
      <4>. QED  BY <2>1, <3>2, <3>3, <3>4, <4>1 DEF Paced, After
    <3>5. CASE landed[t] > 0
      <4>1. landed[t] <= step[t] - 1 /\ since[t] = step[t] - 1 - landed[t]
        BY <3>1, <3>2, <3>5 DEF After
      <4>2. landed[t] <= step[t] /\ since'[t] = step[t] - landed[t]
        BY <3>1, <3>2, <4>1
      <4>. QED  BY <2>1, <3>2, <3>3, <3>5, <4>2 DEF Paced, After
    <3>. QED  BY <3>2, <3>4, <3>5
  <2>. QED  BY <2>2, <2>3
<1>8. Budgeted(t)'
  BY <1>1 DEF TurnsTyped, Good, Budgeted, Handling, EndStep, Runs, To, stepVars, callVars
<1>. QED  BY <1>3, <1>4, <1>5, <1>6, <1>7, <1>8 DEF Keeps, Good

LEMMA BlockedKeeps ==
    ASSUME TurnsInv, NEW t \in Turn, Blocked(t) PROVE Keeps(t)
<1>1. TurnsTyped /\ Good(t)
  BY DEF TurnsInv
<1>2. batch[t] # <<>>
  BY <1>1 DEF Blocked, InCalls
<1>3. TurnsTyped'
  <2>1. /\ active' \in Account /\ thread' \in Turn \cup {None} /\ pc' \in [Turn -> Pc]
        /\ pinned' \in [Turn -> Account \cup {None}] /\ pending' \subseteq Turn
    BY <1>1 DEF TurnsTyped, Pc, Awaits, Blocked, InCalls, To, Over, stepVars, callVars
  <2>2. stopped' \in [Turn -> BOOLEAN] /\ late' \in [Turn -> BOOLEAN]
    BY <1>1 DEF TurnsTyped, Blocked, InCalls, To, Over, stepVars, callVars
  <2>3. wrote' \in [Turn -> BOOLEAN] /\ landed' \in [Turn -> 0..Hard]
    BY <1>1 DEF TurnsTyped, Blocked, InCalls, To, Over, stepVars, callVars
  <2>4. step' \in [Turn -> 0..Hard] /\ since' \in [Turn -> 0..Never]
    BY <1>1, DesktopChatAssumption DEF TurnsTyped, Never, Good, Paced, After, Blocked,
       InCalls, To, Over, stepVars, callVars
  <2>5. /\ batch' \in [Turn -> Seq(Calls)] /\ yes' \in [Turn -> 0..1]
        /\ item' \in [Turn -> Nat] /\ token' \in [Turn -> Account \cup {None}]
    BY <1>1, <1>2, OverTyped DEF Blocked
  <2>6. same' \in [Turn -> [Calls -> 0..MaxSame]]
    BY <1>1 DEF TurnsTyped, Blocked, InCalls, To, Over, stepVars, callVars
  <2>. QED  BY <2>1, <2>2, <2>3, <2>4, <2>5, <2>6 DEF TurnsTyped
<1>4. \A s \in Turn \ {t} : Same(s)
  BY <1>1 DEF TurnsTyped, Same, Blocked, InCalls, To, Over, stepVars, callVars
<1>5. Handling(t)'
  BY <1>1, <1>2, HeadTail DEF TurnsTyped, Good, Handling, Call, Blocked, InCalls, To, Over,
     stepVars, callVars
<1>6. Pinned(t)'
  BY <1>1, <1>2 DEF TurnsTyped, Good, Pinned, Handling, Blocked, InCalls, To, Over,
     stepVars, callVars
<1>7. Paced(t)'
  BY <1>1, <1>2 DEF TurnsTyped, Good, Paced, After, Handling, Blocked, InCalls, To, Over,
     stepVars, callVars
<1>8. Budgeted(t)'
  BY <1>1, <1>2 DEF TurnsTyped, Good, Budgeted, Handling, Blocked, InCalls, To, Over,
     stepVars, callVars
<1>. QED  BY <1>3, <1>4, <1>5, <1>6, <1>7, <1>8 DEF Keeps, Good

LEMMA DeclinedKeeps ==
    ASSUME TurnsInv, NEW t \in Turn, Declined(t) PROVE Keeps(t)
<1>1. TurnsTyped /\ Good(t)
  BY DEF TurnsInv
<1>2. batch[t] # <<>>
  BY <1>1 DEF Declined, InCalls
<1>3. TurnsTyped'
  <2>1. /\ active' \in Account /\ thread' \in Turn \cup {None} /\ pc' \in [Turn -> Pc]
        /\ pinned' \in [Turn -> Account \cup {None}] /\ pending' \subseteq Turn
    BY <1>1 DEF TurnsTyped, Pc, Awaits, Declined, InCalls, To, Over, stepVars, callVars
  <2>2. stopped' \in [Turn -> BOOLEAN] /\ late' \in [Turn -> BOOLEAN]
    BY <1>1 DEF TurnsTyped, Declined, InCalls, To, Over, stepVars, callVars
  <2>3. wrote' \in [Turn -> BOOLEAN] /\ landed' \in [Turn -> 0..Hard]
    BY <1>1 DEF TurnsTyped, Declined, InCalls, To, Over, stepVars, callVars
  <2>4. step' \in [Turn -> 0..Hard] /\ since' \in [Turn -> 0..Never]
    BY <1>1, DesktopChatAssumption DEF TurnsTyped, Never, Good, Paced, After, Declined,
       InCalls, To, Over, stepVars, callVars
  <2>5. /\ batch' \in [Turn -> Seq(Calls)] /\ yes' \in [Turn -> 0..1]
        /\ item' \in [Turn -> Nat] /\ token' \in [Turn -> Account \cup {None}]
    BY <1>1, <1>2, OverTyped DEF Declined
  <2>6. same' \in [Turn -> [Calls -> 0..MaxSame]]
    BY <1>1, <1>2, CountedTyped DEF Declined, InCalls
  <2>. QED  BY <2>1, <2>2, <2>3, <2>4, <2>5, <2>6 DEF TurnsTyped
<1>4. \A s \in Turn \ {t} : Same(s)
  BY <1>1 DEF TurnsTyped, Same, Declined, InCalls, To, Over, stepVars, callVars
<1>5. Handling(t)'
  BY <1>1, <1>2, HeadTail DEF TurnsTyped, Good, Handling, Call, Declined, InCalls, To,
     Over, stepVars, callVars
<1>6. Pinned(t)'
  BY <1>1, <1>2 DEF TurnsTyped, Good, Pinned, Handling, Declined, InCalls, To, Over,
     stepVars, callVars
<1>7. Paced(t)'
  BY <1>1, <1>2 DEF TurnsTyped, Good, Paced, After, Handling, Declined, InCalls, To, Over,
     stepVars, callVars
<1>8. Budgeted(t)'
  BY <1>1, <1>2 DEF TurnsTyped, Good, Budgeted, Handling, Declined, InCalls, To, Over,
     stepVars, callVars
<1>. QED  BY <1>3, <1>4, <1>5, <1>6, <1>7, <1>8 DEF Keeps, Good

LEMMA MalformedKeeps ==
    ASSUME TurnsInv, NEW t \in Turn, Malformed(t) PROVE Keeps(t)
<1>1. TurnsTyped /\ Good(t)
  BY DEF TurnsInv
<1>2. batch[t] # <<>>
  BY <1>1 DEF Malformed, InCalls
<1>3. TurnsTyped'
  <2>1. /\ active' \in Account /\ thread' \in Turn \cup {None} /\ pc' \in [Turn -> Pc]
        /\ pinned' \in [Turn -> Account \cup {None}] /\ pending' \subseteq Turn
    BY <1>1 DEF TurnsTyped, Pc, Awaits, Malformed, InCalls, To, Over, stepVars, callVars
  <2>2. stopped' \in [Turn -> BOOLEAN] /\ late' \in [Turn -> BOOLEAN]
    BY <1>1 DEF TurnsTyped, Malformed, InCalls, To, Over, stepVars, callVars
  <2>3. wrote' \in [Turn -> BOOLEAN] /\ landed' \in [Turn -> 0..Hard]
    BY <1>1 DEF TurnsTyped, Malformed, InCalls, To, Over, stepVars, callVars
  <2>4. step' \in [Turn -> 0..Hard] /\ since' \in [Turn -> 0..Never]
    BY <1>1, DesktopChatAssumption DEF TurnsTyped, Never, Good, Paced, After, Malformed,
       InCalls, To, Over, stepVars, callVars
  <2>5. /\ batch' \in [Turn -> Seq(Calls)] /\ yes' \in [Turn -> 0..1]
        /\ item' \in [Turn -> Nat] /\ token' \in [Turn -> Account \cup {None}]
    BY <1>1, <1>2, OverTyped DEF Malformed
  <2>6. same' \in [Turn -> [Calls -> 0..MaxSame]]
    BY <1>1, <1>2, CountedTyped DEF Malformed, InCalls
  <2>. QED  BY <2>1, <2>2, <2>3, <2>4, <2>5, <2>6 DEF TurnsTyped
<1>4. \A s \in Turn \ {t} : Same(s)
  BY <1>1 DEF TurnsTyped, Same, Malformed, InCalls, To, Over, stepVars, callVars
<1>5. Handling(t)'
  BY <1>1, <1>2, HeadTail DEF TurnsTyped, Good, Handling, Call, Malformed, InCalls, To,
     Over, stepVars, callVars
<1>6. Pinned(t)'
  BY <1>1, <1>2 DEF TurnsTyped, Good, Pinned, Handling, Malformed, InCalls, To, Over,
     stepVars, callVars
<1>7. Paced(t)'
  BY <1>1, <1>2 DEF TurnsTyped, Good, Paced, After, Handling, Malformed, InCalls, To, Over,
     stepVars, callVars
<1>8. Budgeted(t)'
  BY <1>1, <1>2 DEF TurnsTyped, Good, Budgeted, Handling, Malformed, InCalls, To, Over,
     stepVars, callVars
<1>. QED  BY <1>3, <1>4, <1>5, <1>6, <1>7, <1>8 DEF Keeps, Good

LEMMA EnterKeeps ==
    ASSUME TurnsInv, NEW t \in Turn, Enter(t) PROVE Keeps(t)
<1>1. TurnsTyped /\ Good(t)
  BY DEF TurnsInv
<1>2. batch[t] # <<>>
  BY <1>1 DEF Enter, InCalls
<1>3. TurnsTyped'
  <2>1. /\ active' \in Account /\ thread' \in Turn \cup {None} /\ pc' \in [Turn -> Pc]
        /\ pinned' \in [Turn -> Account \cup {None}] /\ pending' \subseteq Turn
    BY <1>1 DEF TurnsTyped, Pc, Awaits, Enter, InCalls, Apply, Starts, StillPinned, Parks,
       To, Over, stepVars, callVars
  <2>2. stopped' \in [Turn -> BOOLEAN] /\ late' \in [Turn -> BOOLEAN]
    BY <1>1 DEF TurnsTyped, Enter, InCalls, Apply, Starts, StillPinned, Parks, To, Over,
       stepVars, callVars
  <2>3. wrote' \in [Turn -> BOOLEAN] /\ landed' \in [Turn -> 0..Hard]
    BY <1>1 DEF TurnsTyped, Enter, InCalls, Apply, Starts, StillPinned, Parks, To, Over,
       stepVars, callVars
  <2>4. step' \in [Turn -> 0..Hard] /\ since' \in [Turn -> 0..Never]
    BY <1>1, DesktopChatAssumption DEF TurnsTyped, Never, Good, Paced, After, Enter,
       InCalls, Apply, Starts, StillPinned, Parks, To, Over, stepVars, callVars
  <2>5. /\ batch' \in [Turn -> Seq(Calls)] /\ yes' \in [Turn -> 0..1]
        /\ item' \in [Turn -> Nat] /\ token' \in [Turn -> Account \cup {None}]
    BY <1>1, <1>2, ApplyTyped, CallKept DEF Enter, Parks, InCalls, TurnsTyped
  <2>6. same' \in [Turn -> [Calls -> 0..MaxSame]]
    BY <1>1, <1>2, CountedTyped DEF Enter, InCalls
  <2>. QED  BY <2>1, <2>2, <2>3, <2>4, <2>5, <2>6 DEF TurnsTyped
<1>4. \A s \in Turn \ {t} : Same(s)
  BY <1>1 DEF TurnsTyped, Same, Enter, InCalls, Apply, Starts, StillPinned, Parks, To,
     Over, stepVars, callVars
<1>5. Handling(t)'
  BY <1>1, <1>2, HeadTail DEF TurnsTyped, Good, Handling, Call, Enter, InCalls, Apply,
     Starts, StillPinned, Parks, To, Over, stepVars, callVars
<1>6. Pinned(t)'
  BY <1>1, <1>2 DEF TurnsTyped, Good, Pinned, Handling, Enter, InCalls, Apply, Starts,
     StillPinned, Parks, To, Over, stepVars, callVars
<1>7. Paced(t)'
  BY <1>1, <1>2 DEF TurnsTyped, Good, Paced, After, Handling, Enter, InCalls, Apply,
     Starts, StillPinned, Parks, To, Over, stepVars, callVars
<1>8. Budgeted(t)'
  BY <1>1, <1>2 DEF TurnsTyped, Good, Budgeted, Handling, Enter, InCalls, Apply, Starts,
     StillPinned, Parks, To, Over, stepVars, callVars
<1>. QED  BY <1>3, <1>4, <1>5, <1>6, <1>7, <1>8 DEF Keeps, Good

LEMMA CheckEndsKeeps ==
    ASSUME TurnsInv, NEW t \in Turn, CheckEnds(t) PROVE Keeps(t)
<1>1. TurnsTyped /\ Good(t)
  BY DEF TurnsInv
<1>2. batch[t] # <<>>
  BY <1>1 DEF CheckEnds, Goes, Good, Handling
<1>3. TurnsTyped'
  <2>1. /\ active' \in Account /\ thread' \in Turn \cup {None} /\ pc' \in [Turn -> Pc]
        /\ pinned' \in [Turn -> Account \cup {None}] /\ pending' \subseteq Turn
    BY <1>1 DEF TurnsTyped, Pc, Awaits, CheckEnds, Goes, To, Over, Progress, stepVars,
       callVars
  <2>2. stopped' \in [Turn -> BOOLEAN] /\ late' \in [Turn -> BOOLEAN]
    BY <1>1 DEF TurnsTyped, CheckEnds, Goes, To, Over, Progress, stepVars, callVars
  <2>3. wrote' \in [Turn -> BOOLEAN] /\ landed' \in [Turn -> 0..Hard]
    BY <1>1, ProgressTyped DEF CheckEnds, TurnsTyped
  <2>4. step' \in [Turn -> 0..Hard] /\ since' \in [Turn -> 0..Never]
    BY <1>1, DesktopChatAssumption DEF TurnsTyped, Never, Good, Paced, After, CheckEnds,
       Goes, To, Over, Progress, stepVars, callVars
  <2>5. /\ batch' \in [Turn -> Seq(Calls)] /\ yes' \in [Turn -> 0..1]
        /\ item' \in [Turn -> Nat] /\ token' \in [Turn -> Account \cup {None}]
    BY <1>1, <1>2, OverTyped DEF CheckEnds
  <2>6. same' \in [Turn -> [Calls -> 0..MaxSame]]
    BY <1>1 DEF TurnsTyped, CheckEnds, Goes, To, Over, Progress, stepVars, callVars
  <2>. QED  BY <2>1, <2>2, <2>3, <2>4, <2>5, <2>6 DEF TurnsTyped
<1>4. \A s \in Turn \ {t} : Same(s)
  BY <1>1 DEF TurnsTyped, Same, CheckEnds, Goes, To, Over, Progress, stepVars, callVars
<1>5. Handling(t)'
  BY <1>1, <1>2, HeadTail DEF TurnsTyped, Good, Handling, Call, CheckEnds, Goes, To, Over,
     Progress, stepVars, callVars
<1>6. Pinned(t)'
  BY <1>1, <1>2 DEF TurnsTyped, Good, Pinned, Handling, CheckEnds, Goes, To, Over,
     Progress, stepVars, callVars
<1>7. Paced(t)'
  BY <1>1, <1>2 DEF TurnsTyped, Good, Paced, After, Handling, CheckEnds, Goes, To, Over,
     Progress, stepVars, callVars
<1>8. Budgeted(t)'
  BY <1>1, <1>2 DEF TurnsTyped, Good, Budgeted, Handling, CheckEnds, Goes, To, Over,
     Progress, stepVars, callVars
<1>. QED  BY <1>3, <1>4, <1>5, <1>6, <1>7, <1>8 DEF Keeps, Good

LEMMA CheckPassesKeeps ==
    ASSUME TurnsInv, NEW t \in Turn, CheckPasses(t) PROVE Keeps(t)
<1>1. TurnsTyped /\ Good(t)
  BY DEF TurnsInv
<1>2. batch[t] # <<>>
  BY <1>1 DEF CheckPasses, Good, Handling
<1>3. TurnsTyped'
  <2>1. /\ active' \in Account /\ thread' \in Turn \cup {None} /\ pc' \in [Turn -> Pc]
        /\ pinned' \in [Turn -> Account \cup {None}] /\ pending' \subseteq Turn
    BY <1>1 DEF TurnsTyped, Pc, Awaits, CheckPasses, Apply, Starts, StillPinned, Parks, To,
       Over, stepVars, callVars
  <2>2. stopped' \in [Turn -> BOOLEAN] /\ late' \in [Turn -> BOOLEAN]
    BY <1>1 DEF TurnsTyped, CheckPasses, Apply, Starts, StillPinned, Parks, To, Over,
       stepVars, callVars
  <2>3. wrote' \in [Turn -> BOOLEAN] /\ landed' \in [Turn -> 0..Hard]
    BY <1>1 DEF TurnsTyped, CheckPasses, Apply, Starts, StillPinned, Parks, To, Over,
       stepVars, callVars
  <2>4. step' \in [Turn -> 0..Hard] /\ since' \in [Turn -> 0..Never]
    BY <1>1, DesktopChatAssumption DEF TurnsTyped, Never, Good, Paced, After, CheckPasses,
       Apply, Starts, StillPinned, Parks, To, Over, stepVars, callVars
  <2>5. /\ batch' \in [Turn -> Seq(Calls)] /\ yes' \in [Turn -> 0..1]
        /\ item' \in [Turn -> Nat] /\ token' \in [Turn -> Account \cup {None}]
    BY <1>1, <1>2, ApplyTyped, CallKept DEF CheckPasses, Parks
  <2>6. same' \in [Turn -> [Calls -> 0..MaxSame]]
    BY <1>1 DEF TurnsTyped, CheckPasses, Apply, Starts, StillPinned, Parks, To, Over,
       stepVars, callVars
  <2>. QED  BY <2>1, <2>2, <2>3, <2>4, <2>5, <2>6 DEF TurnsTyped
<1>4. \A s \in Turn \ {t} : Same(s)
  BY <1>1 DEF TurnsTyped, Same, CheckPasses, Apply, Starts, StillPinned, Parks, To, Over,
     stepVars, callVars
<1>5. Handling(t)'
  BY SMTT(30), <1>1, <1>2, HeadTail DEF TurnsTyped, Good, Handling, Call, CheckPasses, Apply, Starts,
     StillPinned, Parks, To, Over, stepVars, callVars
<1>6. Pinned(t)'
  BY <1>1, <1>2 DEF TurnsTyped, Good, Pinned, Handling, CheckPasses, Apply, Starts,
     StillPinned, Parks, To, Over, stepVars, callVars
<1>7. Paced(t)'
  BY <1>1, <1>2 DEF TurnsTyped, Good, Paced, After, Handling, CheckPasses, Apply, Starts,
     StillPinned, Parks, To, Over, stepVars, callVars
<1>8. Budgeted(t)'
  BY <1>1, <1>2 DEF TurnsTyped, Good, Budgeted, Handling, CheckPasses, Apply, Starts,
     StillPinned, Parks, To, Over, stepVars, callVars
<1>. QED  BY <1>3, <1>4, <1>5, <1>6, <1>7, <1>8 DEF Keeps, Good

LEMMA ApproveKeeps ==
    ASSUME TurnsInv, NEW t \in Turn, Approve(t) PROVE Keeps(t)
<1>1. TurnsTyped /\ Good(t)
  BY DEF TurnsInv
<1>2. batch[t] # <<>>
  BY <1>1 DEF Approve, Good, Handling
<1>3. TurnsTyped'
  <2>1. /\ active' \in Account /\ thread' \in Turn \cup {None} /\ pc' \in [Turn -> Pc]
        /\ pinned' \in [Turn -> Account \cup {None}] /\ pending' \subseteq Turn
    BY <1>1 DEF TurnsTyped, Pc, Awaits, Approve, Apply, Starts, StillPinned, To, Over,
       stepVars, callVars
  <2>2. stopped' \in [Turn -> BOOLEAN] /\ late' \in [Turn -> BOOLEAN]
    BY <1>1 DEF TurnsTyped, Approve, Apply, Starts, StillPinned, To, Over, stepVars,
       callVars
  <2>3. wrote' \in [Turn -> BOOLEAN] /\ landed' \in [Turn -> 0..Hard]
    BY <1>1 DEF TurnsTyped, Approve, Apply, Starts, StillPinned, To, Over, stepVars,
       callVars
  <2>4. step' \in [Turn -> 0..Hard] /\ since' \in [Turn -> 0..Never]
    BY <1>1, DesktopChatAssumption DEF TurnsTyped, Never, Good, Paced, After, Approve,
       Apply, Starts, StillPinned, To, Over, stepVars, callVars
  <2>5. /\ batch' \in [Turn -> Seq(Calls)] /\ yes' \in [Turn -> 0..1]
        /\ item' \in [Turn -> Nat] /\ token' \in [Turn -> Account \cup {None}]
    <3>1. CASE yes[t] + 1 < Call(t).cards
      <4>1. Call(t).cards \in 0..2 /\ yes[t] \in 0..1
        BY <1>1, <1>2, HeadTail DEF TurnsTyped
      <4>2. yes[t] + 1 \in 0..1
        BY <3>1, <4>1
      <4>3. yes' = [yes EXCEPT ![t] = @ + 1] /\ UNCHANGED <<batch, item, token>>
        BY <3>1 DEF Approve
      <4>4. yes' \in [Turn -> 0..1]
        BY <1>1, <4>2, <4>3 DEF TurnsTyped
      <4>. QED  BY <1>1, <4>3, <4>4 DEF TurnsTyped
    <3>2. CASE ~(yes[t] + 1 < Call(t).cards)
      BY <1>1, <1>2, <3>2, ApplyTyped DEF Approve
    <3>. QED  BY <3>1, <3>2
  <2>6. same' \in [Turn -> [Calls -> 0..MaxSame]]
    BY <1>1 DEF TurnsTyped, Approve, Apply, Starts, StillPinned, To, Over, stepVars,
       callVars
  <2>. QED  BY <2>1, <2>2, <2>3, <2>4, <2>5, <2>6 DEF TurnsTyped
<1>4. \A s \in Turn \ {t} : Same(s)
  BY SMTT(30), <1>1 DEF TurnsTyped, Same, Approve, Apply, Starts, StillPinned, To, Over, stepVars,
     callVars
<1>5. Handling(t)'
  BY <1>1, <1>2, HeadTail DEF TurnsTyped, Good, Handling, Call, Approve, Apply, Starts,
     StillPinned, To, Over, stepVars, callVars
<1>6. Pinned(t)'
  BY <1>1, <1>2 DEF TurnsTyped, Good, Pinned, Handling, Approve, Apply, Starts,
     StillPinned, To, Over, stepVars, callVars
<1>7. Paced(t)'
  BY <1>1, <1>2 DEF TurnsTyped, Good, Paced, After, Handling, Approve, Apply, Starts,
     StillPinned, To, Over, stepVars, callVars
<1>8. Budgeted(t)'
  BY <1>1, <1>2 DEF TurnsTyped, Good, Budgeted, Handling, Approve, Apply, Starts,
     StillPinned, To, Over, stepVars, callVars
<1>. QED  BY <1>3, <1>4, <1>5, <1>6, <1>7, <1>8 DEF Keeps, Good

LEMMA DeclineKeeps ==
    ASSUME TurnsInv, NEW t \in Turn, Decline(t) PROVE Keeps(t)
<1>1. TurnsTyped /\ Good(t)
  BY DEF TurnsInv
<1>2. batch[t] # <<>>
  BY <1>1 DEF Decline, Good, Handling
<1>3. TurnsTyped'
  <2>1. /\ active' \in Account /\ thread' \in Turn \cup {None} /\ pc' \in [Turn -> Pc]
        /\ pinned' \in [Turn -> Account \cup {None}] /\ pending' \subseteq Turn
    BY <1>1 DEF TurnsTyped, Pc, Awaits, Decline, To, Over, stepVars, callVars
  <2>2. stopped' \in [Turn -> BOOLEAN] /\ late' \in [Turn -> BOOLEAN]
    BY <1>1 DEF TurnsTyped, Decline, To, Over, stepVars, callVars
  <2>3. wrote' \in [Turn -> BOOLEAN] /\ landed' \in [Turn -> 0..Hard]
    BY <1>1 DEF TurnsTyped, Decline, To, Over, stepVars, callVars
  <2>4. step' \in [Turn -> 0..Hard] /\ since' \in [Turn -> 0..Never]
    BY <1>1, DesktopChatAssumption DEF TurnsTyped, Never, Good, Paced, After, Decline, To,
       Over, stepVars, callVars
  <2>5. /\ batch' \in [Turn -> Seq(Calls)] /\ yes' \in [Turn -> 0..1]
        /\ item' \in [Turn -> Nat] /\ token' \in [Turn -> Account \cup {None}]
    BY <1>1, <1>2, OverTyped DEF Decline
  <2>6. same' \in [Turn -> [Calls -> 0..MaxSame]]
    BY <1>1 DEF TurnsTyped, Decline, To, Over, stepVars, callVars
  <2>. QED  BY <2>1, <2>2, <2>3, <2>4, <2>5, <2>6 DEF TurnsTyped
<1>4. \A s \in Turn \ {t} : Same(s)
  BY <1>1 DEF TurnsTyped, Same, Decline, To, Over, stepVars, callVars
<1>5. Handling(t)'
  BY <1>1, <1>2, HeadTail DEF TurnsTyped, Good, Handling, Call, Decline, To, Over,
     stepVars, callVars
<1>6. Pinned(t)'
  BY <1>1, <1>2 DEF TurnsTyped, Good, Pinned, Handling, Decline, To, Over, stepVars,
     callVars
<1>7. Paced(t)'
  BY <1>1, <1>2 DEF TurnsTyped, Good, Paced, After, Handling, Decline, To, Over, stepVars,
     callVars
<1>8. Budgeted(t)'
  BY <1>1, <1>2 DEF TurnsTyped, Good, Budgeted, Handling, Decline, To, Over, stepVars,
     callVars
<1>. QED  BY <1>3, <1>4, <1>5, <1>6, <1>7, <1>8 DEF Keeps, Good

LEMMA StopKeeps ==
    ASSUME TurnsInv, NEW t \in Turn, Stop(t) PROVE Keeps(t)
<1>1. TurnsTyped /\ Good(t)
  BY DEF TurnsInv
<1>2. t \in pending => batch[t] # <<>>
  BY <1>1 DEF Good, Handling
<1>3. TurnsTyped'
  <2>1. /\ active' \in Account /\ thread' \in Turn \cup {None} /\ pc' \in [Turn -> Pc]
        /\ pinned' \in [Turn -> Account \cup {None}] /\ pending' \subseteq Turn
    BY <1>1 DEF TurnsTyped, Pc, Awaits, Stop, FreesCard, To, Over, stepVars, callVars
  <2>2. stopped' \in [Turn -> BOOLEAN] /\ late' \in [Turn -> BOOLEAN]
    BY <1>1 DEF TurnsTyped, Stop, FreesCard, To, Over, Awaits, stepVars, callVars
  <2>3. wrote' \in [Turn -> BOOLEAN] /\ landed' \in [Turn -> 0..Hard]
    BY <1>1 DEF TurnsTyped, Stop, FreesCard, To, Over, Awaits, stepVars, callVars
  <2>4. step' \in [Turn -> 0..Hard] /\ since' \in [Turn -> 0..Never]
    BY <1>1, DesktopChatAssumption DEF TurnsTyped, Never, Good, Paced, After, Stop,
       FreesCard, To, Over, Awaits, stepVars, callVars
  <2>5. /\ batch' \in [Turn -> Seq(Calls)] /\ yes' \in [Turn -> 0..1]
        /\ item' \in [Turn -> Nat] /\ token' \in [Turn -> Account \cup {None}]
    BY <1>1, <1>2, OverTyped, CallKept DEF Stop, FreesCard
  <2>6. same' \in [Turn -> [Calls -> 0..MaxSame]]
    BY <1>1 DEF TurnsTyped, Stop, FreesCard, To, Over, Awaits, stepVars, callVars
  <2>. QED  BY <2>1, <2>2, <2>3, <2>4, <2>5, <2>6 DEF TurnsTyped
<1>4. \A s \in Turn \ {t} : Same(s)
  BY SMTT(30), <1>1 DEF TurnsTyped, Same, Stop, FreesCard, To, Over, Awaits, stepVars, callVars
<1>5. Handling(t)'
  BY <1>1, <1>2 DEF TurnsTyped, Good, Handling, Call, Stop, FreesCard, To, Over, Awaits,
     stepVars, callVars
<1>6. Pinned(t)'
  BY <1>1, <1>2 DEF TurnsTyped, Good, Pinned, Handling, Stop, FreesCard, To, Over, Awaits,
     stepVars, callVars
<1>7. Paced(t)'
  BY <1>1, <1>2 DEF TurnsTyped, Good, Paced, After, Handling, Stop, FreesCard, To, Over,
     Awaits, stepVars, callVars
<1>8. Budgeted(t)'
  BY <1>1, <1>2 DEF TurnsTyped, Good, Budgeted, Handling, Stop, FreesCard, To, Over,
     Awaits, stepVars, callVars
<1>. QED  BY <1>3, <1>4, <1>5, <1>6, <1>7, <1>8 DEF Keeps, Good

LEMMA ItemDoneKeeps ==
    ASSUME TurnsInv, NEW t \in Turn, ItemDone(t) PROVE Keeps(t)
<1>1. TurnsTyped /\ Good(t)
  BY DEF TurnsInv
<1>2. batch[t] # <<>>
  BY <1>1 DEF ItemDone, Good, Handling
<1>3. TurnsTyped'
  <2>1. /\ active' \in Account /\ thread' \in Turn \cup {None} /\ pc' \in [Turn -> Pc]
        /\ pinned' \in [Turn -> Account \cup {None}] /\ pending' \subseteq Turn
    BY <1>1 DEF TurnsTyped, Pc, Awaits, ItemDone, NextItem, To, Over, Progress, stepVars,
       callVars
  <2>2. stopped' \in [Turn -> BOOLEAN] /\ late' \in [Turn -> BOOLEAN]
    BY <1>1 DEF TurnsTyped, ItemDone, NextItem, To, Over, Progress, stepVars, callVars
  <2>3. wrote' \in [Turn -> BOOLEAN] /\ landed' \in [Turn -> 0..Hard]
    BY <1>1, ProgressTyped DEF ItemDone, NextItem, TurnsTyped
  <2>4. step' \in [Turn -> 0..Hard] /\ since' \in [Turn -> 0..Never]
    BY <1>1, DesktopChatAssumption DEF TurnsTyped, Never, Good, Paced, After, ItemDone,
       NextItem, To, Over, Progress, stepVars, callVars
  <2>5. /\ batch' \in [Turn -> Seq(Calls)] /\ yes' \in [Turn -> 0..1]
        /\ item' \in [Turn -> Nat] /\ token' \in [Turn -> Account \cup {None}]
    BY <1>1, <1>2, NextItemTyped DEF ItemDone
  <2>6. same' \in [Turn -> [Calls -> 0..MaxSame]]
    BY <1>1 DEF TurnsTyped, ItemDone, NextItem, To, Over, Progress, stepVars, callVars
  <2>. QED  BY <2>1, <2>2, <2>3, <2>4, <2>5, <2>6 DEF TurnsTyped
<1>4. \A s \in Turn \ {t} : Same(s)
  BY <1>1 DEF TurnsTyped, Same, ItemDone, NextItem, To, Over, Progress, stepVars, callVars
<1>5. Handling(t)'
  BY <1>1, <1>2, HeadTail DEF TurnsTyped, Good, Handling, Call, ItemDone, NextItem, To,
     Over, Progress, stepVars, callVars
<1>6. Pinned(t)'
  BY <1>1, <1>2 DEF TurnsTyped, Good, Pinned, Handling, ItemDone, NextItem, To, Over,
     Progress, stepVars, callVars
<1>7. Paced(t)'
  BY SMTT(30), <1>1, <1>2 DEF TurnsTyped, Good, Paced, After, Handling, ItemDone, NextItem, To, Over,
     Progress, stepVars, callVars
<1>8. Budgeted(t)'
  BY <1>1, <1>2 DEF TurnsTyped, Good, Budgeted, Handling, ItemDone, NextItem, To, Over,
     Progress, stepVars, callVars
<1>. QED  BY <1>3, <1>4, <1>5, <1>6, <1>7, <1>8 DEF Keeps, Good

LEMMA ItemFailsKeeps ==
    ASSUME TurnsInv, NEW t \in Turn, ItemFails(t) PROVE Keeps(t)
<1>1. TurnsTyped /\ Good(t)
  BY DEF TurnsInv
<1>2. batch[t] # <<>>
  BY <1>1 DEF ItemFails, Good, Handling
<1>3. TurnsTyped'
  <2>1. /\ active' \in Account /\ thread' \in Turn \cup {None} /\ pc' \in [Turn -> Pc]
        /\ pinned' \in [Turn -> Account \cup {None}] /\ pending' \subseteq Turn
    BY <1>1 DEF TurnsTyped, Pc, Awaits, ItemFails, NextItem, To, Over, Progress, stepVars,
       callVars
  <2>2. stopped' \in [Turn -> BOOLEAN] /\ late' \in [Turn -> BOOLEAN]
    BY <1>1 DEF TurnsTyped, ItemFails, NextItem, To, Over, Progress, stepVars, callVars
  <2>3. wrote' \in [Turn -> BOOLEAN] /\ landed' \in [Turn -> 0..Hard]
    BY <1>1, ProgressTyped DEF ItemFails, NextItem, TurnsTyped
  <2>4. step' \in [Turn -> 0..Hard] /\ since' \in [Turn -> 0..Never]
    BY <1>1, DesktopChatAssumption DEF TurnsTyped, Never, Good, Paced, After, ItemFails,
       NextItem, To, Over, Progress, stepVars, callVars
  <2>5. /\ batch' \in [Turn -> Seq(Calls)] /\ yes' \in [Turn -> 0..1]
        /\ item' \in [Turn -> Nat] /\ token' \in [Turn -> Account \cup {None}]
    BY <1>1, <1>2, NextItemTyped, OverTyped DEF ItemFails
  <2>6. same' \in [Turn -> [Calls -> 0..MaxSame]]
    BY <1>1 DEF TurnsTyped, ItemFails, NextItem, To, Over, Progress, stepVars, callVars
  <2>. QED  BY <2>1, <2>2, <2>3, <2>4, <2>5, <2>6 DEF TurnsTyped
<1>4. \A s \in Turn \ {t} : Same(s)
  <2>1. CASE NextItem(t)
    <3>1. CASE item[t] < Len(Call(t).touches)
      BY <1>1, <2>1, <3>1 DEF TurnsTyped, Same, ItemFails, NextItem, To, stepVars, callVars
    <3>2. CASE ~(item[t] < Len(Call(t).touches))
      BY <1>1, <2>1, <3>2 DEF TurnsTyped, Same, ItemFails, NextItem, To, Over, Progress,
         stepVars, callVars
    <3>. QED  BY <3>1, <3>2
  <2>2. CASE To(t, "calls") /\ Over(t, TRUE) /\ UNCHANGED <<wrote, landed>>
    BY <1>1, <2>2 DEF TurnsTyped, Same, ItemFails, To, Over, stepVars, callVars
  <2>. QED  BY <2>1, <2>2 DEF ItemFails
<1>5. Handling(t)'
  BY <1>1, <1>2, HeadTail DEF TurnsTyped, Good, Handling, Call, ItemFails, NextItem, To,
     Over, Progress, stepVars, callVars
<1>6. Pinned(t)'
  BY <1>1, <1>2 DEF TurnsTyped, Good, Pinned, Handling, ItemFails, NextItem, To, Over,
     Progress, stepVars, callVars
<1>7. Paced(t)'
  BY SMTT(30), <1>1, <1>2 DEF TurnsTyped, Good, Paced, After, Handling, ItemFails, NextItem, To,
     Over, Progress, stepVars, callVars
<1>8. Budgeted(t)'
  BY <1>1, <1>2 DEF TurnsTyped, Good, Budgeted, Handling, ItemFails, NextItem, To, Over,
     Progress, stepVars, callVars
<1>. QED  BY <1>3, <1>4, <1>5, <1>6, <1>7, <1>8 DEF Keeps, Good

-----------------------------------------------------------------------------
(* The user's other steps do not concern the turns.                        *)

LEMMA SwitchKeeps == ASSUME TurnsInv, NEW a \in Account, Switch(a) PROVE TurnsInv'
<1>1. TurnsTyped'
  BY DEF TurnsInv, TurnsTyped, Switch, stepVars, callVars
<1>2. ASSUME NEW s \in Turn PROVE Good(s)'
  <2>1. Same(s)
    BY DEF Same, Switch, stepVars, callVars
  <2>. QED  BY <2>1, SameGood DEF TurnsInv
<1>. QED  BY <1>1, <1>2 DEF TurnsInv

LEMMA TurnsKept ==
    ASSUME TurnsInv, UNCHANGED <<active, thread, pc, pinned, stopped, late, pending>>,
           UNCHANGED <<stepVars, callVars>>
    PROVE  TurnsInv'
<1>1. TurnsTyped'
  BY DEF TurnsInv, TurnsTyped, stepVars, callVars
<1>2. ASSUME NEW s \in Turn PROVE Good(s)'
  <2>1. Same(s)
    BY DEF Same, stepVars, callVars
  <2>. QED  BY <2>1, SameGood DEF TurnsInv
<1>. QED  BY <1>1, <1>2 DEF TurnsInv

-----------------------------------------------------------------------------
(* The journal.                                                            *)

\* The reverts that have turn t's entity e in hand.
Holders(t, e) == {r \in Click : e \in Claimed(r, t)}

Once(t, e) ==
    Cardinality(Holders(t, e)) + (IF e \in refs[t] THEN 1 ELSE 0) <= written[t][e]

LEMMA OnceIs == RevertedOnce <=> \A t \in Turn, e \in Entity : Once(t, e)
  BY DEF RevertedOnce, Once, Holders

LEMMA HoldersCounted ==
    ASSUME NEW R \in SUBSET Click
    PROVE  /\ IsFiniteSet(R) /\ Cardinality(R) \in Nat
           /\ \A S \in SUBSET R : Cardinality(S) \in Nat /\ Cardinality(S) <= Cardinality(R)
           /\ \A r \in R : Cardinality(R \ {r}) = Cardinality(R) - 1
           /\ \A r \in Click \ R : Cardinality(R \cup {r}) = Cardinality(R) + 1
<1>1. IsFiniteSet(Click)
  BY DesktopChatAssumption, FS_Interval DEF Click
<1>2. IsFiniteSet(R) /\ Cardinality(R) \in Nat
  BY <1>1, FS_Subset, FS_CardinalityType
<1>3. ASSUME NEW S \in SUBSET R
      PROVE  Cardinality(S) \in Nat /\ Cardinality(S) <= Cardinality(R)
  BY <1>2, FS_Subset, FS_CardinalityType
<1>4. ASSUME NEW r \in R PROVE Cardinality(R \ {r}) = Cardinality(R) - 1
  BY <1>2, FS_RemoveElement
<1>5. ASSUME NEW r \in Click \ R PROVE Cardinality(R \cup {r}) = Cardinality(R) + 1
  BY <1>2, FS_AddElement
<1>. QED  BY <1>2, <1>3, <1>4, <1>5

\* Steps that leave the journal alone, but for the turn it takes as the newest.
LEMMA JournalKept ==
    ASSUME JournalInv, newest' \in Turn \cup {None}, UNCHANGED <<refs, revert, written, changed>>
    PROVE  JournalInv'
<1>1. JournalTyped' /\ RevertsOfTurns'
  BY DEF JournalInv, JournalTyped, RevertsOfTurns
<1>2. \A r, t : Claimed(r, t)' = Claimed(r, t)
  BY DEF Claimed
<1>3. NoChangeLost'
  BY <1>2 DEF JournalInv, NoChangeLost
<1>4. RevertedOnce'
  BY <1>2 DEF JournalInv, RevertedOnce
<1>. QED  BY <1>1, <1>3, <1>4 DEF JournalInv

LEMMA ItemDoneJournal ==
    ASSUME TurnsInv, JournalInv, NEW t \in Turn, ItemDone(t) PROVE JournalInv'
<1>1. CASE ~(Call(t).journalled)
  <2>1. UNCHANGED <<refs, revert, written, changed>> /\ newest' = newest
    BY <1>1 DEF ItemDone
  <2>2. newest' \in Turn \cup {None}
    BY <2>1 DEF JournalInv, JournalTyped
  <2>. QED  BY <2>1, <2>2, JournalKept
<1>2. CASE Call(t).journalled
  <2>. DEFINE e == Call(t).touches[item[t]]
  <2>1. e \in Entity
    <3>1. TurnsTyped /\ batch[t] # <<>> /\ item[t] \in 1..Len(Call(t).touches)
      BY DEF TurnsInv, Good, Handling, ItemDone
    <3>. QED  BY <3>1, HeadTail
  <2>2. /\ refs' = [refs EXCEPT ![t] = @ \cup {e}]
        /\ written' = [written EXCEPT ![t][e] = @ + 1]
        /\ changed' = changed \cup {<<t, e>>}
        /\ UNCHANGED <<newest, revert>>
    BY <1>2 DEF ItemDone, Record
  <2>. HIDE DEF e
  <2>3. JournalTyped' /\ RevertsOfTurns'
    <3>1. refs' \in [Turn -> SUBSET Entity]
      BY <2>1, <2>2 DEF JournalInv, JournalTyped
    <3>2. written' \in [Turn -> [Entity -> Nat]]
      BY <2>1, <2>2 DEF JournalInv, JournalTyped
    <3>3. changed' \subseteq Turn \X Entity
      BY <2>1, <2>2 DEF JournalInv, JournalTyped
    <3>. QED  BY <2>2, <3>1, <3>2, <3>3 DEF JournalInv, JournalTyped, RevertsOfTurns
  <2>4. \A r, s : Claimed(r, s)' = Claimed(r, s)
    BY <2>2 DEF Claimed
  <2>5. NoChangeLost'
    <3>1. ASSUME NEW c \in changed'
          PROVE  c[2] \in refs'[c[1]] \cup UNION {Claimed(r, c[1])' : r \in Click}
      <4>1. CASE c = <<t, e>>
        BY <2>1, <2>2, <4>1 DEF JournalInv, JournalTyped
      <4>2. CASE c \in changed
        <5>1. c[2] \in refs[c[1]] \cup UNION {Claimed(r, c[1]) : r \in Click} /\ c[1] \in Turn
          BY <4>2 DEF JournalInv, JournalTyped, NoChangeLost
        <5>. QED  BY <2>2, <2>4, <5>1 DEF JournalInv, JournalTyped
      <4>. QED  BY <2>2, <4>1, <4>2
    <3>. QED  BY <3>1 DEF NoChangeLost
  <2>6. ASSUME NEW s \in Turn, NEW x \in Entity PROVE Once(s, x)'
    <3>1. Holders(s, x)' = Holders(s, x)
      BY <2>4 DEF Holders
    <3>2. Once(s, x) /\ Cardinality(Holders(s, x)) \in Nat /\ written[s][x] \in Nat
      BY OnceIs, HoldersCounted DEF JournalInv, JournalTyped, Holders
    <3>3. CASE s = t /\ x = e
      <4>1. written'[s][x] = written[s][x] + 1
        BY <2>1, <2>2, <3>3 DEF JournalInv, JournalTyped
      <4>. QED  BY <3>1, <3>2, <4>1 DEF Once
    <3>4. CASE ~(s = t /\ x = e)
      <4>1. written'[s][x] = written[s][x] /\ (x \in refs'[s] <=> x \in refs[s])
        BY <2>1, <2>2, <3>4 DEF JournalInv, JournalTyped
      <4>. QED  BY <3>1, <3>2, <4>1 DEF Once
    <3>. QED  BY <3>3, <3>4
  <2>7. RevertedOnce'
    BY <2>6 DEF RevertedOnce, Once, Holders
  <2>. QED  BY <2>3, <2>5, <2>7 DEF JournalInv
<1>. QED  BY <1>1, <1>2

LEMMA RevertLastJournal ==
    ASSUME JournalInv, NEW r \in Click, RevertLast(r) PROVE JournalInv'
<1>1. PICK t \in Turn :
      /\ revert[r] = NoRevert
      /\ revert' = [revert EXCEPT ![r] = [turn |-> t, todo |-> refs[t], failed |-> {}]]
      /\ refs' = [refs EXCEPT ![t] = {}]
      /\ UNCHANGED <<newest, written, changed>>
  BY DEF RevertLast, TakesRefs, JournalInv, JournalTyped
<1>2. JournalTyped' /\ RevertsOfTurns'
  <2>1. refs' \in [Turn -> SUBSET Entity]
    BY <1>1 DEF JournalInv, JournalTyped
  <2>2. revert' \in [Click -> [turn : Turn \cup {None}, todo : SUBSET Entity, failed : SUBSET Entity]]
    BY <1>1 DEF JournalInv, JournalTyped
  <2>3. RevertsOfTurns'
    BY <1>1 DEF JournalInv, JournalTyped, RevertsOfTurns
  <2>. QED  BY <1>1, <2>1, <2>2, <2>3 DEF JournalInv, JournalTyped
<1>3. /\ \A q \in Click \ {r}, s \in Turn : Claimed(q, s)' = Claimed(q, s)
      /\ \A s \in Turn : Claimed(r, s) = {}
      /\ \A s \in Turn \ {t} : Claimed(r, s)' = {}
      /\ Claimed(r, t)' = refs[t]
  <2>1. revert'[r] = [turn |-> t, todo |-> refs[t], failed |-> {}]
    BY <1>1 DEF JournalInv, JournalTyped
  <2>2. \A q \in Click \ {r} : revert'[q] = revert[q]
    BY <1>1 DEF JournalInv, JournalTyped
  <2>3. None \notin Turn
    BY DesktopChatAssumption
  <2>. QED  BY <1>1, <2>1, <2>2, <2>3 DEF Claimed, NoRevert
<1>4. NoChangeLost'
  <2>1. ASSUME NEW c \in changed'
        PROVE  c[2] \in refs'[c[1]] \cup UNION {Claimed(q, c[1])' : q \in Click}
    <3>1. /\ c[2] \in refs[c[1]] \cup UNION {Claimed(q, c[1]) : q \in Click}
          /\ c[1] \in Turn
      BY <1>1 DEF JournalInv, JournalTyped, NoChangeLost
    <3>2. CASE c[2] \in refs[c[1]]
      <4>1. CASE c[1] = t
        BY <1>3, <3>2, <4>1
      <4>2. CASE c[1] # t
        BY <1>1, <3>1, <3>2, <4>2 DEF JournalInv, JournalTyped
      <4>. QED  BY <4>1, <4>2
    <3>3. CASE c[2] \notin refs[c[1]]
      <4>1. PICK q \in Click : c[2] \in Claimed(q, c[1])
        BY <3>1, <3>3
      <4>2. q # r
        BY <1>3, <3>1, <4>1
      <4>. QED  BY <1>3, <3>1, <4>1, <4>2
    <3>. QED  BY <3>2, <3>3
  <2>. QED  BY <2>1 DEF NoChangeLost
<1>5. ASSUME NEW s \in Turn, NEW x \in Entity PROVE Once(s, x)'
  <2>1. /\ Once(s, x) /\ written'[s][x] = written[s][x] /\ written[s][x] \in Nat
        /\ Holders(s, x) \in SUBSET Click
    BY <1>1, OnceIs DEF JournalInv, JournalTyped, Holders
  <2>2. Cardinality(Holders(s, x)) \in Nat
    BY <2>1, HoldersCounted
  <2>3. CASE s = t /\ x \in refs[t]
    <3>1. Holders(s, x)' = Holders(s, x) \cup {r} /\ r \notin Holders(s, x)
      BY <1>3, <2>3 DEF Holders
    <3>2. Cardinality(Holders(s, x)') = Cardinality(Holders(s, x)) + 1
      BY <2>1, <3>1, HoldersCounted
    <3>3. x \notin refs'[s] /\ x \in refs[s]
      BY <1>1, <2>3 DEF JournalInv, JournalTyped
    <3>. QED  BY <2>1, <2>2, <3>2, <3>3 DEF Once
  <2>4. CASE ~(s = t /\ x \in refs[t])
    <3>1. Holders(s, x)' = Holders(s, x)
      BY <1>3, <2>4 DEF Holders
    <3>2. x \in refs'[s] <=> x \in refs[s]
      BY <1>1, <2>4 DEF JournalInv, JournalTyped
    <3>. QED  BY <2>1, <2>2, <3>1, <3>2 DEF Once
  <2>. QED  BY <2>3, <2>4
<1>6. RevertedOnce'
  BY <1>5 DEF RevertedOnce, Once, Holders
<1>. QED  BY <1>2, <1>4, <1>6 DEF JournalInv

LEMMA RevertOneJournal ==
    ASSUME JournalInv, NEW r \in Click, NEW e \in Entity, NEW ok \in BOOLEAN, RevertOne(r, e, ok)
    PROVE  JournalInv'
<1>0. PICK t \in Turn : t = revert[r].turn
  BY DEF RevertOne, JournalInv, RevertsOfTurns
<1>. DEFINE todo == revert[r].todo \ {e}
            failed == revert[r].failed \cup (IF ok THEN {} ELSE {e})
<1>1. /\ e \in revert[r].todo
      /\ todo \in SUBSET Entity /\ failed \in SUBSET Entity
      /\ todo \cup failed \subseteq Claimed(r, t)
      /\ \A x \in Claimed(r, t) : x \in todo \cup failed \/ (x = e /\ ok)
  <2>1. e \in revert[r].todo
    BY DEF RevertOne
  <2>2. revert[r].todo \in SUBSET Entity /\ revert[r].failed \in SUBSET Entity
    BY DEF JournalInv, JournalTyped
  <2>. QED  BY <1>0, <2>1, <2>2 DEF Claimed
<1>2. changed' = (IF ok THEN changed \ (Turn \X {e}) ELSE changed) /\ UNCHANGED <<newest, written>>
  BY DEF RevertOne
<1>3. CASE todo = {}
  <2>1. /\ revert' = [revert EXCEPT ![r] = NoRevert]
        /\ refs' = [refs EXCEPT ![t] = @ \cup failed]
    BY <1>0, <1>3 DEF RevertOne, HandsBack
  <2>2. JournalTyped' /\ RevertsOfTurns'
    <3>1. refs' \in [Turn -> SUBSET Entity]
      BY <1>1, <2>1 DEF JournalInv, JournalTyped
    <3>2. revert' \in [Click -> [turn : Turn \cup {None}, todo : SUBSET Entity, failed : SUBSET Entity]]
      BY <2>1 DEF JournalInv, JournalTyped, NoRevert
    <3>3. RevertsOfTurns'
      BY <2>1 DEF JournalInv, JournalTyped, RevertsOfTurns, NoRevert
    <3>4. newest' \in Turn \cup {None} /\ written' \in [Turn -> [Entity -> Nat]]
          /\ changed' \subseteq Turn \X Entity
      BY <1>2 DEF JournalInv, JournalTyped
    <3>. QED  BY <3>1, <3>2, <3>3, <3>4 DEF JournalTyped
  <2>3. /\ \A q \in Click \ {r}, s \in Turn : Claimed(q, s)' = Claimed(q, s)
        /\ \A s \in Turn : Claimed(r, s)' = {}
        /\ \A s \in Turn \ {t} : Claimed(r, s) = {}
    <3>1. revert'[r] = NoRevert
      BY <2>1 DEF JournalInv, JournalTyped
    <3>2. \A q \in Click \ {r} : revert'[q] = revert[q]
      BY <2>1 DEF JournalInv, JournalTyped
    <3>3. None \notin Turn
      BY DesktopChatAssumption
    <3>4. \A q \in Click \ {r}, s \in Turn : Claimed(q, s)' = Claimed(q, s)
      BY <3>2 DEF Claimed
    <3>5. \A s \in Turn : Claimed(r, s)' = {}
      BY <3>1, <3>3 DEF Claimed, NoRevert
    <3>6. \A s \in Turn \ {t} : Claimed(r, s) = {}
      BY <1>0 DEF Claimed
    <3>. QED  BY <3>4, <3>5, <3>6
  <2>4. refs'[t] = refs[t] \cup failed /\ \A s \in Turn \ {t} : refs'[s] = refs[s]
    BY <1>1, <2>1 DEF JournalInv, JournalTyped
  <2>5. NoChangeLost'
    <3>1. ASSUME NEW c \in changed'
          PROVE  c[2] \in refs'[c[1]] \cup UNION {Claimed(q, c[1])' : q \in Click}
      <4>1. /\ c[2] \in refs[c[1]] \cup UNION {Claimed(q, c[1]) : q \in Click}
            /\ c[1] \in Turn /\ c \in changed /\ (ok => c[2] # e)
        BY <1>2 DEF JournalInv, JournalTyped, NoChangeLost
      <4>2. CASE c[2] \in refs[c[1]]
        BY <2>4, <4>1, <4>2
      <4>3. CASE c[2] \notin refs[c[1]]
        <5>1. PICK q \in Click : c[2] \in Claimed(q, c[1])
          BY <4>1, <4>3
        <5>2. CASE q # r
          BY <2>3, <4>1, <5>1, <5>2
        <5>3. CASE q = r
          <6>1. c[1] = t
            BY <2>3, <4>1, <5>1, <5>3
          <6>2. c[2] \in failed
            BY <1>1, <1>3, <4>1, <5>1, <5>3, <6>1
          <6>. QED  BY <2>4, <6>1, <6>2
        <5>. QED  BY <5>2, <5>3
      <4>. QED  BY <4>2, <4>3
    <3>. QED  BY <3>1 DEF NoChangeLost
  <2>6. ASSUME NEW s \in Turn, NEW x \in Entity PROVE Once(s, x)'
    <3>1. /\ Once(s, x) /\ written'[s][x] = written[s][x] /\ written[s][x] \in Nat
          /\ Holders(s, x) \in SUBSET Click
      BY <1>2, OnceIs DEF JournalInv, JournalTyped, Holders
    <3>2. Cardinality(Holders(s, x)) \in Nat
      BY <3>1, HoldersCounted
    <3>3. CASE s = t /\ x \in Claimed(r, t)
      <4>1. Holders(s, x)' = Holders(s, x) \ {r} /\ r \in Holders(s, x)
        BY <2>3, <3>3 DEF Holders
      <4>2. Cardinality(Holders(s, x)') = Cardinality(Holders(s, x)) - 1
        BY <3>1, <4>1, HoldersCounted
      <4>. QED  BY <3>1, <3>2, <4>2 DEF Once
    <3>4. CASE ~(s = t /\ x \in Claimed(r, t))
      <4>1. Holders(s, x)' = Holders(s, x)
        BY <2>3, <3>4 DEF Holders
      <4>2. x \in refs'[s] <=> x \in refs[s]
        BY <1>1, <2>4, <3>4
      <4>. QED  BY <3>1, <3>2, <4>1, <4>2 DEF Once
    <3>. QED  BY <3>3, <3>4
  <2>7. RevertedOnce'
    BY <2>6 DEF RevertedOnce, Once, Holders
  <2>. QED  BY <2>2, <2>5, <2>7 DEF JournalInv
<1>4. CASE todo # {}
  <2>1. /\ revert' = [revert EXCEPT ![r].todo = todo, ![r].failed = failed]
        /\ refs' = refs
    BY <1>4 DEF RevertOne
  <2>2. /\ revert'[r].turn = t /\ revert'[r].todo = todo /\ revert'[r].failed = failed
        /\ \A q \in Click \ {r} : revert'[q] = revert[q]
        /\ revert' \in [Click -> [turn : Turn \cup {None}, todo : SUBSET Entity, failed : SUBSET Entity]]
    <3>1. revert[r] \in [turn : Turn \cup {None}, todo : SUBSET Entity, failed : SUBSET Entity]
      BY DEF JournalInv, JournalTyped
    <3>. QED  BY <1>0, <1>1, <2>1, <3>1 DEF JournalInv, JournalTyped
  <2>3. JournalTyped' /\ RevertsOfTurns'
    <3>1. RevertsOfTurns'
      BY <1>1, <2>2 DEF JournalInv, RevertsOfTurns
    <3>2. newest' \in Turn \cup {None} /\ written' \in [Turn -> [Entity -> Nat]]
          /\ changed' \subseteq Turn \X Entity
      BY <1>2 DEF JournalInv, JournalTyped
    <3>3. refs' \in [Turn -> SUBSET Entity]
      BY <2>1 DEF JournalInv, JournalTyped
    <3>. QED  BY <2>2, <3>1, <3>2, <3>3 DEF JournalTyped
  <2>4. /\ \A q \in Click \ {r}, s \in Turn : Claimed(q, s)' = Claimed(q, s)
        /\ \A s \in Turn \ {t} : Claimed(r, s)' = Claimed(r, s)
        /\ Claimed(r, t)' = todo \cup failed
    BY <1>0, <2>2 DEF Claimed
  <2>5. NoChangeLost'
    <3>1. ASSUME NEW c \in changed'
          PROVE  c[2] \in refs'[c[1]] \cup UNION {Claimed(q, c[1])' : q \in Click}
      <4>1. /\ c[2] \in refs[c[1]] \cup UNION {Claimed(q, c[1]) : q \in Click}
            /\ c[1] \in Turn /\ c \in changed /\ (ok => c[2] # e)
        BY <1>2 DEF JournalInv, JournalTyped, NoChangeLost
      <4>2. CASE c[2] \in refs[c[1]]
        BY <2>1, <4>2
      <4>3. CASE c[2] \notin refs[c[1]]
        <5>1. PICK q \in Click : c[2] \in Claimed(q, c[1])
          BY <4>1, <4>3
        <5>2. c[2] \in Claimed(q, c[1])'
          BY <1>1, <2>4, <4>1, <5>1
        <5>. QED  BY <5>2
      <4>. QED  BY <4>2, <4>3
    <3>. QED  BY <3>1 DEF NoChangeLost
  <2>6. ASSUME NEW s \in Turn, NEW x \in Entity PROVE Once(s, x)'
    <3>1. /\ Once(s, x) /\ written'[s][x] = written[s][x] /\ written[s][x] \in Nat
          /\ Holders(s, x) \in SUBSET Click
      BY <1>2, OnceIs DEF JournalInv, JournalTyped, Holders
    <3>2. Holders(s, x)' \in SUBSET Holders(s, x)
      BY <1>1, <2>4 DEF Holders
    <3>3. /\ Cardinality(Holders(s, x)) \in Nat /\ Cardinality(Holders(s, x)') \in Nat
          /\ Cardinality(Holders(s, x)') <= Cardinality(Holders(s, x))
      BY <3>1, <3>2, HoldersCounted
    <3>. QED  BY <2>1, <3>1, <3>3 DEF Once
  <2>7. RevertedOnce'
    BY <2>6 DEF RevertedOnce, Once, Holders
  <2>. QED  BY <2>3, <2>5, <2>7 DEF JournalInv
<1>. QED  BY <1>3, <1>4

-----------------------------------------------------------------------------
LEMMA InitInv == Init => DesktopInv
<1>. SUFFICES ASSUME Init PROVE DesktopInv
  OBVIOUS
<1>1. TurnsTyped
  <2>1. /\ 0 \in 0..Hard /\ 0 \in 0..Never /\ Never \in 0..Never /\ 0 \in 0..MaxSame
        /\ <<>> \in Seq(Calls) /\ First \in Account /\ "idle" \in Pc
    BY DesktopChatAssumption DEF Never, Pc
  <2>. QED  BY <2>1 DEF Init, TurnsTyped
<1>2. ASSUME NEW t \in Turn PROVE Good(t)
  BY DEF Init, Good, Handling, Pinned, Paced, After, Budgeted
<1>3. JournalTyped /\ RevertsOfTurns
  BY DEF Init, JournalTyped, RevertsOfTurns, NoRevert
<1>4. NoChangeLost
  BY DEF Init, NoChangeLost
<1>5. ASSUME NEW t \in Turn, NEW e \in Entity PROVE Once(t, e)
  <2>1. Holders(t, e) = {}
    BY DesktopChatAssumption DEF Init, Holders, Claimed, NoRevert
  <2>2. e \notin refs[t] /\ written[t][e] = 0
    BY DEF Init
  <2>3. Cardinality({}) = 0
    BY FS_EmptySet
  <2>. QED  BY <2>1, <2>2, <2>3 DEF Once
<1>6. RevertedOnce
  BY <1>5, OnceIs
<1>. QED  BY <1>1, <1>2, <1>3, <1>4, <1>6 DEF DesktopInv, TurnsInv, JournalInv

LEMMA NextInv == DesktopInv /\ [Next]_vars => DesktopInv'
<1>. SUFFICES ASSUME DesktopInv, [Next]_vars PROVE DesktopInv'
  OBVIOUS
<1>. USE DEF DesktopInv
<1>0. newest \in Turn \cup {None}
  BY DEF JournalInv, JournalTyped
<1>1. ASSUME NEW t \in Turn, Begin(t) PROVE DesktopInv'
  <2>1. TurnsInv'
    BY <1>1, BeginKeeps, KeepsInv
  <2>2. newest' = t /\ UNCHANGED <<refs, revert, written, changed>>
    BY <1>1 DEF Begin
  <2>. QED  BY <2>1, <2>2, JournalKept
<1>2. ASSUME NEW t \in Turn, ItemDone(t) PROVE DesktopInv'
  BY <1>2, ItemDoneKeeps, KeepsInv, ItemDoneJournal
<1>3. ASSUME NEW t \in Turn, Keeps(t), UNCHANGED journalVars PROVE DesktopInv'
  BY <1>0, <1>3, KeepsInv, JournalKept DEF journalVars
<1>4. ASSUME NEW t \in Turn, Open(t) \/ CodeStep(t) PROVE Keeps(t) /\ UNCHANGED journalVars
  <2>1. CASE Open(t)
    BY <2>1, OpenKeeps DEF Open
  <2>2. CASE OutOfSteps(t)
    BY <2>2, OutOfStepsKeeps DEF OutOfSteps
  <2>3. CASE AskModel(t)
    BY <2>3, AskModelKeeps DEF AskModel
  <2>4. CASE EndStep(t)
    BY <2>4, EndStepKeeps DEF EndStep
  <2>5. CASE Blocked(t)
    BY <2>5, BlockedKeeps DEF Blocked
  <2>6. CASE Declined(t)
    BY <2>6, DeclinedKeeps DEF Declined
  <2>7. CASE Malformed(t)
    BY <2>7, MalformedKeeps DEF Malformed
  <2>8. CASE Enter(t)
    BY <2>8, EnterKeeps DEF Enter
  <2>. QED  BY <1>4, <2>1, <2>2, <2>3, <2>4, <2>5, <2>6, <2>7, <2>8 DEF CodeStep
<1>5. ASSUME NEW t \in Turn,
             \/ ModelCalls(t) \/ ModelEnds(t) \/ CheckEnds(t) \/ CheckPasses(t) \/ ItemFails(t)
             \/ Approve(t) \/ Decline(t) \/ Stop(t)
      PROVE  Keeps(t) /\ UNCHANGED journalVars
  <2>1. CASE ModelCalls(t)
    BY <2>1, ModelCallsKeeps DEF ModelCalls
  <2>2. CASE ModelEnds(t)
    BY <2>2, ModelEndsKeeps DEF ModelEnds
  <2>3. CASE CheckEnds(t)
    BY <2>3, CheckEndsKeeps DEF CheckEnds
  <2>4. CASE CheckPasses(t)
    BY <2>4, CheckPassesKeeps DEF CheckPasses
  <2>5. CASE ItemFails(t)
    BY <2>5, ItemFailsKeeps DEF ItemFails
  <2>6. CASE Approve(t)
    BY <2>6, ApproveKeeps DEF Approve
  <2>7. CASE Decline(t)
    BY <2>7, DeclineKeeps DEF Decline
  <2>8. CASE Stop(t)
    BY <2>8, StopKeeps DEF Stop
  <2>. QED  BY <1>5, <2>1, <2>2, <2>3, <2>4, <2>5, <2>6, <2>7, <2>8
<1>6. ASSUME NEW a \in Account, Switch(a) PROVE DesktopInv'
  <2>1. UNCHANGED journalVars
    BY <1>6 DEF Switch
  <2>. QED  BY <1>0, <1>6, <2>1, SwitchKeeps, JournalKept DEF journalVars
<1>7. ASSUME NEW r \in Click, RevertLast(r) PROVE DesktopInv'
  BY <1>7, TurnsKept, RevertLastJournal DEF RevertLast
<1>8. ASSUME NEW r \in Click, NEW e \in Entity, NEW ok \in BOOLEAN, RevertOne(r, e, ok)
      PROVE  DesktopInv'
  BY <1>8, TurnsKept, RevertOneJournal DEF RevertOne
<1>9. CASE UNCHANGED vars
  <2>1. TurnsInv'
    BY <1>9, TurnsKept DEF vars
  <2>. QED  BY <1>0, <1>9, <2>1, JournalKept DEF vars, journalVars
<1>. QED  BY <1>1, <1>2, <1>3, <1>4, <1>5, <1>6, <1>7, <1>8, <1>9 DEF Next, AnswerStep,
             RevertStep

-----------------------------------------------------------------------------
\* The inductive invariant holds: each turn is where its counters, its call and
\* its card say it is, and the journal accounts for every answered write.
THEOREM DesktopInvariant == Spec => []DesktopInv
<1>. QED  BY InitInv, NextInv, PTL DEF Spec

\* Turns, calls, journal and reverts keep their types: no turn takes more than
\* Hard steps, and no write is made more than MaxSame times.
THEOREM DesktopTypes == Spec => []TypeOK
<1>1. DesktopInv => TypeOK
  BY DEF DesktopInv, TurnsInv, TurnsTyped, JournalInv, JournalTyped, TypeOK
<1>. QED  BY <1>1, DesktopInvariant, PTL

\* A precheck, or the first data call of a handler, bears the token of the account
\* that its turn was pinned to, through any switch while cards were open.
THEOREM StartsPinned == Spec => []FirstRequestPinned
<1>1. DesktopInv => FirstRequestPinned
  BY DEF DesktopInv, TurnsInv, Good, Pinned, FirstRequestPinned
<1>. QED  BY <1>1, DesktopInvariant, PTL

\* A turn asks the model past the soft ceiling only with a write landed in the
\* last Stall steps.
THEOREM BudgetHolds == Spec => []BudgetKept
<1>1. DesktopInv => BudgetKept
  BY DEF DesktopInv, TurnsInv, Good, Budgeted, BudgetKept
<1>. QED  BY <1>1, DesktopInvariant, PTL

\* An answered draft change that is not undone is in its turn's journal or in the
\* hands of a revert of that turn.
THEOREM ChangesKept == Spec => []NoChangeLost
<1>1. DesktopInv => NoChangeLost
  BY DEF DesktopInv, JournalInv
<1>. QED  BY <1>1, DesktopInvariant, PTL

\* Overlapping reverts never have more in hand than was written.
THEOREM RevertsOnce == Spec => []RevertedOnce
<1>1. DesktopInv => RevertedOnce
  BY DEF DesktopInv, JournalInv
<1>. QED  BY <1>1, DesktopInvariant, PTL

-----------------------------------------------------------------------------
(* Every turn winds down.                                                  *)

\* What is left of a turn, from the coarse to the fine: of the request, of the
\* step (the model, its calls, the top of the next), of the current call (its
\* precheck, its cards, its handler), and of the handler.
Stage(t) == IF pc[t] = "done" THEN 0 ELSE IF pc[t] = "opening" THEN 2
            ELSE IF pc[t] = "idle" THEN 3 ELSE 1
Phase(t) == IF pc[t] = "model" THEN 2 ELSE IF pc[t] = "top" THEN 0 ELSE 1
CallLeft(t) == IF pc[t] = "calls" THEN 5 ELSE IF pc[t] = "check" THEN 4
               ELSE IF pc[t] = "card" THEN 3 - yes[t] ELSE 1
ItemsLeft(t) == IF pc[t] = "item" THEN Len(Call(t).touches) - item[t] ELSE 0

\* In this order, less is left.
Closer(t) ==
    \/ Stage(t)' < Stage(t)
    \/ /\ Stage(t)' = Stage(t)
       /\ \/ step'[t] > step[t]
          \/ /\ step'[t] = step[t]
             /\ \/ Phase(t)' < Phase(t)
                \/ /\ Phase(t)' = Phase(t)
                   /\ \/ Len(batch'[t]) < Len(batch[t])
                      \/ /\ Len(batch'[t]) = Len(batch[t])
                         /\ \/ CallLeft(t)' < CallLeft(t)
                            \/ CallLeft(t)' = CallLeft(t) /\ ItemsLeft(t)' < ItemsLeft(t)

Untouched(t) ==
    /\ pc'[t] = pc[t] /\ step'[t] = step[t] /\ batch'[t] = batch[t]
    /\ yes'[t] = yes[t] /\ item'[t] = item[t]

\* The code of a turn, the answers it awaits and the user's answers bring it
\* closer to its end, of which there are Hard steps at most; and nothing moves it
\* away: no Stop, switch of the account or revert, and no other turn.  (What
\* StoppedUnwinds needs beside fairness, and more: it is so for any turn.)
TurnsWindDown ==
    [][\A t \in Turn :
         /\ Closer(t) \/ Untouched(t)
         /\ CodeStep(t) \/ AnswerStep(t) \/ Approve(t) \/ Decline(t) => Closer(t)]_vars

\* None of these counts falls below zero, so that no turn can come closer for ever.
LEMMA LeftBounded ==
    ASSUME TurnsInv, NEW t \in Turn
    PROVE  /\ Stage(t) \in Nat /\ Phase(t) \in Nat /\ Hard - step[t] \in Nat
           /\ Len(batch[t]) \in Nat /\ CallLeft(t) \in Nat /\ ItemsLeft(t) \in Nat
<1>1. TurnsTyped /\ Handling(t) /\ Hard \in Nat
  BY DesktopChatAssumption DEF TurnsInv, Good
<1>2. Stage(t) \in Nat /\ Phase(t) \in Nat /\ Hard - step[t] \in Nat /\ Len(batch[t]) \in Nat
  BY <1>1 DEF TurnsTyped, Stage, Phase
<1>3. CallLeft(t) \in Nat
  <2>1. yes[t] \in 0..1
    BY <1>1 DEF TurnsTyped
  <2>2. 3 - yes[t] \in Nat
    BY <2>1
  <2>. QED  BY <2>2 DEF CallLeft
<1>4. CASE pc[t] = "item"
  <2>1. Len(Call(t).touches) \in Nat /\ item[t] \in 1..Len(Call(t).touches)
    BY <1>1, <1>4, HeadTail DEF Handling
  <2>. QED  BY <1>2, <1>3, <1>4, <2>1 DEF ItemsLeft
<1>5. CASE pc[t] # "item"
  BY <1>2, <1>3, <1>5 DEF ItemsLeft
<1>. QED  BY <1>4, <1>5

\* A call that is over leaves fewer of its batch.
LEMMA OverCloser ==
    ASSUME TurnsTyped, NEW t \in Turn, NEW failed \in BOOLEAN, Over(t, failed), To(t, "calls"),
           pc[t] \in {"calls", "check", "card", "item"}, batch[t] # <<>>, step'[t] = step[t]
    PROVE  Closer(t)
<1>1. batch[t] \in Seq(Calls) /\ pc'[t] = "calls"
  BY DEF TurnsTyped, To
<1>2. batch'[t] = IF failed THEN <<>> ELSE Tail(batch[t])
  BY DEF TurnsTyped, Over
<1>3. Len(batch'[t]) < Len(batch[t])
  BY <1>1, <1>2
<1>4. Stage(t)' = Stage(t) /\ Phase(t)' = Phase(t)
  BY <1>1 DEF Stage, Phase
<1>. QED  BY <1>3, <1>4 DEF Closer

\* A card or a handler comes after the checks.
LEMMA ParksCloser ==
    ASSUME TurnsTyped, NEW t \in Turn, Parks(t), pc[t] \in {"calls", "check"}, step'[t] = step[t]
    PROVE  Closer(t)
<1>1. pc'[t] = "card" /\ batch'[t] = batch[t] /\ yes'[t] \in 0..1
  BY DEF TurnsTyped, Parks, To, callVars
<1>. QED  BY <1>1 DEF Closer, Stage, Phase, CallLeft

LEMMA ApplyCloser ==
    ASSUME TurnsTyped, NEW t \in Turn, Apply(t), pc[t] \in {"calls", "check", "card"},
           batch[t] # <<>>, step'[t] = step[t]
    PROVE  Closer(t)
<1>1. CASE Starts(t)
  <2>1. pc'[t] = "item" /\ batch'[t] = batch[t] /\ yes[t] \in 0..1
    BY <1>1 DEF TurnsTyped, Starts, To
  <2>. QED  BY <2>1 DEF Closer, Stage, Phase, CallLeft
<1>2. CASE To(t, "calls") /\ Over(t, FALSE)
  BY <1>2, OverCloser
<1>. QED  BY <1>1, <1>2 DEF Apply

\* The next data call, or the end of the handler.
LEMMA NextItemCloser ==
    ASSUME TurnsTyped, NEW t \in Turn, Handling(t), NextItem(t), pc[t] = "item",
           step'[t] = step[t]
    PROVE  Closer(t)
<1>1. batch[t] # <<>> /\ item[t] \in Nat /\ Len(Call(t).touches) \in Nat
  BY HeadTail DEF Handling, TurnsTyped
<1>2. CASE item[t] < Len(Call(t).touches)
  <2>1. pc'[t] = "item" /\ batch'[t] = batch[t] /\ item'[t] = item[t] + 1
    BY <1>2 DEF TurnsTyped, NextItem, To
  <2>2. ItemsLeft(t)' < ItemsLeft(t)
    BY <1>1, <2>1 DEF ItemsLeft, Call
  <2>. QED  BY <2>1, <2>2 DEF Closer, Stage, Phase, CallLeft
<1>3. CASE ~(item[t] < Len(Call(t).touches))
  BY <1>1, <1>3, OverCloser DEF NextItem
<1>. QED  BY <1>2, <1>3

LEMMA CodeCloser ==
    ASSUME TurnsTyped, NEW t \in Turn, CodeStep(t)
    PROVE  Closer(t)
<1>. USE DEF TurnsTyped
<1>1. CASE OutOfSteps(t)
  <2>1. pc[t] = "top" /\ pc'[t] = "done"
    BY <1>1 DEF OutOfSteps, Runs, To
  <2>. QED  BY <2>1 DEF Closer, Stage
<1>2. CASE AskModel(t)
  <2>1. pc[t] = "top" /\ pc'[t] = "model" /\ step'[t] = step[t] + 1
    BY <1>2 DEF AskModel, Runs, To
  <2>. QED  BY <2>1 DEF Closer, Stage
<1>3. CASE EndStep(t)
  <2>1. pc[t] = "calls" /\ pc'[t] = "top" /\ step'[t] = step[t]
    BY <1>3 DEF EndStep, Runs, To
  <2>. QED  BY <2>1 DEF Closer, Stage, Phase
<1>4. CASE Blocked(t) \/ Declined(t) \/ Malformed(t)
  <2>1. /\ pc[t] = "calls" /\ batch[t] # <<>> /\ To(t, "calls") /\ step'[t] = step[t]
        /\ Over(t, FALSE) \/ Over(t, TRUE)
    BY <1>4 DEF Blocked, Declined, Malformed, InCalls, stepVars
  <2>. QED  BY <2>1, OverCloser
<1>5. CASE Enter(t)
  <2>1. pc[t] = "calls" /\ batch[t] # <<>> /\ step'[t] = step[t]
    BY <1>5 DEF Enter, InCalls
  <2>2. CASE To(t, "check") /\ UNCHANGED batch
    <3>1. pc'[t] = "check"
      BY <2>2 DEF To
    <3>. QED  BY <2>1, <2>2, <3>1 DEF Closer, Stage, Phase, CallLeft
  <2>3. CASE Parks(t) \/ Apply(t)
    BY <2>1, <2>3, ParksCloser, ApplyCloser
  <2>. QED  BY <1>5, <2>2, <2>3 DEF Enter
<1>. QED  BY <1>1, <1>2, <1>3, <1>4, <1>5 DEF CodeStep

LEMMA AnswerCloser ==
    ASSUME TurnsTyped, NEW t \in Turn, Handling(t), AnswerStep(t)
    PROVE  Closer(t)
<1>. USE DEF TurnsTyped
<1>1. CASE Begin(t)
  <2>1. pc[t] = "opening" /\ pc'[t] = "top"
    BY <1>1 DEF Begin, Goes, To
  <2>. QED  BY <2>1 DEF Closer, Stage
<1>2. CASE ModelCalls(t)
  <2>1. pc[t] = "model" /\ pc'[t] = "calls" /\ step'[t] = step[t]
    BY <1>2 DEF ModelCalls, Goes, To, stepVars
  <2>. QED  BY <2>1 DEF Closer, Stage, Phase
<1>3. CASE ModelEnds(t)
  <2>1. pc[t] = "model" /\ pc'[t] = "done"
    BY <1>3 DEF ModelEnds, Goes, To
  <2>. QED  BY <2>1 DEF Closer, Stage
<1>4. CASE CheckEnds(t)
  <2>1. /\ pc[t] = "check" /\ batch[t] # <<>> /\ To(t, "calls") /\ step'[t] = step[t]
        /\ Over(t, FALSE) \/ Over(t, TRUE)
    BY <1>4 DEF CheckEnds, Goes, Handling
  <2>. QED  BY <2>1, OverCloser
<1>5. CASE CheckPasses(t)
  <2>1. pc[t] = "check" /\ batch[t] # <<>> /\ step'[t] = step[t] /\ (Parks(t) \/ Apply(t))
    BY <1>5 DEF CheckPasses, Handling, stepVars
  <2>. QED  BY <2>1, ParksCloser, ApplyCloser
<1>6. CASE ItemDone(t)
  <2>1. pc[t] = "item" /\ step'[t] = step[t] /\ NextItem(t)
    BY <1>6 DEF ItemDone
  <2>. QED  BY <2>1, NextItemCloser
<1>7. CASE ItemFails(t)
  <2>1. pc[t] = "item" /\ batch[t] # <<>> /\ step'[t] = step[t]
    BY <1>7 DEF ItemFails, Handling
  <2>2. NextItem(t) \/ (To(t, "calls") /\ Over(t, TRUE))
    BY <1>7 DEF ItemFails
  <2>. QED  BY <2>1, <2>2, NextItemCloser, OverCloser
<1>. QED  BY <1>1, <1>2, <1>3, <1>4, <1>5, <1>6, <1>7 DEF AnswerStep

\* The user's answers, and the opening of the turn.
LEMMA UserCloser ==
    ASSUME TurnsTyped, NEW t \in Turn, Handling(t), Open(t) \/ Approve(t) \/ Decline(t)
    PROVE  Closer(t)
<1>. USE DEF TurnsTyped
<1>1. CASE Open(t)
  <2>1. pc[t] = "idle" /\ pc'[t] = "opening"
    BY <1>1 DEF Open, Goes, To
  <2>. QED  BY <2>1 DEF Closer, Stage
<1>2. CASE Decline(t)
  <2>1. pc[t] = "card" /\ batch[t] # <<>> /\ To(t, "calls") /\ Over(t, FALSE) /\ step'[t] = step[t]
    BY <1>2 DEF Decline, Handling, stepVars
  <2>. QED  BY <2>1, OverCloser
<1>3. CASE Approve(t)
  <2>1. pc[t] = "card" /\ batch[t] # <<>> /\ step'[t] = step[t]
    BY <1>3 DEF Approve, Handling, stepVars
  <2>2. CASE yes' = [yes EXCEPT ![t] = @ + 1] /\ UNCHANGED <<pc, batch>>
    <3>1. yes'[t] = yes[t] + 1 /\ yes[t] \in 0..1
      BY <2>2
    <3>. QED  BY <2>1, <2>2, <3>1 DEF Closer, Stage, Phase, CallLeft
  <2>3. CASE Apply(t)
    BY <2>1, <2>3, ApplyCloser
  <2>. QED  BY <1>3, <2>2, <2>3 DEF Approve
<1>. QED  BY <1>1, <1>2, <1>3

\* A Stop declines the card of its turn, or leaves the turn where it is.
LEMMA StopCloser ==
    ASSUME TurnsTyped, NEW t \in Turn, Handling(t), Stop(t)
    PROVE  Closer(t) \/ Untouched(t)
<1>1. CASE t \in pending
  <2>1. pc[t] = "card" /\ batch[t] # <<>> /\ To(t, "calls") /\ Over(t, FALSE) /\ step'[t] = step[t]
    BY <1>1 DEF Stop, FreesCard, Handling, stepVars
  <2>. QED  BY <2>1, OverCloser
<1>2. CASE t \notin pending
  BY <1>2 DEF Stop, FreesCard, Untouched, stepVars, callVars
<1>. QED  BY <1>1, <1>2

\* A step of t is none of another turn.
LEMMA OthersUntouched ==
    ASSUME TurnsTyped, NEW t \in Turn, NEW s \in Turn \ {t},
           Open(t) \/ CodeStep(t) \/ AnswerStep(t) \/ Approve(t) \/ Decline(t) \/ Stop(t)
    PROVE  Untouched(s)
<1>. USE DEF TurnsTyped, Untouched, stepVars, callVars, To
<1>1. ASSUME NEW failed \in BOOLEAN, Over(t, failed)
      PROVE  batch'[s] = batch[s] /\ yes'[s] = yes[s] /\ item'[s] = item[s]
  BY <1>1 DEF Over
<1>2. ASSUME Apply(t)
      PROVE  pc'[s] = pc[s] /\ batch'[s] = batch[s] /\ yes'[s] = yes[s] /\ item'[s] = item[s]
  BY <1>1, <1>2 DEF Apply, Starts
<1>3. CASE Open(t) \/ Approve(t) \/ Decline(t) \/ Stop(t)
  BY <1>1, <1>2, <1>3 DEF Open, Goes, Approve, Decline, Stop, FreesCard
<1>4. CASE OutOfSteps(t) \/ AskModel(t) \/ EndStep(t)
  BY <1>4 DEF OutOfSteps, AskModel, EndStep, Runs, Returns
<1>5. CASE Blocked(t) \/ Declined(t) \/ Malformed(t)
  BY <1>1, <1>5 DEF Blocked, Declined, Malformed
<1>6. CASE Enter(t)
  BY <1>2, <1>6 DEF Enter, Parks
<1>7. CASE Begin(t) \/ ModelCalls(t) \/ ModelEnds(t)
  BY <1>7 DEF Begin, ModelCalls, ModelEnds, Goes, Returns
<1>8. CASE CheckEnds(t) \/ CheckPasses(t)
  BY <1>1, <1>2, <1>8 DEF CheckEnds, CheckPasses, Goes, Parks
<1>9. ASSUME NextItem(t)
      PROVE  pc'[s] = pc[s] /\ batch'[s] = batch[s] /\ yes'[s] = yes[s] /\ item'[s] = item[s]
  BY <1>1, <1>9 DEF NextItem
<1>10. CASE ItemDone(t) \/ ItemFails(t)
  BY <1>1, <1>9, <1>10 DEF ItemDone, ItemFails
<1>. QED  BY <1>3, <1>4, <1>5, <1>6, <1>7, <1>8, <1>10 DEF CodeStep, AnswerStep

\* Whatever tools the model calls and the user answers, a turn only gets closer
\* to its end: its steps, calls, cards and data calls never go round for ever.
THEOREM TurnsTerminate == Spec => TurnsWindDown
<1>. DEFINE Winds ==
         \A t \in Turn :
            /\ Closer(t) \/ Untouched(t)
            /\ CodeStep(t) \/ AnswerStep(t) \/ Approve(t) \/ Decline(t) => Closer(t)
<1>1. DesktopInv /\ [Next]_vars => [Winds]_vars
  <2>. SUFFICES ASSUME DesktopInv, Next PROVE Winds
    OBVIOUS
  <2>1. TurnsTyped /\ \A t \in Turn : Handling(t)
    BY DEF DesktopInv, TurnsInv, Good
  <2>2. ASSUME NEW t \in Turn, CodeStep(t) \/ AnswerStep(t) \/ Approve(t) \/ Decline(t)
        PROVE  Closer(t)
    BY <2>1, <2>2, CodeCloser, AnswerCloser, UserCloser
  <2>3. ASSUME NEW t \in Turn PROVE Closer(t) \/ Untouched(t)
    <3>1. ASSUME NEW s \in Turn,
                 Open(s) \/ CodeStep(s) \/ AnswerStep(s) \/ Approve(s) \/ Decline(s) \/ Stop(s)
          PROVE  Closer(t) \/ Untouched(t)
      <4>1. CASE s = t
        BY <2>1, <3>1, <4>1, <2>2, UserCloser, StopCloser
      <4>2. CASE s # t
        BY <2>1, <3>1, <4>2, OthersUntouched
      <4>. QED  BY <4>1, <4>2
    <3>2. CASE (\E a \in Account : Switch(a)) \/ (\E r \in Click : RevertLast(r) \/ RevertStep(r))
      BY <3>2 DEF Switch, RevertLast, RevertStep, RevertOne, Untouched, stepVars, callVars
    <3>. QED  BY <3>1, <3>2 DEF Next
  <2>. QED  BY <2>2, <2>3
<1>. QED  BY <1>1, DesktopInvariant, PTL DEF Spec, TurnsWindDown
=============================================================================
