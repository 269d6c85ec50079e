--------------------------- MODULE ChatTurnProofs ---------------------------
(***************************************************************************)
(* Chat turns, for any number of turns, users, calls and retries: the      *)
(* cards, the approvals, the bills, what a turn holds of the pool, and the *)
(* promise of ApprovedWrites.                                              *)
(***************************************************************************)
EXTENDS ChatTurn, FiniteSetTheorems, TLAPS

\* Where a turn is that handles a call; what was sent and not answered.
Handling == {"own", "card", "tool", "refresh", "again"}
Sent     == {"tool", "refresh", "again"}

\* The budget covers the calls still in the batch, of which the one that is being
\* handled has been counted.
Budgeted(t) ==
    /\ pc[t] = "calls" => used[t] + Len(batch[t]) <= MaxCalls
    /\ pc[t] \in Handling =>
          batch[t] # <<>> /\ used[t] > 0 /\ used[t] + Len(batch[t]) <= MaxCalls + 1

\* What the broker's map has to do with the turn, card by card.
Parked(t) == \A c \in Call : <<t, c>> \in pending <=> pc[t] = "card" /\ used[t] = c

\* Only the call being handled is open, and its fate says where its turn is.
Ledger(t) ==
    /\ \A c \in Call :
        /\ c > used[t] => fate[t][c] = "none" /\ runs[t][c] = 0
        /\ fate[t][c] = "waiting" => c = used[t] /\ pc[t] = "card"
        /\ fate[t][c] = "running" => c = used[t] /\ pc[t] \in Sent
    /\ pc[t] = "own"  => fate[t][used[t]] = "unsent"
    /\ pc[t] = "card" => fate[t][used[t]] = "waiting" /\ runs[t][used[t]] = 0
    /\ pc[t] \in Sent => fate[t][used[t]] = "running"
    /\ pc[t] \in {"tool", "refresh"} => runs[t][used[t]] = 1

\* A call of the turn was sent twice.
Repeated(t) == \E c \in Call : runs[t][c] = 2

\* One call in a turn is sent twice, after the one refresh.
Retries(t) ==
    /\ Repeated(t) => retryUsed[t]
    /\ \A c, d \in Call : runs[t][c] = 2 /\ runs[t][d] = 2 => c = d
    /\ pc[t] = "refresh" => retryUsed[t] /\ ~Repeated(t)
    /\ pc[t] \in Before \cup {"idle"} => ~retryUsed[t]

\* The first child, and the one of the refresh.
HeldCounted(t) ==
    held[t] = IF pc[t] \in Ends \cup {"idle", "quota", "acquiring"} THEN 0
              ELSE IF Repeated(t) THEN 2 ELSE 1

Approved(t) ==
    \A c \in Call :
        runs[t][c] > 0 /\ tier[t][c] \in Gated =>
            approver[t][c] = Owner[t] /\ (tier[t][c] = "delete" => typed[t][c])

Billed(t) == billed[t] = IF pc[t] = "done" THEN 1 ELSE 0

\* A stop leaves no card, and none is parked after it.
StoppedUnparked(t) == Stopped(t) => pc[t] # "card"

Good(t) ==
    /\ Budgeted(t) /\ Parked(t) /\ Ledger(t) /\ Retries(t) /\ HeldCounted(t)
    /\ Approved(t) /\ Billed(t) /\ StoppedUnparked(t)

TurnInv == TypeOK /\ \A t \in Turn : Good(t)

-----------------------------------------------------------------------------
(* A step of one turn leaves the others as they are.                       *)

Same(t) ==
    /\ pc'[t] = pc[t] /\ gone'[t] = gone[t] /\ timeUp'[t] = timeUp[t]
    /\ held'[t] = held[t] /\ billed'[t] = billed[t]
    /\ batch'[t] = batch[t] /\ used'[t] = used[t] /\ retryUsed'[t] = retryUsed[t]
    /\ fate'[t] = fate[t] /\ tier'[t] = tier[t] /\ approver'[t] = approver[t]
    /\ typed'[t] = typed[t] /\ runs'[t] = runs[t]
    /\ \A c \in Call : <<t, c>> \in pending' <=> <<t, c>> \in pending

LEMMA SameGood == ASSUME NEW t \in Turn, Good(t), Same(t) PROVE Good(t)'
  BY DEF Good, Same, Budgeted, Parked, Ledger, Repeated, Retries, HeldCounted, Approved, Billed,
         StoppedUnparked, Stopped

\* Sequences without their first element.
LEMMA TailLemma ==
    ASSUME NEW b \in Seq(Tier), b # <<>>
    PROVE  Len(b) > 0 /\ Tail(b) \in Seq(Tier) /\ Len(Tail(b)) = Len(b) - 1
  OBVIOUS

\* What a step of turn t must keep.
Keeps(t) == TypeOK' /\ Good(t)' /\ \A s \in Turn \ {t} : Same(s)

LEMMA KeepsInv == ASSUME TurnInv, NEW t \in Turn, Keeps(t) PROVE TurnInv'
<1>1. ASSUME NEW s \in Turn PROVE Good(s)'
  BY SameGood DEF TurnInv, Keeps
<1>. QED  BY <1>1 DEF TurnInv, Keeps

LEMMA ArriveKeeps ==
    ASSUME TurnInv, NEW t \in Turn, Arrive(t) PROVE Keeps(t)
<1>1. TypeOK /\ Good(t)
  BY DEF TurnInv
<1>2. TypeOK'
  BY <1>1 DEF TypeOK, Pc, InTurn, Before, Ends, Call, Arrive, Goes, routeVars, roundVars,
      callVars
<1>3. \A s \in Turn \ {t} : Same(s)
  BY <1>1 DEF TypeOK, Same, Arrive, Goes, routeVars, roundVars, callVars
<1>4. Budgeted(t)'
  BY <1>1 DEF TypeOK, Good, Budgeted, Handling, Arrive, Goes, routeVars, roundVars,
      callVars
<1>5. Parked(t)'
  BY <1>1 DEF TypeOK, Good, Parked, Arrive, Goes, routeVars, roundVars, callVars
<1>6. Ledger(t)'
  BY <1>1 DEF TypeOK, Good, Ledger, Sent, Arrive, Goes, routeVars, roundVars, callVars
<1>7. Retries(t)' /\ HeldCounted(t)'
  BY <1>1 DEF TypeOK, Good, Retries, HeldCounted, Repeated, Before, Ends, Arrive, Goes,
      routeVars, roundVars, callVars
<1>8. Approved(t)' /\ Billed(t)' /\ StoppedUnparked(t)'
  BY <1>1 DEF TypeOK, Good, Approved, Billed, StoppedUnparked, Stopped, Arrive, Goes,
      routeVars, roundVars, callVars
<1>. QED  BY <1>2, <1>3, <1>4, <1>5, <1>6, <1>7, <1>8 DEF Keeps, Good

LEMMA RejectedKeeps ==
    ASSUME TurnInv, NEW t \in Turn, Rejected(t) PROVE Keeps(t)
<1>1. TypeOK /\ Good(t)
  BY DEF TurnInv
<1>2. TypeOK'
  BY <1>1 DEF TypeOK, Pc, InTurn, Before, Ends, Call, Rejected, Goes, routeVars, roundVars,
      callVars
<1>3. \A s \in Turn \ {t} : Same(s)
  BY <1>1 DEF TypeOK, Same, Rejected, Goes, routeVars, roundVars, callVars
<1>4. Budgeted(t)'
  BY <1>1 DEF TypeOK, Good, Budgeted, Handling, Rejected, Goes, routeVars, roundVars,
      callVars
<1>5. Parked(t)'
  BY <1>1 DEF TypeOK, Good, Parked, Rejected, Goes, routeVars, roundVars, callVars
<1>6. Ledger(t)'
  BY <1>1 DEF TypeOK, Good, Ledger, Sent, Rejected, Goes, routeVars, roundVars, callVars
<1>7. Retries(t)' /\ HeldCounted(t)'
  BY <1>1 DEF TypeOK, Good, Retries, HeldCounted, Repeated, Before, Ends, Rejected, Goes,
      routeVars, roundVars, callVars
<1>8. Approved(t)' /\ Billed(t)' /\ StoppedUnparked(t)'
  BY <1>1 DEF TypeOK, Good, Approved, Billed, StoppedUnparked, Stopped, Rejected, Goes,
      routeVars, roundVars, callVars
<1>. QED  BY <1>2, <1>3, <1>4, <1>5, <1>6, <1>7, <1>8 DEF Keeps, Good

LEMMA AdmittedKeeps ==
    ASSUME TurnInv, NEW t \in Turn, Admitted(t) PROVE Keeps(t)
<1>1. TypeOK /\ Good(t)
  BY DEF TurnInv
<1>2. TypeOK'
  BY <1>1 DEF TypeOK, Pc, InTurn, Before, Ends, Call, Admitted, Goes, routeVars, roundVars,
      callVars
<1>3. \A s \in Turn \ {t} : Same(s)
  BY <1>1 DEF TypeOK, Same, Admitted, Goes, routeVars, roundVars, callVars
<1>4. Budgeted(t)'
  BY <1>1 DEF TypeOK, Good, Budgeted, Handling, Admitted, Goes, routeVars, roundVars,
      callVars
<1>5. Parked(t)'
  BY <1>1 DEF TypeOK, Good, Parked, Admitted, Goes, routeVars, roundVars, callVars
<1>6. Ledger(t)'
  BY <1>1 DEF TypeOK, Good, Ledger, Sent, Admitted, Goes, routeVars, roundVars, callVars
<1>7. Retries(t)' /\ HeldCounted(t)'
  BY <1>1 DEF TypeOK, Good, Retries, HeldCounted, Repeated, Before, Ends, Admitted, Goes,
      routeVars, roundVars, callVars
<1>8. Approved(t)' /\ Billed(t)' /\ StoppedUnparked(t)'
  BY <1>1 DEF TypeOK, Good, Approved, Billed, StoppedUnparked, Stopped, Admitted, Goes,
      routeVars, roundVars, callVars
<1>. QED  BY <1>2, <1>3, <1>4, <1>5, <1>6, <1>7, <1>8 DEF Keeps, Good

LEMMA AcquireFailsKeeps ==
    ASSUME TurnInv, NEW t \in Turn, AcquireFails(t) PROVE Keeps(t)
<1>1. TypeOK /\ Good(t)
  BY DEF TurnInv
<1>2. TypeOK'
  BY <1>1 DEF TypeOK, Pc, InTurn, Before, Ends, Call, AcquireFails, Goes, routeVars,
      roundVars, callVars
<1>3. \A s \in Turn \ {t} : Same(s)
  BY <1>1 DEF TypeOK, Same, AcquireFails, Goes, routeVars, roundVars, callVars
<1>4. Budgeted(t)'
  BY <1>1 DEF TypeOK, Good, Budgeted, Handling, AcquireFails, Goes, routeVars, roundVars,
      callVars
<1>5. Parked(t)'
  BY <1>1 DEF TypeOK, Good, Parked, AcquireFails, Goes, routeVars, roundVars, callVars
<1>6. Ledger(t)'
  BY <1>1 DEF TypeOK, Good, Ledger, Sent, AcquireFails, Goes, routeVars, roundVars,
      callVars
<1>7. Retries(t)' /\ HeldCounted(t)'
  BY <1>1 DEF TypeOK, Good, Retries, HeldCounted, Repeated, Before, Ends, AcquireFails,
      Goes, routeVars, roundVars, callVars
<1>8. Approved(t)' /\ Billed(t)' /\ StoppedUnparked(t)'
  BY <1>1 DEF TypeOK, Good, Approved, Billed, StoppedUnparked, Stopped, AcquireFails, Goes,
      routeVars, roundVars, callVars
<1>. QED  BY <1>2, <1>3, <1>4, <1>5, <1>6, <1>7, <1>8 DEF Keeps, Good

LEMMA AcquiredKeeps ==
    ASSUME TurnInv, NEW t \in Turn, Acquired(t) PROVE Keeps(t)
<1>1. TypeOK /\ Good(t)
  BY DEF TurnInv
<1>2. TypeOK'
  <2>1. CASE ~gone[t] /\ Goes(t, "acquiring", "reading") /\ held' = [held EXCEPT ![t] = 1]
    BY <1>1, <2>1 DEF TypeOK, Acquired, Goes, Pc, Before, routeVars, roundVars, callVars
  <2>2. CASE gone[t] /\ Goes(t, "acquiring", "left") /\ Released(t, 1)
    BY <1>1, <2>2 DEF TypeOK, Acquired, Goes, Released, Pc, Ends, routeVars, roundVars, callVars
  <2>. QED  BY <2>1, <2>2 DEF Acquired
<1>3. \A s \in Turn \ {t} : Same(s)
  BY <1>1 DEF TypeOK, Same, Acquired, Goes, Released, routeVars, roundVars, callVars
<1>4. Budgeted(t)'
  BY <1>1 DEF TypeOK, Good, Budgeted, Handling, Acquired, Goes, Released, routeVars,
      roundVars, callVars
<1>5. Parked(t)'
  BY <1>1 DEF TypeOK, Good, Parked, Acquired, Goes, Released, routeVars, roundVars,
      callVars
<1>6. Ledger(t)'
  BY <1>1 DEF TypeOK, Good, Ledger, Sent, Acquired, Goes, Released, routeVars, roundVars,
      callVars
<1>7. Retries(t)' /\ HeldCounted(t)'
  BY <1>1 DEF TypeOK, Good, Retries, HeldCounted, Repeated, Before, Ends, Acquired, Goes,
      Released, routeVars, roundVars, callVars
<1>8. Approved(t)' /\ Billed(t)' /\ StoppedUnparked(t)'
  BY <1>1 DEF TypeOK, Good, Approved, Billed, StoppedUnparked, Stopped, Acquired, Goes,
      Released, routeVars, roundVars, callVars
<1>. QED  BY <1>2, <1>3, <1>4, <1>5, <1>6, <1>7, <1>8 DEF Keeps, Good

LEMMA ReadInVainKeeps ==
    ASSUME TurnInv, NEW t \in Turn, ReadInVain(t) PROVE Keeps(t)
<1>1. TypeOK /\ Good(t)
  BY DEF TurnInv
<1>2. TypeOK'
  BY <1>1 DEF TypeOK, Pc, InTurn, Before, Ends, Call, ReadInVain, Goes, Released,
      routeVars, roundVars, callVars
<1>3. \A s \in Turn \ {t} : Same(s)
  BY <1>1 DEF TypeOK, Same, ReadInVain, Goes, Released, routeVars, roundVars, callVars
<1>4. Budgeted(t)'
  BY <1>1 DEF TypeOK, Good, Budgeted, Handling, ReadInVain, Goes, Released, routeVars,
      roundVars, callVars
<1>5. Parked(t)'
  BY <1>1 DEF TypeOK, Good, Parked, ReadInVain, Goes, Released, routeVars, roundVars,
      callVars
<1>6. Ledger(t)'
  BY <1>1 DEF TypeOK, Good, Ledger, Sent, ReadInVain, Goes, Released, routeVars, roundVars,
      callVars
<1>7. Retries(t)' /\ HeldCounted(t)'
  BY <1>1 DEF TypeOK, Good, Retries, HeldCounted, Repeated, Before, Ends, ReadInVain, Goes,
      Released, routeVars, roundVars, callVars
<1>8. Approved(t)' /\ Billed(t)' /\ StoppedUnparked(t)'
  BY <1>1 DEF TypeOK, Good, Approved, Billed, StoppedUnparked, Stopped, ReadInVain, Goes,
      Released, routeVars, roundVars, callVars
<1>. QED  BY <1>2, <1>3, <1>4, <1>5, <1>6, <1>7, <1>8 DEF Keeps, Good

LEMMA ReadKeeps ==
    ASSUME TurnInv, NEW t \in Turn, Read(t) PROVE Keeps(t)
<1>1. TypeOK /\ Good(t)
  BY DEF TurnInv
<1>2. TypeOK'
  BY <1>1 DEF TypeOK, Pc, InTurn, Before, Ends, Call, Read, Goes, routeVars, roundVars,
      callVars
<1>3. \A s \in Turn \ {t} : Same(s)
  BY <1>1 DEF TypeOK, Same, Read, Goes, routeVars, roundVars, callVars
<1>4. Budgeted(t)'
  BY <1>1 DEF TypeOK, Good, Budgeted, Handling, Read, Goes, routeVars, roundVars, callVars
<1>5. Parked(t)'
  BY <1>1 DEF TypeOK, Good, Parked, Read, Goes, routeVars, roundVars, callVars
<1>6. Ledger(t)'
  BY <1>1 DEF TypeOK, Good, Ledger, Sent, Read, Goes, routeVars, roundVars, callVars
<1>7. Retries(t)' /\ HeldCounted(t)'
  BY <1>1 DEF TypeOK, Good, Retries, HeldCounted, Repeated, Before, Ends, Read, Goes,
      routeVars, roundVars, callVars
<1>8. Approved(t)' /\ Billed(t)' /\ StoppedUnparked(t)'
  BY <1>1 DEF TypeOK, Good, Approved, Billed, StoppedUnparked, Stopped, Read, Goes,
      routeVars, roundVars, callVars
<1>. QED  BY <1>2, <1>3, <1>4, <1>5, <1>6, <1>7, <1>8 DEF Keeps, Good

LEMMA OpenedKeeps ==
    ASSUME TurnInv, NEW t \in Turn, Opened(t) PROVE Keeps(t)
<1>1. TypeOK /\ Good(t)
  BY DEF TurnInv
<1>2. TypeOK'
  BY <1>1 DEF TypeOK, Pc, InTurn, Before, Ends, Call, Opened, Goes, routeVars, roundVars,
      callVars
<1>3. \A s \in Turn \ {t} : Same(s)
  BY <1>1 DEF TypeOK, Same, Opened, Goes, routeVars, roundVars, callVars
<1>4. Budgeted(t)'
  BY <1>1 DEF TypeOK, Good, Budgeted, Handling, Opened, Goes, routeVars, roundVars,
      callVars
<1>5. Parked(t)'
  BY <1>1 DEF TypeOK, Good, Parked, Opened, Goes, routeVars, roundVars, callVars
<1>6. Ledger(t)'
  BY <1>1 DEF TypeOK, Good, Ledger, Sent, Opened, Goes, routeVars, roundVars, callVars
<1>7. Retries(t)' /\ HeldCounted(t)'
  BY <1>1 DEF TypeOK, Good, Retries, HeldCounted, Repeated, Before, Ends, Opened, Goes,
      routeVars, roundVars, callVars
<1>8. Approved(t)' /\ Billed(t)' /\ StoppedUnparked(t)'
  BY <1>1 DEF TypeOK, Good, Approved, Billed, StoppedUnparked, Stopped, Opened, Goes,
      routeVars, roundVars, callVars
<1>. QED  BY <1>2, <1>3, <1>4, <1>5, <1>6, <1>7, <1>8 DEF Keeps, Good

LEMMA SetUpKeeps ==
    ASSUME TurnInv, NEW t \in Turn, SetUp(t) PROVE Keeps(t)
<1>1. TypeOK /\ Good(t)
  BY DEF TurnInv
<1>2. TypeOK'
  BY <1>1 DEF TypeOK, Pc, InTurn, Before, Ends, Call, SetUp, Goes, routeVars, roundVars,
      callVars
<1>3. \A s \in Turn \ {t} : Same(s)
  BY <1>1 DEF TypeOK, Same, SetUp, Goes, routeVars, roundVars, callVars
<1>4. Budgeted(t)'
  BY <1>1 DEF TypeOK, Good, Budgeted, Handling, SetUp, Goes, routeVars, roundVars, callVars
<1>5. Parked(t)'
  BY <1>1 DEF TypeOK, Good, Parked, SetUp, Goes, routeVars, roundVars, callVars
<1>6. Ledger(t)'
  BY <1>1 DEF TypeOK, Good, Ledger, Sent, SetUp, Goes, routeVars, roundVars, callVars
<1>7. Retries(t)' /\ HeldCounted(t)'
  BY <1>1 DEF TypeOK, Good, Retries, HeldCounted, Repeated, Before, Ends, SetUp, Goes,
      routeVars, roundVars, callVars
<1>8. Approved(t)' /\ Billed(t)' /\ StoppedUnparked(t)'
  BY <1>1 DEF TypeOK, Good, Approved, Billed, StoppedUnparked, Stopped, SetUp, Goes,
      routeVars, roundVars, callVars
<1>. QED  BY <1>2, <1>3, <1>4, <1>5, <1>6, <1>7, <1>8 DEF Keeps, Good

LEMMA TopClosesKeeps ==
    ASSUME TurnInv, NEW t \in Turn, TopCloses(t) PROVE Keeps(t)
<1>1. TypeOK /\ Good(t)
  BY DEF TurnInv
<1>2. TypeOK'
  BY <1>1 DEF TypeOK, Pc, Ends, Before, InTurn, Good, HeldCounted, Billed, TopCloses, Runs,
      Close, MustClose, routeVars, roundVars, callVars
<1>3. \A s \in Turn \ {t} : Same(s)
  BY <1>1 DEF TypeOK, Same, TopCloses, Runs, Close, MustClose, routeVars, roundVars,
      callVars
<1>4. Budgeted(t)'
  BY <1>1 DEF TypeOK, Good, Budgeted, Handling, TopCloses, Runs, Close, MustClose,
      routeVars, roundVars, callVars
<1>5. Parked(t)'
  BY <1>1 DEF TypeOK, Good, Parked, TopCloses, Runs, Close, MustClose, routeVars,
      roundVars, callVars
<1>6. Ledger(t)'
  BY <1>1 DEF TypeOK, Good, Ledger, Sent, TopCloses, Runs, Close, MustClose, routeVars,
      roundVars, callVars
<1>7. Retries(t)' /\ HeldCounted(t)'
  BY <1>1 DEF TypeOK, Good, Retries, HeldCounted, Repeated, Before, Ends, TopCloses, Runs,
      Close, MustClose, routeVars, roundVars, callVars
<1>8. Approved(t)' /\ Billed(t)' /\ StoppedUnparked(t)'
  BY <1>1 DEF TypeOK, Good, Approved, Billed, StoppedUnparked, Stopped, TopCloses, Runs,
      Close, MustClose, routeVars, roundVars, callVars
<1>. QED  BY <1>2, <1>3, <1>4, <1>5, <1>6, <1>7, <1>8 DEF Keeps, Good

LEMMA AskModelKeeps ==
    ASSUME TurnInv, NEW t \in Turn, AskModel(t) PROVE Keeps(t)
<1>1. TypeOK /\ Good(t)
  BY DEF TurnInv
<1>2. TypeOK'
  BY <1>1 DEF TypeOK, Pc, InTurn, Before, Ends, Call, AskModel, Runs, MustClose, routeVars,
      roundVars, callVars
<1>3. \A s \in Turn \ {t} : Same(s)
  BY <1>1 DEF TypeOK, Same, AskModel, Runs, MustClose, routeVars, roundVars, callVars
<1>4. Budgeted(t)'
  BY <1>1 DEF TypeOK, Good, Budgeted, Handling, AskModel, Runs, MustClose, routeVars,
      roundVars, callVars
<1>5. Parked(t)'
  BY <1>1 DEF TypeOK, Good, Parked, AskModel, Runs, MustClose, routeVars, roundVars,
      callVars
<1>6. Ledger(t)'
  BY <1>1 DEF TypeOK, Good, Ledger, Sent, AskModel, Runs, MustClose, routeVars, roundVars,
      callVars
<1>7. Retries(t)' /\ HeldCounted(t)'
  BY <1>1 DEF TypeOK, Good, Retries, HeldCounted, Repeated, Before, Ends, AskModel, Runs,
      MustClose, routeVars, roundVars, callVars
<1>8. Approved(t)' /\ Billed(t)' /\ StoppedUnparked(t)'
  BY <1>1 DEF TypeOK, Good, Approved, Billed, StoppedUnparked, Stopped, AskModel, Runs,
      MustClose, routeVars, roundVars, callVars
<1>. QED  BY <1>2, <1>3, <1>4, <1>5, <1>6, <1>7, <1>8 DEF Keeps, Good

LEMMA ModelCallsKeeps ==
    ASSUME TurnInv, NEW t \in Turn, ModelCalls(t) PROVE Keeps(t)
<1>1. TypeOK /\ Good(t)
  BY DEF TurnInv
<1>2. TypeOK'
  BY <1>1, ChatTurnAssumption DEF TypeOK, Pc, InTurn, Good, Budgeted, Handling, Call,
      Gated, ModelCalls, Goes, WithinBudget, routeVars, roundVars, callVars
<1>3. \A s \in Turn \ {t} : Same(s)
  BY <1>1 DEF TypeOK, Same, ModelCalls, Goes, WithinBudget, routeVars, roundVars, callVars
<1>4. Budgeted(t)'
  BY <1>1 DEF TypeOK, Good, Budgeted, Handling, ModelCalls, Goes, WithinBudget, routeVars,
      roundVars, callVars
<1>5. Parked(t)'
  BY <1>1 DEF TypeOK, Good, Parked, ModelCalls, Goes, WithinBudget, routeVars, roundVars,
      callVars
<1>6. Ledger(t)'
  BY <1>1 DEF TypeOK, Good, Ledger, Sent, ModelCalls, Goes, WithinBudget, routeVars,
      roundVars, callVars
<1>7. Retries(t)' /\ HeldCounted(t)'
  BY <1>1 DEF TypeOK, Good, Retries, HeldCounted, Repeated, Before, Ends, ModelCalls, Goes,
      WithinBudget, routeVars, roundVars, callVars
<1>8. Approved(t)' /\ Billed(t)' /\ StoppedUnparked(t)'
  BY <1>1 DEF TypeOK, Good, Approved, Billed, StoppedUnparked, Stopped, ModelCalls, Goes,
      WithinBudget, routeVars, roundVars, callVars
<1>. QED  BY <1>2, <1>3, <1>4, <1>5, <1>6, <1>7, <1>8 DEF Keeps, Good

LEMMA ModelEndsKeeps ==
    ASSUME TurnInv, NEW t \in Turn, ModelEnds(t) PROVE Keeps(t)
<1>1. TypeOK /\ Good(t)
  BY DEF TurnInv
<1>2. TypeOK'
  BY <1>1, ChatTurnAssumption DEF TypeOK, Pc, Ends, Before, InTurn, Good, HeldCounted,
      Billed, Repeated, ModelEnds, Goes, Close, routeVars, roundVars, callVars
<1>3. \A s \in Turn \ {t} : Same(s)
  BY <1>1 DEF TypeOK, Same, ModelEnds, Goes, Close, routeVars, roundVars, callVars
<1>4. Budgeted(t)'
  BY <1>1 DEF TypeOK, Good, Budgeted, Handling, ModelEnds, Goes, Close, routeVars,
      roundVars, callVars
<1>5. Parked(t)'
  BY <1>1 DEF TypeOK, Good, Parked, ModelEnds, Goes, Close, routeVars, roundVars, callVars
<1>6. Ledger(t)'
  BY <1>1 DEF TypeOK, Good, Ledger, Sent, ModelEnds, Goes, Close, routeVars, roundVars,
      callVars
<1>7. Retries(t)' /\ HeldCounted(t)'
  BY <1>1 DEF TypeOK, Good, Retries, HeldCounted, Repeated, Before, Ends, ModelEnds, Goes,
      Close, routeVars, roundVars, callVars
<1>8. Approved(t)' /\ Billed(t)' /\ StoppedUnparked(t)'
  BY <1>1 DEF TypeOK, Good, Approved, Billed, StoppedUnparked, Stopped, ModelEnds, Goes,
      Close, routeVars, roundVars, callVars
<1>. QED  BY <1>2, <1>3, <1>4, <1>5, <1>6, <1>7, <1>8 DEF Keeps, Good

LEMMA ModelBusyKeeps ==
    ASSUME TurnInv, NEW t \in Turn, ModelBusy(t) PROVE Keeps(t)
<1>1. TypeOK /\ Good(t)
  BY DEF TurnInv
<1>2. TypeOK'
  BY <1>1, ChatTurnAssumption DEF TypeOK, Pc, Ends, Before, InTurn, Good, HeldCounted,
      Billed, Repeated, ModelBusy, Goes, routeVars, roundVars, callVars
<1>3. \A s \in Turn \ {t} : Same(s)
  BY <1>1 DEF TypeOK, Same, ModelBusy, Goes, routeVars, roundVars, callVars
<1>4. Budgeted(t)'
  BY <1>1 DEF TypeOK, Good, Budgeted, Handling, ModelBusy, Goes, routeVars, roundVars,
      callVars
<1>5. Parked(t)'
  BY <1>1 DEF TypeOK, Good, Parked, ModelBusy, Goes, routeVars, roundVars, callVars
<1>6. Ledger(t)'
  BY <1>1 DEF TypeOK, Good, Ledger, Sent, ModelBusy, Goes, routeVars, roundVars, callVars
<1>7. Retries(t)' /\ HeldCounted(t)'
  BY <1>1 DEF TypeOK, Good, Retries, HeldCounted, Repeated, Before, Ends, ModelBusy, Goes,
      routeVars, roundVars, callVars
<1>8. Approved(t)' /\ Billed(t)' /\ StoppedUnparked(t)'
  BY <1>1 DEF TypeOK, Good, Approved, Billed, StoppedUnparked, Stopped, ModelBusy, Goes,
      routeVars, roundVars, callVars
<1>. QED  BY <1>2, <1>3, <1>4, <1>5, <1>6, <1>7, <1>8 DEF Keeps, Good

LEMMA WaitOverKeeps ==
    ASSUME TurnInv, NEW t \in Turn, WaitOver(t) PROVE Keeps(t)
<1>1. TypeOK /\ Good(t)
  BY DEF TurnInv
<1>2. TypeOK'
  BY <1>1 DEF TypeOK, Pc, InTurn, Before, Ends, Call, WaitOver, Goes, routeVars, roundVars,
      callVars
<1>3. \A s \in Turn \ {t} : Same(s)
  BY <1>1 DEF TypeOK, Same, WaitOver, Goes, routeVars, roundVars, callVars
<1>4. Budgeted(t)'
  BY <1>1 DEF TypeOK, Good, Budgeted, Handling, WaitOver, Goes, routeVars, roundVars,
      callVars
<1>5. Parked(t)'
  BY <1>1 DEF TypeOK, Good, Parked, WaitOver, Goes, routeVars, roundVars, callVars
<1>6. Ledger(t)'
  BY <1>1 DEF TypeOK, Good, Ledger, Sent, WaitOver, Goes, routeVars, roundVars, callVars
<1>7. Retries(t)' /\ HeldCounted(t)'
  BY <1>1 DEF TypeOK, Good, Retries, HeldCounted, Repeated, Before, Ends, WaitOver, Goes,
      routeVars, roundVars, callVars
<1>8. Approved(t)' /\ Billed(t)' /\ StoppedUnparked(t)'
  BY <1>1 DEF TypeOK, Good, Approved, Billed, StoppedUnparked, Stopped, WaitOver, Goes,
      routeVars, roundVars, callVars
<1>. QED  BY <1>2, <1>3, <1>4, <1>5, <1>6, <1>7, <1>8 DEF Keeps, Good

LEMMA ModelStoppedKeeps ==
    ASSUME TurnInv, NEW t \in Turn, ModelStopped(t) PROVE Keeps(t)
<1>1. TypeOK /\ Good(t)
  BY DEF TurnInv
<1>2. TypeOK'
  <2>1. \E p \in {"model", "wait"} : Goes(t, p, "top")
    BY DEF ModelStopped
  <2>. QED
    BY <1>1, <2>1, ChatTurnAssumption DEF TypeOK, ModelStopped, Goes, Pc, routeVars, roundVars, callVars
<1>3. \A s \in Turn \ {t} : Same(s)
  BY <1>1 DEF TypeOK, Same, ModelStopped, Goes, routeVars, roundVars, callVars
<1>4. Budgeted(t)'
  BY <1>1 DEF TypeOK, Good, Budgeted, Handling, ModelStopped, Goes, routeVars, roundVars,
      callVars
<1>5. Parked(t)'
  BY <1>1 DEF TypeOK, Good, Parked, ModelStopped, Goes, routeVars, roundVars, callVars
<1>6. Ledger(t)'
  BY <1>1 DEF TypeOK, Good, Ledger, Sent, ModelStopped, Goes, routeVars, roundVars,
      callVars
<1>7. Retries(t)' /\ HeldCounted(t)'
  BY <1>1 DEF TypeOK, Good, Retries, HeldCounted, Repeated, Before, Ends, ModelStopped,
      Goes, routeVars, roundVars, callVars
<1>8. Approved(t)' /\ Billed(t)' /\ StoppedUnparked(t)'
  BY <1>1 DEF TypeOK, Good, Approved, Billed, StoppedUnparked, Stopped, ModelStopped, Goes,
      routeVars, roundVars, callVars
<1>. QED  BY <1>2, <1>3, <1>4, <1>5, <1>6, <1>7, <1>8 DEF Keeps, Good

LEMMA ModelFailsKeeps ==
    ASSUME TurnInv, NEW t \in Turn, ModelFails(t) PROVE Keeps(t)
<1>1. TypeOK /\ Good(t)
  BY DEF TurnInv
<1>2. TypeOK'
  BY <1>1, ChatTurnAssumption DEF TypeOK, Pc, Ends, Before, InTurn, Good, HeldCounted,
      Billed, Repeated, ModelFails, Goes, CloseInError, Close, routeVars, roundVars,
      callVars
<1>3. \A s \in Turn \ {t} : Same(s)
  BY <1>1 DEF TypeOK, Same, ModelFails, Goes, CloseInError, Close, routeVars, roundVars,
      callVars
<1>4. Budgeted(t)'
  BY <1>1 DEF TypeOK, Good, Budgeted, Handling, ModelFails, Goes, CloseInError, Close,
      routeVars, roundVars, callVars
<1>5. Parked(t)'
  BY <1>1 DEF TypeOK, Good, Parked, ModelFails, Goes, CloseInError, Close, routeVars,
      roundVars, callVars
<1>6. Ledger(t)'
  BY <1>1 DEF TypeOK, Good, Ledger, Sent, ModelFails, Goes, CloseInError, Close, routeVars,
      roundVars, callVars
<1>7. Retries(t)' /\ HeldCounted(t)'
  BY <1>1 DEF TypeOK, Good, Retries, HeldCounted, Repeated, Before, Ends, ModelFails, Goes,
      CloseInError, Close, routeVars, roundVars, callVars
<1>8. Approved(t)' /\ Billed(t)' /\ StoppedUnparked(t)'
  BY <1>1 DEF TypeOK, Good, Approved, Billed, StoppedUnparked, Stopped, ModelFails, Goes,
      CloseInError, Close, routeVars, roundVars, callVars
<1>. QED  BY <1>2, <1>3, <1>4, <1>5, <1>6, <1>7, <1>8 DEF Keeps, Good

LEMMA EndRoundKeeps ==
    ASSUME TurnInv, NEW t \in Turn, EndRound(t) PROVE Keeps(t)
<1>1. TypeOK /\ Good(t)
  BY DEF TurnInv
<1>2. TypeOK'
  BY <1>1 DEF TypeOK, Pc, InTurn, Before, Ends, Call, EndRound, Runs, RoundOver, routeVars,
      roundVars, callVars
<1>3. \A s \in Turn \ {t} : Same(s)
  BY <1>1 DEF TypeOK, Same, EndRound, Runs, RoundOver, routeVars, roundVars, callVars
<1>4. Budgeted(t)'
  BY <1>1 DEF TypeOK, Good, Budgeted, Handling, EndRound, Runs, RoundOver, routeVars,
      roundVars, callVars
<1>5. Parked(t)'
  BY <1>1 DEF TypeOK, Good, Parked, EndRound, Runs, RoundOver, routeVars, roundVars,
      callVars
<1>6. Ledger(t)'
  BY <1>1 DEF TypeOK, Good, Ledger, Sent, EndRound, Runs, RoundOver, routeVars, roundVars,
      callVars
<1>7. Retries(t)' /\ HeldCounted(t)'
  BY <1>1 DEF TypeOK, Good, Retries, HeldCounted, Repeated, Before, Ends, EndRound, Runs,
      RoundOver, routeVars, roundVars, callVars
<1>8. Approved(t)' /\ Billed(t)' /\ StoppedUnparked(t)'
  BY <1>1 DEF TypeOK, Good, Approved, Billed, StoppedUnparked, Stopped, EndRound, Runs,
      RoundOver, routeVars, roundVars, callVars
<1>. QED  BY <1>2, <1>3, <1>4, <1>5, <1>6, <1>7, <1>8 DEF Keeps, Good

LEMMA HandleRefusedKeeps ==
    ASSUME TurnInv, NEW t \in Turn, HandleRefused(t) PROVE Keeps(t)
<1>1. TypeOK /\ Good(t)
  BY DEF TurnInv
<1>2. TypeOK'
  BY <1>1, ChatTurnAssumption DEF TypeOK, Pc, InTurn, Good, Budgeted, Handling, Call,
      Gated, HandleRefused, Runs, Takes, RoundOver, routeVars, roundVars, callVars
<1>3. \A s \in Turn \ {t} : Same(s)
  BY <1>1 DEF TypeOK, Same, HandleRefused, Runs, Takes, RoundOver, routeVars, roundVars,
      callVars
<1>4. Budgeted(t)'
  BY <1>1, ChatTurnAssumption DEF TypeOK, Good, Budgeted, Handling, Gated, HandleRefused,
      Runs, Takes, RoundOver, routeVars, roundVars, callVars
<1>5. Parked(t)'
  BY <1>1 DEF TypeOK, Good, Parked, HandleRefused, Runs, Takes, RoundOver, routeVars,
      roundVars, callVars
<1>6. Ledger(t)'
  BY <1>1 DEF TypeOK, Good, Ledger, Sent, Budgeted, Handling, Call, HandleRefused, Runs,
      Takes, RoundOver, routeVars, roundVars, callVars
<1>7. Retries(t)' /\ HeldCounted(t)'
  BY <1>1 DEF TypeOK, Good, Retries, HeldCounted, Repeated, Before, Ends, HandleRefused,
      Runs, Takes, RoundOver, routeVars, roundVars, callVars
<1>8. Approved(t)' /\ Billed(t)' /\ StoppedUnparked(t)'
  BY <1>1 DEF TypeOK, Good, Approved, Billed, StoppedUnparked, Stopped, HandleRefused,
      Runs, Takes, RoundOver, routeVars, roundVars, callVars
<1>. QED  BY <1>2, <1>3, <1>4, <1>5, <1>6, <1>7, <1>8 DEF Keeps, Good

LEMMA HandleOwnKeeps ==
    ASSUME TurnInv, NEW t \in Turn, HandleOwn(t) PROVE Keeps(t)
<1>1. TypeOK /\ Good(t)
  BY DEF TurnInv
<1>2. TypeOK'
  BY <1>1, ChatTurnAssumption DEF TypeOK, Pc, InTurn, Good, Budgeted, Handling, Call,
      Gated, HandleOwn, Runs, Takes, RoundOver, routeVars, roundVars, callVars
<1>3. \A s \in Turn \ {t} : Same(s)
  BY <1>1 DEF TypeOK, Same, HandleOwn, Runs, Takes, RoundOver, routeVars, roundVars,
      callVars
<1>4. Budgeted(t)'
  BY <1>1, ChatTurnAssumption DEF TypeOK, Good, Budgeted, Handling, Gated, HandleOwn, Runs,
      Takes, RoundOver, routeVars, roundVars, callVars
<1>5. Parked(t)'
  BY <1>1 DEF TypeOK, Good, Parked, HandleOwn, Runs, Takes, RoundOver, routeVars,
      roundVars, callVars
<1>6. Ledger(t)'
  BY <1>1, ChatTurnAssumption DEF TypeOK, Good, Ledger, Sent, Budgeted, Handling, Call,
      Gated, HandleOwn, Runs, Takes, RoundOver, routeVars, roundVars, callVars
<1>7. Retries(t)' /\ HeldCounted(t)'
  BY <1>1 DEF TypeOK, Good, Retries, HeldCounted, Repeated, Before, Ends, HandleOwn, Runs,
      Takes, RoundOver, routeVars, roundVars, callVars
<1>8. Approved(t)' /\ Billed(t)' /\ StoppedUnparked(t)'
  BY <1>1 DEF TypeOK, Good, Approved, Billed, StoppedUnparked, Stopped, HandleOwn, Runs,
      Takes, RoundOver, routeVars, roundVars, callVars
<1>. QED  BY <1>2, <1>3, <1>4, <1>5, <1>6, <1>7, <1>8 DEF Keeps, Good

LEMMA HandleDirectKeeps ==
    ASSUME TurnInv, NEW t \in Turn, HandleDirect(t) PROVE Keeps(t)
<1>1. TypeOK /\ Good(t)
  BY DEF TurnInv
<1>2. TypeOK'
  BY SMTT(30), <1>1, ChatTurnAssumption DEF TypeOK, Pc, InTurn, Good, Budgeted, Handling, Call,
      Gated, HandleDirect, Runs, Takes, RoundOver, routeVars, roundVars, callVars
<1>3. \A s \in Turn \ {t} : Same(s)
  BY <1>1 DEF TypeOK, Same, HandleDirect, Runs, Takes, RoundOver, routeVars, roundVars,
      callVars
<1>4. Budgeted(t)'
  BY <1>1, ChatTurnAssumption DEF TypeOK, Good, Budgeted, Handling, Gated, HandleDirect,
      Runs, Takes, RoundOver, routeVars, roundVars, callVars
<1>5. Parked(t)'
  BY <1>1 DEF TypeOK, Good, Parked, HandleDirect, Runs, Takes, RoundOver, routeVars,
      roundVars, callVars
<1>6. Ledger(t)'
  BY <1>1, ChatTurnAssumption DEF TypeOK, Good, Ledger, Sent, Budgeted, Handling, Call,
      Gated, HandleDirect, Runs, Takes, RoundOver, routeVars, roundVars, callVars
<1>7. Retries(t)' /\ HeldCounted(t)'
  <2>1. used'[t] \in Call /\ used'[t] > used[t]
    BY <1>1, <1>2 DEF TypeOK, Call, HandleDirect, Takes
  <2>2. /\ pc[t] = "calls" /\ pc'[t] = "tool" /\ held'[t] = held[t] /\ retryUsed'[t] = retryUsed[t]
        /\ \A c \in Call : runs'[t][c] = IF c = used'[t] THEN 1 ELSE runs[t][c]
    BY <1>1, <2>1 DEF TypeOK, HandleDirect, Runs, Takes, routeVars
  <2>3. \A c \in Call : runs'[t][c] = 2 <=> runs[t][c] = 2
    BY <1>1, <2>1, <2>2 DEF Good, Ledger
  <2>4. Repeated(t)' <=> Repeated(t)
    BY <2>3 DEF Repeated
  <2>5. Retries(t)'
    BY <1>1, <2>2, <2>3, <2>4 DEF Good, Retries, Before
  <2>6. HeldCounted(t)'
    BY <1>1, <2>2, <2>4 DEF Good, HeldCounted, Ends
  <2>. QED  BY <2>5, <2>6
<1>8. Approved(t)' /\ Billed(t)' /\ StoppedUnparked(t)'
  BY <1>1 DEF TypeOK, Good, Approved, Billed, StoppedUnparked, Stopped, Ledger, Budgeted,
      Handling, Call, Gated, HandleDirect, Runs, Takes, RoundOver, routeVars, roundVars,
      callVars
<1>. QED  BY <1>2, <1>3, <1>4, <1>5, <1>6, <1>7, <1>8 DEF Keeps, Good

LEMMA HandleGatedKeeps ==
    ASSUME TurnInv, NEW t \in Turn, NEW k \in Gated, HandleGated(t, k) PROVE Keeps(t)
<1>1. TypeOK /\ Good(t)
  BY DEF TurnInv
<1>2. TypeOK'
  BY <1>1, ChatTurnAssumption DEF TypeOK, Pc, InTurn, Good, Budgeted, Handling, Call,
      Gated, HandleGated, Runs, Takes, RoundOver, routeVars, roundVars, callVars
<1>3. \A s \in Turn \ {t} : Same(s)
  BY <1>1 DEF TypeOK, Same, HandleGated, Runs, Takes, RoundOver, routeVars, roundVars,
      callVars
<1>4. Budgeted(t)'
  BY <1>1, ChatTurnAssumption DEF TypeOK, Good, Budgeted, Handling, Gated, HandleGated,
      Runs, Takes, RoundOver, routeVars, roundVars, callVars
<1>5. Parked(t)'
  BY <1>1 DEF TypeOK, Good, Parked, HandleGated, Runs, Takes, RoundOver, routeVars,
      roundVars, callVars
<1>6. Ledger(t)'
  BY <1>1, ChatTurnAssumption DEF TypeOK, Good, Ledger, Sent, Budgeted, Handling, Call,
      Gated, HandleGated, Runs, Takes, RoundOver, routeVars, roundVars, callVars
<1>7. Retries(t)' /\ HeldCounted(t)'
  BY <1>1 DEF TypeOK, Good, Retries, HeldCounted, Repeated, Before, Ends, HandleGated,
      Runs, Takes, RoundOver, routeVars, roundVars, callVars
<1>8. Approved(t)' /\ Billed(t)' /\ StoppedUnparked(t)'
  <2>1. used'[t] \in Call /\ used'[t] > used[t]
    BY <1>1, <1>2 DEF TypeOK, Call, HandleGated, Takes
  <2>2. \A c \in Call : c # used'[t] => tier'[t][c] = tier[t][c]
    BY <1>1 DEF TypeOK, HandleGated
  <2>3. Approved(t)'
    BY <1>1, <2>1, <2>2 DEF Good, Approved, Ledger, HandleGated, callVars
  <2>4. Billed(t)' /\ StoppedUnparked(t)'
    BY <1>1 DEF TypeOK, Good, Billed, StoppedUnparked, Stopped, HandleGated, Takes, RoundOver, Runs, routeVars
  <2>. QED  BY <2>3, <2>4
<1>. QED  BY <1>2, <1>3, <1>4, <1>5, <1>6, <1>7, <1>8 DEF Keeps, Good

LEMMA OwnDoneKeeps ==
    ASSUME TurnInv, NEW t \in Turn, OwnDone(t) PROVE Keeps(t)
<1>1. TypeOK /\ Good(t)
  BY DEF TurnInv
<1>2. TypeOK'
  BY <1>1 DEF TypeOK, Pc, Good, Budgeted, Handling, Call, OwnDone, NextCall, Goes,
      routeVars, roundVars, callVars
<1>3. \A s \in Turn \ {t} : Same(s)
  BY <1>1 DEF TypeOK, Same, OwnDone, NextCall, Goes, routeVars, roundVars, callVars
<1>4. Budgeted(t)'
  BY <1>1, ChatTurnAssumption DEF TypeOK, Good, Budgeted, Handling, Gated, OwnDone,
      NextCall, Goes, routeVars, roundVars, callVars
<1>5. Parked(t)'
  BY <1>1 DEF TypeOK, Good, Parked, OwnDone, NextCall, Goes, routeVars, roundVars, callVars
<1>6. Ledger(t)'
  BY <1>1 DEF TypeOK, Good, Ledger, Sent, OwnDone, NextCall, Goes, routeVars, roundVars,
      callVars
<1>7. Retries(t)' /\ HeldCounted(t)'
  BY <1>1 DEF TypeOK, Good, Retries, HeldCounted, Repeated, Before, Ends, OwnDone,
      NextCall, Goes, routeVars, roundVars, callVars
<1>8. Approved(t)' /\ Billed(t)' /\ StoppedUnparked(t)'
  BY <1>1 DEF TypeOK, Good, Approved, Billed, StoppedUnparked, Stopped, OwnDone, NextCall,
      Goes, routeVars, roundVars, callVars
<1>. QED  BY <1>2, <1>3, <1>4, <1>5, <1>6, <1>7, <1>8 DEF Keeps, Good

LEMMA ToolDoneKeeps ==
    ASSUME TurnInv, NEW t \in Turn, ToolDone(t) PROVE Keeps(t)
<1>1. TypeOK /\ Good(t)
  BY DEF TurnInv
<1>2. TypeOK'
  <2>1. /\ pc' = [pc EXCEPT ![t] = "calls"] /\ thread' = t
        /\ batch' = [batch EXCEPT ![t] = Tail(@)] /\ fate' = [fate EXCEPT ![t][used[t]] = "over"]
        /\ pc[t] \in {"tool", "again"}
    BY DEF ToolDone, NextCall, Goes
  <2>2. Tail(batch[t]) \in Seq(Tier)
    BY <1>1, <2>1, TailLemma DEF TypeOK, Good, Budgeted, Handling
  <2>. QED
    BY <1>1, <2>1, <2>2 DEF TypeOK, ToolDone, NextCall, Pc
<1>3. \A s \in Turn \ {t} : Same(s)
  BY <1>1 DEF TypeOK, Same, ToolDone, NextCall, Goes, routeVars, roundVars, callVars
<1>4. Budgeted(t)'
  BY <1>1, ChatTurnAssumption DEF TypeOK, Good, Budgeted, Handling, Gated, ToolDone,
      NextCall, Goes, routeVars, roundVars, callVars
<1>5. Parked(t)'
  BY <1>1 DEF TypeOK, Good, Parked, ToolDone, NextCall, Goes, routeVars, roundVars,
      callVars
<1>6. Ledger(t)'
  <2>1. /\ pc'[t] = "calls" /\ used'[t] = used[t] /\ runs' = runs
        /\ fate' = [fate EXCEPT ![t][used[t]] = "over"]
    BY <1>1 DEF TypeOK, ToolDone, NextCall, Goes
  <2>2. used[t] \in Call
    BY <1>1 DEF TypeOK, Good, Budgeted, Handling, Call, ToolDone, NextCall, Goes
  <2>3. \A c \in Call : fate'[t][c] = IF c = used[t] THEN "over" ELSE fate[t][c]
    BY <1>1, <2>1 DEF TypeOK
  <2>. QED  BY <1>1, <2>1, <2>2, <2>3 DEF Good, Ledger, Sent, Call
<1>7. Retries(t)' /\ HeldCounted(t)'
  BY <1>1 DEF TypeOK, Good, Retries, HeldCounted, Repeated, Before, Ends, ToolDone,
      NextCall, Goes, routeVars, roundVars, callVars
<1>8. Approved(t)' /\ Billed(t)' /\ StoppedUnparked(t)'
  BY <1>1 DEF TypeOK, Good, Approved, Billed, StoppedUnparked, Stopped, ToolDone, NextCall,
      Goes, routeVars, roundVars, callVars
<1>. QED  BY <1>2, <1>3, <1>4, <1>5, <1>6, <1>7, <1>8 DEF Keeps, Good

LEMMA AuthFailsKeeps ==
    ASSUME TurnInv, NEW t \in Turn, AuthFails(t) PROVE Keeps(t)
<1>1. TypeOK /\ Good(t)
  BY DEF TurnInv
<1>2. TypeOK'
  BY <1>1 DEF TypeOK, Pc, InTurn, Before, Ends, Call, AuthFails, Goes, routeVars,
      roundVars, callVars
<1>3. \A s \in Turn \ {t} : Same(s)
  BY <1>1 DEF TypeOK, Same, AuthFails, Goes, routeVars, roundVars, callVars
<1>4. Budgeted(t)'
  BY <1>1 DEF TypeOK, Good, Budgeted, Handling, AuthFails, Goes, routeVars, roundVars,
      callVars
<1>5. Parked(t)'
  BY <1>1 DEF TypeOK, Good, Parked, AuthFails, Goes, routeVars, roundVars, callVars
<1>6. Ledger(t)'
  BY <1>1 DEF TypeOK, Good, Ledger, Sent, AuthFails, Goes, routeVars, roundVars, callVars
<1>7. Retries(t)' /\ HeldCounted(t)'
  BY <1>1 DEF TypeOK, Good, Retries, HeldCounted, Repeated, Before, Ends, AuthFails, Goes,
      routeVars, roundVars, callVars
<1>8. Approved(t)' /\ Billed(t)' /\ StoppedUnparked(t)'
  BY <1>1 DEF TypeOK, Good, Approved, Billed, StoppedUnparked, Stopped, AuthFails, Goes,
      routeVars, roundVars, callVars
<1>. QED  BY <1>2, <1>3, <1>4, <1>5, <1>6, <1>7, <1>8 DEF Keeps, Good

LEMMA RefreshedKeeps ==
    ASSUME TurnInv, NEW t \in Turn, Refreshed(t) PROVE Keeps(t)
<1>1. TypeOK /\ Good(t)
  BY DEF TurnInv
<1>2. TypeOK'
  <2>1. held[t] = 1 /\ used[t] \in Call /\ runs[t][used[t]] = 1
    BY <1>1 DEF TypeOK, Refreshed, Goes, Good, HeldCounted, Retries, Ledger, Budgeted, Handling, Ends, Call
  <2>. QED
    BY <1>1, <2>1 DEF TypeOK, Refreshed, Goes, Pc, InTurn, routeVars, roundVars, callVars
<1>3. \A s \in Turn \ {t} : Same(s)
  BY <1>1 DEF TypeOK, Same, Refreshed, Goes, routeVars, roundVars, callVars
<1>4. Budgeted(t)'
  BY <1>1 DEF TypeOK, Good, Budgeted, Handling, Refreshed, Goes, routeVars, roundVars,
      callVars
<1>5. Parked(t)'
  BY <1>1 DEF TypeOK, Good, Parked, Refreshed, Goes, routeVars, roundVars, callVars
<1>6. Ledger(t)'
  BY <1>1 DEF TypeOK, Good, Ledger, Sent, Refreshed, Goes, routeVars, roundVars, callVars
<1>7. Retries(t)' /\ HeldCounted(t)'
  <2>1. /\ pc[t] = "refresh" /\ pc'[t] = "again" /\ held[t] = 1 /\ retryUsed[t]
        /\ used[t] \in Call /\ \A c \in Call : runs[t][c] # 2
    BY <1>1 DEF TypeOK, Refreshed, Goes, Good, HeldCounted, Retries, Repeated, Budgeted,
        Handling, Ends, Call
  <2>2. runs[t][used[t]] = 1
    BY <1>1, <2>1 DEF Good, Ledger, TypeOK
  <2>3. \A c \in Call : runs'[t][c] = 2 <=> c = used[t]
    BY <1>1, <2>1, <2>2 DEF TypeOK, Refreshed
  <2>4. held'[t] = 2 /\ retryUsed' = retryUsed
    BY <1>1, <2>1 DEF TypeOK, Refreshed, roundVars
  <2>5. Repeated(t)'
    BY <2>1, <2>3 DEF Repeated
  <2>6. Retries(t)'
    BY <2>1, <2>3, <2>4, <2>5 DEF Retries, Before
  <2>7. HeldCounted(t)'
    BY <2>1, <2>4, <2>5 DEF HeldCounted, Ends
  <2>. QED  BY <2>6, <2>7
<1>8. Approved(t)' /\ Billed(t)' /\ StoppedUnparked(t)'
  BY <1>1 DEF TypeOK, Good, Approved, Billed, StoppedUnparked, Stopped, Ledger, Budgeted,
      Handling, Call, Gated, Refreshed, Goes, routeVars, roundVars, callVars
<1>. QED  BY <1>2, <1>3, <1>4, <1>5, <1>6, <1>7, <1>8 DEF Keeps, Good

LEMMA RefreshFailsKeeps ==
    ASSUME TurnInv, NEW t \in Turn, RefreshFails(t) PROVE Keeps(t)
<1>1. TypeOK /\ Good(t)
  BY DEF TurnInv
<1>2. TypeOK'
  BY <1>1 DEF TypeOK, Pc, Good, Budgeted, Handling, Call, RefreshFails, NextCall, Goes,
      routeVars, roundVars, callVars
<1>3. \A s \in Turn \ {t} : Same(s)
  BY <1>1 DEF TypeOK, Same, RefreshFails, NextCall, Goes, routeVars, roundVars, callVars
<1>4. Budgeted(t)'
  BY <1>1, ChatTurnAssumption DEF TypeOK, Good, Budgeted, Handling, Gated, RefreshFails,
      NextCall, Goes, routeVars, roundVars, callVars
<1>5. Parked(t)'
  BY <1>1 DEF TypeOK, Good, Parked, RefreshFails, NextCall, Goes, routeVars, roundVars,
      callVars
<1>6. Ledger(t)'
  BY <1>1 DEF TypeOK, Good, Ledger, Sent, RefreshFails, NextCall, Goes, routeVars,
      roundVars, callVars
<1>7. Retries(t)' /\ HeldCounted(t)'
  BY <1>1 DEF TypeOK, Good, Retries, HeldCounted, Repeated, Before, Ends, RefreshFails,
      NextCall, Goes, routeVars, roundVars, callVars
<1>8. Approved(t)' /\ Billed(t)' /\ StoppedUnparked(t)'
  BY <1>1 DEF TypeOK, Good, Approved, Billed, StoppedUnparked, Stopped, RefreshFails,
      NextCall, Goes, routeVars, roundVars, callVars
<1>. QED  BY <1>2, <1>3, <1>4, <1>5, <1>6, <1>7, <1>8 DEF Keeps, Good

LEMMA ApproveKeeps ==
    ASSUME TurnInv, NEW t \in Turn, NEW u \in User, NEW word \in BOOLEAN, Approve(u, t, word) PROVE Keeps(t)
<1>1. TypeOK /\ Good(t)
  BY DEF TurnInv
<1>2. TypeOK'
  BY <1>1 DEF TypeOK, Pc, InTurn, Before, Ends, Call, Approve, Goes, OwnsCard, WordGiven,
      routeVars, roundVars, callVars
<1>3. \A s \in Turn \ {t} : Same(s)
  BY <1>1 DEF TypeOK, Same, Approve, Goes, OwnsCard, WordGiven, routeVars, roundVars,
      callVars
<1>4. Budgeted(t)'
  BY <1>1 DEF TypeOK, Good, Budgeted, Handling, Approve, Goes, OwnsCard, WordGiven,
      routeVars, roundVars, callVars
<1>5. Parked(t)'
  BY <1>1 DEF TypeOK, Good, Parked, Approve, Goes, OwnsCard, WordGiven, routeVars,
      roundVars, callVars
<1>6. Ledger(t)'
  BY <1>1 DEF TypeOK, Good, Ledger, Sent, Approve, Goes, OwnsCard, WordGiven, routeVars,
      roundVars, callVars
<1>7. Retries(t)' /\ HeldCounted(t)'
  BY <1>1 DEF TypeOK, Good, Retries, HeldCounted, Repeated, Before, Ends, Ledger, Sent,
      Budgeted, Handling, Call, Approve, Goes, OwnsCard, WordGiven, routeVars, roundVars,
      callVars
<1>8. Approved(t)' /\ Billed(t)' /\ StoppedUnparked(t)'
  BY <1>1 DEF TypeOK, Good, Approved, Billed, StoppedUnparked, Stopped, Approve, Goes,
      OwnsCard, WordGiven, routeVars, roundVars, callVars
<1>. QED  BY <1>2, <1>3, <1>4, <1>5, <1>6, <1>7, <1>8 DEF Keeps, Good

LEMMA DeclineKeeps ==
    ASSUME TurnInv, NEW t \in Turn, NEW u \in User, Decline(u, t) PROVE Keeps(t)
<1>1. TypeOK /\ Good(t)
  BY DEF TurnInv
<1>2. TypeOK'
  BY <1>1 DEF TypeOK, Pc, Good, Budgeted, Handling, Call, Decline, NextCall, Goes,
      routeVars, roundVars, callVars
<1>3. \A s \in Turn \ {t} : Same(s)
  BY <1>1 DEF TypeOK, Same, Decline, NextCall, Goes, routeVars, roundVars, callVars
<1>4. Budgeted(t)'
  BY <1>1, ChatTurnAssumption DEF TypeOK, Good, Budgeted, Handling, Gated, Decline,
      NextCall, Goes, routeVars, roundVars, callVars
<1>5. Parked(t)'
  BY <1>1 DEF TypeOK, Good, Parked, Decline, NextCall, Goes, routeVars, roundVars, callVars
<1>6. Ledger(t)'
  BY <1>1 DEF TypeOK, Good, Ledger, Sent, Decline, NextCall, Goes, routeVars, roundVars,
      callVars
<1>7. Retries(t)' /\ HeldCounted(t)'
  BY <1>1 DEF TypeOK, Good, Retries, HeldCounted, Repeated, Before, Ends, Decline,
      NextCall, Goes, routeVars, roundVars, callVars
<1>8. Approved(t)' /\ Billed(t)' /\ StoppedUnparked(t)'
  BY <1>1 DEF TypeOK, Good, Approved, Billed, StoppedUnparked, Stopped, Decline, NextCall,
      Goes, routeVars, roundVars, callVars
<1>. QED  BY <1>2, <1>3, <1>4, <1>5, <1>6, <1>7, <1>8 DEF Keeps, Good

LEMMA ExpireKeeps ==
    ASSUME TurnInv, NEW t \in Turn, Expire(t) PROVE Keeps(t)
<1>1. TypeOK /\ Good(t)
  BY DEF TurnInv
<1>2. TypeOK'
  BY <1>1 DEF TypeOK, Pc, Good, Budgeted, Handling, Call, Expire, NextCall, Goes,
      routeVars, roundVars, callVars
<1>3. \A s \in Turn \ {t} : Same(s)
  BY <1>1 DEF TypeOK, Same, Expire, NextCall, Goes, routeVars, roundVars, callVars
<1>4. Budgeted(t)'
  BY <1>1, ChatTurnAssumption DEF TypeOK, Good, Budgeted, Handling, Gated, Expire,
      NextCall, Goes, routeVars, roundVars, callVars
<1>5. Parked(t)'
  BY <1>1 DEF TypeOK, Good, Parked, Expire, NextCall, Goes, routeVars, roundVars, callVars
<1>6. Ledger(t)'
  BY <1>1 DEF TypeOK, Good, Ledger, Sent, Expire, NextCall, Goes, routeVars, roundVars,
      callVars
<1>7. Retries(t)' /\ HeldCounted(t)'
  BY <1>1 DEF TypeOK, Good, Retries, HeldCounted, Repeated, Before, Ends, Expire, NextCall,
      Goes, routeVars, roundVars, callVars
<1>8. Approved(t)' /\ Billed(t)' /\ StoppedUnparked(t)'
  BY <1>1 DEF TypeOK, Good, Approved, Billed, StoppedUnparked, Stopped, Expire, NextCall,
      Goes, routeVars, roundVars, callVars
<1>. QED  BY <1>2, <1>3, <1>4, <1>5, <1>6, <1>7, <1>8 DEF Keeps, Good

LEMMA LeaveKeeps ==
    ASSUME TurnInv, NEW t \in Turn, Leave(t) PROVE Keeps(t)
<1>1. TypeOK /\ Good(t)
  BY DEF TurnInv
<1>2. TypeOK'
  <2>1. CASE pc[t] = "card"
    <3>1. Tail(batch[t]) \in Seq(Tier) /\ used[t] \in Call
      BY <1>1, <2>1, TailLemma DEF TypeOK, Good, Budgeted, Handling, Call
    <3>2. /\ pc' = [pc EXCEPT ![t] = "calls"] /\ thread' = t
          /\ batch' = [batch EXCEPT ![t] = Tail(@)] /\ fate' = [fate EXCEPT ![t][used[t]] = "unsent"]
          /\ gone' = [gone EXCEPT ![t] = TRUE] /\ timeUp' = timeUp /\ pending' \subseteq pending
          /\ UNCHANGED <<held, used, attempt, retryUsed, billed, tier, approver, typed, runs>>
      BY <2>1 DEF Leave, Abort, NextCall, Goes
    <3>. QED
      BY <1>1, <3>1, <3>2 DEF TypeOK, Pc
  <2>2. CASE pc[t] # "card"
    BY <1>1, <2>2 DEF TypeOK, Leave, Abort, Withdrawn, roundVars, callVars
  <2>. QED  BY <2>1, <2>2
<1>3. \A s \in Turn \ {t} : Same(s)
  BY <1>1 DEF TypeOK, Same, Leave, Abort, Withdrawn, NextCall, Goes, Free, routeVars,
      roundVars, callVars
<1>4. Budgeted(t)'
  BY <1>1, ChatTurnAssumption DEF TypeOK, Good, Budgeted, Handling, Gated, Leave, Abort,
      Withdrawn, NextCall, Goes, Free, routeVars, roundVars, callVars
<1>5. Parked(t)'
  BY <1>1 DEF TypeOK, Good, Parked, Leave, Abort, Withdrawn, NextCall, Goes, Free,
      routeVars, roundVars, callVars
<1>6. Ledger(t)'
  BY <1>1 DEF TypeOK, Good, Ledger, Sent, Leave, Abort, Withdrawn, NextCall, Goes, Free,
      routeVars, roundVars, callVars
<1>7. Retries(t)' /\ HeldCounted(t)'
  BY <1>1 DEF TypeOK, Good, Retries, HeldCounted, Repeated, Before, Ends, Leave, Abort,
      Withdrawn, NextCall, Goes, Free, routeVars, roundVars, callVars
<1>8. Approved(t)' /\ Billed(t)' /\ StoppedUnparked(t)'
  BY <1>1 DEF TypeOK, Good, Approved, Billed, StoppedUnparked, Stopped, Leave, Abort,
      Withdrawn, NextCall, Goes, Free, routeVars, roundVars, callVars
<1>. QED  BY <1>2, <1>3, <1>4, <1>5, <1>6, <1>7, <1>8 DEF Keeps, Good

LEMMA TimeUpKeeps ==
    ASSUME TurnInv, NEW t \in Turn, TimeUp(t) PROVE Keeps(t)
<1>1. TypeOK /\ Good(t)
  BY DEF TurnInv
<1>2. TypeOK'
  <2>1. CASE pc[t] = "card"
    <3>1. Tail(batch[t]) \in Seq(Tier) /\ used[t] \in Call
      BY <1>1, <2>1, TailLemma DEF TypeOK, Good, Budgeted, Handling, Call
    <3>2. /\ pc' = [pc EXCEPT ![t] = "calls"] /\ thread' = t
          /\ batch' = [batch EXCEPT ![t] = Tail(@)] /\ fate' = [fate EXCEPT ![t][used[t]] = "unsent"]
          /\ timeUp' = [timeUp EXCEPT ![t] = TRUE] /\ gone' = gone /\ pending' \subseteq pending
          /\ UNCHANGED <<held, used, attempt, retryUsed, billed, tier, approver, typed, runs>>
      BY <2>1 DEF TimeUp, Abort, NextCall, Goes
    <3>. QED
      BY <1>1, <3>1, <3>2 DEF TypeOK, Pc
  <2>2. CASE pc[t] # "card"
    BY <1>1, <2>2 DEF TypeOK, TimeUp, Abort, Withdrawn, roundVars, callVars
  <2>. QED  BY <2>1, <2>2
<1>3. \A s \in Turn \ {t} : Same(s)
  BY <1>1 DEF TypeOK, Same, TimeUp, Abort, Withdrawn, NextCall, Goes, Free, routeVars,
      roundVars, callVars
<1>4. Budgeted(t)'
  BY <1>1, ChatTurnAssumption DEF TypeOK, Good, Budgeted, Handling, Gated, TimeUp, Abort,
      Withdrawn, NextCall, Goes, Free, routeVars, roundVars, callVars
<1>5. Parked(t)'
  BY <1>1 DEF TypeOK, Good, Parked, TimeUp, Abort, Withdrawn, NextCall, Goes, Free,
      routeVars, roundVars, callVars
<1>6. Ledger(t)'
  BY <1>1 DEF TypeOK, Good, Ledger, Sent, TimeUp, Abort, Withdrawn, NextCall, Goes, Free,
      routeVars, roundVars, callVars
<1>7. Retries(t)' /\ HeldCounted(t)'
  BY <1>1 DEF TypeOK, Good, Retries, HeldCounted, Repeated, Before, Ends, TimeUp, Abort,
      Withdrawn, NextCall, Goes, Free, routeVars, roundVars, callVars
<1>8. Approved(t)' /\ Billed(t)' /\ StoppedUnparked(t)'
  BY <1>1 DEF TypeOK, Good, Approved, Billed, StoppedUnparked, Stopped, TimeUp, Abort,
      Withdrawn, NextCall, Goes, Free, routeVars, roundVars, callVars
<1>. QED  BY <1>2, <1>3, <1>4, <1>5, <1>6, <1>7, <1>8 DEF Keeps, Good

-----------------------------------------------------------------------------
(* The invariant holds in every reachable state.                           *)

LEMMA InitInv == Init => TurnInv
<1>. SUFFICES ASSUME Init PROVE TurnInv
  OBVIOUS
<1>1. TypeOK
  BY ChatTurnAssumption DEF Init, TypeOK, Pc, Call
<1>2. ASSUME NEW t \in Turn PROVE Good(t)
  BY DEF Init, Good, Budgeted, Parked, Ledger, Repeated, Retries, HeldCounted, Approved, Billed,
         StoppedUnparked, Stopped, Handling, Sent, Before, Call
<1>. QED  BY <1>1, <1>2 DEF TurnInv

LEMMA TurnKeeps ==
    ASSUME TurnInv, NEW t \in Turn,
           \/ Arrive(t) \/ RouteStep(t)
           \/ ModelStep(t) \/ WaitOver(t) \/ CodeStep(t) \/ CallStep(t)
           \/ UserStep(t) \/ Expire(t)
           \/ Leave(t) \/ TimeUp(t)
    PROVE  Keeps(t)
<1>1. CASE Arrive(t) \/ RouteStep(t)
  BY <1>1, ArriveKeeps, RejectedKeeps, AdmittedKeeps, AcquireFailsKeeps, AcquiredKeeps,
     ReadInVainKeeps, ReadKeeps, OpenedKeeps, SetUpKeeps DEF RouteStep
<1>2. CASE ModelStep(t) \/ WaitOver(t)
  BY <1>2, ModelCallsKeeps, ModelEndsKeeps, ModelBusyKeeps, ModelStoppedKeeps, ModelFailsKeeps,
     WaitOverKeeps DEF ModelStep
<1>3. CASE CodeStep(t)
  BY <1>3, TopClosesKeeps, AskModelKeeps, EndRoundKeeps, HandleRefusedKeeps, HandleOwnKeeps,
     HandleDirectKeeps, HandleGatedKeeps DEF CodeStep
<1>4. CASE CallStep(t)
  BY <1>4, OwnDoneKeeps, ToolDoneKeeps, AuthFailsKeeps, RefreshedKeeps, RefreshFailsKeeps
     DEF CallStep
<1>5. CASE UserStep(t) \/ Expire(t)
  BY <1>5, ApproveKeeps, DeclineKeeps, ExpireKeeps DEF UserStep
<1>6. CASE Leave(t) \/ TimeUp(t)
  BY <1>6, LeaveKeeps, TimeUpKeeps
<1>. QED  BY <1>1, <1>2, <1>3, <1>4, <1>5, <1>6

LEMMA Stutter == ASSUME TurnInv, UNCHANGED vars PROVE TurnInv'
<1>1. TypeOK'
  BY DEF TurnInv, TypeOK, vars, routeVars, roundVars, callVars
<1>2. ASSUME NEW t \in Turn PROVE Good(t)'
  BY SameGood DEF TurnInv, Same, vars, routeVars, roundVars, callVars
<1>. QED  BY <1>1, <1>2 DEF TurnInv

\* The inductive invariant of the turns.
THEOREM TurnInvariant == SafeSpec => []TurnInv
<1>1. TurnInv /\ [Next \/ Done]_vars => TurnInv'
  <2>. SUFFICES ASSUME TurnInv, [Next \/ Done]_vars PROVE TurnInv'
    OBVIOUS
  <2>1. CASE Next
    BY <2>1, TurnKeeps, KeepsInv DEF Next
  <2>2. CASE Done \/ UNCHANGED vars
    BY <2>2, Stutter DEF Done
  <2>. QED  BY <2>1, <2>2
<1>. QED  BY InitInv, <1>1, PTL DEF SafeSpec

\* The state of turns, broker and calls keeps its types: no turn goes over its
\* budget of calls, or holds more than two uses of children.
THEOREM TurnTypes == SafeSpec => []TypeOK
<1>1. TurnInv => TypeOK
  BY DEF TurnInv
<1>. QED  BY <1>1, TurnInvariant, PTL

\* The broker keeps exactly the cards that turns are parked on.
THEOREM CardsExact == SafeSpec => []CardsParked
<1>1. TurnInv => CardsParked
  <2>. SUFFICES ASSUME TurnInv PROVE CardsParked
    OBVIOUS
  <2>1. pending \subseteq Turn \X Call
    BY DEF TurnInv, TypeOK
  <2>2. ASSUME NEW t \in Turn, NEW c \in Call
        PROVE  <<t, c>> \in pending <=> pc[t] = "card" /\ used[t] = c
    BY DEF TurnInv, Good, Parked
  <2>3. ASSUME NEW t \in Turn, pc[t] = "card" PROVE used[t] \in Call
    BY <2>3 DEF TurnInv, TypeOK, Good, Budgeted, Handling, Call
  <2>. QED  BY <2>1, <2>2, <2>3 DEF CardsParked
<1>. QED  BY <1>1, TurnInvariant, PTL

\* No gated call is ever sent without the approval of its turn's own user.
THEOREM OnlyApproved == SafeSpec => []RunsApproved
<1>1. TurnInv => RunsApproved
  BY DEF TurnInv, Good, Approved, RunsApproved
<1>. QED  BY <1>1, TurnInvariant, PTL

\* A turn is billed when it is over, and once.
THEOREM BilledExactly == SafeSpec => []BilledOnce
<1>1. TurnInv => BilledOnce
  BY DEF TurnInv, Good, Billed, BilledOnce
<1>. QED  BY <1>1, TurnInvariant, PTL

\* Each use of a child is given back on every way out of the route.
THEOREM UsesReturned == SafeSpec => []HeldReleased
<1>1. TurnInv => HeldReleased
  <2>. SUFFICES ASSUME TurnInv, NEW t \in Turn
       PROVE  held[t] = IF pc[t] \in Ends \cup {"idle", "quota", "acquiring"} THEN 0
                        ELSE 1 + Cardinality({c \in Call : runs[t][c] = 2})
    BY DEF HeldReleased
  <2>. DEFINE Twice == {c \in Call : runs[t][c] = 2}
  <2>1. Retries(t) /\ HeldCounted(t)
    BY DEF TurnInv, Good
  <2>2. CASE Twice = {}
    <3>1. ~Repeated(t) /\ Cardinality(Twice) = 0
      BY <2>2, FS_EmptySet DEF Repeated
    <3>. QED  BY <2>1, <3>1 DEF HeldCounted
  <2>3. CASE Twice # {}
    <3>1. PICK c \in Call : runs[t][c] = 2
      BY <2>3
    <3>2. Twice = {c}
      BY <2>1, <3>1 DEF Retries
    <3>3. Repeated(t) /\ Cardinality(Twice) = 1
      BY <3>1, <3>2, FS_Singleton DEF Repeated
    <3>. QED  BY <2>1, <3>3 DEF HeldCounted
  <2>. QED  BY <2>2, <2>3
<1>. QED  BY <1>1, TurnInvariant, PTL

-----------------------------------------------------------------------------
(* The turns implement ApprovedWrites.                                     *)

Promised == Promise!Next \/ UNCHANGED Promise!promiseVars

\* The calls of turn t but one stay as they are.
LEMMA Quiet ==
    ASSUME UNCHANGED <<gone, timeUp, fate, tier, approver, runs>> PROVE Promised
  BY DEF Promised, Promise!promiseVars, Stopped

\* While a turn is between two calls none of them is open.
LEMMA NotBusy == ASSUME NEW t \in Turn, Good(t), pc[t] = "calls" PROVE ~Promise!Busy(t)
  BY DEF Good, Ledger, Promise!Busy, Sent

\* Taking a call up begins it, in a turn that is not stopped.
LEMMA TakesBegins ==
    ASSUME TurnInv, NEW t \in Turn, NEW k, Takes(t, k), pc[t] = "calls"
    PROVE  /\ used'[t] \in Call /\ ~Stopped(t) /\ fate[t][used'[t]] = "none"
           /\ ~Promise!Busy(t)
           /\ UNCHANGED <<gone, timeUp>>
<1>1. TypeOK /\ Good(t)
  BY DEF TurnInv
<1>2. ~Stopped(t) /\ batch[t] # <<>> /\ used'[t] = used[t] + 1 /\ UNCHANGED <<gone, timeUp>>
  BY <1>1 DEF Takes, RoundOver, TypeOK, routeVars
<1>3. used'[t] \in Call
  BY <1>1, <1>2, ChatTurnAssumption, TailLemma DEF TypeOK, Good, Budgeted, Call
<1>4. fate[t][used'[t]] = "none"
  BY <1>1, <1>2, <1>3 DEF TypeOK, Good, Ledger
<1>. QED  BY <1>1, <1>2, <1>3, <1>4, NotBusy

\* The call that is being handled.
LEMMA Current ==
    ASSUME TurnInv, NEW t \in Turn, pc[t] \in Handling PROVE used[t] \in Call
  BY DEF TurnInv, TypeOK, Good, Budgeted, Call

LEMMA RouteKeepsPromise ==
    ASSUME TurnInv, NEW t \in Turn,
           Arrive(t) \/ RouteStep(t) \/ ModelStep(t) \/ WaitOver(t)
    PROVE  Promised
<1>1. UNCHANGED <<gone, timeUp, fate, tier, approver, runs>>
  BY DEF RouteStep, ModelStep, Arrive, Rejected, Admitted, AcquireFails, Acquired, ReadInVain, Read,
         Opened, SetUp, ModelCalls, ModelEnds, ModelBusy, ModelStopped, ModelFails, WaitOver,
         routeVars, callVars
<1>. QED  BY <1>1, Quiet

LEMMA CodeKeepsPromise == ASSUME TurnInv, NEW t \in Turn, CodeStep(t) PROVE Promised
<1>1. CASE TopCloses(t) \/ AskModel(t) \/ EndRound(t)
  <2>1. UNCHANGED <<gone, timeUp, fate, tier, approver, runs>>
    BY <1>1 DEF TopCloses, AskModel, EndRound, routeVars, callVars
  <2>. QED  BY <2>1, Quiet
<1>2. CASE HandleRefused(t) \/ HandleOwn(t)
  <2>1. PICK k : Takes(t, k)
    BY <1>2 DEF HandleRefused, HandleOwn
  <2>2. /\ pc[t] = "calls" /\ fate' = [fate EXCEPT ![t][used'[t]] = "unsent"]
        /\ UNCHANGED <<tier, approver, runs>>
    BY <1>2 DEF HandleRefused, HandleOwn, Runs
  <2>3. Promise!Skip(t, used'[t])
    BY <2>1, <2>2, TakesBegins DEF Promise!Skip, Promise!Begin, Promise!Becomes, Stopped
  <2>. QED  BY <2>1, <2>2, <2>3, TakesBegins DEF Promised, Promise!Next
<1>3. CASE HandleDirect(t)
  <2>1. Takes(t, "direct") /\ pc[t] = "calls"
    BY <1>3 DEF HandleDirect, Runs
  <2>2. Promise!RunFreely(t, used'[t])
    BY <1>3, <2>1, TakesBegins
    DEF HandleDirect, Promise!RunFreely, Promise!Begin, Promise!Becomes, Stopped
  <2>. QED  BY <2>1, <2>2, TakesBegins DEF Promised, Promise!Next
<1>4. ASSUME NEW k \in Gated, HandleGated(t, k) PROVE Promised
  <2>1. Takes(t, k) /\ pc[t] = "calls"
    BY <1>4 DEF HandleGated, Runs
  <2>2. Promise!Ask(t, used'[t])
    BY <1>4, <2>1, TakesBegins
    DEF HandleGated, Promise!Ask, Promise!Begin, Promise!Becomes, Stopped
  <2>. QED  BY <2>1, <2>2, TakesBegins DEF Promised, Promise!Next
<1>. QED  BY <1>1, <1>2, <1>3, <1>4 DEF CodeStep

\* A call that was running is over.
LEMMA OverAnswers ==
    ASSUME TurnInv, NEW t \in Turn, NEW p \in Sent, NextCall(t, p, "over"), UNCHANGED <<gone, timeUp>>
    PROVE  Promised
<1>1. pc[t] \in Sent /\ Good(t)
  BY DEF TurnInv, NextCall, Goes
<1>2. used[t] \in Call
  BY <1>1, Current DEF Sent, Handling
<1>3. Promise!Answered(t, used[t])
  BY <1>1 DEF Good, Ledger, NextCall, Promise!Answered, Promise!Becomes, Stopped
<1>. QED  BY <1>2, <1>3 DEF Promised, Promise!Next

LEMMA CallKeepsPromise == ASSUME TurnInv, NEW t \in Turn, CallStep(t) PROVE Promised
<1>. Good(t) /\ TypeOK
  BY DEF TurnInv
<1>1. CASE OwnDone(t)
  <2>1. pc[t] = "own" /\ fate' = [fate EXCEPT ![t][used[t]] = "unsent"]
        /\ UNCHANGED <<gone, timeUp, tier, approver, runs>>
    BY <1>1 DEF OwnDone, NextCall, Goes
  <2>2. used[t] \in Call /\ fate[t][used[t]] = "unsent"
    BY <2>1, Current DEF Good, Ledger, Handling
  <2>3. fate' = fate
    BY <2>1, <2>2 DEF TypeOK
  <2>. QED  BY <2>1, <2>3, Quiet
<1>2. CASE ToolDone(t) \/ RefreshFails(t)
  <2>1. UNCHANGED <<gone, timeUp>> /\ \E p \in Sent : NextCall(t, p, "over")
    BY <1>2 DEF ToolDone, RefreshFails, Sent
  <2>. QED  BY <2>1, OverAnswers
<1>3. CASE AuthFails(t)
  <2>1. UNCHANGED <<gone, timeUp, fate, tier, approver, runs>>
    BY <1>3 DEF AuthFails, routeVars, callVars
  <2>. QED  BY <2>1, Quiet
<1>4. CASE Refreshed(t)
  <2>1. pc[t] = "refresh" /\ runs' = [runs EXCEPT ![t][used[t]] = @ + 1]
        /\ UNCHANGED <<gone, timeUp, fate, tier, approver>>
    BY <1>4 DEF Refreshed, Goes
  <2>2. /\ used[t] \in Call /\ fate[t][used[t]] = "running" /\ runs[t][used[t]] = 1
        /\ ~Promise!Retried(t)
    BY <2>1, Current DEF Good, Ledger, Retries, Repeated, Sent, Handling, Promise!Retried
  <2>3. runs' = [runs EXCEPT ![t][used[t]] = 2]
    BY <2>1, <2>2 DEF TypeOK
  <2>4. Promise!RunAgain(t, used[t])
    BY <2>1, <2>2, <2>3 DEF Promise!RunAgain, Stopped
  <2>. QED  BY <2>2, <2>4 DEF Promised, Promise!Next
<1>. QED  BY <1>1, <1>2, <1>3, <1>4 DEF CallStep

LEMMA AnswerKeepsPromise == ASSUME TurnInv, NEW t \in Turn, UserStep(t) \/ Expire(t) PROVE Promised
<1>. Good(t) /\ TypeOK
  BY DEF TurnInv
<1>1. ASSUME NEW u \in User, NEW word \in BOOLEAN, Approve(u, t, word) PROVE Promised
  <2>1. /\ pc[t] = "card" /\ used[t] \in Call /\ u = Owner[t]
        /\ fate[t][used[t]] = "waiting" /\ ~Stopped(t)
    BY <1>1, Current DEF Approve, Goes, OwnsCard, Good, Ledger, StoppedUnparked, Handling
  <2>2. Promise!Approve(t, used[t])
    BY <1>1, <2>1 DEF Approve, routeVars, Promise!Approve, Promise!Becomes, Stopped
  <2>. QED  BY <2>1, <2>2 DEF Promised, Promise!Next
<1>2. ASSUME NextCall(t, "card", "unsent"), UNCHANGED <<gone, timeUp>> PROVE Promised
  <2>1. pc[t] = "card" /\ used[t] \in Call /\ fate[t][used[t]] = "waiting"
    BY <1>2, Current DEF NextCall, Goes, Good, Ledger, Handling
  <2>2. Promise!Refuse(t, used[t])
    BY <1>2, <2>1 DEF NextCall, Promise!Refuse, Promise!Becomes, Stopped
  <2>. QED  BY <2>1, <2>2 DEF Promised, Promise!Next
<1>. QED  BY <1>1, <1>2 DEF UserStep, Decline, Expire

LEMMA StopKeepsPromise == ASSUME TurnInv, NEW t \in Turn, Leave(t) \/ TimeUp(t) PROVE Promised
<1>. Good(t) /\ TypeOK
  BY DEF TurnInv
<1>1. /\ Abort(t) /\ (Stopped(t) => pc[t] # "card")
      /\ {s \in Turn : Stopped(s)'} = {s \in Turn : Stopped(s)} \cup {t}
  BY DEF Leave, TimeUp, TypeOK, Stopped, Good, StoppedUnparked
<1>2. CASE pc[t] = "card"
  <2>1. /\ fate' = [fate EXCEPT ![t][used[t]] = "unsent"]
        /\ UNCHANGED <<tier, approver, runs>>
    BY <1>1, <1>2 DEF Abort, NextCall
  <2>2. used[t] \in Call /\ \A c \in Call : fate[t][c] = "waiting" <=> c = used[t]
    BY <1>2, Current DEF Good, Ledger, Handling
  <2>3. fate' = [fate EXCEPT ![t] =
                  [c \in Call |-> IF @[c] = "waiting" THEN "unsent" ELSE @[c]]]
    <3>1. fate \in [Turn -> [Call -> {"none", "waiting", "unsent", "running", "over"}]]
      BY DEF TypeOK
    <3>2. [fate[t] EXCEPT ![used[t]] = "unsent"] =
            [c \in Call |-> IF fate[t][c] = "waiting" THEN "unsent" ELSE fate[t][c]]
      BY <2>2, <3>1
    <3>. QED  BY ONLY <2>1, <3>1, <3>2
  <2>4. Promise!Stop(t)
    BY <1>1, <1>2, <2>1, <2>3 DEF Promise!Stop
  <2>. QED  BY <2>4 DEF Promised, Promise!Next
<1>3. CASE pc[t] # "card"
  <2>1. UNCHANGED <<fate, tier, approver, runs>>
    BY <1>1, <1>3 DEF Abort, callVars
  <2>2. \A c \in Call : fate[t][c] # "waiting"
    BY <1>3 DEF Good, Ledger
  <2>3. fate' = [fate EXCEPT ![t] =
                  [c \in Call |-> IF @[c] = "waiting" THEN "unsent" ELSE @[c]]]
    BY <2>1, <2>2 DEF TypeOK
  <2>4. CASE Stopped(t)
    BY <1>1, <2>1, <2>4 DEF Promised, Promise!promiseVars
  <2>5. CASE ~Stopped(t)
    <3>1. Promise!Stop(t)
      BY <1>1, <2>1, <2>3, <2>5 DEF Promise!Stop
    <3>. QED  BY <3>1 DEF Promised, Promise!Next
  <2>. QED  BY <2>4, <2>5
<1>. QED  BY <1>2, <1>3

\* After a stop no call begins; what is gated runs only when its owner said yes;
\* and no call is sent again but one, once.
THEOREM TurnsKeepPromise == SafeSpec => PromiseKept
<1>1. Init => Promise!Init
  BY ChatTurnAssumption DEF Init, Promise!Init, Promise!OneEach, Stopped
<1>2. TurnInv /\ [Next \/ Done]_vars => [Promise!Next]_(Promise!promiseVars)
  <2>. SUFFICES ASSUME TurnInv, [Next \/ Done]_vars PROVE Promised
    BY DEF Promised
  <2>1. CASE Next
    BY <2>1, RouteKeepsPromise, CodeKeepsPromise, CallKeepsPromise, AnswerKeepsPromise,
       StopKeepsPromise DEF Next
  <2>2. CASE Done \/ UNCHANGED vars
    <3>1. UNCHANGED <<gone, timeUp, fate, tier, approver, runs>>
      BY <2>2 DEF Done, vars, routeVars, callVars
    <3>. QED  BY <3>1, Quiet
  <2>. QED  BY <2>1, <2>2
<1>. QED  BY <1>1, <1>2, TurnInvariant, PTL DEF SafeSpec, PromiseKept, Promise!Spec
-----------------------------------------------------------------------------
(* Every turn winds down.                                                  *)

\* How far a turn at p is from its end or its next call: b is the batch, a the
\* retries of this model call, stop whether the turn is stopped.
LeftAt(p, b, a, stop) ==
    CASE p \in Ends                     -> 0
      [] p = "top"                      -> IF stop THEN 1 ELSE 4 + 2 * MaxRetries
      [] p = "calls"                    -> IF b # <<>> THEN 2 ELSE 5 + 2 * MaxRetries
      [] p = "model"                    -> 3 + 2 * (MaxRetries - a)
      [] p = "wait"                     -> 4 + 2 * (MaxRetries - a)
      [] p \in {"own", "again", "setup"} -> 6 + 2 * MaxRetries
      [] p \in {"refresh", "opening"}   -> 7 + 2 * MaxRetries
      [] p \in {"tool", "reading"}      -> 8 + 2 * MaxRetries
      [] p \in {"card", "acquiring"}    -> 9 + 2 * MaxRetries
      [] p = "quota"                    -> 10 + 2 * MaxRetries
      [] p = "idle"                     -> 11 + 2 * MaxRetries

Left(t) == LeftAt(pc[t], batch[t], attempt[t], Stopped(t))

\* A call more is taken up, of the MaxCalls there can be, or less is left before
\* that.
Closer(t) == used'[t] > used[t] \/ (used'[t] = used[t] /\ Left(t)' < Left(t))
Level(t)  == used'[t] = used[t] /\ Left(t)' = Left(t)

\* The signal of t fires: its client leaves, or its time is up, each once.
Signalled(t) == (gone'[t] /\ ~gone[t]) \/ (timeUp'[t] /\ ~timeUp[t])

\* No step of anybody leads a turn away from its end, and each step brings some
\* turn closer to its own, but for the two signals each turn may have: the rounds,
\* the waits between retries, the refresh and the cards of a turn make no loop,
\* whatever the model answers.  (What TurnEnds needs beside fairness.)
TurnsWindDown ==
    [][/\ \A t \in Turn : Closer(t) \/ Level(t)
       /\ \E t \in Turn : Closer(t) \/ Signalled(t)]_vars

AttemptsFresh == \A t \in Turn : pc[t] \notin {"model", "wait"} => attempt[t] = 0

Untouched(t) ==
    /\ pc'[t] = pc[t] /\ batch'[t] = batch[t] /\ attempt'[t] = attempt[t] /\ used'[t] = used[t]
    /\ gone'[t] = gone[t] /\ timeUp'[t] = timeUp[t]

LEMMA UntouchedLevel == ASSUME NEW t \in Turn, Untouched(t) PROVE Level(t)
  BY DEF Untouched, Level, Left, Stopped

LEMMA FreshKept ==
    ASSUME TypeOK, AttemptsFresh, [Next \/ Done]_vars
    PROVE  AttemptsFresh'
<1>. USE DEF TypeOK, AttemptsFresh, Goes, Runs, routeVars, roundVars, callVars
<1>1. ASSUME NEW t \in Turn, Arrive(t) \/ RouteStep(t) PROVE AttemptsFresh'
  BY <1>1 DEF Arrive, RouteStep, Rejected, Admitted, AcquireFails, Acquired, ReadInVain, Read,
              Opened, SetUp
<1>2. ASSUME NEW t \in Turn, ModelStep(t) \/ WaitOver(t) PROVE AttemptsFresh'
  BY <1>2 DEF ModelStep, ModelCalls, ModelEnds, ModelBusy, ModelStopped, ModelFails, WaitOver
<1>3. ASSUME NEW t \in Turn, CodeStep(t) PROVE AttemptsFresh'
  BY <1>3 DEF CodeStep, TopCloses, AskModel, EndRound, HandleRefused, HandleOwn, HandleDirect,
              HandleGated, Takes
<1>4. ASSUME NEW t \in Turn, NEW p, NEW how, p \notin {"model", "wait"}, NextCall(t, p, how)
      PROVE  AttemptsFresh'
  BY <1>4 DEF NextCall
<1>5. ASSUME NEW t \in Turn, CallStep(t) \/ UserStep(t) \/ Expire(t) PROVE AttemptsFresh'
  BY <1>4, <1>5 DEF CallStep, OwnDone, ToolDone, AuthFails, Refreshed, RefreshFails, UserStep,
                    Approve, Decline, Expire
<1>6. ASSUME NEW t \in Turn, Leave(t) \/ TimeUp(t) PROVE AttemptsFresh'
  BY <1>4, <1>6 DEF Leave, TimeUp, Abort
<1>7. CASE Done \/ UNCHANGED vars
  BY <1>7 DEF Done, vars
<1>. QED  BY <1>1, <1>2, <1>3, <1>5, <1>6, <1>7 DEF Next

\* What a step of t has to show.
Advances(t) == Closer(t) /\ \A s \in Turn \ {t} : Untouched(s)

\* From the arrival to the first round.
LEMMA RouteAdvances ==
    ASSUME TypeOK, NEW t \in Turn, Arrive(t) \/ RouteStep(t)
    PROVE  Advances(t)
<1>. USE DEF TypeOK, Goes, routeVars, roundVars, callVars
<1>1. \A s \in Turn \ {t} : Untouched(s)
  BY DEF Untouched, Arrive, RouteStep, Rejected, Admitted, AcquireFails, Acquired, ReadInVain,
         Read, Opened, SetUp
<1>2. used'[t] = used[t] /\ MaxRetries \in Nat
  BY ChatTurnAssumption
     DEF Arrive, RouteStep, Rejected, Admitted, AcquireFails, Acquired, ReadInVain, Read, Opened,
         SetUp
<1>3. Left(t)' < Left(t)
  BY SMTT(30), <1>2
     DEF Left, LeftAt, Ends, Arrive, RouteStep, Rejected, Admitted, AcquireFails, Acquired,
         ReadInVain, Read, Opened, SetUp
<1>. QED  BY <1>1, <1>2, <1>3 DEF Advances, Closer

\* Its requests to the model and the waits between them.
LEMMA ModelAdvances ==
    ASSUME TypeOK, NEW t \in Turn, ModelStep(t) \/ WaitOver(t)
    PROVE  Advances(t)
<1>. USE DEF TypeOK, Goes, routeVars, roundVars, callVars
<1>1. \A s \in Turn \ {t} : Untouched(s)
  BY DEF Untouched, ModelStep, ModelCalls, ModelEnds, ModelBusy, ModelStopped, ModelFails, WaitOver
<1>2. used'[t] = used[t] /\ MaxRetries \in Nat /\ attempt[t] \in 0..MaxRetries
  BY ChatTurnAssumption
     DEF ModelStep, ModelCalls, ModelEnds, ModelBusy, ModelStopped, ModelFails, WaitOver
<1>3. CASE ModelCalls(t)
  <2>1. /\ pc[t] = "model" /\ pc'[t] = "calls" /\ batch'[t] # <<>>
    BY <1>3, ChatTurnAssumption DEF ModelCalls
  <2>. QED  BY <2>1, <1>1, <1>2 DEF Advances, Closer, Left, LeftAt, Ends
<1>4. CASE ModelEnds(t) \/ ModelFails(t)
  <2>1. pc[t] = "model" /\ pc'[t] = "done"
    BY <1>4 DEF ModelEnds, ModelFails
  <2>. QED  BY <2>1, <1>1, <1>2 DEF Advances, Closer, Left, LeftAt, Ends
<1>5. CASE ModelBusy(t)
  <2>1. /\ pc[t] = "model" /\ pc'[t] = "wait"
        /\ attempt[t] < MaxRetries /\ attempt'[t] = attempt[t] + 1
    BY <1>5 DEF ModelBusy
  <2>. QED  BY <2>1, <1>1, <1>2 DEF Advances, Closer, Left, LeftAt, Ends
<1>6. CASE ModelStopped(t)
  <2>1. pc[t] \in {"model", "wait"} /\ pc'[t] = "top" /\ Stopped(t)'
    BY <1>6 DEF ModelStopped, Stopped
  <2>. QED  BY <2>1, <1>1, <1>2 DEF Advances, Closer, Left, LeftAt, Ends
<1>7. CASE WaitOver(t)
  <2>1. pc[t] = "wait" /\ pc'[t] = "model" /\ attempt'[t] = attempt[t]
    BY <1>7 DEF WaitOver
  <2>. QED  BY <2>1, <1>1, <1>2 DEF Advances, Closer, Left, LeftAt, Ends
<1>. QED  BY <1>3, <1>4, <1>5, <1>6, <1>7 DEF ModelStep

\* The running code: the top of the loop, and the next call.
LEMMA CodeAdvances ==
    ASSUME TypeOK, AttemptsFresh, NEW t \in Turn, CodeStep(t)
    PROVE  Advances(t)
<1>. USE DEF TypeOK, Runs, routeVars, roundVars, callVars
<1>1. \A s \in Turn \ {t} : Untouched(s)
  BY DEF Untouched, CodeStep, TopCloses, AskModel, EndRound, HandleRefused, HandleOwn,
         HandleDirect, HandleGated, Takes, Close
<1>2. MaxRetries \in Nat /\ used[t] \in Nat
  BY ChatTurnAssumption
<1>3. CASE TopCloses(t)
  <2>1. pc[t] = "top" /\ pc'[t] = "done" /\ used'[t] = used[t]
    BY <1>3 DEF TopCloses
  <2>. QED  BY <2>1, <1>1, <1>2 DEF Advances, Closer, Left, LeftAt, Ends
<1>4. CASE AskModel(t)
  <2>1. /\ pc[t] = "top" /\ pc'[t] = "model" /\ used'[t] = used[t] /\ attempt'[t] = 0
        /\ ~Stopped(t)
    BY <1>4 DEF AskModel, MustClose, AttemptsFresh
  <2>. QED  BY <2>1, <1>1, <1>2 DEF Advances, Closer, Left, LeftAt, Ends
<1>5. CASE EndRound(t)
  <2>1. /\ pc[t] = "calls" /\ pc'[t] = "top" /\ used'[t] = used[t]
        /\ batch[t] = <<>> \/ Stopped(t)'
    BY <1>5 DEF EndRound, RoundOver, Stopped
  <2>. QED  BY <2>1, <1>1, <1>2 DEF Advances, Closer, Left, LeftAt, Ends
<1>6. ASSUME NEW k, Takes(t, k) PROVE Advances(t)
  <2>1. used'[t] > used[t]
    BY <1>2, <1>6 DEF Takes
  <2>. QED  BY <2>1, <1>1 DEF Advances, Closer
<1>. QED
  BY <1>3, <1>4, <1>5, <1>6 DEF CodeStep, HandleRefused, HandleOwn, HandleDirect, HandleGated

\* A call that is over gives way to the rest of its batch.
LEMMA NextCallAdvances ==
    ASSUME TypeOK, NEW t \in Turn, NEW how,
           NEW p \in {"own", "card", "tool", "refresh", "again"}, NextCall(t, p, how),
           \A s \in Turn \ {t} : gone'[s] = gone[s] /\ timeUp'[s] = timeUp[s]
    PROVE  Advances(t)
<1>. USE DEF TypeOK, Goes
<1>1. /\ pc[t] = p /\ pc'[t] = "calls" /\ used'[t] = used[t] /\ MaxRetries \in Nat
      /\ \A s \in Turn \ {t} : Untouched(s)
  BY ChatTurnAssumption DEF NextCall, Untouched
<1>. QED  BY <1>1 DEF Advances, Closer, Left, LeftAt, Ends

LEMMA CallAdvances ==
    ASSUME TypeOK, NEW t \in Turn, CallStep(t) \/ UserStep(t) \/ Expire(t)
    PROVE  Advances(t)
<1>. USE DEF TypeOK, Goes, routeVars, roundVars, callVars
<1>1. MaxRetries \in Nat
  BY ChatTurnAssumption
<1>2. ASSUME NEW how, NEW p \in {"own", "card", "tool", "refresh", "again"}, NextCall(t, p, how),
             UNCHANGED <<gone, timeUp>>
      PROVE  Advances(t)
  BY <1>2, NextCallAdvances
<1>3. ASSUME NEW p, NEW q, Goes(t, p, q), UNCHANGED <<gone, timeUp, roundVars>>,
             <<p, q>> \in {<<"refresh", "again">>, <<"card", "tool">>}
      PROVE  Advances(t)
  <2>1. /\ pc[t] = p /\ pc'[t] = q /\ used'[t] = used[t]
        /\ \A s \in Turn \ {t} : Untouched(s)
    BY <1>3 DEF Untouched
  <2>. QED  BY <2>1, <1>1, <1>3 DEF Advances, Closer, Left, LeftAt, Ends
<1>4. CASE AuthFails(t)
  <2>1. /\ pc[t] = "tool" /\ pc'[t] = "refresh" /\ used'[t] = used[t]
        /\ \A s \in Turn \ {t} : Untouched(s)
    BY <1>4 DEF AuthFails, Untouched
  <2>. QED  BY <2>1, <1>1 DEF Advances, Closer, Left, LeftAt, Ends
<1>5. CASE Refreshed(t)
  BY <1>3, <1>5 DEF Refreshed
<1>6. CASE OwnDone(t) \/ ToolDone(t) \/ RefreshFails(t) \/ Expire(t)
  BY <1>2, <1>6 DEF OwnDone, ToolDone, RefreshFails, Expire
<1>7. ASSUME NEW u \in User, NEW word \in BOOLEAN, Approve(u, t, word) PROVE Advances(t)
  BY <1>3, <1>7 DEF Approve
<1>8. ASSUME NEW u \in User, Decline(u, t) PROVE Advances(t)
  BY <1>2, <1>8 DEF Decline
<1>. QED  BY <1>4, <1>5, <1>6, <1>7, <1>8 DEF CallStep, UserStep

\* A signal: a parked turn goes on, any other is left where it is.
LEMMA AbortLevel ==
    ASSUME TypeOK, NEW t \in Turn, Leave(t) \/ TimeUp(t)
    PROVE  Signalled(t) /\ \A s \in Turn : Closer(s) \/ Level(s)
<1>. USE DEF TypeOK, roundVars, callVars
<1>1. Signalled(t) /\ \A s \in Turn \ {t} : gone'[s] = gone[s] /\ timeUp'[s] = timeUp[s]
  BY DEF Leave, TimeUp, Signalled
<1>2. Abort(t)
  BY DEF Leave, TimeUp
<1>3. CASE pc[t] = "card"
  <2>1. NextCall(t, "card", "unsent")
    BY <1>2, <1>3 DEF Abort
  <2>2. Advances(t)
    BY <1>1, <2>1, NextCallAdvances
  <2>. QED  BY <1>1, <2>2, UntouchedLevel DEF Advances
<1>4. CASE pc[t] # "card"
  <2>1. UNCHANGED <<pc, roundVars>> /\ pc[t] \in Before \cup InTurn
    BY <1>2, <1>4 DEF Abort
  <2>2. \A s \in Turn \ {t} : Level(s)
    BY <1>1, <2>1, UntouchedLevel DEF Untouched
  <2>3. pc[t] # "top" /\ used'[t] = used[t] /\ pc'[t] = pc[t] /\ batch'[t] = batch[t]
        /\ attempt'[t] = attempt[t]
    BY <2>1 DEF Before, InTurn
  <2>4. Level(t)
    BY <2>3 DEF Level, Left, LeftAt
  <2>. QED  BY <1>1, <2>2, <2>4
<1>. QED  BY <1>3, <1>4

\* Turns come closer to their ends with each step, for any answers of the model
\* and any limits: the rounds, retries and cards of a turn never go round for ever.
THEOREM TurnsTerminate == SafeSpec => TurnsWindDown
<1>1. Init => AttemptsFresh
  BY DEF Init, AttemptsFresh
<1>2. TypeOK /\ AttemptsFresh /\ [Next \/ Done]_vars => AttemptsFresh'
  BY FreshKept
<1>3. TypeOK /\ AttemptsFresh /\ [Next \/ Done]_vars =>
        [/\ \A t \in Turn : Closer(t) \/ Level(t)
         /\ \E t \in Turn : Closer(t) \/ Signalled(t)]_vars
  <2>. SUFFICES ASSUME TypeOK, AttemptsFresh, Next
                PROVE  /\ \A t \in Turn : Closer(t) \/ Level(t)
                       /\ \E t \in Turn : Closer(t) \/ Signalled(t)
    BY DEF Done
  <2>1. ASSUME NEW t \in Turn, Advances(t)
        PROVE  /\ \A s \in Turn : Closer(s) \/ Level(s)
               /\ \E s \in Turn : Closer(s) \/ Signalled(s)
    BY <2>1, UntouchedLevel DEF Advances
  <2>2. ASSUME NEW t \in Turn, Leave(t) \/ TimeUp(t)
        PROVE  /\ \A s \in Turn : Closer(s) \/ Level(s)
               /\ \E s \in Turn : Closer(s) \/ Signalled(s)
    BY <2>2, AbortLevel
  <2>. QED
    BY <2>1, <2>2, RouteAdvances, ModelAdvances, CodeAdvances, CallAdvances DEF Next
<1>. QED  BY <1>1, <1>2, <1>3, TurnTypes, PTL DEF SafeSpec, TurnsWindDown
==============================================================================
