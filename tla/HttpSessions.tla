---------------------------- MODULE HttpSessions ----------------------------
(***************************************************************************)
(* The stateful MCP sessions of the HTTP server (src/index.ts, /mcp) and   *)
(* the decisions of src/utils/mcpSession.ts: who may use a session, how    *)
(* many there may be, and when one is closed.                              *)
(*                                                                         *)
(* A handler runs alone from the end of its authentication and body read   *)
(* to handleRequest.  The SDK's handleRequest registers a new session at a *)
(* moment of its own, and the response closes at another: clients hang up  *)
(* at any time.                                                            *)
(***************************************************************************)
EXTENDS Integers, FiniteSets, Functions

CONSTANTS
    Principal,         \* authenticated callers
    Request,           \* concurrent HTTP requests
    Sid,               \* session ids (bound on those in use at once)
    MaxTotal,          \* limits.maxTotal
    MaxPerPrincipal,   \* limits.maxPerPrincipal
    MaxLate,           \* bound on the late registrations (see late)
    None

ASSUME HttpSessionsAssumption ==
    /\ IsFiniteSet(Principal) /\ IsFiniteSet(Request) /\ IsFiniteSet(Sid)
    /\ MaxTotal \in Nat \ {0}
    /\ MaxPerPrincipal \in 1..MaxTotal
    /\ MaxLate \in Nat
    /\ None \notin Principal /\ None \notin Sid

VARIABLES
    owner,     \* sessions: the principal of each session in the map, or None
    inFlight,  \* entry.inFlight
    old,       \* whether lastActivity is older than the TTL
    late,      \* history: how many sessions of a principal were registered after
               \* the client that asked for them had hung up
    pending,   \* pendingInits, per principal
    at,        \* where each request is
    kind,      \* what it asks for
    who,       \* its principal
    sid,       \* the session it names, or opens
    closed,    \* its response has emitted 'close'
    counted,   \* trackRequest has counted it
    holds      \* it holds a pending initialize

mapVars == <<owner, inFlight, old, late, pending>>
reqVars == <<at, kind, who, sid, closed, counted, holds>>
vars == <<owner, inFlight, old, late, pending, at, kind, who, sid, closed, counted, holds>>

\* A POST or GET that names a session (a GET holds its event stream open), an
\* initialize without one, a DELETE.
Kinds == {"use", "init", "delete"}

\* auth: the credentials are checked and the body is read.  opening: inside
\* handleRequest, no session registered yet.
Places == {"none", "auth", "opening", "handling"}

Init ==
    /\ owner    = [s \in Sid |-> None]
    /\ inFlight = [s \in Sid |-> 0]
    /\ old      = [s \in Sid |-> FALSE]
    /\ late     = [p \in Principal |-> 0]
    /\ pending  = [p \in Principal |-> 0]
    /\ at       = [r \in Request |-> "none"]
    /\ kind     = [r \in Request |-> "use"]
    /\ who      = [r \in Request |-> None]
    /\ sid      = [r \in Request |-> None]
    /\ closed   = [r \in Request |-> FALSE]
    /\ counted  = [r \in Request |-> FALSE]
    /\ holds    = [r \in Request |-> FALSE]

-----------------------------------------------------------------------------
Live == {s \in Sid : owner[s] # None}

Of(p) == {s \in Live : owner[s] = p}

\* Mutant: a caller's cap is checked against the sessions in the map alone.
OwnRegistered(p) == Cardinality(Of(p))

Own(p) == Cardinality(Of(p)) + pending[p]

\* Mutant: the global check looks at the sessions in the map alone.
TotalRegistered == Cardinality(Live)

\* pendingInitsTotal, with the sessions in the map.
Total == Cardinality(Live) + SumFunction(pending)

\* Mutant: a busy session may be closed.
Present(s) == owner[s] # None

\* Neither the sweep nor an admission closes a session with a request in flight.
Idle(s) == owner[s] # None /\ inFlight[s] = 0

\* Mutant: whoever knows the id may use the session.
Known(s, p) == owner[s] # None

\* ownsSession: another principal's session is like an unknown one.
OwnsSession(s, p) == owner[s] # None /\ owner[s] = p

\* The session id of r names a session its principal may use.
Names(r) == sid[r] # None /\ OwnsSession(sid[r], who[r])

\* sessions.delete
Drop(s) ==
    /\ owner'    = [owner EXCEPT ![s] = None]
    /\ inFlight' = [inFlight EXCEPT ![s] = 0]
    /\ old'      = [old EXCEPT ![s] = FALSE]

-----------------------------------------------------------------------------
(* Requests come and go.                                                   *)

Arrive(r, k, p, s) ==
    /\ at[r] = "none"
    /\ at'   = [at EXCEPT ![r] = "auth"]
    /\ kind' = [kind EXCEPT ![r] = k]
    /\ who'  = [who EXCEPT ![r] = p]
    /\ sid'  = [sid EXCEPT ![r] = s]
    /\ UNCHANGED <<mapVars, closed, counted, holds>>

\* What the listeners of 'close' do: trackRequest's, and releasePending.  The
\* entry it was counted in may have left the map; then this is lost with it.
CloseResponse(r) ==
    LET s == sid[r] IN
    /\ IF counted[r] /\ owner[s] # None
       THEN /\ inFlight' = [inFlight EXCEPT ![s] = IF @ > 0 THEN @ - 1 ELSE 0]
            /\ old' = [old EXCEPT ![s] = FALSE]
       ELSE UNCHANGED <<inFlight, old>>
    /\ pending' = IF holds[r] THEN [pending EXCEPT ![who[r]] = @ - 1] ELSE pending
    /\ UNCHANGED <<owner, late>>

\* Mutant: the initialize that a hung-up client began is not released.
HangUpUnheard(r) ==
    /\ at[r] # "none" /\ ~closed[r]
    /\ closed' = [closed EXCEPT ![r] = TRUE]
    /\ UNCHANGED <<mapVars, at, kind, who, sid, counted, holds>>

\* The client disconnects while its request is being handled.
HangUp(r) ==
    /\ at[r] # "none" /\ ~closed[r]
    /\ CloseResponse(r)
    /\ closed'  = [closed EXCEPT ![r] = TRUE]
    /\ counted' = [counted EXCEPT ![r] = FALSE]
    /\ holds'   = [holds EXCEPT ![r] = FALSE]
    /\ UNCHANGED <<at, kind, who, sid>>

\* The handler ends with r; a response still open is ended, and closes.
Ends(r) ==
    /\ at'      = [at EXCEPT ![r] = "none"]
    /\ kind'    = [kind EXCEPT ![r] = "use"]
    /\ who'     = [who EXCEPT ![r] = None]
    /\ sid'     = [sid EXCEPT ![r] = None]
    /\ closed'  = [closed EXCEPT ![r] = FALSE]
    /\ counted' = [counted EXCEPT ![r] = FALSE]
    /\ holds'   = [holds EXCEPT ![r] = FALSE]

-----------------------------------------------------------------------------
(* POST on a session of the caller (an initialize too: decidePostRoute looks *)
(* at the session first), and GET.                                         *)

\* 404, or the refusal of the authentication.
Refused(r) ==
    /\ at[r] = "auth"
    /\ Ends(r)
    /\ UNCHANGED mapVars

\* Mutant: a request whose client has already gone is counted.
UseAlways(r) ==
    /\ at[r] = "auth" /\ kind[r] \in {"use", "init"} /\ Names(r)
    /\ inFlight' = [inFlight EXCEPT ![sid[r]] = @ + 1]
    /\ counted' = [counted EXCEPT ![r] = ~closed[r]]
    /\ old' = [old EXCEPT ![sid[r]] = FALSE]
    /\ at' = [at EXCEPT ![r] = "handling"]
    /\ UNCHANGED <<owner, late, pending, kind, who, sid, closed, holds>>

\* trackRequest, then handleRequest on the session's own transport.
Use(r) ==
    /\ at[r] = "auth" /\ kind[r] \in {"use", "init"} /\ Names(r)
    /\ IF closed[r]
       THEN UNCHANGED <<inFlight, counted>>
       ELSE /\ inFlight' = [inFlight EXCEPT ![sid[r]] = @ + 1]
            /\ counted'  = [counted EXCEPT ![r] = TRUE]
    /\ old' = [old EXCEPT ![sid[r]] = FALSE]
    /\ at' = [at EXCEPT ![r] = "handling"]
    /\ UNCHANGED <<owner, late, pending, kind, who, sid, closed, holds>>

Answered(r) ==
    /\ at[r] = "handling" /\ kind[r] \in {"use", "init"}
    /\ IF closed[r] THEN UNCHANGED mapVars ELSE CloseResponse(r)
    /\ Ends(r)

-----------------------------------------------------------------------------
(* An initialize opens a session.                                          *)

\* Held until the SDK registers the session, or the response closes.
Open(r) ==
    /\ pending' = [pending EXCEPT ![who[r]] = @ + 1]
    /\ holds' = [holds EXCEPT ![r] = TRUE]
    /\ at' = [at EXCEPT ![r] = "opening"]
    /\ \E s \in Sid :
        /\ owner[s] = None /\ \A q \in Request : sid[q] # s
        /\ sid' = [sid EXCEPT ![r] = s]
    /\ UNCHANGED <<late, kind, who, closed, counted>>

Asks(r) == at[r] = "auth" /\ kind[r] = "init" /\ ~Names(r)

Admit(r) ==
    /\ Asks(r) /\ ~closed[r]
    /\ Own(who[r]) < MaxPerPrincipal
    /\ Total < MaxTotal
    /\ Open(r)
    /\ UNCHANGED <<owner, inFlight, old>>

\* At the caller's cap its own idle session (in the code the least recently
\* active one) is closed, and the new one is admitted.
Replace(r) ==
    /\ Asks(r) /\ ~closed[r]
    /\ Own(who[r]) >= MaxPerPrincipal
    /\ \E s \in Of(who[r]) : Idle(s) /\ Drop(s)
    /\ Open(r)

\* The client has hung up, or 429, or 503.
Reject(r) ==
    /\ Asks(r)
    /\ \/ closed[r]
       \/ Own(who[r]) >= MaxPerPrincipal /\ \A s \in Of(who[r]) : ~Idle(s)
       \/ Own(who[r]) < MaxPerPrincipal /\ Total >= MaxTotal
    /\ Ends(r)
    /\ UNCHANGED mapVars

\* onsessioninitialized: releasePending, then the session enters the map.  The
\* initialize itself is not tracked: inFlight starts at zero.
Register(r) ==
    LET s == sid[r] IN
    /\ at[r] = "opening"
    /\ pending' = IF holds[r] THEN [pending EXCEPT ![who[r]] = @ - 1] ELSE pending
    /\ holds' = [holds EXCEPT ![r] = FALSE]
    /\ owner' = [owner EXCEPT ![s] = who[r]]
    /\ inFlight' = [inFlight EXCEPT ![s] = 0]
    /\ old' = [old EXCEPT ![s] = FALSE]
    /\ IF closed[r]
       THEN /\ SumFunction(late) < MaxLate
            /\ late' = [late EXCEPT ![who[r]] = @ + 1]
       ELSE UNCHANGED late
    /\ at' = [at EXCEPT ![r] = "handling"]
    /\ UNCHANGED <<kind, who, sid, closed, counted>>

\* handleRequest answers with an error and registers nothing.
InitFails(r) ==
    /\ at[r] = "opening"
    /\ IF closed[r] THEN UNCHANGED mapVars ELSE CloseResponse(r)
    /\ Ends(r)

-----------------------------------------------------------------------------
(* The end of a session.                                                   *)

Delete(r) ==
    /\ at[r] = "auth" /\ kind[r] = "delete" /\ Names(r)
    /\ at' = [at EXCEPT ![r] = "handling"]
    /\ UNCHANGED <<mapVars, kind, who, sid, closed, counted, holds>>

\* handleRequest has closed the transport: onclose and the handler both drop the
\* entry.  (So does the handler when handleRequest answers with an error: it
\* drops the entry whatever the answer.)
Deleted(r) ==
    /\ at[r] = "handling" /\ kind[r] = "delete"
    /\ Drop(sid[r])
    /\ UNCHANGED <<late, pending>>
    /\ Ends(r)

\* handleRequest throws: 500, and the session stays.
DeleteFails(r) ==
    /\ at[r] = "handling" /\ kind[r] = "delete"
    /\ Ends(r)
    /\ UNCHANGED mapVars

\* Time passes: no request has stamped the session for a TTL.
GrowOld(s) ==
    /\ owner[s] # None /\ ~old[s]
    /\ old' = [old EXCEPT ![s] = TRUE]
    /\ UNCHANGED <<owner, inFlight, late, pending, reqVars>>

Sweep(s) ==
    /\ Idle(s) /\ old[s]
    /\ Drop(s)
    /\ UNCHANGED <<late, pending, reqVars>>

-----------------------------------------------------------------------------
RequestStep(r) ==
    \/ \E k \in Kinds, p \in Principal, s \in Live \cup {None} : Arrive(r, k, p, s)
    \/ HangUp(r) \/ Refused(r)
    \/ Use(r) \/ Answered(r)
    \/ Admit(r) \/ Replace(r) \/ Reject(r) \/ Register(r) \/ InitFails(r)
    \/ Delete(r) \/ Deleted(r) \/ DeleteFails(r)

Next ==
    \/ \E r \in Request : RequestStep(r)
    \/ \E s \in Sid : GrowOld(s) \/ Sweep(s)

\* The sweep is a timer, and time passes.  No request is obliged to end.
Fairness == \A s \in Sid : WF_vars(GrowOld(s)) /\ WF_vars(Sweep(s))

Spec == Init /\ [][Next]_vars /\ Fairness

-----------------------------------------------------------------------------
(* Properties.                                                             *)

\* The shapes of the sessions map, the pending counts and the requests; inFlight
\* and pending never exceed the requests there are.
TypeOK ==
    /\ owner    \in [Sid -> Principal \cup {None}]
    /\ inFlight \in [Sid -> 0..Cardinality(Request)]
    /\ old      \in [Sid -> BOOLEAN]
    /\ late     \in [Principal -> 0..MaxLate]
    /\ pending  \in [Principal -> 0..Cardinality(Request)]
    /\ at       \in [Request -> Places]
    /\ kind     \in [Request -> Kinds]
    /\ who      \in [Request -> Principal \cup {None}]
    /\ sid      \in [Request -> Sid \cup {None}]
    /\ closed   \in [Request -> BOOLEAN]
    /\ counted  \in [Request -> BOOLEAN]
    /\ holds    \in [Request -> BOOLEAN]

\* A session with a request in flight is closed by nothing but a DELETE of its
\* own principal.
BusyClosedByOwnerOnly ==
    [][\A s \in Sid :
         /\ owner[s] # None /\ owner'[s] = None
         /\ \E r \in Request : counted[r] /\ sid[r] = s
         => \E d \in Request : /\ kind[d] = "delete" /\ at[d] = "handling" /\ sid[d] = s
                               /\ who[d] = owner[s]]_vars

\* inFlight is the number of open responses on a session, through every order
\* of hang-ups and answers: one too many exempts the session from the sweep for
\* ever, one too few lets it be closed under a call.
InFlightExact ==
    \A s \in Live : inFlight[s] = Cardinality({r \in Request : counted[r] /\ sid[r] = s})

\* Whoever is being served on a session is its principal.
ServedToOwner ==
    \A r \in Request :
        at[r] = "handling" /\ sid[r] # None /\ owner[sid[r]] # None => who[r] = owner[sid[r]]

\* Sessions and held initializes together stay under both caps, but for one
\* session of a principal for each of its registrations that came after its
\* client had hung up: decideSessionAdmission counts both, and replaces one by
\* one at the caller's cap.
OvershootIsLate ==
    /\ Cardinality(Live) + SumFunction(pending) <= MaxTotal + SumFunction(late)
    /\ \A p \in Principal : Own(p) <= MaxPerPrincipal + late[p]

\* A held initialize is given back however its request ends: otherwise it takes
\* a place under the caps for the life of the process.
PendingExact ==
    \A p \in Principal :
        pending[p] = Cardinality({r \in Request : at[r] = "opening" /\ ~closed[r] /\ who[r] = p})

\* A session that nobody uses any more does not live for ever.
AbandonedSwept ==
    \A s \in Sid :
        <>[](\A r \in Request : sid[r] # s) => []<>(owner[s] = None)
=============================================================================
