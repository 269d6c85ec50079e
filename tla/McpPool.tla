------------------------------- MODULE McpPool -------------------------------
(***************************************************************************)
(* The orchestrator's pool of per-user MCP child processes                 *)
(* (apps/chat-orchestrator/src/mcp-pool.ts), with the turns that acquire,  *)
(* refresh and release its children (index.ts, loop.ts) and the identity   *)
(* provider that hands out Google access tokens (google-identity.ts).      *)
(*                                                                         *)
(* Atomicity.  The orchestrator is one Node process.  Code between two     *)
(* awaits runs alone, and an await of a promise that is already settled    *)
(* resumes before any other event is handled.  So a step of the model ends *)
(* only where the code awaits the outside world: the token service, a      *)
(* child that is starting, a child that is closing.  Everything the code   *)
(* does from one such point to the next is ONE action.                     *)
(***************************************************************************)
EXTENDS Integers, FiniteSets

CONSTANTS
    User,          \* people; a child holds the Google token of exactly one
    Turn,          \* concurrent requests: chat turns and resource lookups
    Owner,         \* Owner[t]: the authenticated user of turn t
    Conn,          \* names for child processes (bound on those alive at once)
    MaxSessions,   \* cfg.pool.maxSessions
    MaxToken,      \* bound: tokens minted per user
    MaxOrphan,     \* bound: children left running by a failed catalog read
    MayShutDown,   \* whether a SIGINT/SIGTERM may arrive
    KnowsExpiry,   \* whether getIdentity reports expiresAt (no provider of the repository does)
    None

ASSUME McpPoolAssumption ==
    /\ IsFiniteSet(User) /\ IsFiniteSet(Turn) /\ IsFiniteSet(Conn)
    /\ Owner \in [Turn -> User]
    /\ MaxSessions \in Nat \ {0}
    /\ MaxToken \in Nat \ {0}
    /\ MaxOrphan \in Nat
    /\ MayShutDown \in BOOLEAN
    /\ KnowsExpiry \in BOOLEAN
    /\ None \notin Conn /\ None \notin User

VARIABLES
    entries,   \* this.entries: the child new turns of a user are given
    retired,   \* this.retired: replaced children some turn still uses
    start,     \* this.starting: the replacement in flight for a user
    child,     \* the processes, with their PoolEntry
    pc,        \* where each turn is
    key,       \* the token a turn's acquire or refresh resolved
    held,      \* the connections a turn has to release
    closing,   \* the child a refresh is waiting to see closed
    stored,    \* token service: the stored access token of a user
    minted,    \* token service: tokens minted for a user so far
    down       \* McpPool.shutdown has run

poolVars == <<entries, retired, start, child>>
turnVars == <<pc, key, held, closing>>
idpVars  == <<stored, minted>>
vars     == <<entries, retired, start, child, pc, key, held, closing, stored, minted, down>>

\* An access token is the number of its mint.
Tokens == 1..MaxToken

NoStart == [phase |-> "none", key |-> 0, conn |-> None]

Starts == {NoStart} \cup [phase : {"closing", "connecting"}, key : Tokens, conn : Conn]

\* exited: the process is gone, and McpConnection.isDead() says so.  closing: a
\* start or a refresh waits for close(); a close nobody waits for ends at once.
Procs == {"gone", "connecting", "open", "exited", "closing"}

Children == [proc : Procs, user : User \cup {None}, token : Tokens \cup {0}, inUse : Nat]

\* A child the pool is done with has no PoolEntry left.
NoChild(p) == [proc |-> p, user |-> None, token |-> 0, inUse |-> 0]
Closing    == NoChild("closing")
Gone       == NoChild("gone")

\* awaiting: acquire is suspended on the start of a child; rewaiting: the same
\* inside refreshIdentity.  retried: a chat turn with authRetryUsed set.
PCs == {"idle", "keyed", "awaiting", "serving", "minted", "evicting", "rewaiting", "retried"}

Init ==
    /\ entries = [u \in User |-> None]
    /\ retired = {}
    /\ start   = [u \in User |-> NoStart]
    /\ child   = [c \in Conn |-> Gone]
    /\ pc      = [t \in Turn |-> "idle"]
    /\ key     = [t \in Turn |-> 0]
    /\ held    = [t \in Turn |-> {}]
    /\ closing = [t \in Turn |-> None]
    /\ stored  = [u \in User |-> 1]
    /\ minted  = [u \in User |-> 1]
    /\ down    = FALSE

-----------------------------------------------------------------------------
(* Reading the pool.                                                       *)

Sessions(ent, ret) == Cardinality({u \in User : ent[u] # None}) + Cardinality(ret)

\* Mutant: forgets that turns may still be using the child.
IdleOrBusy(ent, ch, v) == ent[v] # None

Idle(ent, ch, v) == ent[v] # None /\ ch[ent[v]].inUse = 0

\* Mutants: retired children take no slot; one session too many.
RoomBesideRetired(ent, ret) == Sessions(ent, {}) < MaxSessions
RoomForOneMore(ent, ret)    == Sessions(ent, ret) <= MaxSessions

\* What enforceCapacity asks before each spawn.
Room(ent, ret) == Sessions(ent, ret) < MaxSessions

InMaps(c) == c \in retired \/ \E u \in User : entries[u] = c

Holders(c) == {t \in Turn : c \in held[t]}

\* Names for the next child: no process has one, and nothing refers to it.
Fresh(ch) == {c \in Conn : ch[c].proc = "gone" /\ Holders(c) = {}}

\* Mutant: a start is shared by every user's turns.
WaitersOfAll(pcs, u) == {t \in Turn : pcs[t] \in {"awaiting", "rewaiting"}}

\* Turns suspended on the starting promise of u.
Waiters(pcs, u) == {t \in Turn : Owner[t] = u /\ pcs[t] \in {"awaiting", "rewaiting"}}

\* Mutant: the turns that wait in a refresh are forgotten.
SettleAcquires(pcs, u, acquired) ==
    [t \in Turn |-> IF t \in Waiters(pcs, u) /\ pcs[t] = "awaiting" THEN acquired ELSE pcs[t]]

\* How that promise leaves them.  Rejected: acquire answers with an error, while
\* a refresh reports it as the tool's result and its turn goes on.
Settle(pcs, u, acquired) ==
    [t \in Turn |-> IF t \notin Waiters(pcs, u) THEN pcs[t]
                    ELSE IF pcs[t] = "awaiting" THEN acquired ELSE "retried"]

-----------------------------------------------------------------------------
(* spawn and enforceCapacity, from the maps (ent, ret), the children ch and *)
(* the turns pcs that the synchronous code before them has left.            *)

\* Room: the child is spawned and connect() is awaited.
SpawnChild(u, k, ent, ret, ch, pcs) ==
    /\ Room(ent, ret)
    /\ \E c \in Fresh(ch) :
        /\ start' = [start EXCEPT ![u] = [phase |-> "connecting", key |-> k, conn |-> c]]
        /\ child' = [ch EXCEPT ![c] = [proc |-> "connecting", user |-> u, token |-> k, inUse |-> 0]]
    /\ entries' = ent
    /\ retired' = ret
    /\ pc' = pcs

\* Full: some idle child (in the code the least recently used) is evicted, and
\* the loop resumes when it has closed.
EvictForRoom(u, k, ent, ret, ch, pcs) ==
    /\ ~Room(ent, ret)
    /\ \E v \in User :
        /\ Idle(ent, ch, v)
        /\ entries' = [ent EXCEPT ![v] = None]
        /\ child' = [ch EXCEPT ![ent[v]] = Closing]
        /\ start' = [start EXCEPT ![u] = [phase |-> "closing", key |-> k, conn |-> ent[v]]]
    /\ retired' = ret
    /\ pc' = pcs

\* Full and every child busy: McpPoolCapacityError for all who wait.
RefuseStart(u, ent, ret, ch, pcs) ==
    /\ ~Room(ent, ret)
    /\ \A v \in User : ~Idle(ent, ch, v)
    /\ start' = [start EXCEPT ![u] = NoStart]
    /\ child' = ch
    /\ entries' = ent
    /\ retired' = ret
    /\ pc' = Settle(pcs, u, "idle")

Spawn(u, k, ent, ret, ch, pcs) ==
    \/ SpawnChild(u, k, ent, ret, ch, pcs)
    \/ EvictForRoom(u, k, ent, ret, ch, pcs)
    \/ RefuseStart(u, ent, ret, ch, pcs)

-----------------------------------------------------------------------------
(* entryFor: what turn t finds for its user u.  It leaves the turn in wait *)
(* when it has to await a start, and in after when it is given a child;    *)
(* ch is the children as the synchronous code before it has left them.     *)

\* A start is in flight: it is awaited, whatever token it was begun with.
Join(u, t, ch, wait) ==
    /\ start[u] # NoStart
    /\ pc' = [pc EXCEPT ![t] = wait]
    /\ child' = ch
    /\ UNCHANGED <<entries, retired, start, held>>

\* Mutant: an exited child is handed out again.
SameToken(c, k) == child[c].token = k

\* The child has this very token, and has not exited.
Usable(c, k) == child[c].token = k /\ child[c].proc # "exited"

\* The cached child is one: inUse++.
Reuse(u, t, ch, after) ==
    LET c == entries[u] IN
    /\ start[u] = NoStart
    /\ c # None /\ Usable(c, key[t])
    /\ child' = [ch EXCEPT ![c].inUse = @ + 1]
    /\ held'  = [held EXCEPT ![t] = @ \cup {c}]
    /\ pc'    = [pc EXCEPT ![t] = after]
    /\ UNCHANGED <<entries, retired, start>>

\* No cached child: spawn one.
StartFirst(u, t, ch, wait) ==
    /\ start[u] = NoStart
    /\ entries[u] = None
    /\ Spawn(u, key[t], entries, retired, ch, [pc EXCEPT ![t] = wait])
    /\ UNCHANGED held

\* The cached child has another token, or has exited.
Stale(u, k) == entries[u] # None /\ ~Usable(entries[u], k)

\* evict closes a child at once when no turn uses it, or when it has exited.
ClosesNow(c) == child[c].inUse = 0 \/ child[c].proc = "exited"

\* It is closed first; the start is claimed before that is awaited.
ReplaceClosed(u, t, ch, wait) ==
    LET c == entries[u] IN
    /\ start[u] = NoStart
    /\ Stale(u, key[t]) /\ ClosesNow(c)
    /\ entries' = [entries EXCEPT ![u] = None]
    /\ child' = [ch EXCEPT ![c] = Closing]
    /\ start' = [start EXCEPT ![u] = [phase |-> "closing", key |-> key[t], conn |-> c]]
    /\ pc' = [pc EXCEPT ![t] = wait]
    /\ UNCHANGED <<retired, held>>

\* Mutant: the retired child stays cached.
ReplaceBusyCached(u, t, ch, wait) ==
    /\ start[u] = NoStart
    /\ entries[u] # None /\ ~ClosesNow(entries[u])
    /\ Spawn(u, key[t], entries, retired \cup {entries[u]}, ch, [pc EXCEPT ![t] = wait])
    /\ UNCHANGED held

\* It serves a turn: it is retired, which awaits nothing, and spawn follows.
ReplaceBusy(u, t, ch, wait) ==
    LET c == entries[u] IN
    /\ start[u] = NoStart
    /\ c # None /\ ~ClosesNow(c)
    /\ Spawn(u, key[t], [entries EXCEPT ![u] = None], retired \cup {c},
             ch, [pc EXCEPT ![t] = wait])
    /\ UNCHANGED held

EntryFor(u, t, ch, wait, after) ==
    \/ Join(u, t, ch, wait)
    \/ Reuse(u, t, ch, after)
    \/ StartFirst(u, t, ch, wait)
    \/ ReplaceClosed(u, t, ch, wait)
    \/ Stale(u, key[t]) /\ ReplaceBusy(u, t, ch, wait)

-----------------------------------------------------------------------------
(* acquire.                                                                *)

\* resolveToken, getIdentity: the token service answers with the stored token.
\* The turn goes on only when that answer has travelled back.  (A service that
\* refuses ends the turn with nothing acquired.)
ReadToken(t) ==
    /\ pc[t] = "idle"
    /\ key' = [key EXCEPT ![t] = stored[Owner[t]]]
    /\ pc' = [pc EXCEPT ![t] = "keyed"]
    /\ UNCHANGED <<poolVars, held, closing, idpVars, down>>

\* refresh: Google mints a token, and storing it is best effort.
Mint(t) ==
    LET u == Owner[t] IN
    /\ minted[u] < MaxToken
    /\ minted' = [minted EXCEPT ![u] = @ + 1]
    /\ stored' \in {stored, [stored EXCEPT ![u] = minted[u] + 1]}
    /\ key' = [key EXCEPT ![t] = minted[u] + 1]

\* The stored token is about to expire, so resolveToken refreshes it, if the
\* provider told it so.
MintEarly(t) ==
    /\ KnowsExpiry
    /\ pc[t] = "idle"
    /\ Mint(t)
    /\ pc' = [pc EXCEPT ![t] = "keyed"]
    /\ UNCHANGED <<poolVars, held, closing, down>>

AcquireEntry(t) ==
    /\ pc[t] = "keyed"
    /\ EntryFor(Owner[t], t, child, "awaiting", "serving")
    /\ key' = [key EXCEPT ![t] = 0]
    /\ UNCHANGED <<closing, idpVars, down>>

-----------------------------------------------------------------------------
(* refreshIdentity: a tool call failed with an auth error; once per turn.  *)

RefreshToken(t) ==
    /\ pc[t] = "serving"
    /\ Mint(t)
    /\ pc' = [pc EXCEPT ![t] = "minted"]
    /\ UNCHANGED <<poolVars, held, closing, down>>

\* Revoked, or the service unreachable: the turn goes on with the old child.
RefreshFails(t) ==
    /\ pc[t] = "serving"
    /\ pc' = [pc EXCEPT ![t] = "retried"]
    /\ UNCHANGED <<poolVars, key, held, closing, idpVars, down>>

\* evict finds nothing, or retires a busy child: entryFor follows at once.
RefreshEntry(t) ==
    LET u == Owner[t] IN
    /\ pc[t] = "minted"
    /\ \/ entries[u] = None /\ EntryFor(u, t, child, "rewaiting", "retried")
       \/ ReplaceBusy(u, t, child, "rewaiting")
    /\ UNCHANGED <<key, closing, idpVars, down>>

\* evict closes the child, and the refresh waits for that before entryFor.
RefreshEvict(t) ==
    LET c == entries[Owner[t]] IN
    /\ pc[t] = "minted"
    /\ c # None /\ ClosesNow(c)
    /\ entries' = [entries EXCEPT ![Owner[t]] = None]
    /\ child' = [child EXCEPT ![c] = Closing]
    /\ closing' = [closing EXCEPT ![t] = c]
    /\ pc' = [pc EXCEPT ![t] = "evicting"]
    /\ UNCHANGED <<retired, start, key, held, idpVars, down>>

RefreshEvicted(t) ==
    /\ pc[t] = "evicting"
    /\ closing' = [closing EXCEPT ![t] = None]
    /\ EntryFor(Owner[t], t, [child EXCEPT ![closing[t]] = Gone], "rewaiting", "retried")
    /\ UNCHANGED <<key, idpVars, down>>

-----------------------------------------------------------------------------
(* The start in flight for u.                                              *)

\* The evicted child has closed: the capacity check runs, again.
StartEvicted(u) ==
    /\ start[u].phase = "closing"
    /\ Spawn(u, start[u].key, entries, retired, [child EXCEPT ![start[u].conn] = Gone], pc)
    /\ UNCHANGED <<key, held, closing, idpVars, down>>

\* connect() returns: the child is cached and every waiting turn is given it.
ConnectSucceeds(u) ==
    LET c == start[u].conn
        w == Waiters(pc, u)
    IN
    /\ start[u].phase = "connecting"
    /\ entries' = [entries EXCEPT ![u] = c]
    /\ start' = [start EXCEPT ![u] = NoStart]
    /\ child' = [child EXCEPT ![c].proc = "open", ![c].inUse = Cardinality(w)]
    /\ held'  = [t \in Turn |-> IF t \in w THEN held[t] \cup {c} ELSE held[t]]
    /\ pc'    = Settle(pc, u, "serving")
    /\ UNCHANGED <<retired, key, closing, idpVars, down>>

\* connect() rejects.
StartFails(u, left) ==
    /\ start[u].phase = "connecting"
    /\ child' = [child EXCEPT ![start[u].conn] = left]
    /\ start' = [start EXCEPT ![u] = NoStart]
    /\ pc' = Settle(pc, u, "idle")
    /\ UNCHANGED <<entries, retired, key, held, closing, idpVars, down>>

\* The child never answers initialize: the SDK closes it.
ConnectFails(u) == StartFails(u, Gone)

\* A child in no map that still runs.
Orphan(c) == child[c].proc = "open" /\ ~InMaps(c)

\* The child is connected, but reading its catalog fails: nobody closes it.
CatalogFails(u) ==
    /\ Cardinality({c \in Conn : Orphan(c)}) < MaxOrphan
    /\ StartFails(u, NoChild("open"))

-----------------------------------------------------------------------------
(* release, for every connection a finished turn holds.                    *)

\* Mutants: a child is released and not counted down; released twice.
UsesKept(c)     == child[c].inUse
UsesLostTwice(c) == child[c].inUse - 2

UsesLeft(c) == IF child[c].inUse > 0 THEN child[c].inUse - 1 ELSE 0

\* Mutant: an off-by-one in the test for the last use.
DrainedLate(t) == {c \in held[t] \cap retired : entries[Owner[t]] # c /\ UsesLeft(c) < 0}

\* Retired children whose last user is t: release closes them.
Drained(t) == {c \in held[t] \cap retired : entries[Owner[t]] # c /\ UsesLeft(c) = 0}

\* release of a child that is in no map any more does nothing.
EndTurn(t) ==
    LET mine == {c \in held[t] : entries[Owner[t]] = c \/ c \in retired} IN
    /\ pc[t] \in {"serving", "retried"}
    /\ child' = [c \in Conn |->
                   IF c \in Drained(t) THEN Gone
                   ELSE IF c \in mine THEN [child[c] EXCEPT !.inUse = UsesLeft(c)]
                   ELSE child[c]]
    /\ retired' = retired \ Drained(t)
    /\ held' = [held EXCEPT ![t] = {}]
    /\ key'  = [key EXCEPT ![t] = 0]
    /\ pc'   = [pc EXCEPT ![t] = "idle"]
    /\ UNCHANGED <<entries, start, closing, idpVars, down>>

-----------------------------------------------------------------------------
(* The sweeper, the processes themselves, and shutdown.                    *)

\* One eviction of sweep(); the time since lastUsedAt is left out, so any idle
\* child may be past the TTL.
Sweep(u) ==
    /\ ~down
    /\ Idle(entries, child, u)
    /\ entries' = [entries EXCEPT ![u] = None]
    /\ child' = [child EXCEPT ![entries[u]] = Gone]
    /\ UNCHANGED <<retired, start, turnVars, idpVars, down>>

\* The child exits or is killed, and the SDK drops its transport.
Die(c) ==
    /\ child[c].proc = "open"
    /\ child' = [child EXCEPT ![c] = IF Orphan(c) THEN Gone ELSE [@ EXCEPT !.proc = "exited"]]
    /\ UNCHANGED <<entries, retired, start, turnVars, idpVars, down>>

Shutdown ==
    /\ MayShutDown /\ ~down
    /\ down' = TRUE
    /\ child' = [c \in Conn |-> IF InMaps(c) THEN Gone ELSE child[c]]
    /\ entries' = [u \in User |-> None]
    /\ retired' = {}
    /\ UNCHANGED <<start, turnVars, idpVars>>

-----------------------------------------------------------------------------
TurnStep(t) ==
    \/ ReadToken(t) \/ MintEarly(t) \/ AcquireEntry(t)
    \/ RefreshToken(t) \/ RefreshFails(t)
    \/ RefreshEntry(t) \/ RefreshEvict(t) \/ RefreshEvicted(t)
    \/ EndTurn(t)

StartStep(u) ==
    \/ StartEvicted(u) \/ ConnectSucceeds(u) \/ ConnectFails(u) \/ CatalogFails(u)

Next ==
    \/ \E t \in Turn : TurnStep(t)
    \/ \E u \in User : StartStep(u) \/ Sweep(u)
    \/ \E c \in Conn : Die(c)
    \/ Shutdown

\* Every await settles: the token calls and the MCP SDK time out, a close ends
\* by killing the child, and a turn's tool loop is bounded.  Nothing obliges a
\* person to start a turn, a call to fail, a child to exit, or the sweeper to
\* find one idle.
Fairness ==
    /\ \A t \in Turn : /\ WF_vars(AcquireEntry(t))
                       /\ WF_vars(RefreshEntry(t) \/ RefreshEvict(t))
                       /\ WF_vars(RefreshEvicted(t))
                       /\ WF_vars(EndTurn(t))
    /\ \A u \in User : WF_vars(StartStep(u))

SafeSpec == Init /\ [][Next]_vars

Spec == SafeSpec /\ Fairness

-----------------------------------------------------------------------------
(* Properties.                                                             *)

\* The shapes of the maps, the children and the turns; no child's inUse is ever
\* negative.
TypeOK ==
    /\ entries \in [User -> Conn \cup {None}]
    /\ retired \in SUBSET Conn
    /\ start   \in [User -> Starts]
    /\ child   \in [Conn -> Children]
    /\ pc      \in [Turn -> PCs]
    /\ key     \in [Turn -> Tokens \cup {0}]
    /\ held    \in [Turn -> SUBSET Conn]
    /\ closing \in [Turn -> Conn \cup {None}]
    /\ stored  \in [User -> Tokens]
    /\ minted  \in [User -> Tokens]
    /\ down    \in BOOLEAN

\* A turn only ever runs on a child that was given its own user's token, however
\* starts are joined, children replaced and tokens refreshed (the isolation
\* model at the head of mcp-pool.ts).
OwnChildOnly ==
    \A t \in Turn : \A c \in held[t] : child[c].proc = "open" => child[c].user = Owner[t]

\* A live child is closed only when no turn holds it any more: not by the sweep,
\* the capacity check, a replacement, another turn's refresh, or another turn's
\* release, before a shutdown or after it.  (shutdown() alone closes children in
\* use.)
NeverClosedUnderTurn ==
    [][\A c \in Conn : child[c].proc = "open" /\ child'[c].proc \in {"closing", "gone"} /\ down' = down
          => \A t \in Turn : c \notin held'[t]]_vars

\* inUse counts the turns that will release the child: too low, it is closed
\* under a turn; too high, it holds its slot for the life of the process.
UseCounted ==
    \A c \in Conn : InMaps(c) => child[c].inUse = Cardinality(Holders(c))

\* No child has two places in the maps, no user two children for new turns, and
\* a retired child is there for a turn that will release it.
OnePlacePerChild ==
    /\ \A u \in User : start[u] # NoStart => entries[u] = None
    /\ \A u, v \in User : u # v /\ entries[u] # None => entries[u] # entries[v]
    /\ \A u \in User : entries[u] \notin retired
    /\ \A c \in retired : \E t \in Turn : c \in held[t]

\* MCP_POOL_MAX_SESSIONS as documented: never more live children than slots.
SessionsCapped == Sessions(entries, retired) <= MaxSessions

\* What the check before each spawn does bound: starts of different users that
\* overlap can each pass it, so the excess is at most one child per other user.
OvershootBounded ==
    Sessions(entries, retired) + Cardinality({u \in User : start[u].phase = "connecting"})
        <= MaxSessions + Cardinality(User) - 1

\* Where the maps have a child.
Place(c) ==
    IF \E u \in User : entries[u] = c THEN "offered" ELSE IF c \in retired THEN "retired" ELSE "none"

Leases ==
    INSTANCE ChildLeases WITH
        place <- [c \in Conn |-> Place(c)],
        user  <- [c \in Conn |-> IF InMaps(c) THEN child[c].user ELSE None],
        loans <- [c \in Conn |-> IF InMaps(c) THEN Holders(c) ELSE {}],
        dead  <- {c \in Conn : InMaps(c) /\ child[c].proc = "exited"}

\* The terms on which children are lent hold at every step, however starts are
\* joined, children replaced, refreshes cut in and processes exit: a running child
\* stays until no turn has it, no new turn is given a retired one ("out of entries,
\* so no new turn is handed one, and closed when the last turn using it releases
\* it"), and none is given an exited one.
LeasesKept == Leases!Spec

\* Every live child is in some map, so that something will close it.
NoOrphan == \A c \in Conn : ~Orphan(c)

\* A refresh hands its turn a child whose token is no older than the one it has
\* just minted.
RefreshYieldsFreshToken ==
    [][\A t \in Turn : \A c \in held'[t] \ held[t] :
         pc'[t] = "retried" => child[c].token >= key[t]]_vars

\* A retired child is closed in the end: its turns finish, and no new turn is
\* given it.
RetiredDrains == \A c \in Conn : c \in retired ~> c \notin retired

\* A turn that waits for a child is answered, provided that from some point on
\* no new turn arrives: without that, others can keep filling the slot each
\* eviction frees.
QuietTurnsAnswered ==
    <>[][\A t \in Turn : ~(ReadToken(t) \/ MintEarly(t))]_vars
        => \A t \in Turn : (pc[t] \in {"awaiting", "rewaiting", "evicting"})
                              ~> (pc[t] \in {"idle", "serving", "retried"})
=============================================================================
