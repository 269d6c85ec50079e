# A TLA+ model of the Samarth analytics services

This directory holds TLA+ specifications of the concurrent parts of the
repository, the TLC configurations that check them on small instances, and
TLAPS proofs of the properties that matter most. Paths below are relative to
the repository root.

## 1. The system

The repository is a set of TypeScript services around Google Tag Manager and
GA4.

| Part | Code | State it keeps | Operations |
| --- | --- | --- | --- |
| MCP server | `src/index.ts`, `src/server.ts`, `src/tools/` | HTTP sessions by id, each with an owner, a last activity and a count of requests in flight; pending initializes per principal | POST, GET and DELETE on `/mcp`, idle sweep, admission |
| Chat orchestrator | `apps/chat-orchestrator/src/` | a pool of MCP child processes, one per user; parked approvals; turns; event counters | acquire, release, refresh, sweep, shutdown; approve, decline; chat turns and resource lookups |
| Google identity | `apps/chat-orchestrator/src/google-identity.ts` | access and refresh token of each user (in an external token service) | read, mint, write back |
| Supervisor | `apps/chat-orchestrator/scripts/supervise.mjs`, `src/lifecycle.ts` there | the running child, a restart flag, an exit record, the fast-exit count | start, exit, planned restart, stop, health check |
| Audit jobs | `apps/portal/shared/jobs.ts`, `apps/runtime-worker/queue-consumer.mjs` | jobs with status, attempts and lease | enqueue, lease, complete, fail, cancel; the consumer loop |
| Portal | `apps/portal/server/`, `apps/portal/shared/` | a cache with a stale window, a token vault, retention rules | request and response over a database |
| Web audit MCP | `apps/web-audit-mcp/src/` | HTTP sessions (an older form of the MCP server's), a browser | crawl, verify |
| Desktop app | `apps/desktop/src/main/` | accounts and vaulted tokens, chat turns, a change journal, monitors on timers, JSON files | chat, revert, audits, monitors |
| Authorize page | `apps/mcp-authorize/` | none | a consent form |

How they interact: a browser talks to the orchestrator (HTTP and an event
stream); the orchestrator talks to its children over stdio, to the token
service, Google and a language model over HTTPS; MCP clients talk to the MCP
server's `/mcp`; portal and workers share the job queue. Within one process
everything is callbacks and awaits of a single Node thread: code between two
awaits is atomic, and whatever is read before an await may be stale after it.

### What is hard, and what makes each part correct

* **The child pool.** Turns of one user share a start in flight, replace each
  other's children, refresh tokens mid-call, and end in any order, while the
  sweeper, the capacity check and shutdown close children. Correct means: a
  turn never runs on another user's child; a child is never closed under a
  turn; each use is counted once and given back once; replaced children go
  away; waiting turns are answered; the number of children is bounded.
* **The job queue.** Leases expire under workers that are still at work,
  answers are lost, workers crash and return. Correct means: each job follows
  its lifecycle, a stale report changes nothing, a run is never worked on twice
  at the same time, retries are bounded, and no job is left behind.
* **HTTP sessions.** Clients hang up at any await; the sweep, replacements and
  DELETE close sessions while requests are between authentication and handling.
  Correct means: only the owner is served; a busy session is closed by nobody
  else; the in-flight and pending counts neither leak nor run short; the caps
  hold under bursts; abandoned sessions are closed.
* **Chat turns and approvals.** A parked write is settled by an answer, a
  timeout or an abort that race each other; calls are queued behind it; a tool
  call is sent again after a refresh; the route of a turn has a dozen ways out.
  Correct means: nothing above the open tier runs without its own user's
  approval; no call begins in a stopped turn; no card is left behind or taken
  from another conversation; children are given back and the turn is billed
  once, on every way out; each turn ends.
* **The supervisor.** The supervisor, the deploy script and the runs of the
  orchestrator share four files, and each of them may die between any two
  steps. Correct means: a stop is reported, and a crash only once; a stop is
  called planned only if it was asked for; the orchestrator comes back; a
  supervisor that was told to stop leaves no child.
* **The desktop's chat turns.** Stop, the cards, a switch of the Google account
  and Revert come at any await of a turn. Correct means: no written change is
  lost from the journal or reverted twice; a call starts under the account its
  turn was pinned to; the step budget holds; a stopped turn unwinds.

`PROJECT.json` lists these hazards at their lines, with the properties that
cover them.

## 2. The modules

| Module | What it is |
| --- | --- |
| `ChildLeases` | abstract: on which terms the pool lends children to turns |
| `McpPool` | the pool, with the turns that use it and the token service; implements `ChildLeases` |
| `McpPoolProofs` | its inductive invariant and the safety theorems |
| `McpPoolLeases` | the proof of the refinement |
| `MCMcpPool` | small instances for TLC |
| `JobLifecycle` | abstract: what the queue promises about each job |
| `JobQueue` | the queue and the consumer loops; implements `JobLifecycle` |
| `JobQueueProofs` | invariants, the lease fence and the refinement |
| `MCJobQueue` | small instances |
| `HttpSessions` | the session map of `/mcp` with its requests |
| `Sums` | laws of the sum of a function over a finite set |
| `HttpSessionsProofs` | its inductive invariant, the exact counts, the caps, who may close a busy session, and what is left to the sweep |
| `MCHttpSessions` | small instances |
| `ApprovedWrites` | abstract: what the orchestrator promises about the calls of a turn |
| `ChatTurn` | chat turns of the orchestrator with the approval broker; implements `ApprovedWrites` |
| `ChatTurnProofs` | its inductive invariant, the safety theorems, the refinement, and that turns wind down |
| `MCChatTurn` | small instances |
| `Supervisor` | the supervisor, the deploy script and the runs of the orchestrator |
| `SupervisorProofs` | its inductive invariant, the reports, the labels, and the child it always has |
| `MCSupervisor` | small instances |
| `DesktopChat` | chat turns of the desktop app with cards, accounts and the change journal |
| `DesktopChatProofs` | its inductive invariant: the pinned account, the step budget, the journal, and that turns wind down |
| `MCDesktopChat` | small instances |

The map in `PROJECT.json` gives the source lines of every definition.

### McpPool and ChildLeases

`entries`, `retired` and `start` are the maps of `McpPool`; `child` is the
processes with their `PoolEntry`; `pc`, `key`, `held` and `closing` are the
turns (chat turns and resource requests) with the token they resolved, the
connections they must release and the eviction they wait for; `stored` and
`minted` are the token service. Tokens are numbered in the order of their
minting, per user.

A step ends where the code awaits the outside world, so it may run through
several functions: `RefreshEntry` is `evict` (which only retires a busy child)
followed by `entryFor` and by `spawn` up to `connect()`. The helpers `Spawn`
and `EntryFor` therefore take the state left by the synchronous code before
them as arguments. `StartFails` settles every turn that waits on the promise;
an acquire ends there, and a refresh reports the error as the tool's result.
`CatalogFails` is the rejection of `connect()` after the handshake: it leaves a
process in no map (an `Orphan`).

`ChildLeases` is what a turn may rely on. Each child has a place (`offered` to
the turns of its user, `retired`, or `none`), a user, the turns that have it on
loan, and may be dead. In the pool these are the map it is in, `child.user`, the
turns that hold it, and `proc`. Children that are still connecting, that are being
closed or that are orphans are in no map and have the place `none`. `Step` is
about one child; one step of the pool may hand a child out, retire a second and
close a third. `ShutDown` is a step of its own, for it is the one thing that takes
a child from under a turn.

`resolveToken` would also mint early for an identity that tells when it expires
(`mcp-pool.ts:117-120`). Neither provider of the repository returns `expiresAt`
(`google-identity.ts:80, 225`), so that code is dead in the present deployments. The
constant `KnowsExpiry` says whether the provider tells: the theorems hold either way,
`pool_liveness` sets it, and the runs that show a violation, like `pool_safety`,
do without. `acquire` does not ask whether the pool is shut down, so turns go on
after `Shutdown` and may start children again, until the process exits.
`NeverClosedUnderTurn` excepts the step of the shutdown itself and nothing after it.

Left out: `lastUsedAt` (any idle child may be swept or evicted, which covers
the least recently used one), log lines, `stats()`, and deployments without
per-user identity, where the token is empty and the pool still keys by user.

### JobQueue and JobLifecycle

Each method of the queue is one action of the loop that calls it. `Lease`
includes taking back every expired lease, as `lease()` does. `LeaseUnheard` and
`ReportDropped` are calls whose answer or request is lost (`ReportDropped` is
also the fence's refusal). `Stop` is a crash or the abort signal, and `Restart`
a new process under the same name. Time is only the time left of each lease.
`JobLifecycle` has per job the transitions of `WORKER_TRANSITIONS`, the bound on
runs and whose result is kept; `run` in `JobQueue`, the number of the run a loop
works on, is what makes "the latest run" expressible: the code's `QueuedJob`
returned by `lease()` carries it as `attempts`.

Left out: a report that is on its way when its loop crashes (a call to the queue is
one step; `ReportDropped` and then `Stop` is the report that did not arrive, the
report and then `Stop` the one that did), and the calls of `cancel()` that change
nothing.

### HttpSessions

`owner`, `inFlight` and `old` are the session map; `pending` is `pendingInits`;
the rest is the requests. A request is authenticated (an await) and then handled
in one step up to `handleRequest`. `closed` is the response's one `close` event,
which may come at any point, `counted` and `holds` are the listeners on it.
An initialize that has been admitted is `opening` until the SDK calls
`onsessioninitialized`; when that happens is the SDK's affair, and the model
lets it happen before or after the client hangs up.

A DELETE drops the entry whatever the transport answers (`Deleted`), unless
`handleRequest` throws: then the handler answers 500 and the session stays
(`DeleteFails`).

Left out: which idle session of the caller is replaced (any), the text of the
errors, and transport and server objects, which are closed with their entry.

### ChatTurn and ApprovedWrites

A turn is one request to `/v1/chat`, from its arrival over the route, the rounds
of `runTurn` and the calls of each round to `finish()` and the route's
`finally`. `pc` names the await a turn is at; `top` and `calls` are the two
places between awaits where the code branches, and `thread` is the turn that has
the one thread there, so that nothing else comes between. `gone` is the client's
signal and `timeUp` the timer of `runTurn`; `turnSignal` is either of them.
`batch`, `used`, `attempt` and `retryUsed` are locals of the loop. `pending` is
the broker's map, keyed by turn and number of the call. `held` counts the uses of
children of the pool (see `McpPool`), `billed` how often the turn was closed.

A call is its tier: `refused` (malformed arguments, the group gate, a tool
outside the permitted set), `own` (memory and site tools), `direct`, and the
gated `live` and `delete`. `fate`, `tier`, `approver`, `typed` and `runs` record
what became of each call and are what `ApprovedWrites` speaks about. There, calls
of a turn run one at a time, a gated one after its owner's approval, none begins
after a stop, and one call in a turn may be sent a second time.

That last action, `RunAgain`, is allowed in a stopped turn, because the code does
that: after the refresh the call is repeated without another look at the signal,
although the comment at `loop.ts:501` says that a stopped turn runs nothing more.
What is repeated is the call that was running when the turn was stopped, under
the approval it had.

The steps before the first round (`Opened`, `SetUp`) and the calls the orchestrator
answers itself (`OwnDone`) have no way to throw, because the code they call has none:
the memory store, `beginConversation` and the group lookup catch what their
requests throw, the workspace snapshot is read inside a `try` (`loop.ts:327-342`), and
`runSiteTool` returns every error as a text. Were something to throw before
`closing.finish` is set (`loop.ts:388`), that turn would not be billed; it would have
spent nothing by then.

Left out: what decides a call's tier (`writeTiers.ts`, `tool-groups.ts`,
permissions; pure functions of the call), what the model and the tools say, the
event stream, and the rate limit's and the plan's counters.

### Supervisor

`sup`, `child`, `run` and `timer` are the supervisor and its child; `script` and
`target` are `restart.mjs`; `pidFile`, `flag`, `note` and `marker` are the files
they share. A run reads its predecessor's note and the marker once
(`readLastExit`), and marks a crash that it reports itself. Each action is what
one process does between two waits, so every process may die between any two of
them (`DieSilently`, `MachineDown`). Ages are two-valued: the flag is fresh or
past its time to live, the marker is within a minute or not; both age only when
the code leaves them that time. History variables record what was asked for and
who reported what.

Some things the properties have to admit, because the code does them:

* `shutdown()` does not clear the restart timer, so a supervisor that is stopped
  during the back-off may start one more child before it exits three seconds
  later. `StopLeavesNone` names exactly this child.
* A failed start and a stop by signal are recorded by the run itself but leave no
  marker, so the next run reports them as well. `CrashReportedOnce` is about
  crashes only.
* A run that dies before it has read its predecessor's note has that note
  overwritten by its own: the reports of stops are about runs that have both read
  what was left for them.
* A run that finds no note on its predecessor leaves that one's marker where it is
  (`lifecycle.ts:178-179` returns before `consumeSelfReported`), and the marker may
  then hide the stop of this run from the next one. The comment at
  `lifecycle.ts:198-200` says that this cannot be: `StopReported` is what it says,
  and the run `supervisor_marker` refutes it. `NotedStopReported`, which holds, is
  the same of a run whose predecessor's end the supervisor had noted too.
* A request whose target is dead by the time it is written labels the next stop
  as planned for as long as it is believed (two minutes): `LabelledAsAsked`
  excepts it through `missed`.

A new supervisor may start while the last run is still flushing. It may not start
in the model beside a run that is alive, which `start()` does not check for: the
port is taken then, and the new run ends on that until the other one is gone.

Left out: that overlap, pids that are reused, a supervisor killed on its own, a spawn
that fails (`'error'` without `'exit'`: nothing restarts it), a second crash or a
signal during the flush of a crash (a second report of the same end by the run
itself), the lengths of the back-off, and the health monitor.

### DesktopChat

`Open` pins a turn to the active account, `Begin` opens it in the journal; then
come the steps of the agentic loop (`gateway.ts`) with their budgets, the
executor's guards (`registry.ts`), the cards and Stop (`chat-ipc.ts`), and the
data calls of a handler, one `item` each. `active` is the active account,
`pinned` the one a turn began with, `token` the one whose token the data call
under way uses. `refs`, `newest` and `revert` are the journal with the reverts
under way; `written` and `changed` are history.

A tool is abstracted to whether it writes, whether its writes are put in the journal
(those that create or update a tag, trigger or variable are; deletions, folders and
GA4 are not), whether it has a precheck, how many cards it needs, and the entities its
handler touches.

The model also shows what the code does not do, and what no property claims:

* Nobody looks at the signal after a precheck, so a Stop that comes during it is
  followed by a card, or by a draft write (`late`; the comment at
  `chat-ipc.ts:133-135` has only the card parked at the moment of the Stop in
  mind). `StoppedUnwinds` excepts the card; a second Stop removes it.
* Each data call of a handler resolves the active account again. When the user
  switches between two of them, the later ones are made for the other account,
  although the comments at `registry.ts:7087-7089` and `chat-service.ts:570-572`
  speak of the whole turn. `FirstRequestPinned` is about the first one.
* A write whose answer is lost is not in the journal, and only the newest turn
  can be reverted.

Left out: turns without a Tag Manager container (they have no journal turn),
`withRetry`, the gated executor (which passes calls through), and the result of a
call beyond "landed", "no-op" and "failed". An effect at Google is taken at the
moment of its answer.

## 3. The runs

| Run | Question | Bounds |
| --- | --- | --- |
| `pool_safety` | types, isolation, exact counts, distinct places, bounded overshoot, no close under a turn, the leases | 3 turns of 2 users, 2 slots, 2 tokens per user, 5 process names, no orphans, shutdown |
| `pool_liveness` | retired children go; waiting turns are answered | 2 turns of 2 users, 1 slot, 2 tokens, 4 process names, 1 orphan, an identity that tells its expiry |
| `pool_overshoot` | is the cap on children kept? (no) | 2 users, 1 slot |
| `pool_orphan` | is every live child in a map? (no) | 2 turns of 1 user |
| `pool_stale_refresh` | does a refresh yield the fresh token? (no) | 2 turns of 1 user, 2 slots, 2 tokens |
| `jobs_own_names` | types, one loop per run, stale reports dropped, the lifecycle, every job ends | 2 jobs, 2 priorities, 3 attempts, leases of 2 ticks, 2 workers |
| `jobs_shared_name` | does the fence hold when two workers share a name? (no) | as above, 2 attempts, 1 tick |
| `http_sessions` | types, exact counts, owner only, caps, no close under a request, every abandoned session closed | 2 principals, 2 requests at a time, caps 2 and 1, 3 session ids, 1 late registration |
| `chat_turns` | types, the broker's cards, approvals, children given back, one bill, the promise, every turn ends | 2 turns of one user, a second user who answers too, 3 batches, 2 calls a turn, 1 model retry |
| `supervisor` | types, every stop after a noted one reported, crashes once, planned only if asked for, no child left, the orchestrator comes back | 3 runs, 2 restart requests |
| `supervisor_marker` | is every stop reported, once both runs have read? (no) | 3 runs, no restart requests |
| `desktop_chat` | types, no change lost, none reverted twice, the pinned account, the step budget, a stopped turn unwinds | 2 turns, 2 accounts, 2 entities, 2 overlapping reverts, soft ceiling 1, hard ceiling 2, 1 identical write |

**Why the bounds are enough.** In the pool, isolation and the counts need two
turns of one user (to join, and to be replaced under each other) and one of
another (to compete for a slot and to be mixed up with); two tokens give one
replacement by token change, and more come from dying children. `Conn` are names
that are used again as soon as nothing refers to a process: five do not block a
start in the instance with three turns, and four give the same reachable states
as five in the one with two. Three attempts let a job be lost, retried and given
up. Two requests at once, with sessions that outlive them, are enough for a
sweep, replacement or deletion to fall between any two points of a request. With one
session per principal each of the two is at its own cap at once, and the cap on all
sessions is reached by both together; it is passed only through a late registration,
and `CapsHeld` has it for every value of the caps.
Counters are bounded by `MaxToken`, `MaxOrphan`, `MaxJob`, `MaxAttempts`,
`MaxLate`, `MaxRun` and `MaxRequest`, each in the guard of the one action that
counts.

Two conversations of one user are what a stop or an answer could confuse, and the
second user answers cards that are not his; two calls a turn let one be queued
behind a card, let a refresh fall on either, and let a batch exceed the budget.
Three runs let a run inherit what its predecessor inherited, and two requests let
a stale one meet a new one. In the desktop the turns differ in their batches: one
writes two drafts in one handler (for a switch or a Revert between them), the
other has a precheck, two cards and a call that may be queued behind another, or
be made alone, so that its two steps can land a write each. Two steps, one of
them past the soft ceiling, are where the budget's boundaries lie.

Symmetry is used for the process names of `pool_safety`, which has no liveness
property. Three passing runs do not check deadlock: `pool_safety`, since after
`Shutdown` the process really stops; `supervisor`, where the runs are used up;
and `desktop_chat`, where the turns are over and nothing is left to revert. All
other passing runs do; in `chat_turns` the end of every turn is the step `Done`.

**What the violations show.**

* *Overshoot.* `enforceCapacity` does not count starts in flight, so two users
  that start at once both pass. `OvershootBounded` says how bad it gets: at most
  one child per other user.
* *Orphan.* `McpConnection.connect` does not close the child when reading its
  catalog fails.
* *Stale refresh.* While `refreshIdentity` mints, the child exits, and another turn
  of the user, which had read the old token, starts one with it. The refresh joins
  that start and is handed the token Google has just rejected.
* *Marker.* A run crashes and reports it, but the machine goes down before the
  supervisor has noted the end. The next run finds no note and leaves the marker; it
  dies without a word within the minute, its own end is noted, and the run after it
  takes the marker for one of its predecessor's. Nobody reports that stop.
* *Shared names.* The fence compares worker names, and the default
  `worker_<pid>` is unique on one machine only.

**The caps of the HTTP sessions.** `OvershootIsLate` is exact: sessions and
pending initializes stay under both caps, but for registrations that come after
their client has hung up, since `close` has released the pending initialize by
then. Whether the SDK in use ever registers that late depends on what it awaits;
with none (`late` all zero) the property is the documented cap.

### Fairness

* Pool: awaits settle. Token calls and MCP requests time out, a close ends by
  killing the child, and the rounds of a turn are bounded, so a turn goes on
  (`AcquireEntry`, `RefreshEntry`, `RefreshEvict`, `RefreshEvicted`, `EndTurn`)
  and a start settles (`StartStep`). Nobody has to arrive, fail, exit or be idle
  for a sweep. Weak fairness is enough: each of these stays enabled until taken.
* Jobs: the clock ticks, a loop that is up polls, and a capture ends (it is held
  to time limits). No loop has to stay up; `JobsEnd` assumes one does in the end.
* HTTP: time passes and the sweep's timer fires (it can be switched off with
  `GTM_MCP_HTTP_SESSION_TTL_MS=0`, and then nothing is promised). No request has
  to end.
* Chat turns: requests to the model, the MCP and Google time out, the timers of
  an approval, of a wait and of the turn fire, and code that has the thread runs
  on. Nobody has to answer a card, to leave, or to fail.
* Supervisor: a run that is ending exits (its flush is bounded), the supervisor
  hears of an exit, and its restart timer fires. Nothing has to crash or be asked
  for, and no run has to become ready.
* Desktop: the code of a turn runs, and the requests it awaits are answered. The
  user need not do anything, so a turn parked on a card may stay there;
  `StoppedUnwinds` is what Stop promises without him.

`QuietTurnsAnswered` needs its assumption that no new turns arrive: while
`enforceCapacity` awaits the close of an evicted child, others may take the slot,
and nothing in the code puts a bound on how often.

## 4. The proofs

All theorems hold for every value of the constants that the named assumptions of
the module allow. None of them uses the fairness of its specification. Every
safety property and every action property of the passing runs is proved, and so are the
three refinements. The
inductive invariants were checked with TLC on the runs' instances before they
were proved.

**The pool** (`McpPoolProofs`). `PoolInv` is the inductive invariant. That a turn
holds its own user's child (`OwnChildOnly`) is not inductive: the step that hands
a child over relies on which user's start it is, on no one else closing or
holding a child that is still connecting (`ConnectingOwn`), and on each child
having one place (`Claimed`, `RetiredLive`, `ClosingOwn`). The counts need that a
child in the maps is held only by turns that will release it, and that a turn
that waits for an eviction does not hold what its user has cached. Because
`evict`, `entryFor` and `spawn` run in one step, the invariant is a predicate
`Sound` of explicit arguments: `SpawnSound` shows that `spawn` keeps it from the
state in between, `EntryForSound` builds on it, and there is one lemma per
action on top. From `PoolInv`: `TypeCorrect`, `Isolation`, `CountsExact`,
`PlacesDistinct`. `ClosedOnlyUnheld` is an action property, proved from the
invariant with one lemma for each kind of step (`StepClosesNone`).

`OvershootIsBounded` follows from the check before each spawn (`Fits`,
`SpawnFits`): it found a slot free in the maps, and every other user has at most
one start in flight besides; a start that succeeds only moves from the one count
to the other. `NobodyLeftWaiting` says that a start is in flight for exactly the
users that have a turn suspended on one: a turn that joins a start never awaits a
promise that nobody settles.

`PoolKeepsLeases` (`McpPoolLeases`) looks at one child at a time. For each step of
the pool there is a lemma that says which steps of `ChildLeases` it may be for a
child; `OneOffered` is the function `entries` once places are distinct. That a
retired child leaves with its last turn, and no sooner, rests on `UseCounted`: the
code compares a counter, the abstract specification the set of loans.

**The queue** (`JobQueueProofs`). `JobInv` is inductive whatever the workers are
called, and so are what follows from it: the types with the bound on attempts
(`JobTypes`), that no two loops work on one run (`RunsUnshared`), and that a job
that has ended keeps its status, its attempts and its result (`EndedIsFinal`).
The rest is under `DistinctNames`, which the run `jobs_shared_name` shows to be
necessary for the fence: with `HolderIsLatest` (whoever holds a lease by name
works on the latest run) follows `FenceHolds`, and `QueueRefinesLifecycle` maps each
step of the queue to a step of `JobLifecycle`, in which one call to `lease()`
may move several jobs.

**The sessions** (`HttpSessionsProofs`). `HttpInv` is `TypeOK` without the upper
bounds, the two exact counts as cardinalities (`Counts`), and for each request
what its place implies (`Shape`): that it is counted only while it is handled and
its response is open, that it holds a pending initialize exactly while it is
opening, and that the id of a session being opened is in nobody else's hands. The
last is what keeps the counts apart. A closing response is the one delicate step
(`CloseCounts`): what its listeners give back is what the request was counted
for, and nothing when the entry has left the map. `BusyKept` is an action
property: a session with a user has `inFlight` above zero (`BusyCount`), so it is
not idle, and a DELETE that reaches it is served to its owner (`Served`).

The caps need a second invariant on top (`Caps`): an admission finds room for one
more, and what it takes is a pending initialize, then a session, then nothing; only
a registration after the hang-up adds a session for which the pending initialize
was given back already, and that is what `late` counts, per principal and in
all. The laws of that sum are proved in `Sums`, by the least set for which they
would fail instead of by induction. `AbandonedSweepable` is an action property:
while no request names a session nothing is in flight on it, and once old it stays
old until it is gone, so every firing of the sweep finds it.

**The chat turns** (`ChatTurnProofs`). Most of the state belongs to one turn, so
`TurnInv` is a predicate `Good(t)` of each turn, with the thread and the broker's
map. An action is shown to keep `Good` for its own turn and to leave the others as
they are (`Same`). `Good(t)` ties the place of a turn to the fate of its current
call, to what it holds and to whether its retry is spent; without the last,
neither `HeldReleased` nor the single `RunAgain` of the promise is inductive. The
refinement `TurnsKeepPromise` has a lemma for each action: which step of
`ApprovedWrites` it is, or that it is a stutter.

`TurnsTerminate` is the well-founded part of the argument for `TurnEnds`. A turn
takes up at most `MaxCalls` calls (`TurnTypes`); between two of them `Left` counts
how far the next one or the end is, by the place of the turn and the retries of
the model that remain. Every step of `Next` brings some turn closer, either by a call
more or by less that is left, unless it is one of the two signals each turn may
have; and no step of anybody leads a turn away. So the rounds, the waits between
retries, the refresh and the cards make no loop, whatever the model answers.

**The supervisor** (`SupervisorProofs`). `Control` is about the processes: the
restart timer runs only without a child, and a request that is believed has
missed its target or its target is the child; `NoneLeft` and `LabelsTrue` follow
from it. The reports need the two files that carry news from one run to the
next. The note on a run waits for the one run that may read it (`NoteWaits`,
`NotesLast`). A marker was left by a crash, is fresh when the supervisor hears of
that crash, and is gone once a run has found a note on its predecessor
(`MarkersOfCrashes`). What is left is why an end that nobody asked for may have
been noted as near a marker (`NearExplained`): that is where the premises of
`NotedStopReported` come from. `AlwaysAChild` is what `ComesBack` rests on: a supervisor
that is up has a child or the timer that will start one, never both, and the pid
file names exactly that child, so that a restart is sent to the run there is.

**The desktop's turns** (`DesktopChatProofs`). As for the chat turns, `TurnsInv`
is a predicate `Good(t)` of each turn that an action keeps for its own turn. The
budget is not inductive by itself: `Paced` says how the step counter, the steps
since a write and the step that landed one hang together at each place of a turn,
and whether the current step is among them yet. `FirstRequestPinned` has to hold
for the token a call bears, so it is part of `Good` too. The journal
(`JournalInv`) needs only that a revert with work to do belongs to a turn; the
count of the reverts that have an entity in hand is a cardinality, and taking the
refs out, handing them back and reverting one are steps of it by one at most.
`TurnsTerminate` orders what a turn has left: its stage, the steps of its budget,
the phase of the step, the calls of the batch, the cards of the call, the data
calls of its handler. The turn's own steps and the answers it awaits go down in
that order, and no Stop, switch of the account, revert or other turn goes up.

Only model-checked are the seven liveness properties, which need fairness and
ENABLED and are out of the provers' reach. For most of them the theorems have the
part that is about the code, and TLC adds the fairness on a small instance:

| Liveness property | What is proved of it |
| --- | --- |
| `QuietTurnsAnswered` | `NobodyLeftWaiting`: a suspended turn has a start in flight |
| `RetiredDrains` | `PlacesDistinct`, `PoolKeepsLeases`: a retired child has turns, gets no new ones, and goes with the last |
| `JobsEnd` | `JobTypes`, `EndedIsFinal`: runs are bounded, and an end is for good |
| `AbandonedSwept` | `AbandonedSweepable`: an abandoned session stays within reach of the sweep |
| `TurnEnds` | `TurnsTerminate`: the turns make no loop |
| `ComesBack` | `AlwaysAChild`: there is a child or a timer |
| `StoppedUnwinds` | `TurnsTerminate`: nothing moves a turn away from its end |

## 5. The plan

Done: `ChildLeases` and `McpPool` with runs, proofs and refinement; `JobLifecycle`,
`JobQueue`, the refinement and its proof; `HttpSessions` with runs and proofs;
`ApprovedWrites` and `ChatTurn` with run, proofs and refinement; `Supervisor` and
`DesktopChat` with their runs and proofs.

Left, in the order of what they would add:

1. `ChatTurn` composed with `ChildLeases` in place of its count `held`.
2. The retry loops (`quota-retry.ts`, `apiRetry.ts`) with writes that take effect
   without an answer.
3. The scanner's shared connection, the event writers and the health monitor.
4. A measure that goes down for the jobs, as there is one for the turns: each run
   of a job ends, by its loop or by its lease.

## 6. Not modelled

Formatting and prompts; the rules of the GTM and GA4 audits; browsers and
crawling; the desktop user interface; the wire protocols (MCP, OAuth, SSE);
`NoopJobQueue`, and the demo `InMemoryQueueClient` of the queue consumer; the
audit-run statuses of `jobs.ts`, which no queue method changes. `PROJECT.json`
gives the reason for each component.

The modelled lines are a small part of the repository by size. By far the largest
files are user interface (`App.tsx`), tables of tools with one REST call each
(`registry.ts`, `data-service.ts`, `gtm-builders.ts`), rules of audits
(`audit.ts`, `suggest.ts`) and migrations of configuration data
(`server-migration.ts`): functions of their inputs whose state is at Google, where
what could go wrong is in the wording of a rule and not in the order of events.
The models cover the code that keeps state across awaits, processes or requests.
