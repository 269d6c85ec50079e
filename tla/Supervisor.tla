----------------------------- MODULE Supervisor -----------------------------
(***************************************************************************)
(* The supervisor of the chat orchestrator (scripts/supervise.mjs of       *)
(* apps/chat-orchestrator), the deploy script that asks it for a restart   *)
(* (scripts/restart.mjs), and what a run of the orchestrator does about    *)
(* its own end and its predecessor's (src/lifecycle.ts, src/index.ts).     *)
(*                                                                         *)
(* They are processes that share four files: the pid file, the restart     *)
(* flag, the note on the last exit, and the marker of a crash that has     *)
(* reported itself.  Each action is the code of one process between two    *)
(* waits; the files survive everything.  Pids are not reused here: a run's *)
(* number stands for its pid.                                              *)
(***************************************************************************)
EXTENDS Integers, FiniteSets

CONSTANTS
    MaxRun,       \* bound: runs of the orchestrator
    MaxRequest    \* bound: runs of restart.mjs

ASSUME SupervisorAssumption == MaxRun \in Nat \ {0} /\ MaxRequest \in Nat

Run == 1..MaxRun

VARIABLES
    sup,          \* the supervisor: "up", "stopping", "down"
    child,        \* the latest run: see Stages
    run,          \* its number
    timer,        \* the supervisor's timer to start the next run
    stopRun,      \* the latest run when the supervisor was told to stop
    pidFile,      \* orchestrator.pid: a run, or 0
    flag,         \* restart-requested: "none", "fresh", or "old" (past its TTL)
    note,         \* last-exit.json: the run that ended, or 0
    notePlanned,  \*   planned
    noteNear,     \*   written within a minute of the marker there was
    marker,       \* last-crash-reported.json: the run that wrote it, or 0
    markerOld,    \*   more than a minute old
    script,       \* restart.mjs: "idle", "checked", "written"
    target,       \*   the pid it has read
    asked         \*   how often it has written the flag

\* History: what was asked for, what happened, and who reported it.
VARIABLES
    targets,      \* runs the script has asked to end
    missed,       \* a request that is still believed was not for the run that goes on
    planned,      \* runs whose end was noted as planned
    heard,        \* runs whose end the supervisor has noted
    read,         \* runs that came to read the note of their predecessor
    own,          \* how a run has reported its own end
    told          \* how often later runs have reported it

fileVars    == <<pidFile, flag, note, notePlanned, noteNear, marker, markerOld>>
noteVars    == <<note, notePlanned, noteNear>>
markerVars  == <<marker, markerOld>>
scriptVars  == <<script, target, asked, targets, missed>>
historyVars == <<planned, heard, read, own, told>>
vars == <<sup, child, run, timer, stopRun, fileVars, scriptVars, historyVars>>

\* boot: no handlers yet, the note not read.  ending: it has reported its own
\* end and is flushing.  gone: it has exited, and the supervisor does not know.
Alive  == {"boot", "ready", "serving", "ending"}
Stages == Alive \cup {"gone", "none"}

Init ==
    /\ sup = "down" /\ child = "none" /\ run = 0 /\ timer = FALSE /\ stopRun = 0
    /\ pidFile = 0 /\ flag = "none"
    /\ note = 0 /\ notePlanned = FALSE /\ noteNear = FALSE
    /\ marker = 0 /\ markerOld = FALSE
    /\ script = "idle" /\ target = 0 /\ asked = 0 /\ targets = {} /\ missed = FALSE
    /\ planned = {} /\ heard = {} /\ read = {}
    /\ own  = [r \in Run |-> "no"]
    /\ told = [r \in Run |-> 0]

-----------------------------------------------------------------------------
(* A run of the orchestrator.                                              *)

\* Mutants: the marker is left when it has been read; the note is.
MarkerKept == UNCHANGED markerVars
NoteKept == UNCHANGED noteVars

MarkerCleared == marker' = 0 /\ markerOld' = FALSE
NoteCleared == note' = 0 /\ notePlanned' = FALSE /\ noteNear' = FALSE

\* Mutant: what the dead run has reported itself is reported again.
ReportsAlways == TRUE

\* The marker suppresses the report of an unplanned stop.
ReportsNote == notePlanned \/ ~noteNear

\* installCrashHandlers and readLastExit.  Without a note the marker stays.
ReadNote ==
    /\ child = "boot"
    /\ child' = "ready"
    /\ read'  = read \cup {run}
    /\ IF note = 0
         THEN UNCHANGED <<noteVars, markerVars, told>>
         ELSE /\ told' = IF ReportsNote THEN [told EXCEPT ![note] = @ + 1] ELSE told
              /\ NoteCleared /\ MarkerCleared
    /\ UNCHANGED <<sup, run, timer, stopRun, pidFile, flag, scriptVars, planned, heard, own>>

Listen ==
    /\ child = "ready"
    /\ child' = "serving"
    /\ UNCHANGED <<sup, run, timer, stopRun, fileVars, scriptVars, historyVars>>

\* main() rejects: recorded as a failed start, without a marker.
StartupFails ==
    /\ child \in {"boot", "ready"}
    /\ child' = "ending"
    /\ own' = [own EXCEPT ![run] = "startup"]
    /\ UNCHANGED <<sup, run, timer, stopRun, fileVars, scriptVars, planned, heard, read, told>>

\* Mutant: the crash is recorded, and the process ends before it is marked.
Unmarked == UNCHANGED markerVars

Marked == marker' = run /\ markerOld' = FALSE

\* An uncaught error: marked, recorded, then flushed.
Crash ==
    /\ child \in {"ready", "serving"}
    /\ child' = "ending"
    /\ Marked
    /\ own' = [own EXCEPT ![run] = "crash"]
    /\ UNCHANGED <<sup, run, timer, stopRun, pidFile, flag, noteVars, scriptVars,
                   planned, heard, read, told>>

\* The flush ends, or its three seconds.
Exit ==
    /\ child = "ending"
    /\ child' = "gone"
    /\ UNCHANGED <<sup, run, timer, stopRun, fileVars, scriptVars, historyVars>>

\* Out of memory, terminated from outside, or a throw while modules load.
DieSilently ==
    /\ child \in Alive
    /\ child' = "gone"
    /\ UNCHANGED <<sup, run, timer, stopRun, fileVars, scriptVars, historyVars>>

\* What a kill does: it ends the process on the spot, as on Windows, or its own
\* handler records the stop, once it serves.
Killed ==
    \/ /\ child' = IF child \in Alive THEN "gone" ELSE child
       /\ UNCHANGED own
    \/ /\ child = "serving"
       /\ child' = "ending"
       /\ own' = [own EXCEPT ![run] = "signal"]

-----------------------------------------------------------------------------
(* The supervisor.                                                         *)

StartChild ==
    /\ run < MaxRun
    /\ run' = run + 1
    /\ child' = "boot"
    /\ pidFile' = run + 1

\* A run of the last supervisor may still be flushing: it does nothing any more
\* that anyone could see.
SupervisorStarts ==
    /\ sup = "down" /\ child \in {"none", "gone", "ending"}
    /\ sup' = "up"
    /\ StartChild
    /\ missed' = (flag = "fresh")
    /\ UNCHANGED <<timer, stopRun, flag, noteVars, markerVars, script, target, asked, targets,
                   historyVars>>

\* Mutants: a request is believed whatever its age; it is not deleted.
Believed == flag # "none"
FlagKept == UNCHANGED flag

\* consumeRestartRequest: a usable request; read or not, it is deleted.
Requested == flag = "fresh"
FlagCleared == flag' = "none"

WriteNote(isPlanned) ==
    /\ note' = run
    /\ notePlanned' = isPlanned
    /\ noteNear' = (marker # 0 /\ ~markerOld)
    /\ heard' = heard \cup {run}
    /\ planned' = IF isPlanned THEN planned \cup {run} ELSE planned

\* Mutant: a planned stop is taken for one of the supervisor.
ArmsUnlessPlanned == timer' = ~Requested

Arms == timer' = TRUE

\* The 'exit' event of the child.
HandleExit ==
    /\ child = "gone" /\ sup \in {"up", "stopping"}
    /\ child' = "none"
    /\ pidFile' = 0
    /\ IF sup = "stopping"
         THEN UNCHANGED <<flag, noteVars, planned, heard, timer, missed>>
         ELSE /\ WriteNote(Requested)
              /\ missed' = (missed /\ ~Requested)
              /\ FlagCleared
              /\ Arms
    /\ UNCHANGED <<sup, run, stopRun, markerVars, script, target, asked, targets, read, own, told>>

\* The timer is not cleared by shutdown().
Respawn ==
    /\ timer /\ sup \in {"up", "stopping"}
    /\ timer' = FALSE
    /\ StartChild
    /\ UNCHANGED <<sup, stopRun, flag, noteVars, markerVars, scriptVars, historyVars>>

\* Mutant: the supervisor goes and lets its child live.
NotKilled == UNCHANGED <<child, own>>

StopsChild == Killed

\* shutdown(): the child variable is null once its exit has been handled.
StopSupervisor ==
    /\ sup = "up"
    /\ sup' = "stopping"
    /\ stopRun' = run
    /\ pidFile' = 0
    /\ IF child # "none"
         THEN WriteNote(TRUE) /\ StopsChild
         ELSE UNCHANGED <<child, own, planned, heard, noteVars>>
    /\ UNCHANGED <<run, timer, flag, markerVars, scriptVars, read, told>>

\* Three seconds later, whatever there is to wait for.
SupervisorExits ==
    /\ sup = "stopping"
    /\ sup' = "down"
    /\ timer' = FALSE
    /\ UNCHANGED <<child, run, stopRun, fileVars, scriptVars, historyVars>>

\* The machine goes down, and every process with it.
MachineDown ==
    /\ sup # "down"
    /\ sup' = "down" /\ child' = "none" /\ timer' = FALSE /\ stopRun' = run
    /\ script' = "idle" /\ target' = 0
    /\ UNCHANGED <<run, fileVars, missed, asked, targets, historyVars>>

-----------------------------------------------------------------------------
(* restart.mjs.                                                            *)

TargetAlive(r) == r = run /\ child \in Alive

ScriptChecks ==
    /\ script = "idle" /\ asked < MaxRequest
    /\ pidFile # 0 /\ TargetAlive(pidFile)
    /\ script' = "checked" /\ target' = pidFile
    /\ UNCHANGED <<sup, child, run, timer, stopRun, fileVars, asked, targets, missed, historyVars>>

\* Before the kill: the supervisor reads it as soon as it sees the child exit.
ScriptWrites ==
    /\ script = "checked"
    /\ script' = "written"
    /\ flag' = "fresh"
    /\ asked' = asked + 1
    /\ targets' = targets \cup {target}
    /\ missed' = (missed \/ ~TargetAlive(target))
    /\ UNCHANGED <<sup, child, run, timer, stopRun, pidFile, noteVars, markerVars, target, historyVars>>

ScriptKills ==
    /\ script = "written"
    /\ script' = "idle" /\ target' = 0
    /\ IF TargetAlive(target)
         THEN Killed /\ UNCHANGED missed
         ELSE missed' = (flag = "fresh") /\ UNCHANGED <<child, own>>
    /\ UNCHANGED <<sup, run, timer, stopRun, fileVars, asked, targets, planned, heard, read, told>>

-----------------------------------------------------------------------------
(* Time.  The kill follows the request at once, and the exit its marker.   *)

FlagAges ==
    /\ flag = "fresh" /\ script # "written"
    /\ flag' = "old"
    /\ missed' = FALSE
    /\ UNCHANGED <<sup, child, run, timer, stopRun, pidFile, noteVars, markerVars,
                   script, target, asked, targets, historyVars>>

MarkerAges ==
    /\ marker # 0 /\ ~markerOld
    /\ marker \in heard \/ run > marker \/ sup = "down"
    /\ markerOld' = TRUE
    /\ UNCHANGED <<sup, child, run, timer, stopRun, pidFile, flag, noteVars, marker,
                   scriptVars, historyVars>>

-----------------------------------------------------------------------------
ChildStep == ReadNote \/ Listen \/ StartupFails \/ Crash \/ Exit \/ DieSilently

SupervisorStep ==
    SupervisorStarts \/ HandleExit \/ Respawn \/ StopSupervisor \/ SupervisorExits

ScriptStep == ScriptChecks \/ ScriptWrites \/ ScriptKills

Next == ChildStep \/ SupervisorStep \/ ScriptStep \/ MachineDown \/ FlagAges \/ MarkerAges

\* A process that ends, ends; the supervisor hears of it, and its timers fire.
Fairness == WF_vars(Exit) /\ WF_vars(HandleExit) /\ WF_vars(Respawn)

Spec == Init /\ [][Next]_vars /\ Fairness

-----------------------------------------------------------------------------
(* Properties.                                                             *)

\* The shapes of the processes and the files; only runs that were are named, and
\* no stop is reported twice by later runs.
TypeOK ==
    /\ sup \in {"up", "stopping", "down"} /\ child \in Stages
    /\ run \in 0..MaxRun /\ timer \in BOOLEAN /\ stopRun \in 0..run
    /\ pidFile \in 0..run /\ flag \in {"none", "fresh", "old"}
    /\ note \in 0..run /\ notePlanned \in BOOLEAN /\ noteNear \in BOOLEAN
    /\ marker \in 0..run /\ markerOld \in BOOLEAN
    /\ script \in {"idle", "checked", "written"} /\ target \in 0..run
    /\ asked \in 0..MaxRequest /\ targets \subseteq 1..run /\ missed \in BOOLEAN
    /\ planned \subseteq 1..run /\ heard \subseteq 1..run /\ read \subseteq 1..run
    /\ own \in [Run -> {"no", "startup", "crash", "signal"}]
    /\ told \in [Run -> 0..1]

\* A stop that the supervisor has noted is reported, by the run that ended or by
\* the next one, once both have read what was left for them: no marker of an earlier
\* crash survives that ("The marker is always cleared [...] one left behind would
\* suppress the report of a later crash, which is the one failure mode worse than a
\* duplicate").
StopReported ==
    \A r \in Run \ {MaxRun} :
        r \in heard /\ {r, r + 1} \subseteq read => told[r] > 0 \/ own[r] # "no"

\* What does hold: the same, of a run whose predecessor's end the supervisor had
\* noted too.  (Without that note the run leaves the marker where it is.)
NotedStopReported ==
    \A r \in Run \ {MaxRun} :
        /\ r \in heard /\ {r, r + 1} \subseteq read
        /\ r > 1 => r - 1 \in heard
        => told[r] > 0 \/ own[r] # "no"

\* A crash that has reported itself is reported again by a later run only when a
\* restart, or a stop, was asked for as well.
CrashReportedOnce ==
    \A r \in Run : own[r] = "crash" /\ told[r] > 0 => r \in planned

\* A supervisor that was told to stop leaves no child running but one that its
\* restart timer has started since.
StopLeavesNone ==
    sup = "down" /\ child \in {"boot", "ready", "serving"} => run > stopRun

\* While the supervisor goes on, a stop that nobody asked for is noted as planned
\* only because of a request that missed its target (it was dead by then, or the
\* supervisor was stopped first), and only for as long as that is believed.
LabelledAsAsked ==
    [][\A r \in planned' \ planned : sup' = "stopping" \/ r \in targets \/ missed]_vars

\* The orchestrator comes back after each exit, as long as its supervisor stays.
ComesBack ==
    (sup = "up" /\ child \in {"ending", "gone"})
        ~> (child = "boot" \/ sup # "up" \/ run = MaxRun)
=============================================================================
