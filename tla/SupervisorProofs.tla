-------------------------- MODULE SupervisorProofs --------------------------
(***************************************************************************)
(* The supervisor and the runs of the orchestrator, for any number of runs *)
(* and of restart requests: what is reported about the end of a run, what  *)
(* is called planned, and which child may outlive a stop.                  *)
(***************************************************************************)
EXTENDS Supervisor, TLAPS

\* A run reports its own end as the last thing it does.
OwnReportLast ==
    \A r \in Run : own[r] # "no" => r <= run /\ (r = run => child \in {"ending", "gone", "none"})

\* The supervisor notes the end of the run that was last, and knows none of one
\* that is still its child.
NotesLast ==
    /\ note # 0 => note \in heard
    /\ run \in heard => note = run /\ child \in {"ending", "gone", "none"}
    /\ sup = "up" /\ child # "none" => run \notin heard
    /\ note # 0 /\ notePlanned => note \in planned

\* The note on a run is there for the next one to read, which is the only one to.
NoteWaits ==
    /\ child = "boot" /\ run - 1 \in heard => note = run - 1
    /\ child = "boot" => run \notin read
    /\ \A r \in Run : told[r] > 0 => r < run /\ r # note

\* A marker was left by a crash.  It is fresh when the supervisor hears of that
\* crash, and a run that found a note on its predecessor starts without one.
MarkersOfCrashes ==
    /\ marker # 0 => own[marker] = "crash"
    /\ /\ sup # "down" /\ run \notin heard
       /\ child \in {"ending", "gone"} /\ own[run] = "crash"
       => marker = run /\ ~markerOld
    /\ run \in read /\ (run = 1 \/ run - 1 \in heard) => marker \in {0, run}

\* Why an unplanned end may have been noted close to a marker.
NearExplained ==
    /\ note # 0 /\ own[note] = "crash" /\ ~notePlanned => noteNear
    /\ note # 0 /\ ~notePlanned /\ noteNear =>
          own[note] # "no" \/ note \notin read \/ (note > 1 /\ note - 1 \notin heard)

\* The timer runs only when there is no child; a request that is believed has
\* missed its target, or its target is the child.
Control ==
    /\ child # "none" => run > 0
    /\ timer => child = "none" /\ sup # "down"
    /\ script # "idle" => target > 0
    /\ script = "checked" => asked < MaxRequest
    /\ sup = "up" /\ flag = "fresh" => missed \/ (run \in targets /\ child # "none")
    /\ sup # "up" /\ child \in {"boot", "ready", "serving"} => run > stopRun

Reports == OwnReportLast /\ NotesLast /\ NoteWaits /\ MarkersOfCrashes /\ NearExplained

SupervisorInv == TypeOK /\ Control /\ Reports /\ NotedStopReported /\ CrashReportedOnce

-----------------------------------------------------------------------------
LEMMA InitInv == Init => SupervisorInv
<1>. SUFFICES ASSUME Init PROVE SupervisorInv
  OBVIOUS
<1>. USE SupervisorAssumption DEF Init, Run
<1>1. TypeOK
  <2>1. /\ timer \in BOOLEAN /\ notePlanned \in BOOLEAN /\ noteNear \in BOOLEAN
        /\ markerOld \in BOOLEAN /\ missed \in BOOLEAN
    OBVIOUS
  <2>. QED  BY <2>1 DEF TypeOK, Alive, Stages
<1>2. Control
  BY DEF Control
<1>3. OwnReportLast /\ NotesLast /\ NoteWaits
  BY DEF OwnReportLast, NotesLast, NoteWaits
<1>4. MarkersOfCrashes /\ NearExplained
  BY DEF MarkersOfCrashes, NearExplained
<1>5. NotedStopReported /\ CrashReportedOnce
  BY DEF NotedStopReported, CrashReportedOnce
<1>. QED  BY <1>1, <1>2, <1>3, <1>4, <1>5 DEF SupervisorInv, Reports

LEMMA ReadNoteInv == SupervisorInv /\ ReadNote => SupervisorInv'
<1>. SUFFICES ASSUME SupervisorInv, ReadNote PROVE SupervisorInv'
  OBVIOUS
<1>. USE SupervisorAssumption DEF ReadNote, ReportsNote, NoteCleared, MarkerCleared, Alive,
        Stages, Run, fileVars, noteVars, markerVars, scriptVars, historyVars
<1>1. TypeOK'
  <2>1. /\ sup' \in {"up", "stopping", "down"} /\ child' \in Stages
        /\ run' \in 0..MaxRun /\ stopRun' \in 0..run'
    BY DEF SupervisorInv, Reports, TypeOK, Control, NoteWaits, NotesLast
  <2>2. /\ pidFile' \in 0..run' /\ flag' \in {"none", "fresh", "old"}
        /\ note' \in 0..run' /\ marker' \in 0..run'
    BY DEF SupervisorInv, Reports, TypeOK, Control, NoteWaits, NotesLast
  <2>3. /\ script' \in {"idle", "checked", "written"} /\ target' \in 0..run'
        /\ asked' \in 0..MaxRequest /\ targets' \subseteq 1..run'
    BY DEF SupervisorInv, Reports, TypeOK, Control, NoteWaits, NotesLast
  <2>4. timer' \in BOOLEAN /\ missed' \in BOOLEAN
    BY DEF TypeOK, SupervisorInv
  <2>5. notePlanned' \in BOOLEAN /\ noteNear' \in BOOLEAN /\ markerOld' \in BOOLEAN
    BY DEF TypeOK, SupervisorInv
  <2>6. planned' \subseteq 1..run' /\ heard' \subseteq 1..run' /\ read' \subseteq 1..run'
    BY DEF SupervisorInv, TypeOK, Control
  <2>7. /\ own' \in [Run -> {"no", "startup", "crash", "signal"}]
        /\ told' \in [Run -> 0..1]
    BY DEF SupervisorInv, Reports, TypeOK, Control, NoteWaits, NotesLast
  <2>. QED  BY <2>1, <2>2, <2>3, <2>4, <2>5, <2>6, <2>7 DEF TypeOK
<1>2. Control'
  BY DEF SupervisorInv, Reports, TypeOK, Control
<1>3. OwnReportLast'
  BY DEF SupervisorInv, Reports, TypeOK, Control, OwnReportLast
<1>4. NotesLast'
  BY DEF SupervisorInv, Reports, TypeOK, Control, NotesLast
<1>5. NoteWaits'
  BY DEF SupervisorInv, Reports, TypeOK, Control, NotesLast, NoteWaits
<1>6. MarkersOfCrashes'
  BY DEF SupervisorInv, Reports, TypeOK, Control, OwnReportLast, NotesLast, NoteWaits,
     MarkersOfCrashes
<1>7. NearExplained'
  BY DEF SupervisorInv, Reports, TypeOK, Control, OwnReportLast, NotesLast, NoteWaits,
     MarkersOfCrashes, NearExplained
<1>8. NotedStopReported'
  BY DEF SupervisorInv, Reports, TypeOK, Control, NotesLast, NoteWaits, NearExplained,
     NotedStopReported
<1>9. CrashReportedOnce'
  BY DEF SupervisorInv, Reports, TypeOK, Control, OwnReportLast, NotesLast, NoteWaits,
     NearExplained, CrashReportedOnce
<1>. QED  BY <1>1, <1>2, <1>3, <1>4, <1>5, <1>6, <1>7, <1>8, <1>9 DEF SupervisorInv, Reports

LEMMA ListenInv == SupervisorInv /\ Listen => SupervisorInv'
<1>. SUFFICES ASSUME SupervisorInv, Listen PROVE SupervisorInv'
  OBVIOUS
<1>. USE SupervisorAssumption DEF Listen, Alive, Stages, Run, fileVars, noteVars,
        markerVars, scriptVars, historyVars
<1>1. TypeOK'
  BY DEF SupervisorInv, Reports, TypeOK, Control, NoteWaits, NotesLast
<1>2. Control'
  BY DEF SupervisorInv, Reports, TypeOK, Control
<1>3. OwnReportLast'
  BY DEF SupervisorInv, Reports, TypeOK, Control, OwnReportLast
<1>4. NotesLast'
  BY DEF SupervisorInv, Reports, TypeOK, Control, NotesLast
<1>5. NoteWaits'
  BY DEF SupervisorInv, Reports, TypeOK, Control, NotesLast, NoteWaits
<1>6. MarkersOfCrashes'
  BY DEF SupervisorInv, Reports, TypeOK, Control, OwnReportLast, NotesLast, NoteWaits,
     MarkersOfCrashes
<1>7. NearExplained'
  BY DEF SupervisorInv, Reports, TypeOK, Control, OwnReportLast, NotesLast, NoteWaits,
     MarkersOfCrashes, NearExplained
<1>8. NotedStopReported'
  BY DEF SupervisorInv, Reports, TypeOK, Control, NotesLast, NoteWaits, NearExplained,
     NotedStopReported
<1>9. CrashReportedOnce'
  BY DEF SupervisorInv, Reports, TypeOK, Control, OwnReportLast, NotesLast, NoteWaits,
     NearExplained, CrashReportedOnce
<1>. QED  BY <1>1, <1>2, <1>3, <1>4, <1>5, <1>6, <1>7, <1>8, <1>9 DEF SupervisorInv, Reports

LEMMA StartupFailsInv == SupervisorInv /\ StartupFails => SupervisorInv'
<1>. SUFFICES ASSUME SupervisorInv, StartupFails PROVE SupervisorInv'
  OBVIOUS
<1>. USE SupervisorAssumption DEF StartupFails, Alive, Stages, Run, fileVars, noteVars,
        markerVars, scriptVars, historyVars
<1>1. TypeOK'
  BY DEF SupervisorInv, Reports, TypeOK, Control, NoteWaits, NotesLast
<1>2. Control'
  BY DEF SupervisorInv, Reports, TypeOK, Control
<1>3. OwnReportLast'
  BY DEF SupervisorInv, Reports, TypeOK, Control, OwnReportLast
<1>4. NotesLast'
  BY DEF SupervisorInv, Reports, TypeOK, Control, NotesLast
<1>5. NoteWaits'
  BY DEF SupervisorInv, Reports, TypeOK, Control, NotesLast, NoteWaits
<1>6. MarkersOfCrashes'
  BY DEF SupervisorInv, Reports, TypeOK, Control, OwnReportLast, NotesLast, NoteWaits,
     MarkersOfCrashes
<1>7. NearExplained'
  BY DEF SupervisorInv, Reports, TypeOK, Control, OwnReportLast, NotesLast, NoteWaits,
     MarkersOfCrashes, NearExplained
<1>8. NotedStopReported'
  BY DEF SupervisorInv, Reports, TypeOK, Control, NotesLast, NoteWaits, NearExplained,
     NotedStopReported
<1>9. CrashReportedOnce'
  BY DEF SupervisorInv, Reports, TypeOK, Control, OwnReportLast, NotesLast, NoteWaits,
     NearExplained, CrashReportedOnce
<1>. QED  BY <1>1, <1>2, <1>3, <1>4, <1>5, <1>6, <1>7, <1>8, <1>9 DEF SupervisorInv, Reports

LEMMA CrashInv == SupervisorInv /\ Crash => SupervisorInv'
<1>. SUFFICES ASSUME SupervisorInv, Crash PROVE SupervisorInv'
  OBVIOUS
<1>. USE SupervisorAssumption DEF Crash, Marked, Alive, Stages, Run, fileVars, noteVars,
        markerVars, scriptVars, historyVars
<1>1. TypeOK'
  <2>1. /\ sup' \in {"up", "stopping", "down"} /\ child' \in Stages
        /\ run' \in 0..MaxRun /\ stopRun' \in 0..run'
    BY DEF SupervisorInv, Reports, TypeOK, Control, NoteWaits, NotesLast
  <2>2. /\ pidFile' \in 0..run' /\ flag' \in {"none", "fresh", "old"}
        /\ note' \in 0..run' /\ marker' \in 0..run'
    BY DEF SupervisorInv, Reports, TypeOK, Control, NoteWaits, NotesLast
  <2>3. /\ script' \in {"idle", "checked", "written"} /\ target' \in 0..run'
        /\ asked' \in 0..MaxRequest /\ targets' \subseteq 1..run'
    BY DEF SupervisorInv, Reports, TypeOK, Control, NoteWaits, NotesLast
  <2>4. timer' \in BOOLEAN /\ missed' \in BOOLEAN
    BY DEF TypeOK, SupervisorInv
  <2>5. notePlanned' \in BOOLEAN /\ noteNear' \in BOOLEAN /\ markerOld' \in BOOLEAN
    BY DEF TypeOK, SupervisorInv
  <2>6. planned' \subseteq 1..run' /\ heard' \subseteq 1..run' /\ read' \subseteq 1..run'
    BY DEF SupervisorInv, TypeOK, Control
  <2>7. /\ own' \in [Run -> {"no", "startup", "crash", "signal"}]
        /\ told' \in [Run -> 0..1]
    BY DEF SupervisorInv, Reports, TypeOK, Control, NoteWaits, NotesLast
  <2>. QED  BY <2>1, <2>2, <2>3, <2>4, <2>5, <2>6, <2>7 DEF TypeOK
<1>2. Control'
  BY DEF SupervisorInv, Reports, TypeOK, Control
<1>3. OwnReportLast'
  BY DEF SupervisorInv, Reports, TypeOK, Control, OwnReportLast
<1>4. NotesLast'
  BY DEF SupervisorInv, Reports, TypeOK, Control, NotesLast
<1>5. NoteWaits'
  BY DEF SupervisorInv, Reports, TypeOK, Control, NotesLast, NoteWaits
<1>6. MarkersOfCrashes'
  BY DEF SupervisorInv, Reports, TypeOK, Control, OwnReportLast, NotesLast, NoteWaits,
     MarkersOfCrashes
<1>7. NearExplained'
  BY DEF SupervisorInv, Reports, TypeOK, Control, OwnReportLast, NotesLast, NoteWaits,
     MarkersOfCrashes, NearExplained
<1>8. NotedStopReported'
  BY DEF SupervisorInv, Reports, TypeOK, Control, NotesLast, NoteWaits, NearExplained,
     NotedStopReported
<1>9. CrashReportedOnce'
  BY DEF SupervisorInv, Reports, TypeOK, Control, OwnReportLast, NotesLast, NoteWaits,
     NearExplained, CrashReportedOnce
<1>. QED  BY <1>1, <1>2, <1>3, <1>4, <1>5, <1>6, <1>7, <1>8, <1>9 DEF SupervisorInv, Reports

LEMMA ExitInv == SupervisorInv /\ Exit => SupervisorInv'
<1>. SUFFICES ASSUME SupervisorInv, Exit PROVE SupervisorInv'
  OBVIOUS
<1>. USE SupervisorAssumption DEF Exit, Alive, Stages, Run, fileVars, noteVars, markerVars,
        scriptVars, historyVars
<1>1. TypeOK'
  BY DEF SupervisorInv, Reports, TypeOK, Control, NoteWaits, NotesLast
<1>2. Control'
  BY DEF SupervisorInv, Reports, TypeOK, Control
<1>3. OwnReportLast'
  BY DEF SupervisorInv, Reports, TypeOK, Control, OwnReportLast
<1>4. NotesLast'
  BY DEF SupervisorInv, Reports, TypeOK, Control, NotesLast
<1>5. NoteWaits'
  BY DEF SupervisorInv, Reports, TypeOK, Control, NotesLast, NoteWaits
<1>6. MarkersOfCrashes'
  BY DEF SupervisorInv, Reports, TypeOK, Control, OwnReportLast, NotesLast, NoteWaits,
     MarkersOfCrashes
<1>7. NearExplained'
  BY DEF SupervisorInv, Reports, TypeOK, Control, OwnReportLast, NotesLast, NoteWaits,
     MarkersOfCrashes, NearExplained
<1>8. NotedStopReported'
  BY DEF SupervisorInv, Reports, TypeOK, Control, NotesLast, NoteWaits, NearExplained,
     NotedStopReported
<1>9. CrashReportedOnce'
  BY DEF SupervisorInv, Reports, TypeOK, Control, OwnReportLast, NotesLast, NoteWaits,
     NearExplained, CrashReportedOnce
<1>. QED  BY <1>1, <1>2, <1>3, <1>4, <1>5, <1>6, <1>7, <1>8, <1>9 DEF SupervisorInv, Reports

LEMMA DieSilentlyInv == SupervisorInv /\ DieSilently => SupervisorInv'
<1>. SUFFICES ASSUME SupervisorInv, DieSilently PROVE SupervisorInv'
  OBVIOUS
<1>. USE SupervisorAssumption DEF DieSilently, Alive, Stages, Run, fileVars, noteVars,
        markerVars, scriptVars, historyVars
<1>1. TypeOK'
  BY DEF SupervisorInv, Reports, TypeOK, Control, NoteWaits, NotesLast
<1>2. Control'
  BY DEF SupervisorInv, Reports, TypeOK, Control
<1>3. OwnReportLast'
  BY DEF SupervisorInv, Reports, TypeOK, Control, OwnReportLast
<1>4. NotesLast'
  BY DEF SupervisorInv, Reports, TypeOK, Control, NotesLast
<1>5. NoteWaits'
  BY DEF SupervisorInv, Reports, TypeOK, Control, NotesLast, NoteWaits
<1>6. MarkersOfCrashes'
  BY DEF SupervisorInv, Reports, TypeOK, Control, OwnReportLast, NotesLast, NoteWaits,
     MarkersOfCrashes
<1>7. NearExplained'
  BY DEF SupervisorInv, Reports, TypeOK, Control, OwnReportLast, NotesLast, NoteWaits,
     MarkersOfCrashes, NearExplained
<1>8. NotedStopReported'
  BY DEF SupervisorInv, Reports, TypeOK, Control, NotesLast, NoteWaits, NearExplained,
     NotedStopReported
<1>9. CrashReportedOnce'
  BY DEF SupervisorInv, Reports, TypeOK, Control, OwnReportLast, NotesLast, NoteWaits,
     NearExplained, CrashReportedOnce
<1>. QED  BY <1>1, <1>2, <1>3, <1>4, <1>5, <1>6, <1>7, <1>8, <1>9 DEF SupervisorInv, Reports

LEMMA SupervisorStartsInv == SupervisorInv /\ SupervisorStarts => SupervisorInv'
<1>. SUFFICES ASSUME SupervisorInv, SupervisorStarts PROVE SupervisorInv'
  OBVIOUS
<1>. USE SupervisorAssumption DEF SupervisorStarts, StartChild, Alive, Stages, Run,
        fileVars, noteVars, markerVars, scriptVars, historyVars
<1>1. TypeOK'
  BY DEF SupervisorInv, Reports, TypeOK, Control, NoteWaits, NotesLast
<1>2. Control'
  <2>1. child' = "boot" /\ run' > 0 /\ timer' = timer /\ sup' = "up"
    BY DEF SupervisorInv, TypeOK
  <2>2. flag' = "fresh" => missed'
    OBVIOUS
  <2>3. timer = FALSE
    BY DEF SupervisorInv, TypeOK, Control
  <2>4. UNCHANGED <<script, target, asked>>
    OBVIOUS
  <2>. QED  BY <2>1, <2>2, <2>3, <2>4 DEF SupervisorInv, Control
<1>3. OwnReportLast'
  BY DEF SupervisorInv, Reports, TypeOK, Control, OwnReportLast
<1>4. NotesLast'
  BY DEF SupervisorInv, Reports, TypeOK, Control, NotesLast
<1>5. NoteWaits'
  BY DEF SupervisorInv, Reports, TypeOK, Control, NotesLast, NoteWaits
<1>6. MarkersOfCrashes'
  BY DEF SupervisorInv, Reports, TypeOK, Control, OwnReportLast, NotesLast, NoteWaits,
     MarkersOfCrashes
<1>7. NearExplained'
  BY DEF SupervisorInv, Reports, TypeOK, Control, OwnReportLast, NotesLast, NoteWaits,
     MarkersOfCrashes, NearExplained
<1>8. NotedStopReported'
  BY DEF SupervisorInv, Reports, TypeOK, Control, NotesLast, NoteWaits, NearExplained,
     NotedStopReported
<1>9. CrashReportedOnce'
  BY DEF SupervisorInv, Reports, TypeOK, Control, OwnReportLast, NotesLast, NoteWaits,
     NearExplained, CrashReportedOnce
<1>. QED  BY <1>1, <1>2, <1>3, <1>4, <1>5, <1>6, <1>7, <1>8, <1>9 DEF SupervisorInv, Reports

LEMMA HandleExitInv == SupervisorInv /\ HandleExit => SupervisorInv'
<1>. SUFFICES ASSUME SupervisorInv, HandleExit PROVE SupervisorInv'
  OBVIOUS
<1>. USE SupervisorAssumption DEF HandleExit, WriteNote, Requested, FlagCleared, Arms,
        Alive, Stages, Run, fileVars, noteVars, markerVars, scriptVars, historyVars
<1>1. TypeOK'
  <2>1. /\ sup' \in {"up", "stopping", "down"} /\ child' \in Stages
        /\ run' \in 0..MaxRun /\ stopRun' \in 0..run'
    BY DEF SupervisorInv, Reports, TypeOK, Control, NoteWaits, NotesLast
  <2>2. /\ pidFile' \in 0..run' /\ flag' \in {"none", "fresh", "old"}
        /\ note' \in 0..run' /\ marker' \in 0..run'
    BY DEF SupervisorInv, Reports, TypeOK, Control, NoteWaits, NotesLast
  <2>3. /\ script' \in {"idle", "checked", "written"} /\ target' \in 0..run'
        /\ asked' \in 0..MaxRequest /\ targets' \subseteq 1..run'
    BY DEF SupervisorInv, Reports, TypeOK, Control, NoteWaits, NotesLast
  <2>4. timer' \in BOOLEAN /\ missed' \in BOOLEAN
    BY DEF TypeOK, SupervisorInv
  <2>5. notePlanned' \in BOOLEAN /\ noteNear' \in BOOLEAN /\ markerOld' \in BOOLEAN
    BY DEF TypeOK, SupervisorInv
  <2>6. planned' \subseteq 1..run' /\ heard' \subseteq 1..run' /\ read' \subseteq 1..run'
    <3>1. run' = run /\ (child # "none" => run \in 1..run) /\ read' = read
      BY DEF SupervisorInv, TypeOK, Control
    <3>2. \/ planned' = planned /\ heard' = heard
          \/ /\ child # "none" /\ heard' = heard \cup {run}
             /\ planned' \in {planned, planned \cup {run}}
      OBVIOUS
    <3>. QED  BY <3>1, <3>2 DEF SupervisorInv, TypeOK
  <2>7. /\ own' \in [Run -> {"no", "startup", "crash", "signal"}]
        /\ told' \in [Run -> 0..1]
    BY DEF SupervisorInv, Reports, TypeOK, Control, NoteWaits, NotesLast
  <2>. QED  BY <2>1, <2>2, <2>3, <2>4, <2>5, <2>6, <2>7 DEF TypeOK
<1>2. Control'
  BY DEF SupervisorInv, Reports, TypeOK, Control
<1>3. OwnReportLast'
  BY DEF SupervisorInv, Reports, TypeOK, Control, OwnReportLast
<1>4. NotesLast'
  BY DEF SupervisorInv, Reports, TypeOK, Control, NotesLast
<1>5. NoteWaits'
  BY DEF SupervisorInv, Reports, TypeOK, Control, NotesLast, NoteWaits
<1>6. MarkersOfCrashes'
  BY DEF SupervisorInv, Reports, TypeOK, Control, OwnReportLast, NotesLast, NoteWaits,
     MarkersOfCrashes
<1>7. NearExplained'
  <2>1. CASE sup = "stopping"
    BY <2>1 DEF SupervisorInv, Reports, NearExplained
  <2>2. CASE sup = "up"
    <3>1. /\ note' = run /\ run \in Run /\ noteNear' = (marker # 0 /\ ~markerOld)
          /\ heard' = heard \cup {run} /\ UNCHANGED <<own, read>> /\ run \notin heard
      BY <2>2 DEF SupervisorInv, Reports, TypeOK, Control, NotesLast
    <3>2. own[run] = "crash" => noteNear'
      <4>1. own[run] = "crash" => marker # 0 /\ ~markerOld
        BY <2>2, <3>1 DEF SupervisorInv, Reports, MarkersOfCrashes
      <4>. QED  BY <4>1, <3>1
    <3>3. noteNear' => own[run] # "no" \/ run \notin read \/ (run > 1 /\ run - 1 \notin heard)
      <4>1. marker # 0 =>
              own[run] # "no" \/ run \notin read \/ (run > 1 /\ run - 1 \notin heard)
        BY <3>1 DEF SupervisorInv, Reports, MarkersOfCrashes
      <4>. QED  BY <4>1, <3>1
    <3>. QED  BY <3>1, <3>2, <3>3 DEF NearExplained
  <2>. QED  BY <2>1, <2>2
<1>8. NotedStopReported'
  BY DEF SupervisorInv, Reports, TypeOK, Control, NotesLast, NoteWaits, NearExplained,
     NotedStopReported
<1>9. CrashReportedOnce'
  BY DEF SupervisorInv, Reports, TypeOK, Control, OwnReportLast, NotesLast, NoteWaits,
     NearExplained, CrashReportedOnce
<1>. QED  BY <1>1, <1>2, <1>3, <1>4, <1>5, <1>6, <1>7, <1>8, <1>9 DEF SupervisorInv, Reports

LEMMA RespawnInv == SupervisorInv /\ Respawn => SupervisorInv'
<1>. SUFFICES ASSUME SupervisorInv, Respawn PROVE SupervisorInv'
  OBVIOUS
<1>. USE SupervisorAssumption DEF Respawn, StartChild, Alive, Stages, Run, fileVars,
        noteVars, markerVars, scriptVars, historyVars
<1>1. TypeOK'
  <2>1. /\ sup' \in {"up", "stopping", "down"} /\ child' \in Stages
        /\ run' \in 0..MaxRun /\ stopRun' \in 0..run'
    BY DEF SupervisorInv, Reports, TypeOK, Control, NoteWaits, NotesLast
  <2>2. /\ pidFile' \in 0..run' /\ flag' \in {"none", "fresh", "old"}
        /\ note' \in 0..run' /\ marker' \in 0..run'
    BY DEF SupervisorInv, Reports, TypeOK, Control, NoteWaits, NotesLast
  <2>3. /\ script' \in {"idle", "checked", "written"} /\ target' \in 0..run'
        /\ asked' \in 0..MaxRequest /\ targets' \subseteq 1..run'
    BY DEF SupervisorInv, Reports, TypeOK, Control, NoteWaits, NotesLast
  <2>4. timer' \in BOOLEAN /\ missed' \in BOOLEAN
    BY DEF TypeOK, SupervisorInv
  <2>5. notePlanned' \in BOOLEAN /\ noteNear' \in BOOLEAN /\ markerOld' \in BOOLEAN
    BY DEF TypeOK, SupervisorInv
  <2>6. planned' \subseteq 1..run' /\ heard' \subseteq 1..run' /\ read' \subseteq 1..run'
    BY DEF SupervisorInv, TypeOK, Control
  <2>7. /\ own' \in [Run -> {"no", "startup", "crash", "signal"}]
        /\ told' \in [Run -> 0..1]
    BY DEF SupervisorInv, Reports, TypeOK, Control, NoteWaits, NotesLast
  <2>. QED  BY <2>1, <2>2, <2>3, <2>4, <2>5, <2>6, <2>7 DEF TypeOK
<1>2. Control'
  BY DEF SupervisorInv, Reports, TypeOK, Control
<1>3. OwnReportLast'
  BY DEF SupervisorInv, Reports, TypeOK, Control, OwnReportLast
<1>4. NotesLast'
  BY DEF SupervisorInv, Reports, TypeOK, Control, NotesLast
<1>5. NoteWaits'
  BY DEF SupervisorInv, Reports, TypeOK, Control, NotesLast, NoteWaits
<1>6. MarkersOfCrashes'
  BY DEF SupervisorInv, Reports, TypeOK, Control, OwnReportLast, NotesLast, NoteWaits,
     MarkersOfCrashes
<1>7. NearExplained'
  BY DEF SupervisorInv, Reports, TypeOK, Control, OwnReportLast, NotesLast, NoteWaits,
     MarkersOfCrashes, NearExplained
<1>8. NotedStopReported'
  BY DEF SupervisorInv, Reports, TypeOK, Control, NotesLast, NoteWaits, NearExplained,
     NotedStopReported
<1>9. CrashReportedOnce'
  BY DEF SupervisorInv, Reports, TypeOK, Control, OwnReportLast, NotesLast, NoteWaits,
     NearExplained, CrashReportedOnce
<1>. QED  BY <1>1, <1>2, <1>3, <1>4, <1>5, <1>6, <1>7, <1>8, <1>9 DEF SupervisorInv, Reports

LEMMA StopSupervisorInv == SupervisorInv /\ StopSupervisor => SupervisorInv'
<1>. SUFFICES ASSUME SupervisorInv, StopSupervisor PROVE SupervisorInv'
  OBVIOUS
<1>. USE SupervisorAssumption DEF StopSupervisor, WriteNote, StopsChild, Killed, Alive,
        Stages, Run, fileVars, noteVars, markerVars, scriptVars, historyVars
<1>1. TypeOK'
  <2>1. /\ sup' \in {"up", "stopping", "down"} /\ child' \in Stages
        /\ run' \in 0..MaxRun /\ stopRun' \in 0..run'
    BY DEF SupervisorInv, Reports, TypeOK, Control, NoteWaits, NotesLast
  <2>2. /\ pidFile' \in 0..run' /\ flag' \in {"none", "fresh", "old"}
        /\ note' \in 0..run' /\ marker' \in 0..run'
    BY DEF SupervisorInv, Reports, TypeOK, Control, NoteWaits, NotesLast
  <2>3. /\ script' \in {"idle", "checked", "written"} /\ target' \in 0..run'
        /\ asked' \in 0..MaxRequest /\ targets' \subseteq 1..run'
    BY DEF SupervisorInv, Reports, TypeOK, Control, NoteWaits, NotesLast
  <2>4. timer' \in BOOLEAN /\ missed' \in BOOLEAN
    BY DEF TypeOK, SupervisorInv
  <2>5. notePlanned' \in BOOLEAN /\ noteNear' \in BOOLEAN /\ markerOld' \in BOOLEAN
    BY DEF TypeOK, SupervisorInv
  <2>6. planned' \subseteq 1..run' /\ heard' \subseteq 1..run' /\ read' \subseteq 1..run'
    <3>1. run' = run /\ (child # "none" => run \in 1..run) /\ read' = read
      BY DEF SupervisorInv, TypeOK, Control
    <3>2. \/ planned' = planned /\ heard' = heard
          \/ /\ child # "none" /\ heard' = heard \cup {run}
             /\ planned' \in {planned, planned \cup {run}}
      OBVIOUS
    <3>. QED  BY <3>1, <3>2 DEF SupervisorInv, TypeOK
  <2>7. /\ own' \in [Run -> {"no", "startup", "crash", "signal"}]
        /\ told' \in [Run -> 0..1]
    BY DEF SupervisorInv, Reports, TypeOK, Control, NoteWaits, NotesLast
  <2>. QED  BY <2>1, <2>2, <2>3, <2>4, <2>5, <2>6, <2>7 DEF TypeOK
<1>2. Control'
  BY DEF SupervisorInv, Reports, TypeOK, Control
<1>3. OwnReportLast'
  BY DEF SupervisorInv, Reports, TypeOK, Control, OwnReportLast
<1>4. NotesLast'
  BY DEF SupervisorInv, Reports, TypeOK, Control, NotesLast
<1>5. NoteWaits'
  BY DEF SupervisorInv, Reports, TypeOK, Control, NotesLast, NoteWaits
<1>6. MarkersOfCrashes'
  BY DEF SupervisorInv, Reports, TypeOK, Control, OwnReportLast, NotesLast, NoteWaits,
     MarkersOfCrashes
<1>7. NearExplained'
  BY DEF SupervisorInv, Reports, TypeOK, Control, OwnReportLast, NotesLast, NoteWaits,
     MarkersOfCrashes, NearExplained
<1>8. NotedStopReported'
  BY DEF SupervisorInv, Reports, TypeOK, Control, NotesLast, NoteWaits, NearExplained,
     NotedStopReported
<1>9. CrashReportedOnce'
  BY DEF SupervisorInv, Reports, TypeOK, Control, OwnReportLast, NotesLast, NoteWaits,
     NearExplained, CrashReportedOnce
<1>. QED  BY <1>1, <1>2, <1>3, <1>4, <1>5, <1>6, <1>7, <1>8, <1>9 DEF SupervisorInv, Reports

LEMMA SupervisorExitsInv == SupervisorInv /\ SupervisorExits => SupervisorInv'
<1>. SUFFICES ASSUME SupervisorInv, SupervisorExits PROVE SupervisorInv'
  OBVIOUS
<1>. USE SupervisorAssumption DEF SupervisorExits, Alive, Stages, Run, fileVars, noteVars,
        markerVars, scriptVars, historyVars
<1>1. TypeOK'
  BY DEF SupervisorInv, Reports, TypeOK, Control, NoteWaits, NotesLast
<1>2. Control'
  BY DEF SupervisorInv, Reports, TypeOK, Control
<1>3. OwnReportLast'
  BY DEF SupervisorInv, Reports, TypeOK, Control, OwnReportLast
<1>4. NotesLast'
  BY DEF SupervisorInv, Reports, TypeOK, Control, NotesLast
<1>5. NoteWaits'
  BY DEF SupervisorInv, Reports, TypeOK, Control, NotesLast, NoteWaits
<1>6. MarkersOfCrashes'
  BY DEF SupervisorInv, Reports, TypeOK, Control, OwnReportLast, NotesLast, NoteWaits,
     MarkersOfCrashes
<1>7. NearExplained'
  BY DEF SupervisorInv, Reports, TypeOK, Control, OwnReportLast, NotesLast, NoteWaits,
     MarkersOfCrashes, NearExplained
<1>8. NotedStopReported'
  BY DEF SupervisorInv, Reports, TypeOK, Control, NotesLast, NoteWaits, NearExplained,
     NotedStopReported
<1>9. CrashReportedOnce'
  BY DEF SupervisorInv, Reports, TypeOK, Control, OwnReportLast, NotesLast, NoteWaits,
     NearExplained, CrashReportedOnce
<1>. QED  BY <1>1, <1>2, <1>3, <1>4, <1>5, <1>6, <1>7, <1>8, <1>9 DEF SupervisorInv, Reports

LEMMA MachineDownInv == SupervisorInv /\ MachineDown => SupervisorInv'
<1>. SUFFICES ASSUME SupervisorInv, MachineDown PROVE SupervisorInv'
  OBVIOUS
<1>. USE SupervisorAssumption DEF MachineDown, Alive, Stages, Run, fileVars, noteVars,
        markerVars, scriptVars, historyVars
<1>1. TypeOK'
  <2>1. /\ sup' \in {"up", "stopping", "down"} /\ child' \in Stages
        /\ run' \in 0..MaxRun /\ stopRun' \in 0..run'
    BY DEF SupervisorInv, Reports, TypeOK, Control, NoteWaits, NotesLast
  <2>2. /\ pidFile' \in 0..run' /\ flag' \in {"none", "fresh", "old"}
        /\ note' \in 0..run' /\ marker' \in 0..run'
    BY DEF SupervisorInv, Reports, TypeOK, Control, NoteWaits, NotesLast
  <2>3. /\ script' \in {"idle", "checked", "written"} /\ target' \in 0..run'
        /\ asked' \in 0..MaxRequest /\ targets' \subseteq 1..run'
    BY DEF SupervisorInv, Reports, TypeOK, Control, NoteWaits, NotesLast
  <2>4. timer' \in BOOLEAN /\ missed' \in BOOLEAN
    BY DEF TypeOK, SupervisorInv
  <2>5. notePlanned' \in BOOLEAN /\ noteNear' \in BOOLEAN /\ markerOld' \in BOOLEAN
    BY DEF TypeOK, SupervisorInv
  <2>6. planned' \subseteq 1..run' /\ heard' \subseteq 1..run' /\ read' \subseteq 1..run'
    BY DEF SupervisorInv, TypeOK, Control
  <2>7. /\ own' \in [Run -> {"no", "startup", "crash", "signal"}]
        /\ told' \in [Run -> 0..1]
    BY DEF SupervisorInv, Reports, TypeOK, Control, NoteWaits, NotesLast
  <2>. QED  BY <2>1, <2>2, <2>3, <2>4, <2>5, <2>6, <2>7 DEF TypeOK
<1>2. Control'
  BY DEF SupervisorInv, Reports, TypeOK, Control
<1>3. OwnReportLast'
  BY DEF SupervisorInv, Reports, TypeOK, Control, OwnReportLast
<1>4. NotesLast'
  BY DEF SupervisorInv, Reports, TypeOK, Control, NotesLast
<1>5. NoteWaits'
  BY DEF SupervisorInv, Reports, TypeOK, Control, NotesLast, NoteWaits
<1>6. MarkersOfCrashes'
  BY DEF SupervisorInv, Reports, TypeOK, Control, OwnReportLast, NotesLast, NoteWaits,
     MarkersOfCrashes
<1>7. NearExplained'
  BY DEF SupervisorInv, Reports, TypeOK, Control, OwnReportLast, NotesLast, NoteWaits,
     MarkersOfCrashes, NearExplained
<1>8. NotedStopReported'
  BY DEF SupervisorInv, Reports, TypeOK, Control, NotesLast, NoteWaits, NearExplained,
     NotedStopReported
<1>9. CrashReportedOnce'
  BY DEF SupervisorInv, Reports, TypeOK, Control, OwnReportLast, NotesLast, NoteWaits,
     NearExplained, CrashReportedOnce
<1>. QED  BY <1>1, <1>2, <1>3, <1>4, <1>5, <1>6, <1>7, <1>8, <1>9 DEF SupervisorInv, Reports

LEMMA ScriptChecksInv == SupervisorInv /\ ScriptChecks => SupervisorInv'
<1>. SUFFICES ASSUME SupervisorInv, ScriptChecks PROVE SupervisorInv'
  OBVIOUS
<1>. USE SupervisorAssumption DEF ScriptChecks, TargetAlive, Alive, Stages, Run, fileVars,
        noteVars, markerVars, scriptVars, historyVars
<1>1. TypeOK'
  BY DEF SupervisorInv, TypeOK, Control
<1>2. Control'
  BY DEF SupervisorInv, TypeOK, Control
<1>3. Reports' /\ NotedStopReported' /\ CrashReportedOnce'
  BY DEF SupervisorInv, Reports, OwnReportLast, NotesLast, NoteWaits, MarkersOfCrashes,
     NearExplained, NotedStopReported, CrashReportedOnce
<1>. QED  BY <1>1, <1>2, <1>3 DEF SupervisorInv

LEMMA ScriptWritesInv == SupervisorInv /\ ScriptWrites => SupervisorInv'
<1>. SUFFICES ASSUME SupervisorInv, ScriptWrites PROVE SupervisorInv'
  OBVIOUS
<1>. USE SupervisorAssumption DEF ScriptWrites, TargetAlive, Alive, Stages, Run, fileVars,
        noteVars, markerVars, scriptVars, historyVars
<1>1. TypeOK'
  <2>1. /\ sup' \in {"up", "stopping", "down"} /\ child' \in Stages
        /\ run' \in 0..MaxRun /\ stopRun' \in 0..run'
    BY DEF SupervisorInv, Reports, TypeOK, Control, NoteWaits, NotesLast
  <2>2. /\ pidFile' \in 0..run' /\ flag' \in {"none", "fresh", "old"}
        /\ note' \in 0..run' /\ marker' \in 0..run'
    BY DEF SupervisorInv, Reports, TypeOK, Control, NoteWaits, NotesLast
  <2>3. /\ script' \in {"idle", "checked", "written"} /\ target' \in 0..run'
        /\ asked' \in 0..MaxRequest /\ targets' \subseteq 1..run'
    BY DEF SupervisorInv, Reports, TypeOK, Control, NoteWaits, NotesLast
  <2>4. timer' \in BOOLEAN /\ missed' \in BOOLEAN
    BY DEF TypeOK, SupervisorInv
  <2>5. notePlanned' \in BOOLEAN /\ noteNear' \in BOOLEAN /\ markerOld' \in BOOLEAN
    BY DEF TypeOK, SupervisorInv
  <2>6. planned' \subseteq 1..run' /\ heard' \subseteq 1..run' /\ read' \subseteq 1..run'
    BY DEF SupervisorInv, TypeOK, Control
  <2>7. /\ own' \in [Run -> {"no", "startup", "crash", "signal"}]
        /\ told' \in [Run -> 0..1]
    BY DEF SupervisorInv, Reports, TypeOK, Control, NoteWaits, NotesLast
  <2>. QED  BY <2>1, <2>2, <2>3, <2>4, <2>5, <2>6, <2>7 DEF TypeOK
<1>2. Control'
  BY DEF SupervisorInv, TypeOK, Control
<1>3. Reports' /\ NotedStopReported' /\ CrashReportedOnce'
  BY DEF SupervisorInv, Reports, OwnReportLast, NotesLast, NoteWaits, MarkersOfCrashes,
     NearExplained, NotedStopReported, CrashReportedOnce
<1>. QED  BY <1>1, <1>2, <1>3 DEF SupervisorInv

LEMMA ScriptKillsInv == SupervisorInv /\ ScriptKills => SupervisorInv'
<1>. SUFFICES ASSUME SupervisorInv, ScriptKills PROVE SupervisorInv'
  OBVIOUS
<1>. USE SupervisorAssumption DEF ScriptKills, TargetAlive, Killed, Alive, Stages, Run,
        fileVars, noteVars, markerVars, scriptVars, historyVars
<1>1. TypeOK'
  <2>1. /\ sup' \in {"up", "stopping", "down"} /\ child' \in Stages
        /\ run' \in 0..MaxRun /\ stopRun' \in 0..run'
    BY DEF SupervisorInv, Reports, TypeOK, Control, NoteWaits, NotesLast
  <2>2. /\ pidFile' \in 0..run' /\ flag' \in {"none", "fresh", "old"}
        /\ note' \in 0..run' /\ marker' \in 0..run'
    BY DEF SupervisorInv, Reports, TypeOK, Control, NoteWaits, NotesLast
  <2>3. /\ script' \in {"idle", "checked", "written"} /\ target' \in 0..run'
        /\ asked' \in 0..MaxRequest /\ targets' \subseteq 1..run'
    BY DEF SupervisorInv, Reports, TypeOK, Control, NoteWaits, NotesLast
  <2>4. timer' \in BOOLEAN /\ missed' \in BOOLEAN
    BY DEF TypeOK, SupervisorInv
  <2>5. notePlanned' \in BOOLEAN /\ noteNear' \in BOOLEAN /\ markerOld' \in BOOLEAN
    BY DEF TypeOK, SupervisorInv
  <2>6. planned' \subseteq 1..run' /\ heard' \subseteq 1..run' /\ read' \subseteq 1..run'
    BY DEF SupervisorInv, TypeOK, Control
  <2>7. /\ own' \in [Run -> {"no", "startup", "crash", "signal"}]
        /\ told' \in [Run -> 0..1]
    BY DEF SupervisorInv, Reports, TypeOK, Control, NoteWaits, NotesLast
  <2>. QED  BY <2>1, <2>2, <2>3, <2>4, <2>5, <2>6, <2>7 DEF TypeOK
<1>2. Control'
  BY DEF SupervisorInv, Reports, TypeOK, Control
<1>3. OwnReportLast'
  BY DEF SupervisorInv, Reports, TypeOK, Control, OwnReportLast
<1>4. NotesLast'
  BY DEF SupervisorInv, Reports, TypeOK, Control, NotesLast
<1>5. NoteWaits'
  BY DEF SupervisorInv, Reports, TypeOK, Control, NotesLast, NoteWaits
<1>6. MarkersOfCrashes'
  BY DEF SupervisorInv, Reports, TypeOK, Control, OwnReportLast, NotesLast, NoteWaits,
     MarkersOfCrashes
<1>7. NearExplained'
  BY DEF SupervisorInv, Reports, TypeOK, Control, OwnReportLast, NotesLast, NoteWaits,
     MarkersOfCrashes, NearExplained
<1>8. NotedStopReported'
  BY DEF SupervisorInv, Reports, TypeOK, Control, NotesLast, NoteWaits, NearExplained,
     NotedStopReported
<1>9. CrashReportedOnce'
  BY DEF SupervisorInv, Reports, TypeOK, Control, OwnReportLast, NotesLast, NoteWaits,
     NearExplained, CrashReportedOnce
<1>. QED  BY <1>1, <1>2, <1>3, <1>4, <1>5, <1>6, <1>7, <1>8, <1>9 DEF SupervisorInv, Reports

LEMMA FlagAgesInv == SupervisorInv /\ FlagAges => SupervisorInv'
<1>. SUFFICES ASSUME SupervisorInv, FlagAges PROVE SupervisorInv'
  OBVIOUS
<1>. USE SupervisorAssumption DEF FlagAges, Alive, Stages, Run, fileVars, noteVars,
        markerVars, scriptVars, historyVars
<1>1. TypeOK'
  BY DEF SupervisorInv, TypeOK, Control
<1>2. Control'
  BY DEF SupervisorInv, TypeOK, Control
<1>3. Reports' /\ NotedStopReported' /\ CrashReportedOnce'
  BY DEF SupervisorInv, Reports, OwnReportLast, NotesLast, NoteWaits, MarkersOfCrashes,
     NearExplained, NotedStopReported, CrashReportedOnce
<1>. QED  BY <1>1, <1>2, <1>3 DEF SupervisorInv

LEMMA MarkerAgesInv == SupervisorInv /\ MarkerAges => SupervisorInv'
<1>. SUFFICES ASSUME SupervisorInv, MarkerAges PROVE SupervisorInv'
  OBVIOUS
<1>. USE SupervisorAssumption DEF MarkerAges, Alive, Stages, Run, fileVars, noteVars,
        markerVars, scriptVars, historyVars
<1>1. TypeOK'
  BY DEF SupervisorInv, Reports, TypeOK, Control, NoteWaits, NotesLast
<1>2. Control'
  BY DEF SupervisorInv, Reports, TypeOK, Control
<1>3. OwnReportLast'
  BY DEF SupervisorInv, Reports, TypeOK, Control, OwnReportLast
<1>4. NotesLast'
  BY DEF SupervisorInv, Reports, TypeOK, Control, NotesLast
<1>5. NoteWaits'
  BY DEF SupervisorInv, Reports, TypeOK, Control, NotesLast, NoteWaits
<1>6. MarkersOfCrashes'
  BY DEF SupervisorInv, Reports, TypeOK, Control, OwnReportLast, NotesLast, NoteWaits,
     MarkersOfCrashes
<1>7. NearExplained'
  BY DEF SupervisorInv, Reports, TypeOK, Control, OwnReportLast, NotesLast, NoteWaits,
     MarkersOfCrashes, NearExplained
<1>8. NotedStopReported'
  BY DEF SupervisorInv, Reports, TypeOK, Control, NotesLast, NoteWaits, NearExplained,
     NotedStopReported
<1>9. CrashReportedOnce'
  BY DEF SupervisorInv, Reports, TypeOK, Control, OwnReportLast, NotesLast, NoteWaits,
     NearExplained, CrashReportedOnce
<1>. QED  BY <1>1, <1>2, <1>3, <1>4, <1>5, <1>6, <1>7, <1>8, <1>9 DEF SupervisorInv, Reports

-----------------------------------------------------------------------------
LEMMA NextInv == SupervisorInv /\ [Next]_vars => SupervisorInv'
<1>. SUFFICES ASSUME SupervisorInv, [Next]_vars PROVE SupervisorInv'
  OBVIOUS
<1>1. CASE UNCHANGED vars
  BY <1>1 DEF vars, fileVars, scriptVars, historyVars, SupervisorInv, TypeOK, Control,
     Reports,
     OwnReportLast, NotesLast, NoteWaits, MarkersOfCrashes, NearExplained, NotedStopReported,
     CrashReportedOnce
<1>2. CASE ChildStep
  BY <1>2, ReadNoteInv, ListenInv, StartupFailsInv, CrashInv, ExitInv, DieSilentlyInv DEF
     ChildStep
<1>3. CASE SupervisorStep
  BY <1>3, SupervisorStartsInv, HandleExitInv, RespawnInv, StopSupervisorInv,
     SupervisorExitsInv
     DEF SupervisorStep
<1>4. CASE ScriptStep
  BY <1>4, ScriptChecksInv, ScriptWritesInv, ScriptKillsInv DEF ScriptStep
<1>5. CASE MachineDown \/ FlagAges \/ MarkerAges
  BY <1>5, MachineDownInv, FlagAgesInv, MarkerAgesInv
<1>. QED  BY <1>1, <1>2, <1>3, <1>4, <1>5 DEF Next

\* What the theorems below rest on: the supervisor, the script and the runs keep
\* the invariant over whatever order of their steps, deaths and ages of the files.
THEOREM SupervisorInvariant == Spec => []SupervisorInv
<1>. QED  BY InitInv, NextInv, PTL DEF Spec

\* The state keeps its types: no stop is reported twice by later runs.
THEOREM SupervisorTypes == Spec => []TypeOK
<1>1. SupervisorInv => TypeOK
  BY DEF SupervisorInv
<1>. QED  BY <1>1, SupervisorInvariant, PTL

\* A stop is reported, by the run that ended or by the next one to read the note,
\* where NotedStopReported says so.
THEOREM StopsReported == Spec => []NotedStopReported
<1>1. SupervisorInv => NotedStopReported
  BY DEF SupervisorInv
<1>. QED  BY <1>1, SupervisorInvariant, PTL

\* A crash that reported itself is not reported again, unless it was asked for.
THEOREM CrashesReportedOnce == Spec => []CrashReportedOnce
<1>1. SupervisorInv => CrashReportedOnce
  BY DEF SupervisorInv
<1>. QED  BY <1>1, SupervisorInvariant, PTL

\* A supervisor that stopped left no child but one its timer started since.
THEOREM NoneLeft == Spec => []StopLeavesNone
<1>1. SupervisorInv => StopLeavesNone
  BY DEF SupervisorInv, Control, StopLeavesNone
<1>. QED  BY <1>1, SupervisorInvariant, PTL

\* While the supervisor goes on, a stop is called planned because it was asked for,
\* or because of a request that missed its target and is still believed.
THEOREM LabelsTrue == Spec => LabelledAsAsked
<1>1. ASSUME SupervisorInv, [Next]_vars, NEW r \in planned' \ planned
      PROVE  sup' = "stopping" \/ r \in targets \/ missed
  <2>1. CASE HandleExit
    BY <1>1, <2>1 DEF HandleExit, WriteNote, Requested, SupervisorInv, Control, historyVars
  <2>2. CASE StopSupervisor
    BY <2>2 DEF StopSupervisor
  <2>3. CASE ~HandleExit /\ ~StopSupervisor
    <3>1. UNCHANGED planned
      BY <1>1, <2>3 DEF Next, ChildStep, SupervisorStep, ScriptStep, ReadNote, Listen,
         StartupFails, Crash, Exit, DieSilently, SupervisorStarts, Respawn, SupervisorExits,
         MachineDown, ScriptChecks, ScriptWrites, ScriptKills, FlagAges, MarkerAges,
         vars, historyVars
    <3>. QED  BY <1>1, <3>1
  <2>. QED  BY <2>1, <2>2, <2>3
<1>2. SupervisorInv /\ [Next]_vars =>
        [\A r \in planned' \ planned : sup' = "stopping" \/ r \in targets \/ missed]_vars
  BY <1>1
<1>. QED  BY <1>2, SupervisorInvariant, PTL DEF Spec, LabelledAsAsked
-----------------------------------------------------------------------------
(* What the supervisor always has.                                         *)

\* While it is up, the supervisor has a child or is about to start one, never
\* both; and the pid file, by which restart.mjs finds its target, names exactly
\* that child.  (What ComesBack needs beside fairness.)
ChildOrTimer ==
    sup = "up" =>
        /\ timer <=> child = "none"
        /\ pidFile = IF timer THEN 0 ELSE run

\* No order of exits, kills, stops and requests leaves a supervisor that is up
\* with neither child nor timer, or a pid file that names another run.
THEOREM AlwaysAChild == Spec => []ChildOrTimer
<1>1. Init => ChildOrTimer
  BY DEF Init, ChildOrTimer
<1>2. ASSUME Control, ChildOrTimer, Next PROVE ChildOrTimer'
  <2>. USE DEF ChildOrTimer, fileVars, noteVars, markerVars, scriptVars, historyVars
  <2>1. CASE ChildStep
    BY <1>2, <2>1
    DEF ChildStep, ReadNote, Listen, StartupFails, Crash, Exit, DieSilently, Alive
  <2>2. CASE SupervisorStep
    BY <1>2, <2>2
    DEF Control, SupervisorStep, SupervisorStarts, StartChild, HandleExit, Arms, Respawn,
        StopSupervisor, SupervisorExits
  <2>3. CASE ScriptStep
    BY <1>2, <2>3
    DEF ScriptStep, ScriptChecks, ScriptWrites, ScriptKills, Killed, TargetAlive, Alive
  <2>4. CASE MachineDown \/ FlagAges \/ MarkerAges
    BY <1>2, <2>4 DEF MachineDown, FlagAges, MarkerAges
  <2>. QED  BY <1>2, <2>1, <2>2, <2>3, <2>4 DEF Next
<1>3. ChildOrTimer /\ UNCHANGED vars => ChildOrTimer'
  BY DEF ChildOrTimer, vars, fileVars
<1>4. SupervisorInv => Control
  BY DEF SupervisorInv
<1>. QED  BY <1>1, <1>2, <1>3, <1>4, SupervisorInvariant, PTL DEF Spec
=============================================================================
