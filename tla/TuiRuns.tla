------------------------------- MODULE TuiRuns --------------------------------
(***************************************************************************)
(* The runs of the terminal interface (internal/tui/model.go, session.go,  *)
(* session_controls.go): one event loop that starts agents in goroutines,  *)
(* cancels them, asks the user for them, records what they return in the   *)
(* session they belong to, resumes, rewinds and compacts sessions, and     *)
(* quits.  A goroutine that sends a message waits until the loop has taken *)
(* it: the two are one action, enabled while the loop runs.                *)
(***************************************************************************)
EXTENDS Integers, Sequences, SequencesExt, FiniteSets

CONSTANTS Sessions, Home,    \* sessions on disk; the program has been started on Home
          NoSession,
          MaxRuns,           \* bound: runs
          MaxEvents,         \* bound: checkpoints, usage events, questions and specialists' events of a run
          Commands,          \* the user types /init and commands of files, which start runs
          Preserve           \* events a compaction keeps

ASSUME TuiAssumption ==
    /\ Home \in Sessions /\ NoSession \notin Sessions
    /\ {MaxRuns, MaxEvents, Preserve} \subseteq Nat
    /\ Commands \subseteq {"/init", "/file"}

Runs == 1..MaxRuns
NoRun == 0

VARIABLES session, memory,           \* activeSession, sessionEvents
          active, next,              \* activeRunID (0: nothing is pending), runID
          flush,                     \* flushRunIDs
          prompt,                    \* the run whose question is shown
          queued,                    \* NoSession, or the session the queued message was typed in
          exiting, quit,
          live, recorded,            \* usage: counted while it came; recorded in all
          compacting,                \* compactInFlight
          pc, home, over,            \* the goroutine of each run; its session; those cancelled
          made, used, asked,         \* its checkpoints, usage events and questions so far
          tasks,                     \* the events of its specialists so far
          answered,                  \* runs whose question is answered, the answer not yet taken
          compaction,                \* the goroutine of the compaction
          log, blobs,                \* on disk: the events of each session; the snapshots
          landed,                    \* history: the sessions a run's events were recorded in
          superseded, doomed, moved  \* runs replaced by a command, started while leaving, and
                                     \* whose session a compaction's result has switched

uiVars == <<session, memory, active, next, flush, prompt, queued, exiting, quit, live,
            recorded, compacting>>
runVars == <<pc, home, over, made, used, asked, tasks, answered>>
diskVars == <<log, blobs>>
historyVars == <<landed, superseded, doomed, moved>>
tuiVars == <<session, memory, active, next, flush, prompt, queued, exiting, quit, live,
             recorded, compacting, pc, home, over, made, used, asked, tasks, answered,
             compaction, log, blobs, landed, superseded, doomed, moved>>

Event(kind, r, n) == [kind |-> kind, run |-> r, n |-> n]
UserEvent(r) == Event("user", r, 0)
CancelledEvent(r) == Event("cancelled", r, 0)
Checkpoint(r, n) == Event("checkpoint", r, n)
CompactionEvent == Event("compaction", NoRun, 0)

\* What a Task delegation records in the log alone, in the session the run began in.
SpecialistEvents == {Event("specialist", r, n) : r \in Runs, n \in 1..MaxEvents}

\* What a run returns; a cancelled one's error is dropped (flushableSessionEvents).
Returned(r) == [n \in 1..made[r] |-> Checkpoint(r, n)]

\* The loop over the events, which leaves out those that are covered.
Uncovered(covered, events) ==
    LET rest[n \in 0..Len(events)] ==
            IF n = 0 THEN <<>>
            ELSE IF events[n] \in covered THEN rest[n - 1] ELSE Append(rest[n - 1], events[n])
    IN  rest[Len(events)]

\* RehydrateEvents: the events a compaction covers are replaced by it.
Rehydrated(events) ==
    IF \A i \in 1..Len(events) : events[i] # CompactionEvent THEN events
    ELSE <<CompactionEvent>> \o Uncovered(compaction.covers \union {CompactionEvent}, events)

IsCheckpoint(e) == e.kind = "checkpoint"

NoCompaction == [at |-> "never", session |-> NoSession, covers |-> {}, snapshot |-> <<>>]

TuiInit ==
    /\ session = Home /\ memory = <<>> /\ active = NoRun /\ next = 1
    /\ flush = [r \in Runs |-> NoSession] /\ prompt = NoRun /\ queued = NoSession
    /\ exiting = FALSE /\ quit = FALSE
    /\ live = [r \in Runs |-> 0] /\ recorded = [r \in Runs |-> 0] /\ compacting = FALSE
    /\ pc = [r \in Runs |-> "unborn"] /\ home = [r \in Runs |-> NoSession] /\ over = {}
    /\ made = [r \in Runs |-> 0] /\ used = [r \in Runs |-> 0] /\ asked = [r \in Runs |-> 0]
    /\ tasks = [r \in Runs |-> 0] /\ answered = {}
    /\ compaction = NoCompaction
    /\ log = [s \in Sessions |-> <<>>] /\ blobs = {}
    /\ landed = [r \in Runs |-> <<>>] /\ superseded = {} /\ doomed = {} /\ moved = {}

-----------------------------------------------------------------------------
(* Runs begin and are cancelled *)

\* launchPrompt and beginRun: the user's message is recorded after `events`, which are those
\* of the run that has just ended, and the goroutine starts.
LaunchAfter(events) ==
    LET recordedNow == events \o <<UserEvent(next)>> IN
    /\ next \in Runs
    /\ log' = [log EXCEPT ![session] = @ \o recordedNow]
    /\ memory' = memory \o recordedNow
    /\ active' = next
    /\ next' = next + 1
    /\ home' = [home EXCEPT ![next] = session]
    /\ doomed' = IF exiting THEN doomed \union {next} ELSE doomed

Typing == ~quit /\ prompt = NoRun

\* cancelRun, as a part of an action that goes on to `exit` or not.
CancelRun(exit) ==
    LET pending == active # NoRun
        flushing == IF pending THEN [flush EXCEPT ![active] = session] ELSE flush
        marker == IF pending THEN <<CancelledEvent(active)>> ELSE <<>>
    IN  /\ over' = IF pending THEN over \union {active} ELSE over
        /\ flush' = flushing
        /\ log' = [log EXCEPT ![session] = @ \o marker]
        /\ memory' = memory \o marker
        /\ active' = NoRun
        /\ prompt' = NoRun
        /\ exiting' = (exiting \/ exit)
        /\ quit' = (exit /\ \A r \in Runs : flushing[r] = NoSession)
        /\ UNCHANGED <<session, next, live, recorded, compacting, pc, home, made, used, asked,
                       tasks, answered, compaction, blobs, historyVars>>

-----------------------------------------------------------------------------
(* The user *)

\* A prompt: sent, or queued behind the run, or refused during a compaction.
Submit ==
    /\ Typing /\ ~exiting
    /\ \/ /\ active # NoRun
          /\ queued' = session
          /\ UNCHANGED <<session, memory, active, next, flush, prompt, exiting, quit, live,
                         recorded, compacting, runVars, compaction, diskVars, historyVars>>
       \/ /\ active = NoRun /\ ~compacting
          /\ LaunchAfter(<<>>)
          /\ pc' = [pc EXCEPT ![next] = "working"]
          /\ UNCHANGED <<session, flush, prompt, queued, exiting, quit, live, recorded,
                         compacting, over, made, used, asked, tasks, answered,
                         compaction, blobs, landed, superseded, moved>>

\* /init and commands of files go to launchPrompt, whatever runs; /init not while exiting.
Command(c) ==
    /\ Typing
    /\ c = "/init" => ~exiting
    /\ LaunchAfter(<<>>)
    /\ pc' = [pc EXCEPT ![next] = "working"]
    /\ superseded' = superseded \union ({active} \ {NoRun})
    /\ UNCHANGED <<session, flush, prompt, queued, exiting, quit, live, recorded, compacting,
                   over, made, used, asked, tasks, answered, compaction, blobs, landed,
                   moved>>

\* Ctrl-C, and once more within the time the confirmation is shown, which may be any.  To
\* exit by the second alone, or by the two, leaves the same state.
CtrlC ==
    /\ ~quit
    /\ \E confirmed \in BOOLEAN : CancelRun(confirmed)
    /\ UNCHANGED queued

\* Esc, and Esc again.
Esc ==
    /\ Typing
    /\ \/ /\ queued # NoSession
          /\ queued' = NoSession
          /\ UNCHANGED <<session, memory, active, next, flush, prompt, exiting, quit, live,
                         recorded, compacting, runVars, compaction, diskVars, historyVars>>
       \/ /\ queued = NoSession /\ active # NoRun
          /\ CancelRun(FALSE)
          /\ UNCHANGED queued

Exit ==
    /\ Typing
    /\ CancelRun(TRUE)
    /\ UNCHANGED queued

Decide ==
    /\ ~quit /\ prompt # NoRun
    /\ answered' = answered \union {prompt}
    /\ prompt' = NoRun
    /\ UNCHANGED <<session, memory, active, next, flush, queued, exiting, quit, live, recorded,
                   compacting, pc, home, over, made, used, asked, tasks, compaction,
                   diskVars, historyVars>>

Resume(s) ==
    /\ Typing /\ active = NoRun
    /\ session' = s
    /\ memory' = Rehydrated(log[s])
    /\ UNCHANGED <<active, next, flush, prompt, queued, exiting, quit, live, recorded,
                   compacting, runVars, compaction, diskVars, historyVars>>

\* A mutant: a flush that is still to come does not matter.
RewindReadyEarly == active = NoRun

RewindReady == active = NoRun /\ \A r \in Runs : flush[r] = NoSession

\* The last checkpoint is undone: the log ends before it, and the snapshots it does not name
\* any more are pruned (SessionStore has the steps).  The log is read again, or what was
\* remembered is dropped.
Rewind ==
    /\ Typing /\ RewindReady
    /\ LET checkpoints == {i \in 1..Len(log[session]) : IsCheckpoint(log[session][i])}
           kept(i) == SubSeq(log[session], 1, i - 1)
       IN  \E i \in checkpoints :
               /\ \A j \in checkpoints : j <= i
               /\ log' = [log EXCEPT ![session] = Append(kept(i), Event("rewind", NoRun, i))]
               /\ memory' \in {log'[session], <<>>}
               /\ blobs' = {b \in blobs : home[b.run] = session => b \in ToSet(kept(i))}
    /\ UNCHANGED <<session, active, next, flush, prompt, queued, exiting, quit, live, recorded,
                   compacting, runVars, compaction, historyVars>>

\* Bound: one compaction.
Compact ==
    /\ Typing /\ compaction.at = "never"
    /\ compacting' = TRUE
    /\ compaction' = [at |-> "plan", session |-> session, covers |-> {}, snapshot |-> memory]
    /\ UNCHANGED <<session, memory, active, next, flush, prompt, queued, exiting, quit, live,
                   recorded, runVars, diskVars, historyVars>>

-----------------------------------------------------------------------------
(* The goroutines *)

Free(r) == ~quit /\ pc[r] = "working"
Bounded(r) == made[r] + used[r] + asked[r] + tasks[r] < MaxEvents
HasMore(r) == Free(r) /\ Bounded(r)

\* OnToolCall: the snapshot is on disk before the tool runs, its event comes at the end.
Snapshot(r) ==
    /\ HasMore(r)
    /\ made' = [made EXCEPT ![r] = @ + 1]
    /\ blobs' = blobs \union {Checkpoint(r, made'[r])}
    /\ UNCHANGED <<uiVars, pc, home, over, used, asked, tasks, answered, compaction, log,
                   historyVars>>

\* A specialist to which the run has delegated starts, its usage is rolled up, or it stops,
\* in the background when the run is over.  What fails to be recorded is passed over.
SpecialistEvent(r) ==
    /\ ~quit /\ pc[r] # "unborn" /\ Bounded(r)
    /\ tasks' = [tasks EXCEPT ![r] = @ + 1]
    /\ log' = [log EXCEPT ![home[r]] = Append(@, Event("specialist", r, tasks'[r]))]
    /\ UNCHANGED <<uiVars, pc, home, over, made, used, asked, answered, compaction, blobs,
                   historyVars>>

\* OnUsage: the loop counts it if the run is the active one.
OnUsage(r) ==
    /\ HasMore(r)
    /\ used' = [used EXCEPT ![r] = @ + 1]
    /\ IF r = active
       THEN /\ live' = [live EXCEPT ![r] = @ + 1]
            /\ recorded' = [recorded EXCEPT ![r] = @ + 1]
       ELSE UNCHANGED <<live, recorded>>
    /\ UNCHANGED <<session, memory, active, next, flush, prompt, queued, exiting, quit,
                   compacting, pc, home, over, made, asked, tasks, answered, compaction,
                   diskVars, historyVars>>

\* A run asks; the loop shows the question, or `dropped` is what becomes of another run's.
Ask(r, asking, dropped) ==
    /\ HasMore(r)
    /\ asked' = [asked EXCEPT ![r] = @ + 1]
    /\ pc' = [pc EXCEPT ![r] = asking]
    /\ IF r = active THEN prompt' = r /\ UNCHANGED answered
                     ELSE answered' = dropped /\ UNCHANGED prompt
    /\ UNCHANGED <<session, memory, active, next, flush, queued, exiting, quit, live,
                   recorded, compacting, home, over, made, used, tasks, compaction,
                   diskVars, historyVars>>

\* A mutant: the request of a run that is not the active one is dropped.
OnPermissionDropped(r) == Ask(r, "asking permission", answered)

\* OnPermissionRequest: that of another run is answered at once.
OnPermissionRequest(r) == Ask(r, "asking permission", answered \union {r})

\* OnAskUser: that of another run is dropped.
OnAskUser(r) == Ask(r, "asking question", answered)

Asking(r) == pc[r] \in {"asking permission", "asking question"}

\* The answer, or the end of the context.
AskEnds(r) ==
    /\ ~quit /\ Asking(r)
    /\ r \in answered \union over
    /\ pc' = [pc EXCEPT ![r] = "working"]
    /\ answered' = answered \ {r}
    /\ UNCHANGED <<uiVars, home, over, made, used, asked, tasks, compaction, diskVars, historyVars>>

\* compactActiveSession: plan, record (or fail), read again (or fail: the log keeps it).
PlanCompaction ==
    /\ ~quit /\ compaction.at = "plan"
    /\ LET events == log[compaction.session]
           split == IF Len(events) > Preserve THEN Len(events) - Preserve ELSE 0
       IN  compaction' = [compaction EXCEPT !.covers = ToSet(SubSeq(events, 1, split)),
                                            !.at = IF split = 0 THEN "unchanged" ELSE "record",
                                            !.snapshot = IF split = 0 THEN @ ELSE <<>>]
    /\ UNCHANGED <<uiVars, runVars, diskVars, historyVars>>

RecordCompaction ==
    /\ ~quit /\ compaction.at = "record"
    /\ \/ /\ log' = [log EXCEPT ![compaction.session] = Append(@, CompactionEvent)]
          /\ compaction' = [compaction EXCEPT !.at = "read"]
       \/ compaction' = [compaction EXCEPT !.at = "failed", !.covers = {}] /\ UNCHANGED log
    /\ UNCHANGED <<uiVars, runVars, blobs, historyVars>>

ReadCompacted ==
    /\ ~quit /\ compaction.at = "read"
    /\ \/ compaction' = [compaction EXCEPT !.at = "compacted",
                                           !.snapshot = Rehydrated(log[compaction.session])]
       \/ compaction' = [compaction EXCEPT !.at = "failed"]
    /\ UNCHANGED <<uiVars, runVars, diskVars, historyVars>>

-----------------------------------------------------------------------------
(* The loop takes the last message of a run, which has ended with an error or without *)

\* The usage is what was counted and the rest.
Rest(r) == recorded[r] + used[r] - live[r]

\* The active run has ended: its events are recorded, and the queued message is sent.
TakeResponse(r) ==
    /\ Free(r) /\ r = active
    /\ over' = over \union {r}
    /\ prompt' = NoRun
    /\ recorded' = [recorded EXCEPT ![r] = Rest(r)]
    /\ landed' = [landed EXCEPT ![r] = Append(@, session)]
    /\ IF queued # NoSession /\ ~exiting
       THEN /\ LaunchAfter(Returned(r))
            /\ queued' = NoSession
            /\ pc' = [pc EXCEPT ![r] = "done", ![next] = "working"]
       ELSE /\ log' = [log EXCEPT ![session] = @ \o Returned(r)]
            /\ memory' = memory \o Returned(r)
            /\ active' = NoRun
            /\ pc' = [pc EXCEPT ![r] = "done"]
            /\ UNCHANGED <<next, home, queued, doomed>>
    /\ UNCHANGED <<session, flush, exiting, quit, live, compacting, made, used, asked,
                   tasks, answered, compaction, blobs, superseded, moved>>

\* A mutant: a late flush goes to the session that is active by then.
TargetActive(r) == session

Target(r) == flush[r]

\* A mutant: what is flushed to another session is remembered, too.
MemoryOfAll(r) == memory \o Returned(r)

MemoryAfterFlush(r) == IF Target(r) = session THEN memory \o Returned(r) ELSE memory

\* A run that was cancelled has ended: its events go where it was recording to.
TakeFlush(r) ==
    /\ Free(r) /\ flush[r] # NoSession
    /\ pc' = [pc EXCEPT ![r] = "done"]
    /\ flush' = [flush EXCEPT ![r] = NoSession]
    /\ recorded' = [recorded EXCEPT ![r] = Rest(r)]
    /\ log' = [log EXCEPT ![Target(r)] = @ \o Returned(r)]
    /\ memory' = MemoryAfterFlush(r)
    /\ landed' = [landed EXCEPT ![r] = Append(@, Target(r))]
    /\ quit' = (exiting /\ \A q \in Runs : flush'[q] = NoSession)
    /\ UNCHANGED <<session, active, next, prompt, queued, exiting, live, compacting,
                   home, over, made, used, asked, tasks, answered, compaction, blobs,
                   superseded, doomed, moved>>

\* Of any other run the message is dropped.
TakeStale(r) ==
    /\ Free(r) /\ r # active /\ flush[r] = NoSession
    /\ pc' = [pc EXCEPT ![r] = "done"]
    /\ UNCHANGED <<uiVars, home, over, made, used, asked, tasks, answered, compaction,
                   diskVars, historyVars>>

\* The compacted session becomes the active one, as it was when it was read.
TakeCompaction ==
    /\ ~quit /\ compaction.at \in {"unchanged", "failed", "compacted"}
    /\ compacting' = FALSE
    /\ compaction' = [NoCompaction EXCEPT !.at = "over", !.covers = compaction.covers]
    /\ IF compaction.at = "failed" THEN UNCHANGED <<session, memory, moved>>
       ELSE /\ session' = compaction.session
            /\ memory' = compaction.snapshot
            /\ moved' = IF session' = session THEN moved ELSE moved \union ({active} \ {NoRun})
    /\ UNCHANGED <<active, next, flush, prompt, queued, exiting, quit, live, recorded,
                   runVars, diskVars, landed, superseded, doomed>>

-----------------------------------------------------------------------------

RunStep(r) ==
    \/ Snapshot(r) \/ SpecialistEvent(r) \/ OnUsage(r)
    \/ OnPermissionRequest(r) \/ OnAskUser(r) \/ AskEnds(r)
    \/ TakeResponse(r) \/ TakeFlush(r) \/ TakeStale(r)
CompactionStep == PlanCompaction \/ RecordCompaction \/ ReadCompacted \/ TakeCompaction
User ==
    \/ Submit \/ CtrlC \/ Esc \/ Exit \/ Decide \/ Rewind \/ Compact
    \/ \E c \in Commands : Command(c)
    \/ \E s \in Sessions : Resume(s)

TuiNext == User \/ CompactionStep \/ \E r \in Runs : RunStep(r)

TuiSpec == TuiInit /\ [][TuiNext]_tuiVars

-----------------------------------------------------------------------------
(* Properties *)

Points == {"unborn", "working", "asking permission", "asking question", "done"}

TuiTypeOK ==
    /\ session \in Sessions /\ queued \in Sessions \union {NoSession}
    /\ active \in Runs \union {NoRun} /\ prompt \in Runs \union {NoRun} /\ next \in 1..(MaxRuns + 1)
    /\ exiting \in BOOLEAN /\ quit \in BOOLEAN
    /\ compacting \in BOOLEAN
    /\ pc \in [Runs -> Points]
    /\ flush \in [Runs -> Sessions \union {NoSession}] /\ home \in [Runs -> Sessions \union {NoSession}]
    /\ over \subseteq Runs /\ answered \subseteq Runs /\ superseded \subseteq Runs /\ doomed \subseteq Runs
    /\ moved \subseteq Runs

\* What a run returns is recorded once, its events in the session it worked for and each
\* use of tokens, though it was cancelled, others run since, another session is resumed and
\* the user is leaving; but for a run that a command has replaced or started while leaving,
\* and in another session if a compaction's result has switched the active one meanwhile
\* (model.go:180-193, 1731-1828, 4036-4047).
RunsAreRecorded ==
    /\ TuiTypeOK
    /\ \A r \in Runs : recorded[r] <= used[r]
    /\ \A r \in Runs \ superseded :
           pc[r] = "done" \/ (quit /\ pc[r] # "unborn" /\ r \notin doomed) =>
               recorded[r] = used[r] /\ (r \notin moved => landed[r] = <<home[r]>>)

\* Each checkpoint the log names has its snapshot: no rewind prunes that of a run whose
\* events are still to come, unless the run was replaced by a command, or a compaction's
\* result has switched the session it was recorded in (session_controls.go:381-386).
CheckpointsRestorable ==
    \A s \in Sessions : \A i \in 1..Len(log[s]) :
        LET e == log[s][i] IN IsCheckpoint(e) /\ e.run \notin superseded \union moved => e \in blobs

\* Who waits for the user is heard: the question is shown or answered, or the run is cancelled; a replaced run may ask for a permission, too (model.go:1671-1706, 4225-4288).
AskersAreHeard ==
    \A r \in Runs : Asking(r) =>
        \/ prompt = r \/ r \in answered \union over
        \/ r \in superseded /\ pc[r] = "asking question"

\* What the next prompt is sent with, but for the specialists' events, which go to the log
\* alone, is the session as it is on disk.
InStep ==
    Uncovered(SpecialistEvents, Rehydrated(memory)) =
        Uncovered(SpecialistEvents, Rehydrated(log[session]))

\* The log of the active session has lost events.
CutBack == ~IsPrefix(log[session], log'[session])

\* Only a compaction takes what is remembered and the log apart: whatever runs end, are
\* cancelled, flush late to this session or another, or delegate, the two stay in step; and
\* a resume and a rewind bring them together again, but that the rewind forgets everything
\* if it cannot read what it left (session.go:42-59, session_controls.go:397-412).
MemoryFollowsLog ==
    [][ \/ UNCHANGED <<session, memory, log>>
        \/ UNCHANGED compaction /\ (session' # session \/ CutBack \/ InStep)
               => InStep' \/ (CutBack /\ memory' = <<>>) ]_tuiVars

\* The comment of runAgentWithOptions (model.go:4355-4357): the checkpoint event "is flushed
\* at end-of-run AND on cancel (flushRunIDs), so the blobs never stay orphaned".
EventsReachLog == \A r \in Runs : pc[r] = "done" /\ made[r] > 0 => landed[r] # <<>>

\* The comment of flushRunIDs (model.go:188-191): the session recorded at the cancellation
\* "keeps the late flush out of whatever session is active by then".
EventsStayHome == \A r \in Runs : landed[r] # <<>> => landed[r] = <<home[r]>>

\* The comment of handleSubmit (model.go:3584-3586): while exiting "a new run must not start:
\* the deferred tea.Quit would abort it mid-flight and orphan its checkpoint blobs".
ExitLosesNothing == quit => \A r \in Runs \ superseded : pc[r] \in {"unborn", "done"}

\* The comment of permissionRequestMsg (model.go:1672-1677): "Dropping a request without
\* resolving parks the run forever".  A question of a replaced run is dropped.
NobodyIsParked ==
    \A r \in Runs : Asking(r) => prompt = r \/ r \in answered \union over

\* The comment of launchPrompt (model.go:3864-3866): for queued prompts "session and image
\* behavior stays identical to immediate submissions".  One that outlives its run is sent in
\* the session that is active when another run ends.
QueueStaysHome == [][queued # NoSession /\ queued' = NoSession /\ next' # next => queued = session]_tuiVars
=============================================================================
