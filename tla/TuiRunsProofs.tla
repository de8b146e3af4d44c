---------------------------- MODULE TuiRunsProofs ----------------------------
(***************************************************************************)
(* Proofs about TuiRuns, for any sessions and any number of runs.  A run   *)
(* that still works is the active one, or its flush is awaited, or it was  *)
(* replaced: nothing it returns is forgotten, and a question is dropped    *)
(* only if a command has replaced its run.  A rewind waits for the first   *)
(* two, so it prunes no snapshot whose event is still to come.  And what   *)
(* is remembered of a session replays like its log, until a compaction.    *)
(***************************************************************************)
EXTENDS TuiRuns, SequenceTheorems, WellFoundedInduction, TLAPS

LEMMA ConstantsTyped ==
    /\ MaxRuns \in Nat /\ Home \in Sessions /\ NoSession \notin Sessions
    /\ NoRun \notin Runs /\ Runs \subseteq Nat
  BY TuiAssumption DEF TuiAssumption, Runs, NoRun

USE ConstantsTyped

LEMMA PointsKnown ==
    /\ "unborn" \in Points /\ "working" \in Points /\ "done" \in Points
    /\ "asking permission" \in Points /\ "asking question" \in Points
  BY DEF Points

\* The runs to come.
Coming == next..MaxRuns

LEMMA ComingMoves ==
    /\ next \in 1..(MaxRuns + 1) => Coming \subseteq Runs /\ (next \in Runs => next \in Coming)
    /\ next' = next => Coming' = Coming
    /\ next \in Runs /\ next' = next + 1 => Coming' = Coming \ {next} /\ next' \in 1..(MaxRuns + 1)
  BY DEF Coming, Runs

Works(r) == pc[r] \notin {"unborn", "done"}

Events == [kind : {"user", "cancelled", "checkpoint", "specialist", "compaction", "rewind"},
           run : Runs \union {NoRun}, n : Nat]

CountersTyped ==
    /\ live \in [Runs -> Nat] /\ recorded \in [Runs -> Nat]
    /\ made \in [Runs -> Nat] /\ used \in [Runs -> Nat] /\ asked \in [Runs -> Nat]
    /\ tasks \in [Runs -> Nat]

DiskTyped ==
    /\ log \in [Sessions -> Seq(Events)] /\ landed \in [Runs -> Seq(Sessions)]
    /\ blobs \subseteq Events /\ \A b \in blobs : b.run \in Runs

CompactionTyped ==
    /\ compaction = [at |-> compaction.at, session |-> compaction.session,
                     covers |-> compaction.covers, snapshot |-> compaction.snapshot]
    /\ compaction.at \notin {"never", "over"} => compaction.session \in Sessions

TuiShape == TuiTypeOK /\ CountersTyped /\ DiskTyped /\ CompactionTyped

\* Runs are numbered as they begin.
Numbered ==
    \A r \in Runs :
        /\ pc[r] = "unborn" <=> r \in Coming
        /\ pc[r] # "unborn" => home[r] \in Sessions
        /\ pc[r] = "unborn" => home[r] = NoSession /\ flush[r] = NoSession
        /\ pc[r] = "unborn" => landed[r] = <<>> /\ live[r] = 0 /\ recorded[r] = 0 /\ used[r] = 0

\* A run that works is in exactly one place: active, awaited, or replaced.
RunsAreHeld ==
    /\ active # NoRun => Works(active) /\ flush[active] = NoSession /\ active \notin superseded
    /\ prompt \in {NoRun, active}
    /\ \A r \in Runs :
        /\ flush[r] # NoSession => Works(r) /\ r \notin superseded /\ r \in over
        /\ r \in superseded => pc[r] # "unborn"
        /\ Works(r) => r = active \/ flush[r] # NoSession \/ r \in superseded

\* Who leaves waits for every flush; what is started then is doomed.
LeavingWaits ==
    /\ exiting /\ active # NoRun => active \in doomed
    /\ quit => exiting /\ \A r \in Runs : flush[r] = NoSession

\* What a run that works has used is counted as it came, and nothing of it is recorded.
Accounted ==
    \A r \in Runs :
        /\ recorded[r] <= used[r]
        /\ Works(r) => live[r] = recorded[r] /\ landed[r] = <<>>
        /\ pc[r] = "done" /\ r \notin superseded => recorded[r] = used[r]

\* Unless a compaction has switched its session, the active run works for the active session
\* and a flush is awaited in the session of its run.
StaysHome ==
    /\ active # NoRun /\ active \notin moved => home[active] = session
    /\ \A r \in Runs \ moved :
          /\ flush[r] # NoSession => flush[r] = home[r]
          /\ pc[r] = "done" /\ r \notin superseded => landed[r] = <<home[r]>>

\* A checkpoint in a log is one of a run that has ended, and it has its snapshot.
LoggedIsKept(s, e) ==
    IsCheckpoint(e) =>
        /\ e.run \in Runs /\ pc[e.run] = "done"
        /\ e.run \notin moved => home[e.run] = s /\ e \in blobs

SnapshotsKept ==
    /\ \A s \in Sessions : \A i \in 1..Len(log[s]) : LoggedIsKept(s, log[s][i])
    /\ \A r \in Runs \ superseded :
           pc[r] # "done" => \A n \in 1..made[r] : Checkpoint(r, n) \in blobs

RunInv == TuiShape /\ Numbered /\ RunsAreHeld /\ LeavingWaits
TuiInv == RunInv /\ Accounted /\ StaysHome /\ SnapshotsKept /\ AskersAreHeard

-----------------------------------------------------------------------------

LEMMA TuiInitEstablishes == TuiInit => TuiInv
<1>. SUFFICES ASSUME TuiInit PROVE TuiInv
  OBVIOUS
<1>. USE DEF TuiInit
<1>1. TuiTypeOK
  <2>1. next \in 1..(MaxRuns + 1)
    OBVIOUS
  <2>. QED  BY <2>1, PointsKnown DEF TuiTypeOK
<1>2. CountersTyped /\ DiskTyped /\ CompactionTyped
  BY DEF CountersTyped, DiskTyped, CompactionTyped, NoCompaction
<1>3. Numbered
  <2>1. \A r \in Runs : r \in Coming
    BY DEF Coming, Runs
  <2>. QED  BY <2>1 DEF Numbered
<1>4. RunsAreHeld /\ LeavingWaits /\ Accounted /\ StaysHome
  BY DEF RunsAreHeld, LeavingWaits, Accounted, StaysHome, Works
<1>5. SnapshotsKept
  BY DEF SnapshotsKept
<1>6. AskersAreHeard
  BY DEF AskersAreHeard, Asking
<1>. QED  BY <1>1, <1>2, <1>3, <1>4, <1>5, <1>6 DEF TuiInv, RunInv, TuiShape

LEMMA EventsAreTyped ==
    /\ CompactionEvent \in Events
    /\ \A i \in Nat : Event("rewind", NoRun, i) \in Events
    /\ \A r \in Runs : UserEvent(r) \in Events /\ CancelledEvent(r) \in Events
    /\ \A r \in Runs, n \in Nat : Checkpoint(r, n) \in Events /\ Event("specialist", r, n) \in Events
  BY DEF CompactionEvent, Event, UserEvent, CancelledEvent, Checkpoint, Events

LEMMA ReturnedIsTyped ==
    ASSUME NEW r \in Runs, CountersTyped
    PROVE  /\ Returned(r) \in Seq(Events) /\ Len(Returned(r)) = made[r]
           /\ \A n \in 1..made[r] : Returned(r)[n] = Checkpoint(r, n)
<1>1. made[r] \in Nat /\ \A n \in 1..made[r] : Checkpoint(r, n) \in Events
  BY EventsAreTyped DEF CountersTyped
<1>. QED  BY <1>1 DEF Returned

\* What the control of runs reads; the rest of a step only touches the disk, the memory and
\* the keyboard.
controlVars == <<session, active, next, flush, prompt, exiting, quit, live, recorded, pc, home,
                 over, used, answered, landed, superseded, doomed, moved>>

\* A run begins, in place of the active one if there is one.
Begin ==
    /\ next \in Runs /\ active' = next /\ next' = next + 1 /\ prompt = NoRun
    /\ home' = [home EXCEPT ![next] = session]
    /\ pc' = [pc EXCEPT ![next] = "working"]
    /\ doomed' = IF exiting THEN doomed \union {next} ELSE doomed
    /\ superseded' = superseded \union ({active} \ {NoRun})
    /\ UNCHANGED <<session, flush, prompt, exiting, quit, live, recorded, over, used, answered,
                   landed, moved, compaction, blobs, made>>

\* The active run r ends, and the queued message may start the next.
End(r) ==
    /\ r = active /\ pc[r] = "working" /\ ~quit
    /\ prompt' = NoRun /\ over' = over \union {r}
    /\ recorded' = [recorded EXCEPT ![r] = Rest(r)]
    /\ landed' = [landed EXCEPT ![r] = Append(@, session)]
    /\ \/ /\ next \in Runs /\ ~exiting /\ active' = next /\ next' = next + 1
          /\ home' = [home EXCEPT ![next] = session]
          /\ pc' = [pc EXCEPT ![r] = "done", ![next] = "working"]
       \/ /\ active' = NoRun
          /\ pc' = [pc EXCEPT ![r] = "done"]
          /\ UNCHANGED <<next, home>>
    /\ UNCHANGED <<session, flush, exiting, quit, live, used, answered, superseded, doomed,
                   moved, compaction, made, blobs>>

RunControl(r) ==
    \/ OnUsage(r) \/ OnPermissionRequest(r) \/ OnAskUser(r) \/ AskEnds(r)
    \/ End(r) \/ TakeFlush(r) \/ TakeStale(r)

\* Every step, by what it does to the runs.
LEMMA StepsOfRuns ==
    ASSUME TuiTypeOK, TuiNext
    PROVE  \/ UNCHANGED controlVars
           \/ Begin \/ (\E exit \in BOOLEAN : CancelRun(exit)) \/ Decide \/ TakeCompaction
           \/ \E s \in Sessions : Resume(s)
           \/ \E r \in Runs : RunControl(r)
<1>1. CASE Submit
  BY <1>1 DEF Submit, Typing, LaunchAfter, Begin, controlVars, runVars, diskVars, historyVars
<1>2. CASE \E c \in Commands : Command(c)
  BY <1>2 DEF Command, Typing, LaunchAfter, Begin
<1>3. CASE Esc
  BY <1>3 DEF Esc, controlVars, runVars, historyVars
<1>4. CASE Exit \/ Decide \/ \E s \in Sessions : Resume(s)
  BY <1>4 DEF Exit
<1>5. CASE Rewind \/ Compact
  BY <1>5 DEF Rewind, Compact, controlVars, runVars, historyVars
<1>6. CASE CompactionStep
  BY <1>6 DEF CompactionStep, PlanCompaction, RecordCompaction, ReadCompacted, controlVars,
              uiVars, runVars, historyVars
<1>7. CASE CtrlC
  BY <1>7 DEF CtrlC, TuiTypeOK
<1>8. ASSUME NEW r \in Runs, RunStep(r)
      PROVE  UNCHANGED controlVars \/ RunControl(r)
  <2>1. CASE Snapshot(r) \/ SpecialistEvent(r)
    BY <2>1 DEF Snapshot, SpecialistEvent, controlVars, uiVars, historyVars
  <2>2. CASE TakeResponse(r)
    BY <2>2 DEF TakeResponse, Free, LaunchAfter, End, RunControl
  <2>. QED  BY <1>8, <2>1, <2>2 DEF RunStep, RunControl
<1>. QED  BY <1>1, <1>2, <1>3, <1>4, <1>5, <1>6, <1>7, <1>8 DEF TuiNext, User

\* The types, in two parts: what the runs are controlled by, and the keyboard.
ControlTyped ==
    /\ session \in Sessions
    /\ active \in Runs \union {NoRun} /\ prompt \in Runs \union {NoRun} /\ next \in 1..(MaxRuns + 1)
    /\ exiting \in BOOLEAN /\ quit \in BOOLEAN
    /\ pc \in [Runs -> Points]
    /\ flush \in [Runs -> Sessions \union {NoSession}] /\ home \in [Runs -> Sessions \union {NoSession}]
    /\ over \subseteq Runs /\ answered \subseteq Runs /\ superseded \subseteq Runs /\ doomed \subseteq Runs
    /\ moved \subseteq Runs

LEMMA ControlKept == TuiShape /\ [TuiNext]_tuiVars => ControlTyped'
<1>. SUFFICES ASSUME TuiTypeOK, CompactionTyped, ControlTyped, TuiNext PROVE ControlTyped'
  BY DEF TuiShape, TuiTypeOK, ControlTyped, tuiVars
<1>. USE DEF ControlTyped
<1>1. CASE UNCHANGED controlVars
  BY <1>1 DEF controlVars
<1>2. CASE Begin
  <2>1. pc' \in [Runs -> Points] /\ home' \in [Runs -> Sessions \union {NoSession}]
    BY <1>2, PointsKnown DEF Begin
  <2>2. next' \in 1..(MaxRuns + 1)
    BY <1>2, ComingMoves DEF Begin
  <2>. QED  BY <1>2, <2>1, <2>2 DEF Begin
<1>3. ASSUME NEW exit \in BOOLEAN, CancelRun(exit) PROVE ControlTyped'
  BY <1>3 DEF CancelRun, historyVars
<1>4. CASE Decide
  BY <1>4 DEF Decide, diskVars, historyVars
<1>5. CASE TakeCompaction
  BY <1>5 DEF TakeCompaction, CompactionTyped, runVars, diskVars
<1>6. ASSUME NEW s \in Sessions, Resume(s) PROVE ControlTyped'
  BY <1>6 DEF Resume, runVars, diskVars, historyVars
<1>7. ASSUME NEW r \in Runs, RunControl(r) PROVE ControlTyped'
  <2>1. CASE OnUsage(r)
    BY <2>1 DEF OnUsage, diskVars, historyVars
  <2>2. CASE OnPermissionRequest(r)
    BY <2>2, PointsKnown DEF OnPermissionRequest, Ask, diskVars, historyVars
  <2>3. CASE OnAskUser(r)
    BY <2>3, PointsKnown DEF OnAskUser, Ask, diskVars, historyVars
  <2>4. CASE AskEnds(r) \/ TakeStale(r)
    <3>1. CASE AskEnds(r)
      BY <3>1, PointsKnown DEF AskEnds, uiVars, diskVars, historyVars
    <3>2. CASE TakeStale(r)
      BY <3>2, PointsKnown DEF TakeStale, uiVars, diskVars, historyVars
    <3>. QED  BY <2>4, <3>1, <3>2
  <2>5. CASE End(r)
    <3>1. CASE active' = NoRun
      BY <2>5, <3>1, PointsKnown DEF End
    <3>2. CASE next \in Runs /\ active' = next /\ next' = next + 1
      <4>1. pc' \in [Runs -> Points]
        BY <2>5, <3>2, PointsKnown DEF End
      <4>2. home' \in [Runs -> Sessions \union {NoSession}]
        BY <2>5, <3>2 DEF End
      <4>3. next' \in 1..(MaxRuns + 1) /\ doomed' \subseteq Runs
        BY <2>5, <3>2, ComingMoves DEF End
      <4>. QED  BY <2>5, <3>2, <4>1, <4>2, <4>3 DEF End
    <3>. QED  BY <2>5, <3>1, <3>2 DEF End
  <2>6. CASE TakeFlush(r)
    BY <2>6, PointsKnown DEF TakeFlush
  <2>. QED  BY <1>7, <2>1, <2>2, <2>3, <2>4, <2>5, <2>6 DEF RunControl
<1>. QED  BY <1>1, <1>2, <1>3, <1>4, <1>5, <1>6, <1>7, StepsOfRuns

LEMMA KeyboardKept ==
    ASSUME TuiTypeOK, CompactionTyped, TuiNext
    PROVE  /\ queued' \in Sessions \union {NoSession}
           /\ compacting' \in BOOLEAN
<1>. USE DEF TuiTypeOK
<1>1. CASE Submit \/ \E c \in Commands : Command(c)
  BY <1>1 DEF Submit, Command, historyVars
<1>2. CASE CtrlC \/ Esc \/ Exit
  BY <1>2 DEF CtrlC, Esc, Exit, CancelRun, historyVars
<1>3. CASE Decide \/ Rewind \/ Compact \/ \E s \in Sessions : Resume(s)
  BY <1>3 DEF Decide, Resume, Rewind, Compact, historyVars
<1>4. CASE CompactionStep
  BY <1>4 DEF CompactionStep, PlanCompaction, RecordCompaction, ReadCompacted, TakeCompaction,
              historyVars, uiVars
<1>5. ASSUME NEW r \in Runs, RunStep(r)
      PROVE  /\ queued' \in {queued, NoSession}
             /\ UNCHANGED compacting
  BY <1>5 DEF RunStep, Snapshot, SpecialistEvent, OnUsage, OnPermissionRequest, OnAskUser, Ask, AskEnds,
              TakeResponse, TakeFlush, TakeStale, uiVars, historyVars
<1>. QED  BY <1>1, <1>2, <1>3, <1>4, <1>5 DEF TuiNext, User

LEMMA CountersKept ==
    ASSUME TuiTypeOK, CountersTyped, Accounted, TuiNext
    PROVE  CountersTyped'
<1>1. made' \in [Runs -> Nat] /\ asked' \in [Runs -> Nat] /\ tasks' \in [Runs -> Nat]
  <2>1. ASSUME NEW r \in Runs, RunStep(r)
        PROVE  made' \in [Runs -> Nat] /\ asked' \in [Runs -> Nat] /\ tasks' \in [Runs -> Nat]
    <3>1. CASE Snapshot(r)
      BY <3>1 DEF Snapshot, CountersTyped
    <3>2. CASE SpecialistEvent(r)
      BY <3>2 DEF SpecialistEvent, CountersTyped
    <3>3. CASE OnPermissionRequest(r) \/ OnAskUser(r)
      <4>1. asked' = [asked EXCEPT ![r] = @ + 1] /\ UNCHANGED <<made, tasks>>
        BY <3>3 DEF OnPermissionRequest, OnAskUser, Ask
      <4>. QED  BY <4>1 DEF CountersTyped
    <3>4. CASE ~(Snapshot(r) \/ SpecialistEvent(r)) /\ ~(OnPermissionRequest(r) \/ OnAskUser(r))
      BY <2>1, <3>4 DEF RunStep, OnUsage, AskEnds, TakeResponse, TakeFlush, TakeStale, CountersTyped
    <3>. QED  BY <3>1, <3>2, <3>3, <3>4
  <2>2. CASE CompactionStep \/ Decide \/ Rewind \/ Compact \/ \E s \in Sessions : Resume(s)
    BY <2>2 DEF Decide, Resume, Rewind, Compact, CompactionStep, PlanCompaction,
                RecordCompaction, ReadCompacted, TakeCompaction, runVars, CountersTyped
  <2>3. CASE Submit \/ CtrlC \/ Esc \/ Exit \/ \E c \in Commands : Command(c)
    BY <2>3 DEF Submit, Command, CtrlC, Esc, Exit, CancelRun, runVars, CountersTyped
  <2>. QED  BY <2>1, <2>2, <2>3 DEF TuiNext, User
<1>2. live' \in [Runs -> Nat] /\ recorded' \in [Runs -> Nat] /\ used' \in [Runs -> Nat]
  <2>. USE DEF CountersTyped
  <2>1. CASE UNCHANGED controlVars
    BY <2>1 DEF controlVars
  <2>2. CASE Begin \/ Decide \/ TakeCompaction \/ (\E exit \in BOOLEAN : CancelRun(exit))
             \/ \E s \in Sessions : Resume(s)
    BY <2>2 DEF Begin, Decide, TakeCompaction, CancelRun, Resume, runVars
  <2>3. ASSUME NEW r \in Runs, RunControl(r)
        PROVE  live' \in [Runs -> Nat] /\ recorded' \in [Runs -> Nat] /\ used' \in [Runs -> Nat]
    <3>1. CASE OnUsage(r)
      BY <3>1 DEF OnUsage
    <3>2. CASE OnPermissionRequest(r) \/ OnAskUser(r) \/ AskEnds(r) \/ TakeStale(r)
      BY <3>2 DEF OnPermissionRequest, OnAskUser, Ask, AskEnds, TakeStale, uiVars
    <3>3. CASE End(r) \/ TakeFlush(r)
      <4>0. Works(r)
        BY <3>3 DEF End, TakeFlush, Free, Works
      <4>1. Rest(r) \in Nat
        <5>1. live[r] = recorded[r] /\ recorded[r] \in Nat /\ used[r] \in Nat
          BY <4>0 DEF Accounted
        <5>. QED  BY <5>1 DEF Rest
      <4>2. recorded' = [recorded EXCEPT ![r] = Rest(r)] /\ UNCHANGED <<live, used>>
        BY <3>3 DEF End, TakeFlush
      <4>. QED  BY <4>1, <4>2
    <3>. QED  BY <2>3, <3>1, <3>2, <3>3 DEF RunControl
  <2>. QED  BY <2>1, <2>2, <2>3, StepsOfRuns
<1>. QED  BY <1>1, <1>2 DEF CountersTyped

LEMMA CompactionKept == CompactionTyped /\ TuiTypeOK /\ TuiNext => CompactionTyped'
<1>. SUFFICES ASSUME CompactionTyped, TuiTypeOK, TuiNext PROVE CompactionTyped'
  OBVIOUS
<1>. USE DEF CompactionTyped
<1>1. CASE Submit \/ CtrlC \/ Esc \/ Exit \/ \E c \in Commands : Command(c)
  BY <1>1 DEF Submit, Command, CtrlC, Esc, Exit, CancelRun
<1>2. CASE Decide \/ Rewind \/ \E s \in Sessions : Resume(s)
  BY <1>2 DEF Decide, Rewind, Resume
<1>3. CASE \E r \in Runs : RunStep(r)
  BY <1>3 DEF RunStep, Snapshot, SpecialistEvent, OnUsage, OnPermissionRequest, OnAskUser, Ask, AskEnds,
              TakeResponse, TakeFlush, TakeStale
<1>4. CASE Compact
  BY <1>4 DEF Compact, TuiTypeOK
<1>5. CASE PlanCompaction
  BY <1>5 DEF PlanCompaction
<1>6. CASE RecordCompaction \/ ReadCompacted
  BY <1>6 DEF RecordCompaction, ReadCompacted
<1>7. CASE TakeCompaction
  BY <1>7 DEF TakeCompaction, NoCompaction
<1>. QED  BY <1>1, <1>2, <1>3, <1>4, <1>5, <1>6, <1>7 DEF TuiNext, User, CompactionStep

-----------------------------------------------------------------------------
(* What a step does to the logs *)

\* The checkpoints among `events` are those run r returns.
CheckpointsOf(r, events) ==
    \A i \in 1..Len(events) :
        IsCheckpoint(events[i]) => \E n \in 1..made[r] : events[i] = Checkpoint(r, n)

NoCheckpoint(events) == \A i \in 1..Len(events) : ~IsCheckpoint(events[i])

Recorded(s, events) == events \in Seq(Events) /\ log' = [log EXCEPT ![s] = @ \o events]

LEMMA LaunchRecords ==
    ASSUME DiskTyped, TuiTypeOK, NEW events \in Seq(Events), LaunchAfter(events)
    PROVE  \E new \in Seq(Events) :
              /\ Recorded(session, new)
              /\ \A i \in 1..Len(new) : IsCheckpoint(new[i]) => \E j \in 1..Len(events) : new[i] = events[j]
<1>. DEFINE new == events \o <<UserEvent(next)>>
<1>1. UserEvent(next) \in Events /\ ~IsCheckpoint(UserEvent(next))
  BY EventsAreTyped DEF LaunchAfter, IsCheckpoint, UserEvent, Event
<1>2. new \in Seq(Events)
  BY <1>1
<1>3. Recorded(session, new)
  BY <1>2 DEF Recorded, LaunchAfter
<1>4. ASSUME NEW i \in 1..Len(new), IsCheckpoint(new[i])
      PROVE  \E j \in 1..Len(events) : new[i] = events[j]
  BY <1>1, <1>4
<1>. QED  BY <1>2, <1>3, <1>4

\* A specialist's event is recorded in the session its run began in, and it is no checkpoint.
LEMMA SpecialistRecords ==
    ASSUME TuiShape, Numbered, NEW r \in Runs, SpecialistEvent(r)
    PROVE  \E e \in Events \intersect SpecialistEvents :
              /\ home[r] \in Sessions /\ Recorded(home[r], <<e>>) /\ NoCheckpoint(<<e>>)
              /\ UNCHANGED <<uiVars, compaction, blobs, made, historyVars>>
<1>. DEFINE e == Event("specialist", r, tasks'[r])
<1>1. home[r] \in Sessions
  BY DEF SpecialistEvent, Numbered
<1>2. tasks'[r] \in 1..MaxEvents
  <2>1. /\ made[r] \in Nat /\ used[r] \in Nat /\ asked[r] \in Nat /\ tasks[r] \in Nat
        /\ tasks \in [Runs -> Nat]
    BY DEF TuiShape, CountersTyped
  <2>2. made[r] + used[r] + asked[r] + tasks[r] < MaxEvents /\ tasks'[r] = tasks[r] + 1
    BY <2>1 DEF SpecialistEvent, Bounded
  <2>3. MaxEvents \in Nat
    BY TuiAssumption DEF TuiAssumption
  <2>. HIDE DEF e
  <2>. QED  BY <2>1, <2>2, <2>3
<1>3. e \in Events /\ e \in SpecialistEvents
  BY <1>2, EventsAreTyped DEF SpecialistEvents
<1>4. e.kind = "specialist"
  BY DEF Event
<1>5. log' = [log EXCEPT ![home[r]] = Append(@, e)]
  BY DEF SpecialistEvent
<1>6. log[home[r]] \in Seq(Events)
  BY <1>1 DEF TuiShape, DiskTyped
<1>. HIDE DEF e
<1>7. Append(log[home[r]], e) = log[home[r]] \o <<e>>
  BY <1>3, <1>6
<1>8. Recorded(home[r], <<e>>)
  BY <1>3, <1>5, <1>7 DEF Recorded
<1>9. NoCheckpoint(<<e>>)
  BY <1>4 DEF NoCheckpoint, IsCheckpoint
<1>10. UNCHANGED <<uiVars, compaction, blobs, made, historyVars>>
  BY DEF SpecialistEvent
<1>. QED  BY <1>1, <1>3, <1>8, <1>9, <1>10

LEMMA StepsOfLogs ==
    ASSUME TuiShape, Numbered, TuiNext
    PROVE  \/ UNCHANGED log
           \/ \E s \in Sessions : \E new \in Seq(Events) : Recorded(s, new) /\ NoCheckpoint(new) /\ UNCHANGED blobs
           \/ \E r \in Runs : \E new \in Seq(Events) :
                  /\ CheckpointsOf(r, new) /\ UNCHANGED blobs
                  /\ \/ End(r) /\ Recorded(session, new)
                     \/ TakeFlush(r) /\ Recorded(flush[r], new)
           \/ Rewind
<1>. USE DEF TuiShape
<1>1. ASSUME Submit \/ \E c \in Commands : Command(c)
      PROVE  \/ UNCHANGED log
             \/ \E new \in Seq(Events) : Recorded(session, new) /\ NoCheckpoint(new) /\ UNCHANGED blobs
  <2>1. UNCHANGED log \/ (LaunchAfter(<<>>) /\ UNCHANGED blobs)
    BY <1>1 DEF Submit, Command, diskVars
  <2>2. ASSUME LaunchAfter(<<>>), UNCHANGED blobs
        PROVE  \E new \in Seq(Events) : Recorded(session, new) /\ NoCheckpoint(new) /\ UNCHANGED blobs
    <3>1. PICK new \in Seq(Events) :
              /\ Recorded(session, new)
              /\ \A i \in 1..Len(new) : IsCheckpoint(new[i]) => \E j \in 1..Len(<<>>) : new[i] = <<>>[j]
      <4>1. <<>> \in Seq(Events)
        OBVIOUS
      <4>. QED  BY <2>2, <4>1, LaunchRecords
    <3>2. NoCheckpoint(new)
      BY <3>1 DEF NoCheckpoint
    <3>. QED  BY <2>2, <3>1, <3>2
  <2>. QED  BY <2>1, <2>2
<1>2. ASSUME CtrlC \/ Esc \/ Exit
      PROVE  \/ UNCHANGED log
             \/ \E new \in Seq(Events) : Recorded(session, new) /\ NoCheckpoint(new) /\ UNCHANGED blobs
  <2>. DEFINE marker == IF active # NoRun THEN <<CancelledEvent(active)>> ELSE <<>>
  <2>1. UNCHANGED log \/ (log' = [log EXCEPT ![session] = @ \o marker] /\ UNCHANGED blobs)
    BY <1>2 DEF CtrlC, Esc, Exit, CancelRun, diskVars
  <2>2. marker \in Seq(Events) /\ NoCheckpoint(marker)
    <3>1. CASE active = NoRun
      BY <3>1 DEF NoCheckpoint
    <3>2. CASE active \in Runs
      <4>1. CancelledEvent(active) \in Events /\ ~IsCheckpoint(CancelledEvent(active))
        BY <3>2, EventsAreTyped DEF IsCheckpoint, CancelledEvent, Event
      <4>. QED  BY <3>2, <4>1 DEF NoCheckpoint
    <3>. QED  BY <3>1, <3>2 DEF TuiTypeOK
  <2>. QED  BY <2>1, <2>2 DEF Recorded
<1>3. CASE Decide \/ Compact \/ \E s \in Sessions : Resume(s)
  BY <1>3 DEF Decide, Compact, Resume, diskVars
<1>4. CASE CompactionStep
  <2>1. UNCHANGED log \/ (/\ log' = [log EXCEPT ![compaction.session] = Append(@, CompactionEvent)]
                          /\ compaction.session \in Sessions /\ UNCHANGED blobs)
    BY <1>4 DEF CompactionStep, PlanCompaction, RecordCompaction, ReadCompacted, TakeCompaction,
                diskVars, CompactionTyped
  <2>. DEFINE new == <<CompactionEvent>>
  <2>2. new \in Seq(Events) /\ NoCheckpoint(new)
    BY EventsAreTyped DEF NoCheckpoint, IsCheckpoint, CompactionEvent, Event
  <2>3. ASSUME NEW s \in Sessions PROVE Append(log[s], CompactionEvent) = log[s] \o new
    BY EventsAreTyped DEF DiskTyped
  <2>. QED  BY <2>1, <2>2, <2>3 DEF Recorded
<1>5. ASSUME NEW r \in Runs, RunStep(r)
      PROVE  \/ UNCHANGED log
             \/ \E s \in Sessions : \E new \in Seq(Events) : Recorded(s, new) /\ NoCheckpoint(new) /\ UNCHANGED blobs
             \/ \E new \in Seq(Events) :
                  /\ CheckpointsOf(r, new) /\ UNCHANGED blobs
                  /\ \/ End(r) /\ Recorded(session, new)
                     \/ TakeFlush(r) /\ Recorded(flush[r], new)
  <2>1. Returned(r) \in Seq(Events) /\ CheckpointsOf(r, Returned(r))
    BY ReturnedIsTyped DEF CheckpointsOf
  <2>2. CASE TakeFlush(r)
    BY <2>1, <2>2 DEF TakeFlush, Target, Recorded
  <2>3. CASE TakeResponse(r)
    <3>1. End(r) /\ UNCHANGED blobs
      BY <2>3 DEF TakeResponse, End, Free, LaunchAfter
    <3>2. LaunchAfter(Returned(r)) \/ Recorded(session, Returned(r))
      BY <2>1, <2>3 DEF TakeResponse, Recorded
    <3>3. CASE LaunchAfter(Returned(r))
      <4>1. PICK new \in Seq(Events) :
                /\ Recorded(session, new)
                /\ \A i \in 1..Len(new) : IsCheckpoint(new[i]) =>
                      \E j \in 1..Len(Returned(r)) : new[i] = Returned(r)[j]
        BY <2>1, <3>3, LaunchRecords
      <4>2. CheckpointsOf(r, new)
        BY ReturnedIsTyped, <4>1 DEF CheckpointsOf
      <4>. QED  BY <3>1, <4>1, <4>2
    <3>. QED  BY <2>1, <3>1, <3>2, <3>3
  <2>4. CASE SpecialistEvent(r)
    <3>1. PICK e \in Events : home[r] \in Sessions /\ Recorded(home[r], <<e>>) /\ NoCheckpoint(<<e>>) /\ UNCHANGED blobs
      BY <2>4, SpecialistRecords
    <3>2. <<e>> \in Seq(Events)
      OBVIOUS
    <3>. QED  BY <3>1, <3>2
  <2>5. CASE ~TakeFlush(r) /\ ~TakeResponse(r) /\ ~SpecialistEvent(r)
    BY <1>5, <2>5 DEF RunStep, Snapshot, OnUsage, OnPermissionRequest, OnAskUser, Ask, AskEnds, TakeStale, diskVars
  <2>. QED  BY <2>2, <2>3, <2>4, <2>5
<1>. QED  BY <1>1, <1>2, <1>3, <1>4, <1>5 DEF TuiNext, User, TuiTypeOK

\* Snapshots are taken by runs, and pruned by rewinds only.
LEMMA StepsOfBlobs ==
    ASSUME TuiNext
    PROVE  UNCHANGED <<blobs, made>> \/ Rewind \/ \E r \in Runs : Snapshot(r)
<1>1. CASE \E r \in Runs : RunStep(r)
  BY <1>1 DEF RunStep, SpecialistEvent, OnUsage, OnPermissionRequest, OnAskUser, Ask, AskEnds,
              TakeResponse, TakeFlush, TakeStale, diskVars
<1>2. CASE CompactionStep \/ Decide \/ Compact \/ \E s \in Sessions : Resume(s)
  BY <1>2 DEF Decide, Resume, Compact, CompactionStep, PlanCompaction,
              RecordCompaction, ReadCompacted, TakeCompaction, diskVars, runVars
<1>3. CASE Submit \/ CtrlC \/ Esc \/ Exit \/ \E c \in Commands : Command(c)
  BY <1>3 DEF Submit, Command, CtrlC, Esc, Exit, CancelRun, diskVars, runVars
<1>. QED  BY <1>1, <1>2, <1>3 DEF TuiNext, User

\* What a rewind leaves of the log of the session, and of the snapshots.
LEMMA RewindCuts ==
    ASSUME TuiShape, Rewind
    PROVE  \E i \in 1..Len(log[session]) :
              /\ log' = [log EXCEPT ![session] =
                            Append(SubSeq(log[session], 1, i - 1), Event("rewind", NoRun, i))]
              /\ blobs' = {b \in blobs : home[b.run] = session =>
                                         b \in ToSet(SubSeq(log[session], 1, i - 1))}
  BY DEF Rewind

LEMMA DiskKept ==
    ASSUME TuiShape, Numbered, TuiNext
    PROVE  DiskTyped'
<1>. USE DEF DiskTyped
<1>1. log' \in [Sessions -> Seq(Events)]
  <2>1. ASSUME NEW s \in Sessions, NEW new \in Seq(Events), Recorded(s, new)
        PROVE  log' \in [Sessions -> Seq(Events)]
    BY <2>1 DEF TuiShape, Recorded
  <2>2. ASSUME NEW r \in Runs, NEW new \in Seq(Events), TakeFlush(r), Recorded(flush[r], new)
        PROVE  log' \in [Sessions -> Seq(Events)]
    BY <2>1, <2>2 DEF TuiShape, TuiTypeOK, TakeFlush
  <2>3. CASE Rewind
    <3>1. PICK i \in 1..Len(log[session]) :
              log' = [log EXCEPT ![session] =
                            Append(SubSeq(log[session], 1, i - 1), Event("rewind", NoRun, i))]
      BY <2>3, RewindCuts
    <3>0. session \in Sessions /\ log \in [Sessions -> Seq(Events)]
      BY DEF TuiShape, TuiTypeOK
    <3>2. log[session] \in Seq(Events) /\ i - 1 <= Len(log[session])
      BY <3>0
    <3>3. SubSeq(log[session], 1, i - 1) \in Seq(Events) /\ Event("rewind", NoRun, i) \in Events
      BY <3>2, EventsAreTyped
    <3>4. Append(SubSeq(log[session], 1, i - 1), Event("rewind", NoRun, i)) \in Seq(Events)
      BY <3>3
    <3>. QED  BY <3>0, <3>1, <3>4
  <2>. QED  BY <2>1, <2>2, <2>3, StepsOfLogs DEF TuiShape, TuiTypeOK
<1>2. landed' \in [Runs -> Seq(Sessions)]
  <2>1. CASE UNCHANGED controlVars
    BY <2>1 DEF controlVars, TuiShape
  <2>2. CASE Begin \/ Decide \/ TakeCompaction \/ (\E exit \in BOOLEAN : CancelRun(exit))
             \/ \E s \in Sessions : Resume(s)
    BY <2>2 DEF Begin, Decide, TakeCompaction, CancelRun, Resume, historyVars, TuiShape
  <2>3. ASSUME NEW r \in Runs, RunControl(r)
        PROVE  landed' \in [Runs -> Seq(Sessions)]
    <3>1. CASE OnUsage(r) \/ OnPermissionRequest(r) \/ OnAskUser(r) \/ AskEnds(r) \/ TakeStale(r)
      BY <3>1 DEF OnUsage, OnPermissionRequest, OnAskUser, Ask, AskEnds, TakeStale, historyVars, TuiShape
    <3>2. ASSUME NEW s \in Sessions, landed' = [landed EXCEPT ![r] = Append(@, s)]
          PROVE  landed' \in [Runs -> Seq(Sessions)]
      BY <3>2 DEF TuiShape
    <3>. QED  BY <2>3, <3>1, <3>2 DEF RunControl, End, TakeFlush, Target, TuiShape, TuiTypeOK
  <2>. QED  BY <2>1, <2>2, <2>3, StepsOfRuns DEF TuiShape
<1>3. blobs' \subseteq Events /\ \A b \in blobs' : b.run \in Runs
  <2>1. ASSUME NEW r \in Runs, Snapshot(r)
        PROVE  blobs' \subseteq Events /\ \A b \in blobs' : b.run \in Runs
    <3>1. made'[r] \in Nat /\ blobs' = blobs \union {Checkpoint(r, made'[r])}
      BY <2>1 DEF Snapshot, TuiShape, CountersTyped
    <3>2. Checkpoint(r, made'[r]) \in Events /\ Checkpoint(r, made'[r]).run = r
      BY <3>1, EventsAreTyped DEF Checkpoint, Event
    <3>. QED  BY <3>1, <3>2 DEF TuiShape
  <2>2. CASE Rewind
    BY <2>2, RewindCuts DEF TuiShape
  <2>. QED  BY <2>1, <2>2, StepsOfBlobs DEF TuiShape
<1>. QED  BY <1>1, <1>2, <1>3

LEMMA ShapeKept == TuiShape /\ Numbered /\ Accounted /\ [TuiNext]_tuiVars => TuiShape'
<1>1. ASSUME TuiShape, Numbered, Accounted, TuiNext PROVE TuiShape'
  <2>1. ControlTyped'
    BY <1>1, ControlKept
  <2>2. TuiTypeOK'
    BY <1>1, <2>1, KeyboardKept DEF TuiShape, TuiTypeOK, ControlTyped
  <2>. QED  BY <1>1, <2>2, CountersKept, DiskKept, CompactionKept DEF TuiShape
<1>2. ASSUME TuiShape, UNCHANGED tuiVars PROVE TuiShape'
  BY <1>2 DEF TuiShape, TuiTypeOK, CountersTyped, DiskTyped, CompactionTyped, tuiVars
<1>. QED  BY <1>1, <1>2

-----------------------------------------------------------------------------
(* Where a run is, until it is done *)

LEMMA NumberedKept ==
    ASSUME RunInv, Accounted, TuiTypeOK', TuiNext
    PROVE  Numbered'
<1>0. /\ session \in Sessions /\ active \in Runs \union {NoRun} /\ Coming \subseteq Runs /\ (next \in Runs => next \in Coming)
      /\ pc \in [Runs -> Points]
      /\ flush \in [Runs -> Sessions \union {NoSession}] /\ home \in [Runs -> Sessions \union {NoSession}]
      /\ live \in [Runs -> Nat] /\ recorded \in [Runs -> Nat] /\ used \in [Runs -> Nat]
      /\ landed \in [Runs -> Seq(Sessions)]
      /\ Numbered /\ (active # NoRun => pc[active] \notin {"unborn", "done"})
  <2>1. TuiTypeOK /\ CountersTyped /\ DiskTyped /\ Numbered /\ RunsAreHeld
    BY DEF RunInv, TuiShape
  <2>2. Coming \subseteq Runs /\ (next \in Runs => next \in Coming)
    BY <2>1, ComingMoves DEF TuiTypeOK
  <2>. QED  BY <2>1, <2>2 DEF TuiTypeOK, CountersTyped, DiskTyped, RunsAreHeld, Works
<1>. USE <1>0 DEF Numbered
<1>1. CASE UNCHANGED controlVars
  BY <1>1, ComingMoves DEF controlVars
<1>2. CASE Begin
  BY <1>2, ComingMoves DEF Begin
<1>3. ASSUME NEW exit \in BOOLEAN, CancelRun(exit) PROVE Numbered'
  BY <1>3, ComingMoves DEF CancelRun, historyVars
<1>4. CASE Decide
  BY <1>4, ComingMoves DEF Decide, historyVars
<1>5. CASE TakeCompaction
  BY <1>5, ComingMoves DEF TakeCompaction, runVars
<1>6. ASSUME NEW s \in Sessions, Resume(s) PROVE Numbered'
  BY <1>6, ComingMoves DEF Resume, runVars, historyVars
<1>7. ASSUME NEW r \in Runs, RunControl(r) PROVE Numbered'
  <2>1. CASE OnUsage(r)
    BY <2>1, ComingMoves DEF OnUsage, HasMore, Free, historyVars
  <2>2. CASE OnPermissionRequest(r)
    BY <2>2, ComingMoves DEF OnPermissionRequest, Ask, HasMore, Free, historyVars
  <2>3. CASE OnAskUser(r)
    BY <2>3, ComingMoves DEF OnAskUser, Ask, HasMore, Free, historyVars
  <2>4. CASE AskEnds(r)
    BY <2>4, ComingMoves DEF AskEnds, Asking, uiVars, historyVars
  <2>5. CASE End(r)
    <3>1. CASE active' = NoRun
      BY <2>5, <3>1, ComingMoves DEF End
    <3>2. CASE next \in Runs /\ active' = next /\ next' = next + 1
      <4>1. Coming' = Coming \ {next} /\ next \in Coming
        BY <3>2, ComingMoves
      <4>2. pc[r] = "working" /\ r \notin Coming /\ r # next
        BY <2>5, <4>1 DEF End
      <4>3. /\ pc' = [pc EXCEPT ![r] = "done", ![next] = "working"]
            /\ home' = [home EXCEPT ![next] = session] /\ UNCHANGED <<flush, live, used>>
            /\ recorded' = [recorded EXCEPT ![r] = Rest(r)]
            /\ landed' = [landed EXCEPT ![r] = Append(@, session)]
        BY <2>5, <3>2 DEF End
      <4>. QED  BY <3>2, <4>1, <4>2, <4>3
    <3>. QED  BY <2>5, <3>1, <3>2 DEF End
  <2>6. CASE TakeFlush(r)
    BY <2>6, ComingMoves DEF TakeFlush, Free
  <2>7. CASE TakeStale(r)
    BY <2>7, ComingMoves DEF TakeStale, Free, uiVars, historyVars
  <2>. QED  BY <1>7, <2>1, <2>2, <2>3, <2>4, <2>5, <2>6, <2>7 DEF RunControl
<1>. QED  BY <1>1, <1>2, <1>3, <1>4, <1>5, <1>6, <1>7, StepsOfRuns DEF RunInv, TuiShape

LEMMA HeldKept ==
    ASSUME RunInv, Accounted, TuiTypeOK', TuiNext
    PROVE  RunsAreHeld'
<1>0. /\ session \in Sessions /\ active \in Runs \union {NoRun}
      /\ pc \in [Runs -> Points]
      /\ flush \in [Runs -> Sessions \union {NoSession}]
      /\ over \subseteq Runs /\ superseded \subseteq Runs
      /\ \A r \in Runs : pc[r] = "unborn" <=> r \in Coming
      /\ \A r \in Runs : pc[r] = "unborn" => flush[r] = NoSession
      /\ Coming \subseteq Runs /\ (next \in Runs => next \in Coming) /\ RunsAreHeld
  <2>1. TuiTypeOK /\ Numbered /\ RunsAreHeld
    BY DEF RunInv, TuiShape
  <2>2. Coming \subseteq Runs /\ (next \in Runs => next \in Coming)
    BY <2>1, ComingMoves DEF TuiTypeOK
  <2>. QED  BY <2>1, <2>2 DEF TuiTypeOK, Numbered
<1>. USE <1>0 DEF RunsAreHeld, Works
<1>1. CASE UNCHANGED controlVars
  BY <1>1, ComingMoves DEF controlVars
<1>2. CASE Begin
  BY <1>2, ComingMoves DEF Begin
<1>3. ASSUME NEW exit \in BOOLEAN, CancelRun(exit) PROVE RunsAreHeld'
  BY <1>3, ComingMoves DEF CancelRun, historyVars
<1>4. CASE Decide
  BY <1>4, ComingMoves DEF Decide, historyVars
<1>5. CASE TakeCompaction
  BY <1>5, ComingMoves DEF TakeCompaction, runVars
<1>6. ASSUME NEW s \in Sessions, Resume(s) PROVE RunsAreHeld'
  BY <1>6, ComingMoves DEF Resume, runVars, historyVars
<1>7. ASSUME NEW r \in Runs, RunControl(r) PROVE RunsAreHeld'
  <2>1. CASE OnUsage(r)
    BY <2>1, ComingMoves DEF OnUsage, HasMore, Free, historyVars
  <2>2. CASE OnPermissionRequest(r)
    BY <2>2, ComingMoves DEF OnPermissionRequest, Ask, HasMore, Free, historyVars
  <2>3. CASE OnAskUser(r)
    BY <2>3, ComingMoves DEF OnAskUser, Ask, HasMore, Free, historyVars
  <2>4. CASE AskEnds(r)
    BY <2>4, ComingMoves DEF AskEnds, Asking, uiVars, historyVars
  <2>5. CASE End(r)
    <3>1. CASE active' = NoRun
      BY <2>5, <3>1, ComingMoves DEF End
    <3>2. CASE next \in Runs /\ active' = next /\ next' = next + 1
      BY <2>5, <3>2, ComingMoves DEF End
    <3>. QED  BY <2>5, <3>1, <3>2 DEF End
  <2>6. CASE TakeFlush(r)
    BY <2>6, ComingMoves DEF TakeFlush, Free
  <2>7. CASE TakeStale(r)
    BY <2>7, ComingMoves DEF TakeStale, Free, uiVars, historyVars
  <2>. QED  BY <1>7, <2>1, <2>2, <2>3, <2>4, <2>5, <2>6, <2>7 DEF RunControl
<1>. QED  BY <1>1, <1>2, <1>3, <1>4, <1>5, <1>6, <1>7, StepsOfRuns DEF RunInv, TuiShape

LEMMA LeavingKept ==
    ASSUME RunInv, Accounted, TuiTypeOK', TuiNext
    PROVE  LeavingWaits'
<1>0. /\ active \in Runs \union {NoRun} /\ flush \in [Runs -> Sessions \union {NoSession}]
      /\ session \in Sessions /\ doomed \subseteq Runs /\ LeavingWaits
  BY DEF RunInv, TuiShape, TuiTypeOK, CountersTyped, DiskTyped
<1>. USE <1>0 DEF LeavingWaits
<1>1. CASE UNCHANGED controlVars
  BY <1>1 DEF controlVars
<1>2. CASE Begin
  BY <1>2 DEF Begin
<1>3. ASSUME NEW exit \in BOOLEAN, CancelRun(exit) PROVE LeavingWaits'
  BY <1>3 DEF CancelRun, historyVars
<1>4. CASE Decide
  BY <1>4 DEF Decide, historyVars
<1>5. CASE TakeCompaction
  BY <1>5 DEF TakeCompaction, runVars
<1>6. ASSUME NEW s \in Sessions, Resume(s) PROVE LeavingWaits'
  BY <1>6 DEF Resume, runVars
<1>7. ASSUME NEW r \in Runs, RunControl(r) PROVE LeavingWaits'
  <2>1. CASE OnUsage(r)
    BY <2>1 DEF OnUsage, HasMore, Free, historyVars
  <2>2. CASE OnPermissionRequest(r)
    BY <2>2 DEF OnPermissionRequest, Ask, HasMore, Free, historyVars
  <2>3. CASE OnAskUser(r)
    BY <2>3 DEF OnAskUser, Ask, HasMore, Free, historyVars
  <2>4. CASE AskEnds(r)
    BY <2>4 DEF AskEnds, Asking, uiVars, historyVars
  <2>5. CASE End(r)
    BY <2>5 DEF End
  <2>6. CASE TakeFlush(r)
    BY <2>6 DEF TakeFlush, Free
  <2>7. CASE TakeStale(r)
    BY <2>7 DEF TakeStale, Free, uiVars, historyVars
  <2>. QED  BY <1>7, <2>1, <2>2, <2>3, <2>4, <2>5, <2>6, <2>7 DEF RunControl
<1>. QED  BY <1>1, <1>2, <1>3, <1>4, <1>5, <1>6, <1>7, StepsOfRuns DEF RunInv, TuiShape

-----------------------------------------------------------------------------
(* What a run used is recorded *)

\* All that is left of the usage when a run ends.
LEMMA RestIsUse ==
    ASSUME CountersTyped, NEW r \in Runs, live[r] = recorded[r]
    PROVE  Rest(r) = used[r]
  BY DEF CountersTyped, Rest

LEMMA AccountsNeverExceed ==
    ASSUME RunInv, Accounted, TuiNext
    PROVE  \A r \in Runs : recorded'[r] <= used'[r]
<1>0. /\ CountersTyped /\ TuiTypeOK /\ (\A r \in Runs : recorded[r] <= used[r])
      /\ \A r \in Runs : Works(r) => live[r] = recorded[r]
  BY DEF RunInv, TuiShape, Accounted
<1>1. CASE UNCHANGED controlVars
  BY <1>0, <1>1 DEF controlVars
<1>2. CASE Begin \/ Decide \/ TakeCompaction \/ (\E exit \in BOOLEAN : CancelRun(exit))
           \/ \E s \in Sessions : Resume(s)
  BY <1>0, <1>2 DEF Begin, Decide, TakeCompaction, CancelRun, Resume, runVars
<1>3. ASSUME NEW r \in Runs, RunControl(r)
      PROVE  \A q \in Runs : recorded'[q] <= used'[q]
  <2>1. CASE OnUsage(r)
    BY <1>0, <2>1 DEF OnUsage, CountersTyped
  <2>2. CASE OnPermissionRequest(r) \/ OnAskUser(r) \/ AskEnds(r) \/ TakeStale(r)
    BY <1>0, <2>2 DEF OnPermissionRequest, OnAskUser, Ask, AskEnds, TakeStale, uiVars
  <2>3. CASE End(r) \/ TakeFlush(r)
    <3>1. Works(r)
      BY <2>3 DEF End, TakeFlush, Free, Works
    <3>2. Rest(r) = used[r]
      BY <1>0, <3>1, RestIsUse
    <3>3. recorded' = [recorded EXCEPT ![r] = Rest(r)] /\ UNCHANGED used
      BY <2>3 DEF End, TakeFlush
    <3>. QED  BY <1>0, <3>2, <3>3 DEF CountersTyped
  <2>. QED  BY <1>3, <2>1, <2>2, <2>3 DEF RunControl
<1>. QED  BY <1>0, <1>1, <1>2, <1>3, StepsOfRuns

\* What the runs that work have counted, and what those that are done have recorded.
Settled ==
    \A r \in Runs :
        /\ Works(r) => live[r] = recorded[r] /\ landed[r] = <<>>
        /\ pc[r] = "done" /\ r \notin superseded => recorded[r] = used[r]

LEMMA SettledKept ==
    ASSUME RunInv, Accounted, TuiNext
    PROVE  Settled'
<1>0. /\ Settled /\ CountersTyped /\ pc \in [Runs -> Points] /\ landed \in [Runs -> Seq(Sessions)]
      /\ \A r \in Runs : pc[r] = "unborn" => landed[r] = <<>> /\ live[r] = recorded[r]
      /\ active # NoRun => Works(active)
      /\ \A r \in Runs : Works(r) => r = active \/ flush[r] # NoSession \/ r \in superseded
      /\ \A r \in Runs : flush[r] # NoSession => Works(r)
  BY DEF RunInv, TuiShape, TuiTypeOK, DiskTyped, Accounted, Settled, Numbered, RunsAreHeld
<1>. USE <1>0 DEF Settled, Works
<1>1. CASE UNCHANGED controlVars
  BY <1>1 DEF controlVars
<1>2. CASE Begin
  <2>1. pc[next] = "unborn"
    BY <1>2, ComingMoves DEF Begin, RunInv, Numbered, TuiShape, TuiTypeOK
  <2>. QED  BY <1>2, <2>1 DEF Begin
<1>3. CASE Decide \/ TakeCompaction \/ (\E exit \in BOOLEAN : CancelRun(exit))
           \/ \E s \in Sessions : Resume(s)
  BY <1>3 DEF Decide, TakeCompaction, CancelRun, Resume, runVars, historyVars
<1>4. ASSUME NEW r \in Runs, RunControl(r) PROVE Settled'
  <2>1. CASE OnUsage(r)
    <3>1. /\ live'[r] = recorded'[r]
          /\ \A q \in Runs \ {r} : live'[q] = live[q] /\ recorded'[q] = recorded[q] /\ used'[q] = used[q]
      BY <2>1 DEF OnUsage, Free, HasMore, CountersTyped
    <3>. QED  BY <2>1, <3>1 DEF OnUsage, Free, HasMore, historyVars
  <2>2. CASE OnPermissionRequest(r) \/ OnAskUser(r) \/ AskEnds(r)
    BY <2>2 DEF OnPermissionRequest, OnAskUser, Ask, AskEnds, Asking, HasMore, Free, uiVars, historyVars
  <2>3. CASE TakeStale(r)
    BY <2>3 DEF TakeStale, Free, uiVars, historyVars
  <2>4. CASE End(r)
    <3>1. Rest(r) = used[r]
      BY <2>4, RestIsUse DEF End
    <3>2. recorded'[r] = used'[r] /\ \A q \in Runs \ {r} : recorded'[q] = recorded[q] /\ landed'[q] = landed[q]
      BY <2>4, <3>1 DEF End, CountersTyped
    <3>3. CASE active' = NoRun
      BY <2>4, <3>2, <3>3 DEF End
    <3>4. CASE next \in Runs /\ active' = next /\ next' = next + 1
      <4>1. pc[next] = "unborn"
        BY <3>4, ComingMoves DEF RunInv, Numbered, TuiShape, TuiTypeOK
      <4>. QED  BY <2>4, <3>2, <3>4, <4>1 DEF End
    <3>. QED  BY <2>4, <3>3, <3>4 DEF End
  <2>5. CASE TakeFlush(r)
    <3>1. Rest(r) = used[r]
      BY <2>5, RestIsUse DEF TakeFlush, Free
    <3>2. recorded'[r] = used'[r] /\ \A q \in Runs \ {r} : recorded'[q] = recorded[q] /\ landed'[q] = landed[q]
      BY <2>5, <3>1 DEF TakeFlush, CountersTyped
    <3>. QED  BY <2>5, <3>2 DEF TakeFlush
  <2>. QED  BY <1>4, <2>1, <2>2, <2>3, <2>4, <2>5 DEF RunControl
<1>. QED  BY <1>1, <1>2, <1>3, <1>4, StepsOfRuns DEF RunInv, TuiShape

\* A question is dropped only if a command has replaced its run.
LEMMA AskersKept ==
    ASSUME RunInv, AskersAreHeard, TuiNext
    PROVE  AskersAreHeard'
<1>0. /\ AskersAreHeard /\ pc \in [Runs -> Points]
      /\ prompt \in {NoRun, active} /\ over \subseteq Runs
      /\ \A r \in Runs : Works(r) => r = active \/ flush[r] # NoSession \/ r \in superseded
      /\ \A r \in Runs : flush[r] # NoSession => r \in over
  BY DEF RunInv, TuiShape, TuiTypeOK, RunsAreHeld
<1>. USE <1>0 DEF AskersAreHeard, Asking
<1>1. CASE UNCHANGED controlVars
  BY <1>1 DEF controlVars
<1>2. CASE Begin
  BY <1>2 DEF Begin
<1>3. CASE Decide \/ TakeCompaction \/ \E s \in Sessions : Resume(s)
  BY <1>3 DEF Decide, TakeCompaction, Resume, runVars, historyVars
<1>4. CASE \E exit \in BOOLEAN : CancelRun(exit)
  BY <1>4 DEF CancelRun, historyVars
<1>5. ASSUME NEW r \in Runs, RunControl(r) PROVE AskersAreHeard'
  <2>1. CASE OnUsage(r) \/ TakeStale(r)
    BY <2>1 DEF OnUsage, TakeStale, uiVars, historyVars
  <2>2. CASE OnPermissionRequest(r)
    BY <2>2 DEF OnPermissionRequest, Ask, HasMore, Free, historyVars
  <2>3. CASE OnAskUser(r)
    BY <2>3 DEF OnAskUser, Ask, HasMore, Free, Works, historyVars
  <2>4. CASE AskEnds(r)
    BY <2>4 DEF AskEnds, uiVars, historyVars
  <2>5. CASE End(r) \/ TakeFlush(r)
    BY <2>5 DEF End, TakeFlush, Free
  <2>. QED  BY <1>5, <2>1, <2>2, <2>3, <2>4, <2>5 DEF RunControl
<1>. QED  BY <1>1, <1>2, <1>3, <1>4, <1>5, StepsOfRuns DEF RunInv, TuiShape

-----------------------------------------------------------------------------
(* Where it is recorded *)

LEMMA HomesStay ==
    ASSUME RunInv, TuiNext
    PROVE  \A r \in Runs : pc[r] # "unborn" => home'[r] = home[r]
<1>0. /\ home \in [Runs -> Sessions \union {NoSession}] /\ TuiTypeOK
      /\ next \in Runs => pc[next] = "unborn"
  BY ComingMoves DEF RunInv, TuiShape, TuiTypeOK, Numbered
<1>1. CASE UNCHANGED controlVars
  BY <1>1 DEF controlVars
<1>2. CASE Begin \/ Decide \/ TakeCompaction \/ (\E exit \in BOOLEAN : CancelRun(exit))
           \/ \E s \in Sessions : Resume(s)
  BY <1>0, <1>2 DEF Begin, Decide, TakeCompaction, CancelRun, Resume, runVars
<1>3. ASSUME NEW r \in Runs, RunControl(r)
      PROVE  \A q \in Runs : pc[q] # "unborn" => home'[q] = home[q]
  BY <1>0, <1>3 DEF RunControl, OnUsage, OnPermissionRequest, OnAskUser, Ask, AskEnds, End,
                    TakeFlush, TakeStale
<1>. QED  BY <1>0, <1>1, <1>2, <1>3, StepsOfRuns

\* Once a compaction has switched the session of a run, it has.
LEMMA MovedStays ==
    ASSUME RunInv, TuiNext
    PROVE  moved \subseteq moved'
<1>1. CASE UNCHANGED controlVars
  BY <1>1 DEF controlVars
<1>2. CASE Begin \/ Decide \/ TakeCompaction \/ (\E exit \in BOOLEAN : CancelRun(exit))
           \/ \E s \in Sessions : Resume(s)
  BY <1>2 DEF Begin, Decide, TakeCompaction, CancelRun, Resume, historyVars
<1>3. ASSUME NEW r \in Runs, RunControl(r) PROVE moved \subseteq moved'
  BY <1>3 DEF RunControl, OnUsage, OnPermissionRequest, OnAskUser, Ask, AskEnds, End,
              TakeFlush, TakeStale, historyVars
<1>. QED  BY <1>1, <1>2, <1>3, StepsOfRuns DEF RunInv, TuiShape

LEMMA FirstLanding ==
    ASSUME DiskTyped, NEW r \in Runs, NEW s \in Sessions,
           landed[r] = <<>>, landed' = [landed EXCEPT ![r] = Append(@, s)]
    PROVE  landed'[r] = <<s>> /\ \A q \in Runs \ {r} : landed'[q] = landed[q]
<1>1. Append(<<>>, s) = <<s>>
  OBVIOUS
<1>. QED  BY <1>1 DEF DiskTyped

LEMMA HomeKept ==
    ASSUME RunInv, Accounted, StaysHome, TuiNext
    PROVE  StaysHome'
<1>. DEFINE Home1 == active' # NoRun /\ active' \notin moved' => home'[active'] = session'
            Home2 == \A r \in Runs \ moved' : flush'[r] # NoSession => flush'[r] = home'[r]
            Home3 == \A r \in Runs \ moved' :
                         pc'[r] = "done" /\ r \notin superseded' => landed'[r] = <<home'[r]>>
<1>. SUFFICES Home1 /\ Home2 /\ Home3
  BY DEF StaysHome
<1>0. /\ active # NoRun /\ active \notin moved => home[active] = session /\ active \in Runs
      /\ \A r \in Runs \ moved : flush[r] # NoSession => flush[r] = home[r]
      /\ \A r \in Runs \ moved : pc[r] = "done" /\ r \notin superseded => landed[r] = <<home[r]>>
  BY DEF StaysHome, RunInv, TuiShape, TuiTypeOK
<1>1. /\ session \in Sessions
      /\ pc \in [Runs -> Points] /\ flush \in [Runs -> Sessions \union {NoSession}]
      /\ home \in [Runs -> Sessions \union {NoSession}] /\ landed \in [Runs -> Seq(Sessions)]
      /\ next \in Runs => pc[next] = "unborn" /\ flush[next] = NoSession
      /\ active # NoRun => pc[active] \notin {"unborn", "done"}
      /\ \A r \in Runs : flush[r] # NoSession => pc[r] \notin {"unborn", "done"}
      /\ \A r \in Runs : pc[r] \notin {"unborn", "done"} => landed[r] = <<>>
      /\ \A r \in Runs : pc[r] \notin {"unborn", "done"} =>
            r = active \/ flush[r] # NoSession \/ r \in superseded
  BY ComingMoves DEF RunInv, TuiShape, TuiTypeOK, DiskTyped, Numbered, RunsAreHeld, Works, Accounted
<1>. USE <1>0, <1>1
<1>2. CASE UNCHANGED controlVars
  BY <1>2 DEF controlVars
<1>3. CASE Begin
  BY <1>3 DEF Begin
<1>4. CASE Decide \/ \E s \in Sessions : Resume(s)
  BY <1>4 DEF Decide, Resume, runVars, historyVars
<1>5. CASE TakeCompaction
  BY <1>5 DEF TakeCompaction, runVars
<1>6. CASE \E exit \in BOOLEAN : CancelRun(exit)
  BY <1>6 DEF CancelRun, historyVars
<1>7. ASSUME NEW r \in Runs, RunControl(r)
      PROVE  Home1 /\ Home2 /\ Home3
  <2>1. CASE OnUsage(r) \/ OnPermissionRequest(r) \/ OnAskUser(r) \/ AskEnds(r)
    BY <2>1 DEF OnUsage, OnPermissionRequest, OnAskUser, Ask, AskEnds, uiVars, historyVars
  <2>2. CASE TakeStale(r)
    BY <2>2 DEF TakeStale, Free, uiVars, historyVars
  <2>3. CASE End(r)
    <3>1. (r \notin moved => landed'[r] = <<home[r]>>) /\ \A q \in Runs \ {r} : landed'[q] = landed[q]
      BY <2>3, FirstLanding DEF End, RunInv, TuiShape
    <3>2. CASE active' = NoRun
      BY <2>3, <3>1, <3>2 DEF End
    <3>3. CASE next \in Runs /\ active' = next /\ next' = next + 1
      BY <2>3, <3>1, <3>3 DEF End
    <3>. QED  BY <2>3, <3>2, <3>3 DEF End
  <2>4. CASE TakeFlush(r)
    <3>1. (r \notin moved => landed'[r] = <<home[r]>>) /\ \A q \in Runs \ {r} : landed'[q] = landed[q]
      BY <2>4, FirstLanding DEF TakeFlush, Target, Free, RunInv, TuiShape
    <3>. QED  BY <2>4, <3>1 DEF TakeFlush
  <2>. QED  BY <1>7, <2>1, <2>2, <2>3, <2>4 DEF RunControl
<1>. QED  BY <1>2, <1>3, <1>4, <1>5, <1>6, <1>7, StepsOfRuns DEF RunInv, TuiShape

-----------------------------------------------------------------------------
(* A checkpoint in a log has its snapshot *)

\* Whoever is done stays so, and so does who was replaced.
LEMMA DoneStays ==
    ASSUME RunInv, TuiNext
    PROVE  superseded \subseteq superseded' /\ \A r \in Runs : pc[r] = "done" => pc'[r] = "done"
<1>0. /\ pc \in [Runs -> Points] /\ superseded \subseteq Runs
      /\ next \in Runs => pc[next] = "unborn"
  BY ComingMoves DEF RunInv, TuiShape, TuiTypeOK, Numbered
<1>. USE <1>0
<1>1. CASE UNCHANGED controlVars
  BY <1>1 DEF controlVars
<1>2. CASE Begin
  BY <1>2 DEF Begin
<1>3. CASE Decide \/ TakeCompaction \/ (\E exit \in BOOLEAN : CancelRun(exit))
           \/ \E s \in Sessions : Resume(s)
  BY <1>3 DEF Decide, TakeCompaction, CancelRun, Resume, runVars, historyVars
<1>4. ASSUME NEW r \in Runs, RunControl(r)
      PROVE  superseded \subseteq superseded' /\ \A q \in Runs : pc[q] = "done" => pc'[q] = "done"
  BY <1>4 DEF RunControl, OnUsage, OnPermissionRequest, OnAskUser, Ask, AskEnds, Asking, End,
              TakeStale, TakeFlush, HasMore, Free, uiVars, historyVars
<1>. QED  BY <1>1, <1>2, <1>3, <1>4, StepsOfRuns DEF RunInv, TuiShape

\* What LoggedIsKept says after a step.
KeptAfter(s, e) ==
    IsCheckpoint(e) =>
        /\ e.run \in Runs /\ pc'[e.run] = "done"
        /\ e.run \notin moved' => home'[e.run] = s /\ e \in blobs'

\* What is in a log stays as good as it was, as long as no snapshot is pruned.
LEMMA LoggedStays ==
    ASSUME RunInv, TuiNext, blobs \subseteq blobs'
    PROVE  \A s \in Sessions, e \in Events : LoggedIsKept(s, e) => KeptAfter(s, e)
<1>. SUFFICES ASSUME NEW s \in Sessions, NEW e \in Events, LoggedIsKept(s, e), IsCheckpoint(e)
              PROVE  /\ e.run \in Runs /\ pc'[e.run] = "done"
                     /\ e.run \notin moved' => home'[e.run] = s /\ e \in blobs'
  BY DEF KeptAfter
<1>1. e.run \in Runs /\ pc[e.run] = "done" /\ (e.run \notin moved => home[e.run] = s /\ e \in blobs)
  BY DEF LoggedIsKept
<1>. QED  BY <1>1, DoneStays, HomesStay, MovedStays

\* What is recorded in a log stands after what was there.
LEMMA RecordedIsAfter ==
    ASSUME log \in [Sessions -> Seq(Events)], NEW s \in Sessions, NEW new \in Seq(Events), Recorded(s, new)
    PROVE  /\ \A t \in Sessions \ {s} : log'[t] = log[t]
           /\ \A i \in 1..Len(log'[s]) :
                 \/ i \in 1..Len(log[s]) /\ log'[s][i] = log[s][i]
                 \/ \E j \in 1..Len(new) : log'[s][i] = new[j]
<1>1. log'[s] = log[s] \o new /\ log[s] \in Seq(Events)
  BY DEF Recorded
<1>2. ASSUME NEW i \in 1..Len(log[s] \o new), i > Len(log[s])
      PROVE  i - Len(log[s]) \in 1..Len(new) /\ (log[s] \o new)[i] = new[i - Len(log[s])]
  BY <1>1, <1>2
<1>3. ASSUME NEW i \in 1..Len(log[s] \o new), i <= Len(log[s])
      PROVE  i \in 1..Len(log[s]) /\ (log[s] \o new)[i] = log[s][i]
  BY <1>1, <1>3
<1>4. \A i \in 1..Len(log'[s]) :
                 \/ i \in 1..Len(log[s]) /\ log'[s][i] = log[s][i]
                 \/ \E j \in 1..Len(new) : log'[s][i] = new[j]
  BY <1>1, <1>2, <1>3
<1>. QED  BY <1>4 DEF Recorded

LEMMA RewindIsBefore ==
    ASSUME TuiShape, Rewind
    PROVE  /\ \A s \in Sessions \ {session} : log'[s] = log[s]
           /\ \A k \in 1..Len(log'[session]) :
                 \/ ~IsCheckpoint(log'[session][k])
                 \/ /\ k \in 1..Len(log[session]) /\ log'[session][k] = log[session][k]
                    /\ log[session][k] \in blobs => log[session][k] \in blobs'
           /\ \A b \in blobs : home[b.run] # session => b \in blobs'
<1>1. PICK i \in 1..Len(log[session]) :
          /\ log' = [log EXCEPT ![session] =
                        Append(SubSeq(log[session], 1, i - 1), Event("rewind", NoRun, i))]
          /\ blobs' = {b \in blobs : home[b.run] = session =>
                                     b \in ToSet(SubSeq(log[session], 1, i - 1))}
  BY RewindCuts
<1>2. session \in Sessions /\ log \in [Sessions -> Seq(Events)]
  BY DEF TuiShape, TuiTypeOK, DiskTyped
<1>. DEFINE kept == SubSeq(log[session], 1, i - 1)
            mark == Event("rewind", NoRun, i)
<1>3. /\ kept \in Seq(Events) /\ Len(kept) = i - 1 /\ i - 1 \in Nat
      /\ \A k \in 1..(i - 1) : kept[k] = log[session][k] /\ k \in 1..Len(log[session])
  BY <1>2
<1>4. log'[session] = Append(kept, mark) /\ mark \in Events
  BY <1>1, <1>2, EventsAreTyped
<1>5. Len(log'[session]) = i /\ log'[session][i] = mark /\ \A k \in 1..(i - 1) : log'[session][k] = kept[k]
  BY <1>3, <1>4
<1>6. ~IsCheckpoint(mark)
  BY DEF IsCheckpoint, Event
<1>7. ASSUME NEW k \in 1..(i - 1), log[session][k] \in blobs
      PROVE  log[session][k] \in blobs'
  <2>1. kept[k] \in ToSet(kept)
    <3>1. k \in DOMAIN kept
      BY <1>3
    <3>. QED  BY <3>1 DEF ToSet
  <2>. QED  BY <1>1, <1>3, <1>7, <2>1
<1>8. ASSUME NEW k \in 1..Len(log'[session]), k # i PROVE k \in 1..(i - 1)
  BY <1>5, <1>8
<1>. QED  BY <1>1, <1>2, <1>3, <1>5, <1>6, <1>7, <1>8

LEMMA SnapshotsStay ==
    ASSUME RunInv, Accounted, StaysHome, SnapshotsKept, TuiNext
    PROVE  SnapshotsKept'
<1>0. /\ TuiShape /\ session \in Sessions /\ log \in [Sessions -> Seq(Events)]
      /\ pc \in [Runs -> Points] /\ flush \in [Runs -> Sessions \union {NoSession}]
      /\ \A s \in Sessions : \A i \in 1..Len(log[s]) : LoggedIsKept(s, log[s][i])
  BY DEF RunInv, TuiShape, TuiTypeOK, DiskTyped, SnapshotsKept
<1>1. blobs \subseteq blobs' \/ Rewind
  BY StepsOfBlobs DEF Snapshot
<1>2. \A s \in Sessions : \A i \in 1..Len(log'[s]) : KeptAfter(s, log'[s][i])
  <2>1. CASE UNCHANGED log /\ blobs \subseteq blobs'
    BY <1>0, <2>1, LoggedStays
  <2>2. ASSUME NEW s \in Sessions, NEW new \in Seq(Events), Recorded(s, new), blobs \subseteq blobs',
               \A j \in 1..Len(new) : KeptAfter(s, new[j])
        PROVE  \A t \in Sessions : \A i \in 1..Len(log'[t]) : KeptAfter(t, log'[t][i])
    <3>1. \A t \in Sessions : \A i \in 1..Len(log[t]) : KeptAfter(t, log[t][i])
      BY <1>0, <2>2, LoggedStays
    <3>2. ASSUME NEW i \in 1..Len(log'[s]) PROVE KeptAfter(s, log'[s][i])
      <4>1. \/ i \in 1..Len(log[s]) /\ log'[s][i] = log[s][i]
            \/ \E j \in 1..Len(new) : log'[s][i] = new[j]
        BY <1>0, <2>2, RecordedIsAfter
      <4>. QED  BY <2>2, <3>1, <4>1
    <3>3. \A t \in Sessions \ {s} : log'[t] = log[t]
      BY <1>0, <2>2, RecordedIsAfter
    <3>. QED  BY <3>1, <3>2, <3>3
  <2>3. ASSUME NEW s \in Sessions, NEW new, NoCheckpoint(new)
        PROVE  \A j \in 1..Len(new) : KeptAfter(s, new[j])
    BY <2>3 DEF NoCheckpoint, KeptAfter
  <2>4. ASSUME NEW r \in Runs, NEW s \in Sessions, NEW new \in Seq(Events), CheckpointsOf(r, new),
               UNCHANGED blobs, pc[r] \notin {"unborn", "done"}, pc'[r] = "done", r \notin superseded,
               r \notin moved => home[r] = s
        PROVE  \A j \in 1..Len(new) : KeptAfter(s, new[j])
    <3>1. ASSUME NEW j \in 1..Len(new), IsCheckpoint(new[j])
          PROVE  new[j].run = r /\ new[j] \in blobs'
      <4>1. PICK n \in 1..made[r] : new[j] = Checkpoint(r, n)
        BY <2>4, <3>1 DEF CheckpointsOf
      <4>. QED  BY <2>4, <4>1 DEF SnapshotsKept, Checkpoint, Event
    <3>2. home'[r] = home[r] /\ moved \subseteq moved'
      BY <2>4, HomesStay, MovedStays
    <3>. QED  BY <2>4, <3>1, <3>2 DEF KeptAfter
  <2>5. ASSUME NEW r \in Runs, NEW new \in Seq(Events), CheckpointsOf(r, new), UNCHANGED blobs,
               End(r), Recorded(session, new)
        PROVE  \A t \in Sessions : \A i \in 1..Len(log'[t]) : KeptAfter(t, log'[t][i])
    <3>1. pc'[r] = "done"
      <4>1. CASE active' = NoRun
        BY <1>0, <2>5, <4>1 DEF End
      <4>2. CASE next \in Runs
        BY <1>0, <2>5, <4>2, ComingMoves DEF End, RunInv, Numbered, TuiShape, TuiTypeOK
      <4>. QED  BY <2>5, <4>1, <4>2 DEF End
    <3>2. r \notin superseded /\ (r \notin moved => home[r] = session)
      BY <2>5 DEF End, RunInv, RunsAreHeld, StaysHome
    <3>. QED  BY <1>0, <2>2, <2>4, <2>5, <3>1, <3>2 DEF End
  <2>6. ASSUME NEW r \in Runs, NEW new \in Seq(Events), CheckpointsOf(r, new), UNCHANGED blobs,
               TakeFlush(r), Recorded(flush[r], new)
        PROVE  \A t \in Sessions : \A i \in 1..Len(log'[t]) : KeptAfter(t, log'[t][i])
    <3>1. /\ pc'[r] = "done" /\ pc[r] = "working" /\ flush[r] \in Sessions
          /\ r \notin superseded /\ (r \notin moved => home[r] = flush[r])
      BY <1>0, <2>6 DEF TakeFlush, Free, RunInv, RunsAreHeld, StaysHome
    <3>. QED  BY <2>2, <2>4, <2>6, <3>1
  <2>7. CASE Rewind
    <3>1. ASSUME NEW s \in Sessions, NEW i \in 1..Len(log'[s]), IsCheckpoint(log'[s][i])
          PROVE  KeptAfter(s, log'[s][i])
      <4>1. i \in 1..Len(log[s]) /\ log'[s][i] = log[s][i]
        BY <1>0, <2>7, <3>1, RewindIsBefore
      <4>2. log[s][i] \in blobs /\ home[log[s][i].run] = s => log[s][i] \in blobs'
        BY <1>0, <2>7, <3>1, RewindIsBefore
      <4>3. /\ log[s][i].run \in Runs /\ pc[log[s][i].run] = "done"
            /\ log[s][i].run \notin moved => home[log[s][i].run] = s /\ log[s][i] \in blobs
        BY <1>0, <3>1, <4>1 DEF LoggedIsKept
      <4>. QED  BY <4>1, <4>2, <4>3, DoneStays, HomesStay, MovedStays DEF KeptAfter
    <3>. QED  BY <3>1 DEF KeptAfter
  <2>. QED  BY <1>0, <1>1, <2>1, <2>2, <2>3, <2>5, <2>6, <2>7, StepsOfLogs DEF RunInv
<1>3. ASSUME NEW r \in Runs \ superseded', pc'[r] # "done", NEW n \in 1..made'[r]
      PROVE  Checkpoint(r, n) \in blobs'
  <2>1. r \in Runs \ superseded /\ pc[r] # "done"
    BY <1>3, DoneStays
  <2>2. \A k \in 1..made[r] : Checkpoint(r, k) \in blobs
    BY <2>1 DEF SnapshotsKept
  <2>3. CASE UNCHANGED <<blobs, made>>
    BY <1>3, <2>2, <2>3
  <2>4. ASSUME NEW q \in Runs, Snapshot(q) PROVE Checkpoint(r, n) \in blobs'
    <3>1. made'[r] = made[r] \/ (q = r /\ made'[r] = made[r] + 1 /\ made[r] \in Nat)
      BY <1>0, <2>4 DEF Snapshot, TuiShape, CountersTyped
    <3>2. n \in 1..made[r] \/ (q = r /\ n = made'[r])
      BY <1>3, <3>1
    <3>. QED  BY <2>2, <2>4, <3>2 DEF Snapshot
  <2>5. CASE Rewind
    <3>1. pc[r] = "unborn"
      BY <2>1, <2>5 DEF Rewind, RewindReady, RunInv, RunsAreHeld, Works, TuiShape, TuiTypeOK
    <3>2. home[r] # session
      BY <1>0, <2>1, <3>1 DEF RunInv, Numbered
    <3>3. Checkpoint(r, n).run = r /\ made' = made
      BY <2>5 DEF Checkpoint, Event, Rewind, runVars
    <3>. QED  BY <1>0, <1>3, <2>2, <2>5, <3>2, <3>3, RewindIsBefore
  <2>. QED  BY <2>3, <2>4, <2>5, StepsOfBlobs
<1>4. \A s \in Sessions : \A i \in 1..Len(log'[s]) : LoggedIsKept(s, log[s][i])'
  BY <1>2 DEF KeptAfter, LoggedIsKept, IsCheckpoint
<1>5. \A r \in Runs \ superseded' : pc'[r] # "done" => \A n \in 1..made'[r] : Checkpoint(r, n) \in blobs'
  BY <1>3
<1>. QED  BY <1>4, <1>5 DEF SnapshotsKept, Checkpoint, Event

-----------------------------------------------------------------------------

\* The inductive invariant: a run that is not done is active, awaited or replaced; what it
\* used is counted; its session is where it will be recorded, and its snapshots are there.
LEMMA TuiStepKeeps == TuiInv /\ [TuiNext]_tuiVars => TuiInv'
<1>1. ASSUME TuiInv, TuiNext PROVE TuiInv'
  <2>0. RunInv /\ Accounted /\ StaysHome /\ SnapshotsKept /\ AskersAreHeard /\ TuiShape
    BY <1>1 DEF TuiInv, RunInv
  <2>1. TuiShape'
    BY <1>1, <2>0, ShapeKept DEF RunInv
  <2>2. Numbered' /\ RunsAreHeld' /\ LeavingWaits'
    BY <1>1, <2>0, <2>1, NumberedKept, HeldKept, LeavingKept DEF TuiShape
  <2>3. Accounted'
    BY <1>1, <2>0, AccountsNeverExceed, SettledKept DEF Accounted, Settled, Works
  <2>. QED  BY <1>1, <2>0, <2>1, <2>2, <2>3, HomeKept, SnapshotsStay, AskersKept DEF TuiInv, RunInv
<1>2. ASSUME TuiInv, UNCHANGED tuiVars PROVE TuiInv'
  <2>. USE <1>2 DEF tuiVars
  <2>1. TuiShape'
    <3>1. TuiTypeOK' /\ CountersTyped'
      BY DEF TuiInv, RunInv, TuiShape, TuiTypeOK, CountersTyped
    <3>2. DiskTyped' /\ CompactionTyped'
      BY DEF TuiInv, RunInv, TuiShape, DiskTyped, CompactionTyped
    <3>. QED  BY <3>1, <3>2 DEF TuiShape
  <2>2. Numbered' /\ RunsAreHeld' /\ LeavingWaits'
    BY DEF TuiInv, RunInv, Numbered, Coming, RunsAreHeld, LeavingWaits, Works
  <2>3. Accounted' /\ AskersAreHeard'
    BY DEF TuiInv, Accounted, Works, AskersAreHeard, Asking
  <2>4. StaysHome'
    BY DEF TuiInv, StaysHome
  <2>5. SnapshotsKept'
    <3>1. \A s \in Sessions : \A e : LoggedIsKept(s, e)' <=> LoggedIsKept(s, e)
      BY DEF LoggedIsKept
    <3>. QED  BY <3>1 DEF TuiInv, SnapshotsKept
  <2>. QED  BY <2>1, <2>2, <2>3, <2>4, <2>5 DEF TuiInv, RunInv
<1>. QED  BY <1>1, <1>2

THEOREM TuiInvariant == TuiSpec => []TuiInv
BY TuiInitEstablishes, TuiStepKeeps, PTL DEF TuiSpec

\* What a run returns is recorded once, and in its session, for any number of runs: but for a
\* run that a command has replaced, one started while leaving that the quit cuts short, and,
\* of the session, one under which a compaction's result has switched it (RunsAreRecorded).
THEOREM RecordingsComplete == TuiSpec => []RunsAreRecorded
<1>1. TuiInv => RunsAreRecorded
  <2>. SUFFICES ASSUME TuiInv, NEW r \in Runs \ superseded,
                       pc[r] = "done" \/ (quit /\ pc[r] # "unborn" /\ r \notin doomed)
                PROVE  recorded[r] = used[r] /\ (r \notin moved => landed[r] = <<home[r]>>)
    BY DEF RunsAreRecorded, TuiInv, RunInv, TuiShape, Accounted
  <2>1. pc[r] = "done"
    BY DEF TuiInv, RunInv, RunsAreHeld, LeavingWaits, Works
  <2>. QED  BY <2>1 DEF TuiInv, Accounted, StaysHome
<1>. QED  BY <1>1, TuiInvariant, PTL

\* Each checkpoint a log names has its snapshot, but for those of a run that a command has
\* replaced or under which a compaction's result has switched the session.
THEOREM RewindsFindSnapshots == TuiSpec => []CheckpointsRestorable
<1>1. TuiInv => CheckpointsRestorable
  BY DEF TuiInv, SnapshotsKept, LoggedIsKept, CheckpointsRestorable
<1>. QED  BY <1>1, TuiInvariant, PTL

\* A run that asks for a permission is answered, or shown, or cancelled, whatever the user has
\* started since; and so is one that puts a question, unless a command has replaced it: that
\* question the loop drops, and it is the only one (AskersAreHeard).
THEOREM OnlyReplacedRunsAreDropped == TuiSpec => []AskersAreHeard
<1>1. TuiInv => AskersAreHeard
  BY DEF TuiInv
<1>. QED  BY <1>1, TuiInvariant, PTL

-----------------------------------------------------------------------------
(* The loop of a rehydration *)

HIDE ConstantsTyped

\* A set of naturals that is not empty has a least one.
LEMMA LeastNatural ==
    ASSUME NEW T \in SUBSET Nat, T # {}
    PROVE  \E n \in T : \A m \in T : n <= m
<1>1. PICK n \in T : \A m \in T : ~(<<m, n>> \in OpToRel(<, Nat))
  BY NatLessThanWellFounded, WFMin
<1>2. ASSUME NEW m \in T PROVE <<m, n>> \in OpToRel(<, Nat) <=> m < n
  BY DEF OpToRel
<1>3. ASSUME NEW m \in T PROVE n <= m
  <2>1. m \in Nat /\ n \in Nat /\ ~(m < n)
    BY <1>1, <1>2
  <2>. QED  BY <2>1
<1>. QED  BY <1>3

LEMMA LastOne ==
    ASSUME NEW S, NEW xs \in Seq(S), xs # <<>>
    PROVE  \E front \in Seq(S), e \in S : xs = Append(front, e) /\ Len(front) = Len(xs) - 1
<1>. DEFINE n == Len(xs)
            front == SubSeq(xs, 1, n - 1)
            e == xs[n]
            whole == Append(front, e)
<1>1. n \in Nat /\ n # 0
  OBVIOUS
<1>2. e \in S
  BY <1>1
<1>3. front \in Seq(S) /\ Len(front) = n - 1 /\ \A i \in 1..(n - 1) : front[i] = xs[i]
  <2>. HIDE DEF n
  <2>1. n = Len(xs) /\ n - 1 \in 0..Len(xs)
    BY <1>1 DEF n
  <2>2. Len(front) = n - 1 /\ \A i \in 1..(n - 1) : front[i] = xs[i]
    BY <1>1, <2>1
  <2>3. front \in Seq(S)
    BY <1>1, <2>1
  <2>. QED  BY <2>2, <2>3
<1>. HIDE DEF front, e
<1>4. whole \in Seq(S) /\ Len(whole) = n /\ whole[n] = e /\ \A i \in 1..(n - 1) : whole[i] = front[i]
  BY <1>1, <1>2, <1>3
<1>. HIDE DEF whole
<1>5. ASSUME NEW i \in 1..n PROVE whole[i] = xs[i]
  <2>1. i = n \/ i \in 1..(n - 1)
    BY <1>1
  <2>. QED  BY <1>3, <1>4, <2>1 DEF e
<1>6. whole = xs
  BY <1>4, <1>5, SeqEqual
<1>. QED  BY <1>2, <1>3, <1>6 DEF whole

\* A set of sequences that has the empty one and, with a sequence, all that append one element
\* to it, has every sequence.
LEMMA AllSequences ==
    ASSUME NEW S, NEW T \in SUBSET Seq(S), <<>> \in T,
           \A xs \in T : \A e \in S : Append(xs, e) \in T
    PROVE  T = Seq(S)
<1>. DEFINE Lengths == {Len(xs) : xs \in Seq(S) \ T}
<1>1. SUFFICES ASSUME Seq(S) \ T # {} PROVE FALSE
  OBVIOUS
<1>2. Lengths \in SUBSET Nat /\ Lengths # {}
  <2>1. \A xs \in Seq(S) : Len(xs) \in Nat
    OBVIOUS
  <2>2. PICK xs \in Seq(S) \ T : TRUE
    BY <1>1
  <2>3. Len(xs) \in Lengths
    BY <2>2
  <2>. QED  BY <2>1, <2>3
<1>3. \A xs \in Seq(S) \ T : Len(xs) \in Lengths
  OBVIOUS
<1>4. \A m \in Lengths : \E xs \in Seq(S) \ T : Len(xs) = m
  OBVIOUS
<1>. HIDE DEF Lengths
<1>5. PICK n \in Lengths : \A m \in Lengths : n <= m
  BY <1>2, LeastNatural
<1>6. PICK xs \in Seq(S) \ T : Len(xs) = n
  BY <1>4, <1>5
<1>7. PICK front \in Seq(S), e \in S : xs = Append(front, e) /\ Len(front) = n - 1
  <2>1. xs # <<>>
    BY <1>6
  <2>2. xs \in Seq(S)
    OBVIOUS
  <2>3. \E front \in Seq(S), e \in S : xs = Append(front, e) /\ Len(front) = Len(xs) - 1
    BY <2>1, <2>2, LastOne
  <2>. QED  BY <1>6, <2>3
<1>8. front \notin T
  BY <1>6, <1>7
<1>9. n \in Nat /\ n <= n - 1
  BY <1>2, <1>3, <1>5, <1>7, <1>8
<1>. QED  BY <1>9

\* What the loop has kept of each prefix of the events.
RestsOf(covered, events, rest) ==
    rest = [n \in 0..Len(events) |->
               IF n = 0 THEN <<>>
               ELSE IF events[n] \in covered THEN rest[n - 1] ELSE Append(rest[n - 1], events[n])]

Rests(covered, events) == CHOOSE rest : RestsOf(covered, events, rest)

LEMMA UncoveredIsLast ==
    ASSUME NEW covered, NEW events
    PROVE  Uncovered(covered, events) = Rests(covered, events)[Len(events)]
  BY DEF Uncovered, Rests, RestsOf

Extended(covered, events, rest, e) ==
    [n \in 0..(Len(events) + 1) |->
        IF n <= Len(events) THEN rest[n]
        ELSE IF e \in covered THEN rest[n - 1] ELSE Append(rest[n - 1], e)]

LEMMA RestsExtend ==
    ASSUME NEW S, NEW covered, NEW events \in Seq(S), NEW e \in S, NEW rest, RestsOf(covered, events, rest)
    PROVE  RestsOf(covered, Append(events, e), Extended(covered, events, rest, e))
<1>. DEFINE N == Len(events)
            more == Append(events, e)
            ext == Extended(covered, events, rest, e)
<1>1. /\ N \in Nat /\ Len(more) = N + 1 /\ more[N + 1] = e
      /\ \A i \in 1..N : more[i] = events[i]
  OBVIOUS
<1>2. /\ \A n \in 0..N : ext[n] = rest[n]
      /\ ext[N + 1] = IF e \in covered THEN rest[N] ELSE Append(rest[N], e)
  BY <1>1 DEF Extended
<1>3. ASSUME NEW n \in 0..N
      PROVE  rest[n] = IF n = 0 THEN <<>>
                       ELSE IF events[n] \in covered THEN rest[n - 1] ELSE Append(rest[n - 1], events[n])
  BY <1>1 DEF RestsOf
<1>. HIDE DEF more
<1>4. ext = [n \in 0..(N + 1) |-> ext[n]]
  BY DEF Extended
<1>. HIDE DEF ext
<1>5. ASSUME NEW n \in 0..(N + 1)
      PROVE  ext[n] = IF n = 0 THEN <<>>
                      ELSE IF more[n] \in covered THEN ext[n - 1] ELSE Append(ext[n - 1], more[n])
  <2>1. CASE n = 0
    BY <1>1, <1>2, <1>3, <2>1
  <2>2. CASE n \in 1..N
    <3>1. n \in 0..N /\ n - 1 \in 0..N /\ n # 0
      BY <1>1, <2>2
    <3>2. ext[n] = rest[n] /\ ext[n - 1] = rest[n - 1] /\ more[n] = events[n]
      BY <1>1, <1>2, <2>2, <3>1
    <3>. QED  BY <1>3, <3>1, <3>2
  <2>3. CASE n = N + 1
    <3>1. n - 1 = N /\ n # 0 /\ N \in 0..N
      BY <1>1, <2>3
    <3>2. ext[n - 1] = rest[N] /\ more[n] = e
      BY <1>1, <1>2, <2>3, <3>1
    <3>. QED  BY <1>2, <2>3, <3>1, <3>2
  <2>. QED  BY <1>1, <2>1, <2>2, <2>3
<1>6. ext = [n \in 0..Len(more) |->
               IF n = 0 THEN <<>>
               ELSE IF more[n] \in covered THEN ext[n - 1] ELSE Append(ext[n - 1], more[n])]
  BY <1>1, <1>4, <1>5
<1>. QED  BY <1>6 DEF RestsOf, ext, more

LEMMA RestsAreOne ==
    ASSUME NEW S, NEW covered, NEW events \in Seq(S), NEW f, NEW g,
           RestsOf(covered, events, f), RestsOf(covered, events, g)
    PROVE  f = g
<1>. DEFINE N == Len(events)
            T == {n \in 0..N : f[n] # g[n]}
<1>1. N \in Nat
  OBVIOUS
<1>2. ASSUME NEW h, RestsOf(covered, events, h), NEW n \in 0..N
      PROVE  h[n] = IF n = 0 THEN <<>>
                    ELSE IF events[n] \in covered THEN h[n - 1] ELSE Append(h[n - 1], events[n])
  BY <1>2 DEF RestsOf
<1>3. f = [n \in 0..N |-> f[n]] /\ g = [n \in 0..N |-> g[n]]
  BY DEF RestsOf
<1>4. CASE T = {}
  <2>1. \A n \in 0..N : f[n] = g[n]
    BY <1>4
  <2>. QED  BY <1>3, <2>1
<1>5. CASE T # {}
  <2>1. T \subseteq Nat
    BY <1>1
  <2>2. PICK m \in T : \A i \in T : m <= i
    BY <1>5, <2>1, LeastNatural
  <2>3. m \in 0..N /\ m # 0
    BY <1>2, <2>2
  <2>4. m - 1 \in 0..N /\ ~(m <= m - 1)
    BY <1>1, <2>3
  <2>5. f[m - 1] = g[m - 1]
    BY <2>2, <2>4
  <2>. QED  BY <1>2, <2>2, <2>3, <2>5
<1>. QED  BY <1>4, <1>5

LEMMA RestsExist ==
    ASSUME NEW S, NEW covered, NEW events \in Seq(S)
    PROVE  \E rest : RestsOf(covered, events, rest)
<1>. DEFINE T == {xs \in Seq(S) : \E rest : RestsOf(covered, xs, rest)}
<1>1. <<>> \in T
  <2>1. RestsOf(covered, <<>>, [n \in 0..0 |-> <<>>])
    BY DEF RestsOf
  <2>. QED  BY <2>1
<1>2. ASSUME NEW xs \in T, NEW e \in S PROVE Append(xs, e) \in T
  <2>1. PICK rest : RestsOf(covered, xs, rest)
    OBVIOUS
  <2>2. RestsOf(covered, Append(xs, e), Extended(covered, xs, rest, e))
    BY <2>1, RestsExtend
  <2>. QED  BY <2>2
<1>3. T = Seq(S)
  <2>. HIDE DEF T
  <2>0. T \in SUBSET Seq(S)
    BY DEF T
  <2>. QED  BY <1>1, <1>2, <2>0, AllSequences
<1>. QED  BY <1>3

LEMMA RestsFound ==
    ASSUME NEW S, NEW covered, NEW events \in Seq(S)
    PROVE  RestsOf(covered, events, Rests(covered, events))
  BY RestsExist DEF Rests

LEMMA NothingUncovered == \A covered : Uncovered(covered, <<>>) = <<>>
<1>. TAKE covered
<1>1. <<>> \in Seq({}) /\ Len(<<>>) = 0 /\ 0 \in 0..0
  OBVIOUS
<1>2. RestsOf(covered, <<>>, Rests(covered, <<>>))
  BY <1>1, RestsFound
<1>3. Rests(covered, <<>>)[0] = <<>>
  BY <1>1, <1>2 DEF RestsOf
<1>. QED  BY <1>1, <1>3, UncoveredIsLast

\* One event more.
LEMMA UncoveredAppends ==
    ASSUME NEW S, NEW covered, NEW events \in Seq(S), NEW e \in S
    PROVE  Uncovered(covered, Append(events, e)) =
                IF e \in covered THEN Uncovered(covered, events) ELSE Append(Uncovered(covered, events), e)
<1>. DEFINE N == Len(events)
            more == Append(events, e)
            rest == Rests(covered, events)
<1>1. N \in Nat /\ more \in Seq(S) /\ Len(more) = N + 1
  OBVIOUS
<1>2. Rests(covered, more) = Extended(covered, events, rest, e)
  <2>1. RestsOf(covered, more, Extended(covered, events, rest, e))
    BY RestsFound, RestsExtend
  <2>2. RestsOf(covered, more, Rests(covered, more))
    BY <1>1, RestsFound
  <2>. HIDE DEF more, rest
  <2>. QED  BY <1>1, <2>1, <2>2, RestsAreOne
<1>3. Extended(covered, events, rest, e)[N + 1] = IF e \in covered THEN rest[N] ELSE Append(rest[N], e)
  <2>. HIDE DEF rest
  <2>. QED  BY <1>1 DEF Extended
<1>. QED  BY <1>1, <1>2, <1>3, UncoveredIsLast

LEMMA UncoveredTyped ==
    ASSUME NEW S, NEW covered, NEW events \in Seq(S)
    PROVE  Uncovered(covered, events) \in Seq(S)
<1>. DEFINE T == {xs \in Seq(S) : Uncovered(covered, xs) \in Seq(S)}
<1>1. <<>> \in T
  <2>1. <<>> \in Seq(S) /\ Uncovered(covered, <<>>) = <<>>
    BY NothingUncovered
  <2>. QED  BY <2>1
<1>2. ASSUME NEW xs \in T, NEW e \in S PROVE Append(xs, e) \in T
  <2>1. Uncovered(covered, Append(xs, e)) =
          IF e \in covered THEN Uncovered(covered, xs) ELSE Append(Uncovered(covered, xs), e)
    BY UncoveredAppends
  <2>2. Append(xs, e) \in Seq(S) /\ Append(Uncovered(covered, xs), e) \in Seq(S)
    OBVIOUS
  <2>. QED  BY <2>1, <2>2
<1>3. T \in SUBSET Seq(S)
  OBVIOUS
<1>4. T = Seq(S)
  <2>. HIDE DEF T
  <2>. QED  BY <1>1, <1>2, <1>3, AllSequences
<1>. QED  BY <1>4

\* The loop over two parts of the events is the loop over the one and that over the other.
LEMMA UncoveredJoins ==
    ASSUME NEW S, NEW covered, NEW before \in Seq(S), NEW after \in Seq(S)
    PROVE  Uncovered(covered, before \o after) = Uncovered(covered, before) \o Uncovered(covered, after)
<1>. DEFINE U(xs) == Uncovered(covered, xs)
            T == {xs \in Seq(S) : U(before \o xs) = U(before) \o U(xs)}
<1>0. /\ U(<<>>) = <<>>
      /\ \A xs \in Seq(S) : U(xs) \in Seq(S)
      /\ \A xs \in Seq(S), e \in S : U(Append(xs, e)) = IF e \in covered THEN U(xs) ELSE Append(U(xs), e)
  BY NothingUncovered, UncoveredAppends, UncoveredTyped
<1>. HIDE DEF U
<1>1. <<>> \in T
  <2>1. before \o <<>> = before /\ U(before) \o <<>> = U(before)
    BY <1>0
  <2>. QED  BY <1>0, <2>1
<1>2. ASSUME NEW xs \in T, NEW e \in S PROVE Append(xs, e) \in T
  <2>1. before \o Append(xs, e) = Append(before \o xs, e) /\ before \o xs \in Seq(S)
    OBVIOUS
  <2>2. U(before \o Append(xs, e)) = IF e \in covered THEN U(before \o xs) ELSE Append(U(before \o xs), e)
    BY <1>0, <2>1
  <2>3. U(before) \o Append(U(xs), e) = Append(U(before) \o U(xs), e)
    <3>1. U(before) \in Seq(S) /\ U(xs) \in Seq(S)
      BY <1>0
    <3>. QED  BY <3>1
  <2>4. U(Append(xs, e)) = IF e \in covered THEN U(xs) ELSE Append(U(xs), e)
    BY <1>0
  <2>5. U(before \o xs) = U(before) \o U(xs)
    OBVIOUS
  <2>6. Append(xs, e) \in Seq(S)
    OBVIOUS
  <2>. QED  BY <2>2, <2>3, <2>4, <2>5, <2>6
<1>3. T \in SUBSET Seq(S)
  OBVIOUS
<1>4. T = Seq(S)
  <2>. HIDE DEF T
  <2>. QED  BY <1>1, <1>2, <1>3, AllSequences
<1>. QED  BY <1>4 DEF U

\* What is left has nothing more to leave out.
LEMMA UncoveredTwice ==
    ASSUME NEW S, NEW covered, NEW events \in Seq(S)
    PROVE  Uncovered(covered, Uncovered(covered, events)) = Uncovered(covered, events)
<1>. DEFINE U(xs) == Uncovered(covered, xs)
            T == {xs \in Seq(S) : U(U(xs)) = U(xs)}
<1>0. /\ U(<<>>) = <<>>
      /\ \A xs \in Seq(S) : U(xs) \in Seq(S)
      /\ \A xs \in Seq(S), e \in S : U(Append(xs, e)) = IF e \in covered THEN U(xs) ELSE Append(U(xs), e)
  BY NothingUncovered, UncoveredAppends, UncoveredTyped
<1>. HIDE DEF U
<1>1. <<>> \in T
  BY <1>0
<1>2. ASSUME NEW xs \in T, NEW e \in S PROVE Append(xs, e) \in T
  <2>1. U(Append(xs, e)) = IF e \in covered THEN U(xs) ELSE Append(U(xs), e)
    BY <1>0
  <2>2. U(Append(U(xs), e)) = IF e \in covered THEN U(U(xs)) ELSE Append(U(U(xs)), e)
    BY <1>0
  <2>3. Append(xs, e) \in Seq(S) /\ U(U(xs)) = U(xs)
    OBVIOUS
  <2>. QED  BY <2>1, <2>2, <2>3
<1>3. T \in SUBSET Seq(S)
  OBVIOUS
<1>4. T = Seq(S)
  <2>. HIDE DEF T
  <2>. QED  BY <1>1, <1>2, <1>3, AllSequences
<1>. QED  BY <1>4 DEF U


\* The same of the events of a session.
LEMMA EventsUncovered ==
    ASSUME NEW covered
    PROVE  /\ \A xs \in Seq(Events) : Uncovered(covered, xs) \in Seq(Events)
           /\ \A xs \in Seq(Events) : Uncovered(covered, Uncovered(covered, xs)) = Uncovered(covered, xs)
           /\ \A xs, ys \in Seq(Events) :
                  Uncovered(covered, xs \o ys) = Uncovered(covered, xs) \o Uncovered(covered, ys)
<1>1. ASSUME NEW xs \in Seq(Events)
      PROVE  /\ Uncovered(covered, xs) \in Seq(Events)
             /\ Uncovered(covered, Uncovered(covered, xs)) = Uncovered(covered, xs)
  BY UncoveredTyped, UncoveredTwice
<1>2. ASSUME NEW xs \in Seq(Events), NEW ys \in Seq(Events)
      PROVE  Uncovered(covered, xs \o ys) = Uncovered(covered, xs) \o Uncovered(covered, ys)
  BY UncoveredJoins
<1>. QED  BY <1>1, <1>2

LEMMA OneUncovered ==
    ASSUME NEW covered, NEW e \in Events
    PROVE  Uncovered(covered, <<e>>) = IF e \in covered THEN <<>> ELSE <<e>>
<1>. DEFINE none == <<>>
<1>1. none \in Seq(Events) /\ e \in Events /\ <<e>> = Append(none, e) /\ Append(none, e) = <<e>>
  OBVIOUS
<1>2. Uncovered(covered, none) = none
  BY NothingUncovered
<1>. HIDE DEF none
<1>3. Uncovered(covered, Append(none, e)) =
          IF e \in covered THEN Uncovered(covered, none) ELSE Append(Uncovered(covered, none), e)
  <2>1. \A xs \in Seq(Events), d \in Events :
            Uncovered(covered, Append(xs, d)) =
                IF d \in covered THEN Uncovered(covered, xs) ELSE Append(Uncovered(covered, xs), d)
    BY UncoveredAppends
  <2>. QED  BY <1>1, <2>1
<1>. QED  BY <1>1, <1>2, <1>3 DEF none

LEMMA JoinsAssociate ==
    ASSUME NEW a \in Seq(Events), NEW b \in Seq(Events), NEW c \in Seq(Events)
    PROVE  (a \o b) \o c = a \o (b \o c)
  BY ConcatAssociative

-----------------------------------------------------------------------------
(* Rehydration *)

Plain(events) == \A i \in 1..Len(events) : events[i] # CompactionEvent

Replayed(covers, events) ==
    IF Plain(events) THEN events
    ELSE <<CompactionEvent>> \o Uncovered(covers \union {CompactionEvent}, events)

LEMMA RehydratedIsReplayed ==
    ASSUME NEW events
    PROVE  /\ Rehydrated(events) = Replayed(compaction.covers, events)
  BY DEF Rehydrated, Replayed, Plain

LEMMA PlainJoins ==
    ASSUME NEW before \in Seq(Events), NEW after \in Seq(Events)
    PROVE  Plain(before \o after) <=> Plain(before) /\ Plain(after)
<1>. DEFINE m == Len(before)
            n == Len(after)
            all == before \o after
<1>1. /\ m \in Nat /\ n \in Nat /\ Len(all) = m + n
      /\ \A i \in 1..m : i \in 1..(m + n) /\ all[i] = before[i]
      /\ \A i \in 1..n : m + i \in 1..(m + n) /\ all[m + i] = after[i]
      /\ \A i \in 1..(m + n) : i \in 1..m \/ (i - m \in 1..n /\ i = m + (i - m))
  BY ConcatProperties
<1>. HIDE DEF all, m, n
<1>2. ASSUME Plain(all) PROVE Plain(before) /\ Plain(after)
  BY <1>1, <1>2 DEF Plain, m, n
<1>3. ASSUME Plain(before), Plain(after), NEW i \in 1..(m + n) PROVE all[i] # CompactionEvent
  <2>1. CASE i \in 1..m
    BY <1>1, <1>3, <2>1 DEF Plain, m
  <2>2. CASE i - m \in 1..n
    <3>1. PICK j \in 1..n : i = m + j
      BY <1>1, <2>2
    <3>2. all[i] = after[j]
      BY <1>1, <3>1
    <3>3. after[j] # CompactionEvent
      BY <1>3 DEF Plain, n
    <3>. QED  BY <3>2, <3>3
  <2>. QED  BY <1>1, <2>1, <2>2
<1>. QED  BY <1>1, <1>2, <1>3 DEF Plain, all

LEMMA ReplayTyped ==
    ASSUME NEW covers, NEW events \in Seq(Events)
    PROVE  /\ Replayed(covers, events) \in Seq(Events)
           /\ Plain(Replayed(covers, events)) <=> Plain(events)
<1>1. CASE Plain(events)
  BY <1>1 DEF Replayed
<1>2. CASE ~Plain(events)
  <2>. DEFINE rest == Uncovered(covers \union {CompactionEvent}, events)
              mark == <<CompactionEvent>>
  <2>1. rest \in Seq(Events) /\ mark \in Seq(Events)
    BY UncoveredTyped, EventsAreTyped
  <2>2. Replayed(covers, events) = mark \o rest
    BY <1>2 DEF Replayed
  <2>3. ~Plain(mark)
    BY DEF Plain
  <2>. HIDE DEF rest, mark
  <2>4. mark \o rest \in Seq(Events) /\ ~Plain(mark \o rest)
    BY <2>1, <2>3, PlainJoins, ConcatProperties
  <2>. QED  BY <1>2, <2>2, <2>4
<1>. QED  BY <1>1, <1>2

\* What has been replayed is not changed by being replayed again.
LEMMA ReplayedTwice ==
    ASSUME NEW covers, NEW events \in Seq(Events)
    PROVE  Replayed(covers, Replayed(covers, events)) = Replayed(covers, events)
<1>1. CASE Plain(events)
  BY <1>1 DEF Replayed
<1>2. CASE ~Plain(events)
  <2>. DEFINE covered == covers \union {CompactionEvent}
              rest == Uncovered(covered, events)
              mark == <<CompactionEvent>>
  <2>1. rest \in Seq(Events) /\ mark \in Seq(Events)
    BY UncoveredTyped, EventsAreTyped
  <2>2. Replayed(covers, events) = mark \o rest /\ ~Plain(mark \o rest)
    BY <1>2, ReplayTyped DEF Replayed
  <2>3. Uncovered(covered, mark) = <<>>
    <3>1. CompactionEvent \in Events /\ CompactionEvent \in covered
      BY EventsAreTyped
    <3>. HIDE DEF covered
    <3>. QED  BY <3>1, OneUncovered
  <2>4. Uncovered(covered, rest) = rest
    <3>. HIDE DEF covered
    <3>. QED  BY EventsUncovered
  <2>. HIDE DEF mark, covered, rest
  <2>5. Uncovered(covered, mark \o rest) = rest
    <3>1. Uncovered(covered, mark \o rest) = Uncovered(covered, mark) \o Uncovered(covered, rest)
      BY <2>1, EventsUncovered
    <3>2. <<>> \o rest = rest
      BY <2>1, ConcatEmptySeq
    <3>. QED  BY <2>3, <2>4, <3>1, <3>2
  <2>. QED  BY <2>2, <2>5 DEF Replayed, mark, covered
<1>. QED  BY <1>1, <1>2

\* What is replayed, but for the specialists' events.
Seen(covers, events) == Uncovered(SpecialistEvents, Replayed(covers, events))

LEMMA NoSpecialist ==
    /\ CompactionEvent \in Events /\ CompactionEvent \notin SpecialistEvents
    /\ <<CompactionEvent>> \in Seq(Events) /\ ~Plain(<<CompactionEvent>>)
    /\ Uncovered(SpecialistEvents, <<CompactionEvent>>) = <<CompactionEvent>>
<1>1. CompactionEvent \in Events /\ CompactionEvent \notin SpecialistEvents
  <2>1. CompactionEvent.kind = "compaction"
    BY DEF CompactionEvent, Event
  <2>2. \A e \in SpecialistEvents : e.kind = "specialist"
    BY DEF SpecialistEvents, Event
  <2>. QED  BY <2>1, <2>2, EventsAreTyped
<1>2. <<CompactionEvent>> \in Seq(Events) /\ ~Plain(<<CompactionEvent>>)
  BY <1>1 DEF Plain
<1>. QED  BY <1>1, <1>2, OneUncovered

LEMMA UncoveredStaysPlain ==
    ASSUME NEW covered, NEW events \in Seq(Events), Plain(events)
    PROVE  Plain(Uncovered(covered, events))
<1>. DEFINE Others == Events \ {CompactionEvent}
<1>1. events \in Seq(Others)
  <2>1. \A i \in 1..Len(events) : events[i] \in Others
    BY DEF Plain
  <2>. QED  BY <2>1
<1>2. Uncovered(covered, events) \in Seq(Others)
  <2>. HIDE DEF Others
  <2>. QED  BY <1>1, UncoveredTyped
<1>3. \A i \in 1..Len(Uncovered(covered, events)) : Uncovered(covered, events)[i] \in Others
  <2>. HIDE DEF Others
  <2>. QED  BY <1>2
<1>. QED  BY <1>3 DEF Plain

\* A compaction is seen by who has it.
LEMMA SeenAsPlain ==
    ASSUME NEW covers, NEW events \in Seq(Events)
    PROVE  Plain(Seen(covers, events)) <=> Plain(events)
<1>1. CASE Plain(events)
  BY <1>1, UncoveredStaysPlain DEF Seen, Replayed
<1>2. CASE ~Plain(events)
  <2>. DEFINE rest == Uncovered(covers \union {CompactionEvent}, events)
              mark == <<CompactionEvent>>
  <2>1. rest \in Seq(Events) /\ Uncovered(SpecialistEvents, rest) \in Seq(Events)
    BY UncoveredTyped
  <2>2. Seen(covers, events) = Uncovered(SpecialistEvents, mark \o rest)
    BY <1>2 DEF Seen, Replayed
  <2>3. mark \in Seq(Events) /\ ~Plain(mark) /\ Uncovered(SpecialistEvents, mark) = mark
    BY NoSpecialist
  <2>. HIDE DEF rest, mark
  <2>4. Seen(covers, events) = mark \o Uncovered(SpecialistEvents, rest)
    <3>1. \A xs, ys \in Seq(Events) : Uncovered(SpecialistEvents, xs \o ys) =
              Uncovered(SpecialistEvents, xs) \o Uncovered(SpecialistEvents, ys)
      BY EventsUncovered
    <3>. QED  BY <2>1, <2>2, <2>3, <3>1
  <2>5. ~Plain(mark \o Uncovered(SpecialistEvents, rest))
    BY <2>1, <2>3, PlainJoins
  <2>. QED  BY <1>2, <2>4, <2>5
<1>. QED  BY <1>1, <1>2

\* What is seen of events that are appended, after those of a compaction or not.
SeenOf(covers, compacted, new) ==
    Uncovered(SpecialistEvents,
              IF compacted THEN Uncovered(covers \union {CompactionEvent}, new) ELSE new)

LEMMA SeenAppends ==
    ASSUME NEW covers, NEW events \in Seq(Events), NEW new \in Seq(Events), Plain(new)
    PROVE  Seen(covers, events \o new) = Seen(covers, events) \o SeenOf(covers, ~Plain(events), new)
<1>. DEFINE covered == covers \union {CompactionEvent}
            mark == <<CompactionEvent>>
            U(xs) == Uncovered(covered, xs)
            V(xs) == Uncovered(SpecialistEvents, xs)
<1>1. Plain(events \o new) <=> Plain(events)
  BY PlainJoins
<1>2. events \o new \in Seq(Events)
  BY ConcatProperties
<1>3. /\ \A xs \in Seq(Events) : U(xs) \in Seq(Events) /\ V(xs) \in Seq(Events)
      /\ \A xs, ys \in Seq(Events) : U(xs \o ys) = U(xs) \o U(ys) /\ V(xs \o ys) = V(xs) \o V(ys)
  <2>. HIDE DEF covered
  <2>. QED  BY EventsUncovered
<1>4. CASE Plain(events)
  <2>1. /\ Seen(covers, events \o new) = V(events \o new) /\ Seen(covers, events) = V(events)
        /\ SeenOf(covers, ~Plain(events), new) = V(new)
    BY <1>1, <1>4 DEF Seen, SeenOf, Replayed
  <2>. HIDE DEF V
  <2>. QED  BY <1>3, <2>1
<1>5. CASE ~Plain(events)
  <2>1. /\ Seen(covers, events \o new) = V(mark \o U(events \o new))
        /\ Seen(covers, events) = V(mark \o U(events))
        /\ SeenOf(covers, ~Plain(events), new) = V(U(new))
    BY <1>1, <1>5 DEF Seen, SeenOf, Replayed
  <2>2. mark \in Seq(Events)
    BY NoSpecialist
  <2>. HIDE DEF U, V, mark
  <2>3. U(events) \in Seq(Events) /\ U(new) \in Seq(Events) /\ mark \o U(events) \in Seq(Events)
    BY <1>3, <2>2, ConcatProperties
  <2>4. mark \o U(events \o new) = (mark \o U(events)) \o U(new)
    <3>1. U(events \o new) = U(events) \o U(new)
      BY <1>3
    <3>2. (mark \o U(events)) \o U(new) = mark \o (U(events) \o U(new))
      BY <2>2, <2>3, JoinsAssociate
    <3>. QED  BY <3>1, <3>2
  <2>5. V((mark \o U(events)) \o U(new)) = V(mark \o U(events)) \o V(U(new))
    BY <1>3, <2>3
  <2>. QED  BY <2>1, <2>4, <2>5
<1>. QED  BY <1>4, <1>5

\* Two of which the same is seen stay so when the same is appended to both.
LEMMA SeenJoins ==
    ASSUME NEW covers, NEW xs \in Seq(Events), NEW ys \in Seq(Events), NEW new \in Seq(Events),
           Plain(new), Seen(covers, xs) = Seen(covers, ys)
    PROVE  Seen(covers, xs \o new) = Seen(covers, ys \o new)
<1>1. Plain(xs) <=> Plain(ys)
  BY SeenAsPlain
<1>2. /\ Seen(covers, xs \o new) = Seen(covers, xs) \o SeenOf(covers, ~Plain(xs), new)
      /\ Seen(covers, ys \o new) = Seen(covers, ys) \o SeenOf(covers, ~Plain(ys), new)
  BY SeenAppends
<1>. QED  BY <1>1, <1>2

\* An event of a specialist is not seen.
LEMMA SpecialistsUnseen ==
    ASSUME NEW covers, NEW events \in Seq(Events), NEW e \in Events \intersect SpecialistEvents
    PROVE  Seen(covers, events \o <<e>>) = Seen(covers, events)
<1>. DEFINE new == <<e>>
            covered == covers \union {CompactionEvent}
<1>1. e \in Events /\ e \in SpecialistEvents /\ e # CompactionEvent
  BY NoSpecialist
<1>2. new \in Seq(Events) /\ Plain(new)
  BY <1>1 DEF Plain
<1>3. Uncovered(SpecialistEvents, new) = <<>> /\ Uncovered(SpecialistEvents, <<>>) = <<>>
  BY <1>1, OneUncovered, NothingUncovered
<1>4. Uncovered(covered, new) = new \/ Uncovered(covered, new) = <<>>
  <2>. HIDE DEF covered
  <2>. QED  BY <1>1, OneUncovered
<1>. HIDE DEF new
<1>5. SeenOf(covers, ~Plain(events), new) = <<>>
  BY <1>3, <1>4 DEF SeenOf
<1>6. Seen(covers, events) \in Seq(Events)
  <2>1. Replayed(covers, events) \in Seq(Events)
    BY ReplayTyped
  <2>. QED  BY <2>1, EventsUncovered DEF Seen
<1>7. Seen(covers, events \o new) = Seen(covers, events) \o <<>>
  BY <1>2, <1>5, SeenAppends
<1>8. Seen(covers, events) \o <<>> = Seen(covers, events)
  BY <1>6, ConcatEmptySeq
<1>. QED  BY <1>7, <1>8 DEF new

LEMMA InStepAsSeen ==
    /\ InStep <=> Seen(compaction.covers, memory) = Seen(compaction.covers, log[session])
    /\ InStep' <=> Seen(compaction'.covers, memory') = Seen(compaction'.covers, log'[session'])
  BY DEF InStep, Seen, Rehydrated, Replayed, Plain

-----------------------------------------------------------------------------
(* The memory of the active session *)

MemoryTyped == memory \in Seq(Events) /\ compaction.snapshot \in Seq(Events)

\* What of the state this is about.
memoryVars == <<session, memory, log, compaction>>

\* Events are appended to the log of the active session, and remembered.
Remembered ==
    \E new \in Seq(Events) :
        /\ Plain(new)
        /\ memory' = memory \o new /\ log' = [log EXCEPT ![session] = @ \o new]
        /\ UNCHANGED <<session, compaction>>

\* Events are appended to the log of another session.
RecordedElsewhere ==
    \E s \in Sessions \ {session}, new \in Seq(Events) :
        /\ log' = [log EXCEPT ![s] = @ \o new]
        /\ UNCHANGED <<session, memory, compaction>>

\* A specialist records in the log of the active session.
RecordedAlone ==
    \E e \in Events \intersect SpecialistEvents :
        /\ log' = [log EXCEPT ![session] = @ \o <<e>>]
        /\ UNCHANGED <<session, memory, compaction>>

LEMMA PlainEvents ==
    /\ Plain(<<>>)
    /\ \A r \in Runs : Plain(<<UserEvent(r)>>) /\ Plain(<<CancelledEvent(r)>>)
    /\ CountersTyped => \A r \in Runs : Plain(Returned(r))
<1>1. \A e : e.kind # "compaction" => e # CompactionEvent
  BY DEF CompactionEvent, Event
<1>2. ASSUME CountersTyped, NEW r \in Runs PROVE Plain(Returned(r))
  <2>1. Len(Returned(r)) = made[r] /\ \A n \in 1..made[r] : Returned(r)[n] = Checkpoint(r, n)
    BY <1>2, ReturnedIsTyped
  <2>2. \A n : Checkpoint(r, n).kind = "checkpoint"
    BY DEF Checkpoint, Event
  <2>. QED  BY <1>1, <2>1, <2>2 DEF Plain
<1>3. Plain(<<>>)
  BY DEF Plain
<1>4. ASSUME NEW e, e.kind # "compaction" PROVE Plain(<<e>>)
  BY <1>1, <1>4 DEF Plain
<1>5. \A r \in Runs : UserEvent(r).kind # "compaction" /\ CancelledEvent(r).kind # "compaction"
  BY DEF UserEvent, CancelledEvent, Event
<1>. QED  BY <1>2, <1>3, <1>4, <1>5

LEMMA LaunchRemembers ==
    ASSUME TuiShape, NEW events \in Seq(Events), Plain(events), LaunchAfter(events),
           UNCHANGED <<session, compaction>>
    PROVE  Remembered
<1>. DEFINE new == events \o <<UserEvent(next)>>
<1>1. next \in Runs /\ memory' = memory \o new /\ log' = [log EXCEPT ![session] = @ \o new]
  BY DEF LaunchAfter
<1>2. <<UserEvent(next)>> \in Seq(Events) /\ Plain(<<UserEvent(next)>>)
  <2>1. UserEvent(next) \in Events
    BY <1>1, EventsAreTyped
  <2>2. Plain(<<UserEvent(next)>>)
    BY <1>1, PlainEvents
  <2>. QED  BY <2>1, <2>2
<1>3. new \in Seq(Events) /\ Plain(new)
  <2>. DEFINE one == <<UserEvent(next)>>
  <2>. HIDE DEF one
  <2>1. one \in Seq(Events) /\ Plain(one)
    BY <1>2 DEF one
  <2>2. events \o one \in Seq(Events) /\ Plain(events \o one)
    BY <2>1, ConcatProperties, PlainJoins
  <2>. QED  BY <2>2 DEF one
<1>. HIDE DEF new
<1>. QED  BY <1>1, <1>3 DEF Remembered

LEMMA StepsOfMemory ==
    ASSUME TuiShape, Numbered, TuiNext
    PROVE  \/ UNCHANGED memoryVars \/ Remembered \/ RecordedElsewhere \/ RecordedAlone
           \/ Rewind \/ Compact \/ CompactionStep \/ \E s \in Sessions : Resume(s)
<1>1. ASSUME Submit \/ \E c \in Commands : Command(c) PROVE UNCHANGED memoryVars \/ Remembered
  <2>1. UNCHANGED memoryVars \/ (LaunchAfter(<<>>) /\ UNCHANGED <<session, compaction>>)
    BY <1>1 DEF Submit, Command, diskVars, memoryVars
  <2>2. <<>> \in Seq(Events) /\ Plain(<<>>)
    BY PlainEvents
  <2>. QED  BY <2>1, <2>2, LaunchRemembers
<1>2. ASSUME CtrlC \/ Esc \/ Exit PROVE UNCHANGED memoryVars \/ Remembered
  <2>. DEFINE marker == IF active # NoRun THEN <<CancelledEvent(active)>> ELSE <<>>
  <2>1. \/ UNCHANGED memoryVars
        \/ /\ log' = [log EXCEPT ![session] = @ \o marker] /\ memory' = memory \o marker
           /\ UNCHANGED <<session, compaction>>
    BY <1>2 DEF CtrlC, Esc, Exit, CancelRun, diskVars, memoryVars
  <2>2. marker \in Seq(Events) /\ Plain(marker)
    <3>1. CASE active = NoRun
      BY <3>1, PlainEvents
    <3>2. CASE active \in Runs
      <4>1. CancelledEvent(active) \in Events
        BY <3>2, EventsAreTyped
      <4>2. <<CancelledEvent(active)>> \in Seq(Events) /\ Plain(<<CancelledEvent(active)>>)
        <5>1. <<CancelledEvent(active)>> \in Seq(Events)
          BY <4>1
        <5>2. Plain(<<CancelledEvent(active)>>)
          BY <3>2, PlainEvents
        <5>. QED  BY <5>1, <5>2
      <4>3. marker = <<CancelledEvent(active)>>
        BY <3>2, ConstantsTyped
      <4>. QED  BY <4>2, <4>3
    <3>. QED  BY <3>1, <3>2 DEF TuiShape, TuiTypeOK
  <2>. HIDE DEF marker
  <2>. QED  BY <2>1, <2>2 DEF Remembered
<1>3. CASE Decide
  BY <1>3 DEF Decide, diskVars, memoryVars
<1>4. ASSUME NEW r \in Runs, RunStep(r)
      PROVE  UNCHANGED memoryVars \/ Remembered \/ RecordedElsewhere \/ RecordedAlone
  <2>. DEFINE new == Returned(r)
  <2>0. new \in Seq(Events) /\ Plain(new)
    BY ReturnedIsTyped, PlainEvents DEF TuiShape
  <2>. HIDE DEF new
  <2>1. CASE TakeResponse(r)
    <3>1. UNCHANGED <<session, compaction>>
      BY <2>1 DEF TakeResponse
    <3>2. \/ LaunchAfter(new)
          \/ log' = [log EXCEPT ![session] = @ \o new] /\ memory' = memory \o new
      BY <2>1 DEF TakeResponse, new
    <3>. QED  BY <2>0, <3>1, <3>2, LaunchRemembers DEF Remembered
  <2>2. CASE TakeFlush(r)
    <3>1. /\ flush[r] # NoSession /\ UNCHANGED <<session, compaction>>
          /\ log' = [log EXCEPT ![flush[r]] = @ \o new]
          /\ memory' = IF flush[r] = session THEN memory \o new ELSE memory
      BY <2>2 DEF TakeFlush, Target, MemoryAfterFlush, new
    <3>2. flush[r] \in Sessions
      BY <3>1 DEF TuiShape, TuiTypeOK
    <3>. QED  BY <2>0, <3>1, <3>2 DEF Remembered, RecordedElsewhere
  <2>3. CASE SpecialistEvent(r)
    <3>1. PICK e \in Events \intersect SpecialistEvents :
              home[r] \in Sessions /\ Recorded(home[r], <<e>>) /\ UNCHANGED <<uiVars, compaction>>
      BY <2>3, SpecialistRecords
    <3>2. /\ <<e>> \in Seq(Events) /\ log' = [log EXCEPT ![home[r]] = @ \o <<e>>]
          /\ UNCHANGED <<session, memory, compaction>>
      BY <3>1 DEF Recorded, uiVars
    <3>. QED  BY <3>1, <3>2 DEF RecordedElsewhere, RecordedAlone
  <2>4. CASE ~TakeResponse(r) /\ ~TakeFlush(r) /\ ~SpecialistEvent(r)
    BY <1>4, <2>4 DEF RunStep, Snapshot, OnUsage, OnPermissionRequest, OnAskUser, Ask, AskEnds,
                      TakeStale, uiVars, diskVars, memoryVars
  <2>. QED  BY <2>1, <2>2, <2>3, <2>4
<1>. QED  BY <1>1, <1>2, <1>3, <1>4 DEF TuiNext, User

LEMMA MemoryStarts == TuiInit => MemoryTyped
  BY DEF TuiInit, MemoryTyped, NoCompaction

LEMMA MemoryKept ==
    ASSUME TuiShape, Numbered, MemoryTyped, DiskTyped', [TuiNext]_tuiVars
    PROVE  MemoryTyped'
<1>0. /\ session \in Sessions /\ log \in [Sessions -> Seq(Events)] /\ log' \in [Sessions -> Seq(Events)]
      /\ memory \in Seq(Events) /\ compaction.snapshot \in Seq(Events) /\ <<>> \in Seq(Events)
  BY DEF TuiShape, TuiTypeOK, DiskTyped, MemoryTyped
<1>1. CASE UNCHANGED <<memory, compaction>>
  BY <1>0, <1>1 DEF MemoryTyped
<1>2. CASE Remembered
  <2>1. PICK new \in Seq(Events) : memory' = memory \o new /\ UNCHANGED compaction
    BY <1>2 DEF Remembered
  <2>2. memory \o new \in Seq(Events)
    BY <1>0
  <2>. QED  BY <1>0, <2>1, <2>2 DEF MemoryTyped
<1>3. CASE RecordedElsewhere \/ RecordedAlone
  BY <1>1, <1>3 DEF RecordedElsewhere, RecordedAlone
<1>4. CASE Rewind
  <2>1. memory' \in {log'[session], <<>>} /\ UNCHANGED compaction
    BY <1>4 DEF Rewind
  <2>. QED  BY <1>0, <2>1 DEF MemoryTyped
<1>5. ASSUME NEW s \in Sessions, Resume(s) PROVE MemoryTyped'
  <2>1. memory' = Replayed(compaction.covers, log[s]) /\ UNCHANGED compaction
    BY <1>5, RehydratedIsReplayed DEF Resume
  <2>2. Replayed(compaction.covers, log[s]) \in Seq(Events)
    BY <1>0, ReplayTyped
  <2>. QED  BY <1>0, <2>1, <2>2 DEF MemoryTyped
<1>6. CASE Compact
  <2>1. compaction'.snapshot = memory /\ UNCHANGED memory
    BY <1>6 DEF Compact
  <2>. QED  BY <1>0, <2>1 DEF MemoryTyped
<1>7. CASE CompactionStep
  <2>0. /\ compaction = [at |-> compaction.at, session |-> compaction.session,
                         covers |-> compaction.covers, snapshot |-> compaction.snapshot]
        /\ compaction.at \notin {"never", "over"} => compaction.session \in Sessions
    BY DEF TuiShape, CompactionTyped
  <2>1. CASE PlanCompaction
    <3>1. compaction'.snapshot \in {compaction.snapshot, <<>>} /\ UNCHANGED memory
      BY <2>0, <2>1 DEF PlanCompaction, uiVars
    <3>. QED  BY <1>0, <3>1 DEF MemoryTyped
  <2>2. CASE RecordCompaction
    <3>1. compaction'.snapshot = compaction.snapshot /\ UNCHANGED memory
      BY <2>0, <2>2 DEF RecordCompaction, uiVars
    <3>. QED  BY <1>0, <3>1 DEF MemoryTyped
  <2>3. CASE ReadCompacted
    <3>1. /\ compaction'.snapshot \in {compaction.snapshot, Rehydrated(log[compaction.session])}
          /\ compaction.session \in Sessions /\ UNCHANGED memory
      BY <2>0, <2>3 DEF ReadCompacted, uiVars
    <3>2. Rehydrated(log[compaction.session]) \in Seq(Events)
      BY <1>0, <3>1, RehydratedIsReplayed, ReplayTyped
    <3>. QED  BY <1>0, <3>1, <3>2 DEF MemoryTyped
  <2>4. CASE TakeCompaction
    <3>1. compaction'.snapshot = <<>> /\ memory' \in {memory, compaction.snapshot}
      BY <2>4 DEF TakeCompaction, NoCompaction
    <3>. QED  BY <1>0, <3>1 DEF MemoryTyped
  <2>. QED  BY <1>7, <2>1, <2>2, <2>3, <2>4 DEF CompactionStep
<1>. QED  BY <1>1, <1>2, <1>3, <1>4, <1>5, <1>6, <1>7, StepsOfMemory DEF memoryVars, tuiVars

-----------------------------------------------------------------------------
(* Only a compaction takes the memory and the log apart *)

LEMMA NotCutBack ==
    ASSUME NEW events \in Seq(Events), NEW new \in Seq(Events)
    PROVE  IsPrefix(events, events \o new) /\ IsPrefix(events, events)
<1>. DEFINE n == Len(events)
            all == events \o new
<1>1. n \in Nat /\ all \in Seq(Events) /\ n <= Len(all) /\ \A i \in 1..n : all[i] = events[i]
  OBVIOUS
<1>. HIDE DEF all, n
<1>2. /\ Len(SubSeq(all, 1, n)) = n /\ \A i \in 1..n : SubSeq(all, 1, n)[i] = all[i]
      /\ SubSeq(all, 1, n) \in Seq(Events)
  BY <1>1
<1>3. SubSeq(events, 1, n) = events
  BY DEF n
<1>4. SubSeq(all, 1, n) = events
  BY <1>1, <1>2, SeqEqual DEF n
<1>. QED  BY <1>1, <1>3, <1>4 DEF IsPrefix, all, n

\* A rewind cuts the log back: the checkpoint it undoes is gone.
LEMMA RewindsCutBack ==
    ASSUME TuiShape, Rewind
    PROVE  CutBack
<1>1. PICK i \in 1..Len(log[session]) :
          /\ IsCheckpoint(log[session][i])
          /\ log' = [log EXCEPT ![session] =
                        Append(SubSeq(log[session], 1, i - 1), Event("rewind", NoRun, i))]
          /\ session' = session
  BY DEF Rewind
<1>2. session \in Sessions /\ log \in [Sessions -> Seq(Events)]
  BY DEF TuiShape, TuiTypeOK, DiskTyped
<1>. DEFINE events == log[session]
            mark == Event("rewind", NoRun, i)
            left == Append(SubSeq(events, 1, i - 1), mark)
<1>3. events \in Seq(Events) /\ mark \in Events /\ i \in Nat /\ i - 1 \in 0..Len(events)
  BY <1>2, EventsAreTyped
<1>4. log'[session] = left
  BY <1>1, <1>2
<1>5. ~IsCheckpoint(mark)
  BY DEF IsCheckpoint, Event
<1>. HIDE DEF events, mark
<1>6. SubSeq(events, 1, i - 1) \in Seq(Events) /\ Len(SubSeq(events, 1, i - 1)) = i - 1
  BY <1>3
<1>7. left \in Seq(Events) /\ Len(left) = i /\ left[i] = mark
  BY <1>3, <1>6
<1>. HIDE DEF left
<1>8. SUFFICES ASSUME IsPrefix(events, left) PROVE FALSE
  BY <1>4 DEF CutBack, events
<1>9. Len(events) <= Len(left) /\ SubSeq(events, 1, Len(events)) = SubSeq(left, 1, Len(events))
  BY <1>8 DEF IsPrefix
<1>10. Len(events) = i
  BY <1>1, <1>3, <1>7, <1>9 DEF events
<1>11. SubSeq(events, 1, i) = events /\ SubSeq(left, 1, i) = left
  BY <1>3, <1>7, <1>10
<1>. QED  BY <1>1, <1>5, <1>7, <1>9, <1>10, <1>11 DEF events

\* What MemoryFollowsLog says of a step.
Follows ==
    \/ UNCHANGED <<session, memory, log>>
    \/ UNCHANGED compaction /\ (session' # session \/ CutBack \/ InStep)
           => InStep' \/ (CutBack /\ memory' = <<>>)

LEMMA StepsFollow ==
    ASSUME TuiShape, Numbered, MemoryTyped, TuiNext
    PROVE  Follows
<1>. DEFINE c == compaction.covers
<1>0. /\ session \in Sessions /\ log \in [Sessions -> Seq(Events)] /\ memory \in Seq(Events)
      /\ log[session] \in Seq(Events)
  BY DEF TuiShape, TuiTypeOK, DiskTyped, MemoryTyped
<1>1. CASE UNCHANGED memoryVars \/ Compact
  BY <1>1 DEF memoryVars, Compact, diskVars, Follows
<1>2. CASE CompactionStep
  <2>1. compaction = [at |-> compaction.at, session |-> compaction.session,
                      covers |-> compaction.covers, snapshot |-> compaction.snapshot]
    BY DEF TuiShape, CompactionTyped
  <2>2. CASE PlanCompaction \/ ReadCompacted
    BY <2>2 DEF PlanCompaction, ReadCompacted, uiVars, diskVars, Follows
  <2>3. CASE RecordCompaction
    <3>1. compaction.at = "record" /\ compaction'.at \in {"read", "failed"}
      BY <2>1, <2>3 DEF RecordCompaction
    <3>. QED  BY <3>1 DEF Follows
  <2>4. CASE TakeCompaction
    <3>1. compaction.at \in {"unchanged", "failed", "compacted"} /\ compaction'.at = "over"
      BY <2>4 DEF TakeCompaction, NoCompaction
    <3>. QED  BY <3>1 DEF Follows
  <2>. QED  BY <1>2, <2>2, <2>3, <2>4 DEF CompactionStep
<1>3. CASE Remembered
  <2>1. PICK new \in Seq(Events) :
            /\ Plain(new) /\ memory' = memory \o new /\ log' = [log EXCEPT ![session] = @ \o new]
            /\ UNCHANGED <<session, compaction>>
    BY <1>3 DEF Remembered
  <2>2. log'[session] = log[session] \o new
    BY <1>0, <2>1
  <2>3. ~CutBack
    BY <1>0, <2>2, NotCutBack DEF CutBack
  <2>4. ASSUME InStep PROVE InStep'
    <3>1. Seen(c, memory) = Seen(c, log[session])
      BY <2>4, InStepAsSeen
    <3>2. compaction'.covers = c
      BY <2>1
    <3>. HIDE DEF c
    <3>3. Seen(c, memory \o new) = Seen(c, log[session] \o new)
      BY <1>0, <2>1, <3>1, SeenJoins
    <3>. QED  BY <2>1, <2>2, <3>2, <3>3, InStepAsSeen
  <2>. QED  BY <2>1, <2>3, <2>4 DEF Follows
<1>4. CASE RecordedElsewhere
  <2>1. log'[session] = log[session] /\ UNCHANGED <<session, memory, compaction>>
    BY <1>0, <1>4 DEF RecordedElsewhere
  <2>2. ~CutBack
    BY <1>0, <2>1, NotCutBack DEF CutBack
  <2>3. InStep => InStep'
    BY <2>1, InStepAsSeen
  <2>. QED  BY <2>1, <2>2, <2>3 DEF Follows
<1>5. CASE RecordedAlone
  <2>1. PICK e \in Events \intersect SpecialistEvents :
            log' = [log EXCEPT ![session] = @ \o <<e>>] /\ UNCHANGED <<session, memory, compaction>>
    BY <1>5 DEF RecordedAlone
  <2>2. log'[session] = log[session] \o <<e>> /\ <<e>> \in Seq(Events)
    BY <1>0, <2>1
  <2>3. ~CutBack
    BY <1>0, <2>2, NotCutBack DEF CutBack
  <2>4. ASSUME InStep PROVE InStep'
    <3>1. Seen(c, memory) = Seen(c, log[session])
      BY <2>4, InStepAsSeen
    <3>2. compaction'.covers = c
      BY <2>1
    <3>. HIDE DEF c
    <3>3. Seen(c, log[session] \o <<e>>) = Seen(c, log[session])
      BY <1>0, <2>1, SpecialistsUnseen
    <3>. QED  BY <2>1, <2>2, <3>1, <3>2, <3>3, InStepAsSeen
  <2>. QED  BY <2>1, <2>3, <2>4 DEF Follows
<1>6. CASE Rewind
  <2>1. memory' \in {log'[session], <<>>} /\ UNCHANGED session
    BY <1>6 DEF Rewind
  <2>2. memory' = log'[session] => InStep'
    BY <2>1, InStepAsSeen
  <2>. QED  BY <1>6, <2>1, <2>2, RewindsCutBack DEF Follows
<1>7. ASSUME NEW s \in Sessions, Resume(s) PROVE Follows
  <2>1. /\ session' = s /\ memory' = Replayed(c, log[s]) /\ UNCHANGED <<log, compaction>>
    BY <1>7, RehydratedIsReplayed DEF Resume, diskVars
  <2>2. Replayed(c, Replayed(c, log[s])) = Replayed(c, log[s])
    BY <1>0, ReplayedTwice
  <2>3. InStep'
    BY <2>1, <2>2, InStepAsSeen DEF Seen
  <2>. QED  BY <2>3 DEF Follows
<1>. QED  BY <1>1, <1>2, <1>3, <1>4, <1>5, <1>6, <1>7, StepsOfMemory

\* For any sessions, runs and events: only a compaction takes what is remembered apart from
\* the log of the session, but for the events of specialists, and a resume and a rewind bring
\* the two together, or the rewind, which has not been able to read the log, forgets
\* everything (MemoryFollowsLog).
THEOREM OnlyCompactionsPart == TuiSpec => MemoryFollowsLog
<1>1. TuiInv => TuiShape /\ Numbered
  BY DEF TuiInv, RunInv
<1>2. TuiInv' => DiskTyped'
  BY DEF TuiInv, RunInv, TuiShape
<1>3. TuiInv /\ TuiInv' /\ MemoryTyped /\ [TuiNext]_tuiVars => MemoryTyped'
  BY <1>1, <1>2, MemoryKept
<1>4. TuiSpec => []MemoryTyped
  BY <1>3, MemoryStarts, TuiInvariant, PTL DEF TuiSpec
<1>5. TuiInv /\ MemoryTyped /\ [TuiNext]_tuiVars => [Follows]_tuiVars
  BY <1>1, StepsFollow
<1>. QED  BY <1>4, <1>5, TuiInvariant, PTL DEF TuiSpec, MemoryFollowsLog, Follows
=============================================================================
