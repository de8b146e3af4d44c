---------------------------- MODULE BackgroundTask ----------------------------
(***************************************************************************)
(* One background task: its entry in the manager of the holt process that  *)
(* launched it (internal/background/manager.go), the entry's file, the     *)
(* launch and the exit callback (internal/specialist/exec.go), the calls   *)
(* that stop it, and another holt process that loads the same directory.   *)
(* A step is one critical section of the manager's mutex, or one call made *)
(* outside it.                                                             *)
(***************************************************************************)
EXTENDS Naturals

CONSTANT Killers  \* calls of Kill, from TaskStop and from KillRunning

VARIABLES mem,     \* the entry: status, whether it has the pid, exit code and end time
          disk,    \* the entry's file
          proc,    \* the child: none, alive, exited, or "reported" by its callback
          launch,  \* where runBackground is
          kpc,     \* where each Kill is
          up,      \* the holt process runs
          reader,  \* the other process's load: where it is, and what it read
          usurped, \* the other process rewrote the entry while this one runs
          faults   \* what may fail in this behaviour: "kill", a termination; "disk", a persist

backgroundVars == <<mem, disk, proc, launch, kpc, up, reader, usurped, faults>>

Running == [status |-> "running", pid |-> FALSE, exit |-> "none"]
Unregistered == [status |-> "none", pid |-> FALSE, exit |-> "none"]
Ended(t, s, e) == [t EXCEPT !.status = s, !.exit = e]

BackgroundInit ==
    /\ mem = Unregistered /\ disk = Unregistered
    /\ proc = "none" /\ launch = "register"
    /\ kpc = [k \in Killers |-> "idle"]
    /\ up = TRUE
    /\ reader = [at |-> "idle", task |-> Unregistered]
    /\ usurped = FALSE
    /\ faults \in SUBSET {"kill", "disk"}

Goto(k, from, to) == up /\ kpc[k] = from /\ kpc' = [kpc EXCEPT ![k] = to]
LaunchGoto(from, to) == up /\ launch = from /\ launch' = to

\* An update of the entry: its file first, then memory.
Store(t) == mem' = t /\ disk' = t

\* It fails: neither changes.
StoreFails == "disk" \in faults /\ UNCHANGED <<mem, disk>>

-----------------------------------------------------------------------------
(* runBackground and the child *)

Register ==
    /\ \/ LaunchGoto("register", "start") /\ Store(Running)
       \/ LaunchGoto("register", "end") /\ StoreFails
    /\ UNCHANGED <<proc, kpc, up, reader, usurped, faults>>

\* The child starts, or cannot be: then the task is marked in error.
Start ==
    /\ LaunchGoto("start", "setpid")
    /\ proc' = "alive"
    /\ UNCHANGED <<mem, disk, kpc, up, reader, usurped, faults>>
StartFails ==
    /\ LaunchGoto("start", "end")
    /\ Store(Ended(mem, "error", "-1")) \/ StoreFails
    /\ UNCHANGED <<proc, kpc, up, reader, usurped, faults>>

\* SetPID, whatever became of the task meanwhile.
SetPID ==
    /\ \/ LaunchGoto("setpid", "end") /\ Store([mem EXCEPT !.pid = TRUE])
       \/ LaunchGoto("setpid", "terminate") /\ StoreFails
    /\ UNCHANGED <<proc, kpc, up, reader, usurped, faults>>

\* terminateProcess of the child: it is gone, or the termination fails; also of a
\* child that is gone: on POSIX a descendant can outlive the kill of its group, on
\* Windows taskkill and FindProcess fail for a process that has exited.
Terminated == proc' = IF proc = "alive" THEN "exited" ELSE proc
TerminateFails == "kill" \in faults /\ UNCHANGED proc

\* Without a recorded pid nothing could stop the child: it is terminated ...
Abort ==
    /\ LaunchGoto("terminate", "mark")
    /\ Terminated \/ TerminateFails
    /\ UNCHANGED <<mem, disk, kpc, up, reader, usurped, faults>>

\* ... and the task marked in error.
AbortMark ==
    /\ LaunchGoto("mark", "end")
    /\ Store(Ended(mem, "error", "-1")) \/ StoreFails
    /\ UNCHANGED <<proc, kpc, up, reader, usurped, faults>>

ChildExits ==
    /\ proc = "alive"
    /\ proc' = "exited"
    /\ UNCHANGED <<mem, disk, launch, kpc, up, reader, usurped, faults>>

\* Mutant of MarkExited: an exit is recorded whatever the status.
MarkExitedAlways ==
    /\ up /\ proc = "exited"
    /\ proc' = "reported"
    /\ Store(Ended(mem, "completed", "0")) \/ Store(Ended(mem, "error", "1")) \/ StoreFails
    /\ UNCHANGED <<launch, kpc, up, reader, usurped, faults>>

\* Mutant of MarkExited: only a child that exited before SetPID is recorded.
MarkExitedEarly ==
    /\ up /\ proc = "exited"
    /\ proc' = "reported"
    /\ IF mem.status = "running" /\ ~mem.pid
       THEN Store(Ended(mem, "completed", "0")) \/ Store(Ended(mem, "error", "1"))
       ELSE UNCHANGED <<mem, disk>>
    /\ UNCHANGED <<launch, kpc, up, reader, usurped, faults>>

\* The callback of the child's exit, once: MarkExited acts on a running task only,
\* and its error is dropped.
MarkExited ==
    /\ up /\ proc = "exited"
    /\ proc' = "reported"
    /\ IF mem.status = "running"
       THEN \/ Store(Ended(mem, "completed", "0"))
            \/ Store(Ended(mem, "error", "1"))
            \/ StoreFails
       ELSE UNCHANGED <<mem, disk>>
    /\ UNCHANGED <<launch, kpc, up, reader, usurped, faults>>

-----------------------------------------------------------------------------
(* Kill *)

\* killTarget: a running task with a pid.
KillTarget(k) ==
    /\ Goto(k, "idle", IF mem.status = "running" /\ mem.pid THEN "check" ELSE "refused")
    /\ UNCHANGED <<mem, disk, proc, launch, up, reader, usurped, faults>>

KillCheck(k) ==
    /\ Goto(k, "check", IF mem.status = "running" THEN "mark" ELSE "refused")
    /\ UNCHANGED <<mem, disk, proc, launch, up, reader, usurped, faults>>

\* markKilledIfStillRunning: the intent is recorded before the child is signalled.
KillMark(k) ==
    /\ IF mem.status = "running"
       THEN \/ Goto(k, "mark", "signal") /\ Store(Ended(mem, "killed", "-1"))
            \/ Goto(k, "mark", "refused") /\ StoreFails
       ELSE Goto(k, "mark", "refused") /\ UNCHANGED <<mem, disk>>
    /\ UNCHANGED <<proc, launch, up, reader, usurped, faults>>

\* killProcess, outside the mutex.
KillSignal(k) ==
    /\ \/ Goto(k, "signal", "stopped") /\ Terminated
       \/ Goto(k, "signal", "restore") /\ TerminateFails
    /\ UNCHANGED <<mem, disk, launch, up, reader, usurped, faults>>

\* Mutant of KillRestore: the mark is kept.
RestoreNothing(k) ==
    /\ Goto(k, "restore", "refused")
    /\ UNCHANGED <<mem, disk, proc, launch, up, reader, usurped, faults>>

\* restoreRunningAfterFailedKill.
KillRestore(k) ==
    /\ Goto(k, "restore", "refused")
    /\ IF mem.status = "killed" THEN Store(Ended(mem, "running", "none")) \/ StoreFails
       ELSE UNCHANGED <<mem, disk>>
    /\ UNCHANGED <<proc, launch, up, reader, usurped, faults>>

-----------------------------------------------------------------------------
(* The end of the process, and another one *)

\* The process is killed or exits; its child, a group of its own, is left behind.
Crash ==
    /\ up
    /\ up' = FALSE
    /\ UNCHANGED <<mem, disk, proc, launch, kpc, reader, usurped, faults>>

\* loadTasks of another holt process reads the file ...
LoadRead ==
    /\ reader.at = "idle"
    /\ disk.status # "none"
    /\ reader' = [at |-> IF disk.status = "running" THEN "repair" ELSE "loaded", task |-> disk]
    /\ UNCHANGED <<mem, disk, proc, launch, kpc, up, usurped, faults>>

\* ... and writes a running task back as one in error, without its pid.
LoadRepair ==
    /\ reader.at = "repair"
    /\ LET t == [status |-> "error", pid |-> FALSE, exit |-> "-1"] IN
       /\ reader' = [at |-> "loaded", task |-> t]
       /\ disk' = t \/ ("disk" \in faults /\ UNCHANGED disk)
    /\ usurped' = (usurped \/ up)
    /\ UNCHANGED <<mem, proc, launch, kpc, up, faults>>

-----------------------------------------------------------------------------

LaunchStep == Register \/ Start \/ StartFails \/ SetPID \/ Abort \/ AbortMark

KillStep(k) == KillTarget(k) \/ KillCheck(k) \/ KillMark(k) \/ KillSignal(k) \/ KillRestore(k)

BackgroundNext ==
    \/ LaunchStep \/ ChildExits \/ MarkExited \/ Crash \/ LoadRead \/ LoadRepair
    \/ \E k \in Killers : KillStep(k)

BackgroundSpec == BackgroundInit /\ [][BackgroundNext]_backgroundVars

\* The process goes on with what it began, and every child exits after a while.
FairBackgroundSpec ==
    /\ BackgroundSpec
    /\ WF_backgroundVars(LaunchStep)
    /\ WF_backgroundVars(ChildExits)
    /\ WF_backgroundVars(MarkExited)
    /\ \A k \in Killers : WF_backgroundVars(kpc[k] # "idle" /\ KillStep(k))

-----------------------------------------------------------------------------
(* Properties *)

Tasks == [status : {"none", "running", "completed", "error", "killed"},
          pid : BOOLEAN, exit : {"none", "0", "1", "-1"}]

\* Types; and a task has an exit code exactly when it has ended, however often it
\* was marked and restored.
BackgroundTypeOK ==
    /\ mem \in Tasks /\ disk \in Tasks
    /\ \A t \in {mem, disk} : t.exit = "none" <=> t.status \in {"none", "running"}
    /\ proc \in {"none", "alive", "exited", "reported"}
    /\ launch \in {"register", "start", "setpid", "terminate", "mark", "end"}
    /\ kpc \in [Killers -> {"idle", "check", "mark", "signal", "restore", "stopped", "refused"}]
    /\ up \in BOOLEAN /\ usurped \in BOOLEAN /\ faults \in SUBSET {"kill", "disk"}
    /\ reader \in [at : {"idle", "repair", "loaded"}, task : Tasks]

\* The comment of Kill: a user's stop "stays killed", whenever the child's exit is
\* reported and whatever other calls are under way.
StopSticks == \A k \in Killers : kpc[k] = "stopped" => mem.status = "killed"

\* Only the call whose mark it is signals the child, and none the pid of a task
\* whose exit was recorded.
SignalIsClaimed ==
    \A k \in Killers : kpc[k] \in {"signal", "restore"} =>
        /\ mem.status = "killed"
        /\ \A j \in Killers \ {k} : kpc[j] \notin {"signal", "restore"}

\* With a sound disk, a child that was told to stop but did not is not reported as
\* killed.
FailedKillUndone ==
    "disk" \notin faults /\ mem.status = "killed"
        => \E k \in Killers : kpc[k] \in {"signal", "restore", "stopped"}

\* The mark of a kill is claimed by one call and taken back if the kill fails
\* (manager.go markKilledIfStillRunning, restoreRunningAfterFailedKill).
KillIsClaimed == BackgroundTypeOK /\ SignalIsClaimed /\ FailedKillUndone

\* With sound disk and kills, every task is reported as ended after its child exits.
TaskSettles == faults = {} /\ mem.status = "running" ~> mem.status # "running" \/ ~up

\* The comment of restoreRunningAfterFailedKill (manager.go:363-366): "a real exit
\* recorded meanwhile is left untouched"; here with a sound disk.
RealExitKept == "disk" \notin faults /\ proc = "reported" => mem.status # "running"

\* The warning of normalizeLoadedTask (manager.go:470): a task is marked in error
\* because its "original process ownership was lost".
OwnershipWasLost == ~usurped

=============================================================================
