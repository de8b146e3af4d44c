# Formal models of holt

TLA+ models of the concurrent core of this repository (the `holt` coding agent), the TLC
configurations that check them on small instances, and theorems that TLAPS proves for
every value of the constants. The code is the reference: each definition that models code
is listed in `PROJECT.json` under `map` with the lines it stands for.

Contents: [the system](#the-system) · [the modules](#the-modules) · [the runs](#the-runs) ·
[disagreements](#what-the-code-says-and-the-models-refute) · [fairness](#fairness) ·
[proofs](#the-proofs) · [what is not modelled](#what-is-not-modelled) · [the plan](#the-plan)

To run everything by hand:

    tlc -workers 2 -config DaemonPool.cfg MCDaemonPool     # any .cfg, with its MC module
    tlapm DaemonProofs.tla                                  # any ...Proofs module

## The system

`holt` is one Go binary: a terminal agent (`tui`, `cli`) around an agent loop (`agent`)
that talks to a model (`providers`), executes tools (`tools`, `sandbox`, `mcp`), and can
start more of itself: specialists in the background (`specialist`, `background`), teams of
members (`swarm`), scheduled runs (`cron`), and a daemon that keeps a pool of workers
(`daemon`). What several goroutines or several processes share is the hard part, and it is
what the models are about.

| component | state it keeps | operations | interacts with |
|---|---|---|---|
| worker pool `daemon/pool.go`, `launcher.go` | slot channel, tracked workers, draining | `Run` (acquire, attempts, judge), `Drain` | worker processes; cancelled and drained by the server's `Shutdown` |
| session stream `daemon/session.go` | lines, replay ring, subscribers with bounded channels, drop counts | `Line`, `Subscribe`, `finish`, cancel | pool (sink of a run), server's stream handlers |
| single instance `daemon/lock.go`, `server.go` | PID lock, socket and status files | acquire with reclaim, serve, cleanup | other daemons, crashes |
| control server `daemon/server.go`, session manager `session.go`, foreground daemon `cli/daemon.go` | listener, tracked connections, session registry with a cap | accept, handshake, run, attach, status, shutdown; signals | pool, sessions; the process ends when `Serve` returns |
| client, remote bridge `daemon/client.go`, `remote/` | one connection | dial, decode frames | the server |
| team and coordinator `swarm/team.go`, `coordinator.go`, `lifecycle.go` | slot count, FIFO of specs, members; task registry | `Spawn`, launch, watch and relaunch, `Handoff`, `AdoptOrphans` | members' agents |
| swarm scheduler and mailbox | schedules and timers; message files under locks | `Add`, `Cancel`, `Close`; `Send`, `ReadAndConsume` | the team; other processes |
| agent loop `agent/loop.go`, `compaction.go`, `guardrails.go`, `reconnect.go` | history, turn, guards, completion gate, compaction state | `Run` | model streams, tools, cancellation |
| cron store and schedulers `cron/store.go`, `cli/cron_run.go` | one metadata file and one run log per job | list, claim, fire, persist, record, reconcile; pause, resume, remove | other scheduler processes, through a lock file |
| lock files `cron/lock.go`, repeated by `oauth` and `hooks` | a file with its owner's token | lock, reclaim of a stale one, release | any number of processes |
| background tasks `background/manager.go`, `specialist/exec.go` | entries in memory and on disk | register, start, set pid, mark exited, kill, load | the child, stop calls, other holt processes |
| session store `sessions/store.go`, `checkpoint.go`, `rewind.go` | event log, metadata, blobs of checkpoints; a flock | append, record once, checkpoint, rewind; fork, compaction | agent, `holt sessions`, specialists' accounting, each in a process of its own |
| interactive shells `tools/exec_command.go` | table of sessions, an output buffer and a notify channel each | start, poll, interrupt, evict, stop | children, the agents' contexts |
| token store `oauth/manager.go`, `store.go` | one file with the tokens of all keys; a refresh mutex per key and process | refresh, login, logout | the provider, other processes through a lock file |
| runs of the terminal interface `tui/model.go`, `session.go`, `session_controls.go` | active run, cancelled runs to flush, session and its events in memory, prompt shown, queued message | launch, cancel, exit, resume, rewind, compact; one handler per message of a run | agents in goroutines, the session store |
| sandbox, mcp, acp, hooks, lsp | grants; pending requests; an editor's sessions; audit log; documents | one protocol each | agent loop, other processes |
| configuration, providers, plugins, presentation of the tui, catalogues, tooling | mostly none that is shared | sequential or I/O | |

Correctness, and what makes it hard:

* **Pool.** Never more workers than slots, no worker that outlives its request, verdicts
  that are what happened, no slot leaked on any of the ways out of `Run`. Hard: the ways
  out are many (drain, cancellation, read error, retry, cap) and a worker, a timer, `Drain`
  and the context act between any two steps.
* **Session stream.** A worker is never blocked by a client, and no client is misled: its
  stream has each line once, in order, or counts it as missed. Hard: sends, closes by
  `finish` and closes by the client's own cancel, over channels that fill up.
* **Single instance, lock files.** One holder. Hard: creation, the write of the PID or
  token, the look at it, the rename and the restore are separate system calls, between
  which any process may act or die.
* **Team.** Slots exact and never idle while work waits; each task has an owner until it
  has one outcome. Hard: launches fail, members are relaunched, tasks are handed off and
  adopted, all in goroutines ordered only by two mutexes.
* **Agent loop.** A history a strict provider accepts at each request, whatever is cut
  short; prose shown once; a success only through the gate; an end. Hard: six counters and
  flags with lifetimes of several turns, and a cancellation at each call.
* **Cron.** One fire per slot, removed jobs stay removed, due jobs are fired. Hard: each
  scheduler works on a copy it read before a run of unknown length.
* **Background tasks.** A stop sticks, an exit is recorded, nobody is signalled twice.
  Hard: a stop marks before it signals and undoes the mark after a failure, and the exit
  is reported at any time in between.
* **Control server.** An id leads to one session, unfinished sessions can be attached to,
  and a shutdown ends the workers before the process is gone. Hard: a shutdown may come
  while `Serve` binds or a connection is between accept and tracking, and the process ends
  with `Serve`, not with `Shutdown`.
* **Session store.** The log can be read and tells the truth: numbers are not used twice,
  acknowledged events survive a power failure, a rewind restores what the file was. Hard:
  each operation writes three or four files, any write may fail or be the last, and the
  edits of the workspace are under no lock.
* **Interactive shells.** No output is lost without a word, a call returns by its deadline,
  stopped sessions go. Hard: the buffer is drained, its overflow flag read and the end of
  the child looked at in separate steps, while the child prints, exits and is killed.
* **Token store.** No save undoes another, and a refresh token, which the provider accepts
  once, is presented once. Hard: load, present and save are separate steps of several
  goroutines in several processes.
* **Runs of the terminal interface.** What a run returns is recorded once, in the session it
  worked for; nobody waits for an answer that cannot come; a snapshot lives as long as an event may name it.
  Hard: a cancelled run goes on, and its last message meets a loop that has since started
  another run, resumed another session, rewound or compacted this one, or is about to quit.

`PROJECT.json` lists the hazards line by line, each with the properties that would catch it.

## The modules

Each component has a module of its own, written for TLC and TLAPS alike: parameters are
constants with a named assumption, one action is one step between two points where another
actor can intervene, invariants are conjunctions of named parts, and no operator is
RECURSIVE. `MC<Module>` is the instance TLC checks; `<Module>Proofs` has the theorems.
Where a property has a plausible bug that breaks it, the module has that bug next to the
operator it would be in, as a *mutant*; no specification uses it.

**DaemonPool** (`pool.go`, the process handling of `launcher.go`, the order in
`Server.Shutdown`). `pc[r]` is where the goroutine of request `r` is in `Run` and
`runOnce`; `slots` is `len(p.slots)`, `active` the tracked handles, `draining` the flag and
the closed channel. One action per step: `AcquireCheck`, `AcquireSlot`/`AcquireAbort` (the
select), `LoopCheck`, `Launch`, `LaunchFails`, `Track`, `PumpEOF`/`PumpError`,
`KillAndWait`, `Wait`, `Untrack`, `Judge` (the switch), `Retry` and `SleepCancelled`. The
worker process ends by itself (`WorkerExit`), or by the context (`CancelKills`); `Drain` is
`DrainBegin`, polls, `DrainTimeout`, one kill per copied handle, `DrainEnd`. Delays are
abstracted to "some time"; exit codes to success, 75, 76 and crash.

**DaemonSession** (`session.go`, the stream handler of `server.go`). Lines are the numbers
`1..lines`. `Line` holds the mutex while it visits the subscribers, yet their consumers
receive without it, so a broadcast is `LineRecord` and a step per subscriber (`OfferGap`,
then `OfferLine`), with `todo` the subscribers left: the mutex is held while it is not
empty. `FinishRecord`, `FinishClose`, `FinishDone` are `finish`; `Subscribe`, `Receive`,
`StreamEnds`, `Disconnect`, `CancelSub` are a client's handler. `found` is the session it
asks for the outcome (`Verdicts` is `finishStream`): `handleRun` has its own, `handleAttach`
looks the id up again once it is subscribed (`Get`), when other sessions may have made the
registry evict the finished one (`Evict`) and one of them may have its id (`Rebind`). A send
on a closed channel or a second close sets `panicked`.

**DaemonInstance** (`lock.go`, `lock_posix.go`, `Serve` and `cleanup` of `server.go`). A
step is one system call. A daemon creates at most one lock file, socket and status file,
which bear its name; files of a daemon that died earlier are `Old`. `rename` moves a file,
so a lock file is in one place. PIDs are not reused.

**SwarmTeam** (`team.go`, `coordinator.go`, `lifecycle.go`). A step is a critical section
of the team's or the coordinator's mutex. A member and the task minted with it share an id.
`pc[m]` is where the goroutine serving member `m` is, from `Spawn` through launch, watch,
relaunch, outcome and `onExit`, which hands the slot on; `adopter` is one `AdoptOrphans`
call with the two snapshots it works from.

**AgentLoop** (`Run` in `loop.go`, with `compaction.go`, `reconnect.go`, `guardrails.go`).
One action is one call to the model or a tool with the code up to the next, so a model
reply, an error or a cancellation can come at each. Messages are records of a role, the
turn and the number of calls; texts are what the gate tells apart (nothing, plain,
continuation cue, admission of failure). `options` is chosen initially.

**CronJobs** (`store.go`, `cron_run.go`, `cron.go`). One job, due every minute; schedulers
and commands are processes. What the per-job lock covers is one step; `List` and `Get`
read without it. `slots` and `rewound` are history: the claims of each value of
`NextRunAt`, and whether a write moved it back. `faulty`, chosen initially, says whether
schedulers are killed, locks time out and writes fail.

**FileLock** (`cron/lock.go`; `oauth/lock.go` and `hooks/lock.go` repeat it). A step is a
system call, and a file bears the name of the contender that created it. `Age` makes a file
stale: one whose owner released it, failed or crashed, since a holder's work is short
against the limit. CronJobs takes the lock as atomic and FileLock says when it is.

**BackgroundTask** (`manager.go`, `process_posix.go`, the launch in `specialist/exec.go`).
One task: its entry in memory (`mem`) and its file (`disk`), the child (`proc`), the launch,
the exit callback, several `Kill` calls (check, mark, signal, restore), a crash, and the
load of the directory by another holt process. `faults`, chosen initially, says whether
terminations and persists can fail.

**DaemonServer** (`Serve`, `Shutdown` and the handlers of `server.go`; the `SessionManager`
of `session.go`; `runDaemonForeground` of `cli/daemon.go`). `serve` is where `Serve` is,
and the process lives until it is "returned" or "failed"; `shutdown` is the one run of
`Shutdown`, which `CloseDone`, `CancelRuns`, `Sweep` and `Drain` step through; `conn[c]` is
what the handler of a connection does. `registry` and `order` are the map and the slice of
the manager, `Evicted` is `pruneLocked`. A run is reduced to waiting, launching and a live
worker, since DaemonPool has the rest; a session to its outcome, since DaemonSession has
its stream.

**SessionStore** (`store.go`, `checkpoint.go`, `rewind.go`, `replay.go`; the recorder in
`cli/exec_sessions.go`). One session and one workspace file, whose version 0 is its
absence. A step is one read or write of a file: `WriteLine`, `Sync`, `WriteCount` are an
append; `WriteBlob` comes before it in a checkpoint; `Restore`, `Truncate`, `Recount`,
`Prune` before it in a rewind. `Crash` is the death of a process (the kernel releases its
flock), `PowerFailure` that of the machine, which keeps what an fsync covered and perhaps
a prefix of the rest. `loose` is history: the file has left what the log tells, because a
checkpoint was not taken, not synced, or truncated before the edit it was taken for; because
an edit fell between the restore and the truncation of a rewind; because a rewind skipped
the file, or stopped after the restore. `RewindRestores` promises nothing then, and neither
does the code, which takes checkpoints as best it can.

**TokenStore** (`manager.go`, `store.go`; it EXTENDS FileLock). A contender of the lock is
one operation (refresh, login or logout), a goroutine of the process `ProcessOf` gives.
`LockStep`, `StoreFails`, `Unlock` and `Done` take the steps of FileLock; `ReadState` and
`WriteState` are what happens under the lock. The provider answers the first to present a
token and refuses the others. `meant` is history: the file if each save had changed its own
key alone.

**ExecSessions** (`exec_command.go`, `exec_pty_linux.go`). Output is a sequence of chunks;
the first `Chunks[s]` of a session are told apart, the others are not and may go on for
ever. `Write` is the buffer's, with its overflow; `Launch`, `Store`, `Evict` start a
session, `Poll` is `write_stdin`; `Drain`, `AdmitDrop`, `Check`, `Rest`, `Select`, `Finish`
are `collect`, and `Terminate`, `Report` what `exec_command` does after it. `shown` and
`dropped` are history.

**TuiRuns** (`tui/model.go` and its neighbours). One action per message the loop takes: the
keys of the user (`Submit`, `Command`, `CtrlC`, `Esc`, `Exit`, `Decide`, `Resume`, `Rewind`,
`Compact`) and what a run does or sends: `Snapshot`, `OnUsage`, `OnPermissionRequest`,
`OnAskUser`, `AskEnds`, and its last message, which is `TakeResponse` of the active run,
`TakeFlush` of a cancelled one and `TakeStale` of any other. A send waits until the loop has
taken it, so the two are one action. `LaunchAfter` and `CancelRun` are the parts that several
keys share; a second Ctrl-C, whose time is abstracted, cancels and exits. `SpecialistEvent` is
what a Task delegation records (`specialist/accounting.go`): the start, the usage and the stop
of a specialist go to the log of the session the run began in, and to that alone, in the
background even when the run is over (`tasks` counts them). `Compact` starts a goroutine of its
own, which plans, records and reads the log beside the loop; to record and to read may fail, as
may the read after a `Rewind`. A log is a sequence of user messages, cancellations, checkpoints,
specialists' events and markers. `landed`, `superseded`, `doomed` and `moved` are history: where
the events of a run were recorded; the runs a command has replaced; those started while leaving;
and those under which the result of a compaction has switched the active session.

`MemoryFollowsLog` says what of "the next prompt is the session as it is on disk" is true of
the code. The specialists' events are never in `sessionEvents`, so after one delegation memory
and log differ until the session is read again: `InStep` compares the two without them. What
the log gains after a compaction has read it is not in the memory its result brings, and a
compaction that is recorded and cannot be read again is in the log alone; so its steps are
exempt, and memory may be behind from then on. But nothing else takes the two apart, and a
resume or a rewind brings them together again. A rewind that cannot read what it left
empties the memory.

**WorkerLease** and **WorkQueue** are abstract: what the pool and the team promise, in a
page each. WorkerLease: a request holds one of `Size` leases from its first worker to its
last, has one worker at a time, and leaves when it is gone. WorkQueue: at most `Slots`
members are served, the others wait in the order they came, none while a slot is free.
`DaemonPool!PoolIsLease` and `SwarmTeam!TeamIsWorkQueue` instantiate them with a refinement
mapping (`LeaseOf(r)` reads the lease off where the request is in `Run`; the holders are the
members at a point with a slot, and `queue` is the queue itself).

Composition: TokenStore takes the steps of FileLock, and TLAPS proves that it implements it,
so that what is proved of the lock holds in the store. TuiRuns takes from AgentLoop that a
run asks and ends, by itself or after a cancellation, and from SessionStore that an append is
one step. CronJobs stands on FileLock through its contract. DaemonServer puts together what DaemonPool, DaemonSession and DaemonInstance
have in detail.

## The runs

Deadlock is not checked: in every module the actors come to an end (requests returned,
clients gone, runs over), and that they do not stop before it is a liveness property where
the code promises it.

| run | instance | states | shows |
|---|---|---|---|
| `pool` | 2 requests, 1 slot, 2 attempts | 67 k | `NoOrphanWorker`, `VerdictJustified`, `PoolIsLease`, `PoolSettles` (`RunsReturn` and `ShutdownCompletes`) |
| `session` | 2 clients, ring of 2, channels of 1, 3 lines, evictions | 563 k | `NoPanic`, `StreamExact`, `FinalFrameTruthful`, `StreamsEnd` |
| `daemon_server` | 2 connections, 2 ids, registry of 1, 2 sessions | 398 k | `RegistryExact`, `CommandDrains`, `ShutdownReturns` |
| `daemon_instance` | 3 daemons over the files of a dead one | 195 k | `SingleUnlessMoved`, `ServerOwnsFiles`, `RefusalJustified` |
| `swarm` | 3 ids, 1 slot, 1 relaunch | 682 k | `NoTaskLost`, `TeamIsWorkQueue`, `TasksSettle` |
| `agent` | 3 turns, 2 calls a reply, 1 stall retry, 1 nudge, 2 empty turns, stop at 2 failures | 2.3 M | `TranscriptValid`, `ProseOnce`, `GateHolds`, `RunEnds` |
| `exec_sessions` | 1 caller, 2 sessions over a table of 1, a buffer of 1, 2 and 1 chunks | 320 k | `ChunksConserved`, `FinalResultComplete`, `NothingLingers` (`CallsReturn` and `StoppedSessionsGo`) |
| `session_store` | an agent and a second process, 3 lines, 2 edits, 2 faults | 877 k | `LogWellFormed`, `AckedIsDurable`, `RewindRestores` |
| `token_store` | 3 operations in 2 processes, 2 keys, a lock left behind or none | 989 k | `ExclusiveUnlessMoved`, `NoUpdateLost`, `SpentOnce` |
| `cron` | 2 schedulers, 1 command, 1 minute passes | 155 k | `ClaimIsExclusive`, `RemovedStaysRemoved`, `DueJobAdvances` |
| `background` | 2 stop calls, all sets of faults | 9.5 k | `StopSticks`, `KillIsClaimed`, `TaskSettles` |
| `tui` | 2 runs with 1 event each (snapshot, usage, question or a specialist's event), 2 sessions, rewinds, 1 compaction, all commands | 3.2 M | `RunsAreRecorded`, `CheckpointsRestorable`, `AskersAreHeard`, `MemoryFollowsLog` |

The type invariant of a module is a conjunct of its first property, or is proved (DaemonPool,
SwarmTeam, FileLock, DaemonInstance, CronJobs, BackgroundTask).

Why the bounds are enough:

* *pool*: with one slot, the second request queues, takes the slot that the first one
  returns and meets each state of the first; two attempts make one retry and one fall out
  of the loop. For larger pools the safety part is proved.
* *session*: three lines through a channel of one and a ring of two make a line that is
  missed, then a gap notice that is delivered or finds the channel full again, and an overflow
  of the ring before and after an attach. The code's sizes, 256 and more, differ only in length.
* *daemon_server*: two sessions over a registry of one make an eviction, of a finished
  session or of none; two connections are one that attaches or commands and one that is
  accepted meanwhile. A connection that is over is another client's, without bound.
* *daemon_instance, token_store*: a reclaim race takes two, and a third is who acquires
  while the file is aside. `Passes` is the code's own 2. Two goroutines of one process and
  one of another make both kinds of race for a token; the second key is the update that a
  save of the first could lose.
* *swarm*: three ids are a running member, a queued one, and the successor that a handoff
  or an adoption mints.
* *agent*: three turns are a nudge, an acceptance request and an answer, or two
  compactions one on top of the other; two calls are one executed and one cut short. The
  code's larger constants repeat the same transitions.
* *cron*: with one minute, a run outlasts its slot, another scheduler claims the next one
  and a stale write moves it back. `MaxTime` bounds the clock, nothing else.
* *exec_sessions*: with a table of one the second start evicts the first session; a buffer of
  one chunk overflows at the second. Two callers on one session (1 session, 3 chunks) were
  checked once for the two safety properties: 5.9 M states, no error.
* *session_store*: two edits make an oldest and a newest snapshot; three lines are two
  checkpoints and a marker, or events on both sides of a torn one. Two faults are a failed
  write or a crash and what comes after it.
* *background*: two stop calls, the exit and the load of another process are all the
  actors there are on a task.
* *tui*: of two runs one is cancelled or replaced while the other works; the second session
  is the one resumed meanwhile, and with one event preserved a log of two is already compacted.
  One event of a run is a snapshot to lose, usage counted or not, a question, or a specialist's
  event beside the loop; each is handled by itself, so that more of them change nothing in the
  loop.

Symmetry is used in `daemon_instance`, where no liveness is checked: its daemons are
interchangeable.

## What the code says and the models refute

The following statements of the code are defined in the modules, next to the line they
quote, and refuted by TLC when they are put in the place of a run's properties:

| definition | in the place of the properties of | what happens |
|---|---|---|
| `GracefulDrainLeavesNone` | `DaemonPool.cfg` | a worker launched but not yet tracked outlives a `Drain` that says "all workers drained gracefully" (`pool.go:339`) |
| `SignalDrains` | `DaemonServer.cfg` | on a signal the process exits while `Shutdown` drains the pool (`server.go:168-169`) |
| `FinalFrameIsItsOwn` | `DaemonServer.cfg` | a session that failed and was pruned between the two lookups of an attach is reported as one that ended (`server.go:317-318`) |
| `LagIsReported` | `DaemonSession.cfg` | drops after the last line that got through are never reported (`session.go:62-66`) |
| `FreshAttachHasAll` | `DaemonSession.cfg` | once the ring has overflowed a fresh attach has not "the full output" (`session.go:72-73`) |
| `SingleInstance` | `DaemonInstance.cfg` | the lock exists before its PID is in it; a second daemon that reads it then reclaims it, and both serve (`lock.go:47-63`) |
| `NoDoubleExecution` | `SwarmTeam.cfg`, `MaxSize = 2` | a task between `Register` and `admit`, or whose member is being launched, is not among the live agents and is adopted: two members execute it (`team.go:313-315`) |
| `HandoffRetiresTask` | `SwarmTeam.cfg` | a task that ends between the check and the mark keeps its outcome, and its successor runs (`lifecycle.go:95-97`) |
| `CancelKeepsSentinel` | `AgentLoop.cfg` | a cancellation during a stall retry is returned as a plain text (`loop.go:282-284`, `339`) |
| `PendingPlanIsIncomplete` | `AgentLoop.cfg` | after the last nudge a plain reply with plan items pending is a complete answer (`types.go:275-280`) |
| `ExitShowsOutput` | `ExecSessions.cfg` | the child prints and exits between `collect` and the look at its exit code: the call reports the exit, removes the session, and the last chunk is never shown (`exec_pty_linux.go:41-46`) |
| `TableBounded` | `ExecSessions.cfg`, 3 starts of silent children | the session chosen for eviction is one that is already being evicted (`exec_command.go:29`, `71-90`) |
| `SlotFiredOnce` | `CronJobs.cfg`, `MaxTime = 2` | the persist after a run that outlasts the minute moves `NextRunAt` back, and the next slot, which another scheduler has claimed, is claimed again (`cron_run.go:137-142`, `238-241`) |
| `Exclusive` | `TokenStore.cfg` | with three contenders: one creates the lock while a racer has the fresh one aside (`cron/lock.go:76-80`) |
| `ReleaseRemovesLock` | `TokenStore.cfg` | a release while a racer has the file aside removes nothing, and the file is put back (`cron/lock.go:26-27`) |
| `SpentOnceAnywhere` | `TokenStore.cfg` | the refresh mutex is one process's: two processes present the same refresh token (`manager.go:331-333`) |
| `LogoutSticks` | `TokenStore.cfg` | a refresh that is on its way at a logout saves its token after it (`manager.go:401-404`) |
| `LogReadable` | `SessionStore.cfg` | a torn last line is dropped "so resume still recovers every complete event" (`store.go:702-704`), but `appendEventLocked` does not look at the tail: after a crash in the middle of an append the next event is joined to the partial line, which is then complete and not JSON; `ReadEvents`, and with it resume, fork and rewind, fails for good (`store.go:610`) |
| `RealExitKept` | `BackgroundTask.cfg` | an exit between the mark and a failed kill is dropped, and the restore makes the task run for ever (`manager.go:363-364`) |
| `EventsReachLog` | `TuiRuns.cfg` | checkpoints are "flushed at end-of-run AND on cancel (flushRunIDs)" (`model.go:4355-4357`); `/init` and the commands of files start a run over a pending one, which is neither cancelled nor kept to be flushed (`init_command.go:18`, `user_commands.go:33`) |
| `ExitLosesNothing` | `TuiRuns.cfg` | while leaving "a new run must not start" (`model.go:3584-3586`); prompts and `/init` are refused then, the commands of files are not (`user_commands.go:33`) |
| `EventsStayHome` | `TuiRuns.cfg` | a run is not to be recorded in "whatever session is active by then" (`model.go:188-191`); a compaction that ends after a resume makes its own session the active one, under a run (`model.go:1906`) |
| `NobodyIsParked` | `TuiRuns.cfg` | the question of a run that a command has replaced is dropped, and nobody answers it (`model.go:1672-1677`, `1707`) |
| `QueueStaysHome` | `TuiRuns.cfg`, `MaxRuns = 3`, `MaxEvents = 0` | a message queued behind a run that is then cancelled stays queued, and is sent in the session that is active when another run ends (`model.go:3864-3866`) |
| `OwnershipWasLost` | `BackgroundTask.cfg` | a second holt process marks the running task of a living one as failed (`manager.go:470`) |

The race in FileLock needs three contenders at a lock past its age limit, and a lock that
was replaced in between: `ExclusiveUnlessMoved` says precisely that.

## Fairness

Safety is checked without any. Liveness assumes only what the code can rely on:

* goroutines run: weak fairness of each goroutine's next step (`RunProgress`, `WorkerStep`,
  `StreamStep`, `GoroutineStep`, `LoopStep`, `SchedulerStep`, `LaunchStep`, `KillStep`).
  Calls from outside (a new request, a spawn, a stop, an attach) are never assumed;
* in DaemonServer `Serve` and `Shutdown` run, the handshake has a deadline, and a closed
  connection fails the reads and writes of its handler. A client of an open one may stay
  silent, or read nothing, for good, and no run of a session is assumed to end;
* in ExecSessions the calls run, timers fire, the retention passes, and a child whose context
  is cancelled is killed and reaped. A child that is not may print for ever;
* in DaemonSession nothing is assumed of the registry (`RegistryStep`);
* TuiRuns claims no liveness: no key is ever assumed to be pressed;
* a send on a full Go channel queues first in, first out: strong fairness of `AcquireSlot`;
* a cancelled context reaches the processes started under it: weak fairness of
  `CancelKills`; `Shutdown`, which cancels, goes on to `Drain`;
* a worker, a member's agent, a background child ends after a while (`WorkerExit` as the
  premise of `RunsReturn`, `MemberEnds`, `ChildExits`), a model stream ends or is timed out.
  `ShutdownCompletes` assumes nothing of the workers;
* `DueJobAdvances` and `TaskSettles` speak of behaviours without faults: with schedulers
  killed for ever, or an exit that cannot be persisted, they do not hold.

## The proofs

`tlapm` proves the following for every value of the constants, from the named assumptions
only (finite sets of requests, positive sizes, names of old files distinct from the
processes').

* **DaemonProofs**, the pool: `PoolTypeCorrect`, `NoOrphans`, `VerdictsJustified`,
  `WorkersAreBounded`, all from `PoolInvariant`. `WorkersBounded` alone is not inductive:
  nothing in it ties the counter to anyone. `PoolInv` adds that `slots` is the number of
  Run calls at a leased point, that a live worker belongs to a Run between launch and wait,
  and that what `runOnce` returned agrees with the exit code and the output until `Judge`.
  Live workers are then a subset of the leases.
  `PoolImplementsLease` is the refinement: each step of the pool is a step of WorkerLease or
  leaves every lease alone. A grant needs the count of leases below `Size`, which is what
  `PoolInv` says of `slots`.
* **SwarmTeamProofs**: `SwarmTypeCorrect`, `SlotsAreExact`, `TeamIsWorkConserving`,
  `NoTaskIsLost`, from `SwarmInvariant`, and `TeamImplementsWorkQueue`: `Admit` serves or
  queues, the four ends of a member free its slot or pass it on, and the rest stutters. The strengthening: ids not minted are untouched,
  the queue holds each queued member once (so that the exit that hands its slot on hands it
  to a member that waits), and members in service serve registered tasks.
* **TokenStoreProofs**, the lock: `FileLockTypeCorrect`, `LockIsExclusive`. Until a fresh
  file is moved, the owner of a file has it at `lockPath`, and what is aside is stale, so
  nothing is restored over another file; two owners would both have the one file there.
  The store: `TokenImplementsLock`: each step of the token store is a step of
  FileLock or leaves the lock alone, so `LockIsExclusive` holds there too. `SavesAreKept`
  stands on it: `TokenInv` says that who is about to write holds the lock and has read the
  file as it is, since nobody else can have written meanwhile.
  `TokensAreSpentOnce`, the refresh: a token is minted for one key only and once
  (`ValuesInv`), and a process that has spent the token of a key holds its mutex until the
  file has another one, so no other operation of it reads the spent token after
  (`SpendingInv`). All of it with an exclusive lock: once a fresh lock is moved, a slow
  operation may write the spent token back over the new one, and the next spends it again.
* **CronJobsProofs**: `ClaimExclusive` and `RemovalIsFinal`, from `CronInvariant`. What is to
  be shown of a claim is that its slot was not claimed before; `ClaimedIsPast` strengthens it
  to: unless a write moved `NextRunAt` back, every claimed slot lies before it, or the job
  cannot be scheduled and is paused for good. For the latter no copy a process holds may
  change whether the schedule is valid (`ValidityKept`).
* **AgentProofs**, the loop: `HistoryIsValid`, `ProseIsShownOnce` and `GateIsKept`, from
  `AgentInvariant`. `TranscriptValid` speaks of what is sent and returned; in between, while
  a batch of tools runs, the history is answered but for the calls from `index` on of the
  batch at its end (`AgentHistory`), which is what lets a cancellation answer the rest and
  a halt or a stop end the batch. A summary is at the second place and before a reply; that
  a compaction keeps it so, and separates no result from its call, follows from where the
  suffix it keeps begins (`BoundaryAtReply`, `SuffixAnswered`, `CompactAnswered`). Prose
  is shown while nothing of the turn is visible yet, and what is visible is not streamed
  again (`AgentProse`).
* **AgentProofs**, the background tasks: `KillClaimed` and `StopIsFinal`, from
  `BackgroundInvariant`: a
  call marks the task only once the pid is recorded, which is the end of the launch
  (`LaunchIsOver`), and at most one bears the mark (`OneClaim`), so nothing else writes the
  entry between a mark and what becomes of it.
* **TuiRunsProofs**: `RecordingsComplete`, `RewindsFindSnapshots`, `OnlyReplacedRunsAreDropped`, from
  `TuiInvariant`: a run that is not done is the active one, or its flush is awaited, or it
  was replaced (`RunsAreHeld`), and what is recorded of it, still to be flushed and still to be
  returned adds up to what it used (`Accounted`). A rewind waits for the active run and for
  the flushes, so the snapshots it prunes are of no event still to come (`SnapshotsKept`);
  a run returns to the session it worked for unless the result of a compaction has switched the
  active session under it (`StaysHome`); such a run is in `moved`, and neither its home nor its
  snapshots are promised, nor is anything of one that a command has replaced. That every
  question is answered is false of the code (`NobodyIsParked`): `OnlyReplacedRunsAreDropped`
  says that only an `ask_user` of a replaced run can be without an answer.
  `OnlyCompactionsPart` is `MemoryFollowsLog`. Two sequences that replay alike but for the
  specialists' events do so after the same is appended to both (`SeenJoins`), after such events
  are appended to one (`SpecialistsUnseen`), and after a replay (`ReplayedTwice`), since the loop
  of a replay goes over parts one by one (`UncoveredJoins`); a rewind leaves a log that is no
  longer a continuation of the old one (`RewindsCutBack`), and reads it again.
* **SessionsProofs**, the sessions of commands: `ChunksAreConserved` and
  `FinalResultIsComplete`, from `ExecInvariant`: every chunk a child wrote is in one place
  (`Apart`, `Placed`): the buffer, the hands of one call, what was shown, or what was dropped,
  and then the buffer says so; and a call that has seen the session done took its last look
  after the child's last chunk (`SeenIsOver`). The numbers in a buffer ascend (`InOrder`), so
  that what a full one drops at its front is apart from what it keeps (`FeedSpills`).
* **SessionsProofs**, the log of a session: `LogIsWellFormed` and `AcknowledgedIsDurable`,
  from `StoreInvariant`. Neither is inductive, for both speak of a log that can be read, and
  a power failure can take the corrupt line that made it unreadable. So `LogOrdered` says of
  each prefix that can be read that it is in order, and `AckedSynced` that an acknowledged
  event is among the synced lines, unless one of these is corrupt, which stays for good. That
  the next event comes after all others, and that a truncation leaves a prefix, holds only of
  a log that is in order (`NextIsAfter`, `TruncateCuts`); `JobFits` has what the holder of the
  lock found out and nobody can change: no record-once event, the line it wrote at the end.
  `RewindsRestore`, from `RewindInvariant`, for the action property `RewindRestores`: the
  oldest snapshot after the target has what the edits before it had made (`SnapshotsTold`),
  every edit rests on a checkpoint that is synced (`EditsLogged`), and a checkpoint whose
  edit is still to come is the last one (`EditorIsLast`), so no edit comes before a snapshot
  that does not have it. What is kept up to the target is then what is kept before that
  snapshot (`SameAreKept`). All of it as long as the workspace has not left the log and no
  synced line is corrupt (`Trusted`), through crashes and power failures; and with one process
  that edits (`OneEditor`, as `Jobs` has it in the run). The hypothesis is needed: of two
  agents in one session that both take their checkpoints before either edits, the second
  snapshot lacks the first edit, and a rewind to between them loses it. An
  agent runs its tools one after another (`loop.go`), but nothing in the code keeps two
  processes from resuming the same session.
* **DaemonServerProofs**, the server: `CommandedShutdownDrains`, from `ServerInvariant`: a
  shutdown that was commanded is over or its handler, for which `Serve` waits, waits for it
  (`CommandIsHeld`); after `Drain` a worker can only be one of a run that was launching
  (`OnlyLate`).
  `RegistryIsExact`, from `RegistryInvariant`: the order of the registry lists each registered
  session once (`Once`), so their numbers agree; the loop that prunes keeps those it does not
  evict (`AmongLists`), and evicts finished sessions only (`EvictedAreFinished`).
* **DaemonServerProofs**, the instance: `InstanceTypeCorrect`, `InstanceIsSingle`, `FilesLeadToServer`,
  `RefusalsJustified`. The same argument with dead for stale, and a second invariant that
  carries the socket and the status file along with the lock. For the refusals, a third:
  a start that nothing disturbs finds at most a dead lock in its first pass and none in its
  second, so it gives up only before a lock whose owner it saw alive.
* **DaemonProofs**, the session stream: `ChannelsSafe`, since a closed channel is never in the set of
  subscribers, nor among those left of a broadcast or of `finish`; and `RingHoldsTheEnd`.
  `StreamsAreExact` and `FinalFramesAreTrue`, from `StreamInvariant`. `StreamExact` speaks of
  registered clients only, and a client is told the end once it is none: `StreamsBalance`
  follows it from its subscription to that frame, through the channel `finish` took over
  (`Lifecycle`: who streams is registered or the session is over, and then prints nothing).
  That the frame is the session's own outcome has the exception the code has, and which
  `FinalFrameIsItsOwn` shows: the client attached, and the registry had lost the session when
  its handler asked again.
  One item more takes a stream where that item takes it (`AfterOneMore`), and what is
  received was already in the channel, so only a visit of `Line` moves the balance.

Only model-checked: all liveness (TLAPS proves none under fairness). Every invariant and
every other action property of a run is a theorem.

## What is not modelled

* In modelled components: time (delays, backoff, ages are "some time"); the text of
  messages, lines and errors; PIDs given to a new process; in AgentLoop the switch of the
  model, deferred tools and the content of self-correction; `Add` of a cron job. In
  SessionStore fork, titles, spec records and compaction plans, and the snapshots
  of the terminal interface, taken without the session's lock; several files behave as one, since
  each path is restored on its own. In ExecSessions the characters written to a child and
  the snapshots for status views. In TokenStore the keyring, which has no lock file, the
  mutex of one `Store`, and `scheduler.go`, which only calls the manager. In TuiRuns the
  creation of a session, stores that fail (but for a compaction's, a specialist's and the read
  after a rewind), `/rewind <n>` (only the last checkpoint is rewound to), a compactor given
  from outside, spec mode, side questions, titles and recaps, and what is drawn. The daemon's
  client and the remote bridge, which are one connection each to the same server.
* `mcp`, `acp`, `hooks`, `lsp`, `sandbox`, the swarm's scheduler and mailbox: planned, see
  below; none is reached by the models.
* `providers`, `config`, `credstore`, `keyring`, `plugins`, `skills`, `modelregistry`,
  `repomap`, `search`, `worktrees`, `usage`, `notify`, `update`, `doctor`: sequential code
  or pure I/O, well within the reach of tests.
* `tui` but for its runs: drawing, wizards, pickers, selection. `cli`: argument parsing, but
  for what drives cron and the daemon, which is in their modules.
* `agenteval`, `perfbench`, `release`: developer tooling.

## The plan

Done, in this order: the pool, the session stream, the team, the agent loop, cron, the lock
file, the background task, the single instance; then the session store, the control server,
the token store on the lock, the interactive shells, the two abstract specifications
with their refinements; the runs of the terminal interface. What a further step would take up:

1. *SwarmScheduler* (DAG and timers over the team) and *Mailbox* (send, consume, crash).
2. The requests of `mcp/client.go` and the prompts of `acp/agent.go`, which race their
   cancellations; *HookAudit*, the numbers of the audit log under FileLock; the versions of
   LSP documents.
3. *SessionStore* with fork and compaction; *CronJobs* with `Add`.
4. An abstract lossy FIFO with exact counts that DaemonSession implements, and an abstract
   log that SessionStore implements as long as it can be read.
