----------------------------- MODULE DaemonPool -----------------------------
(***************************************************************************)
(* The daemon's bounded worker pool (internal/daemon/pool.go): every call  *)
(* of Pool.Run is a goroutine that leases a slot, launches a worker        *)
(* process, pumps its output, judges its exit code and perhaps retries,    *)
(* while Drain and the cancellation of the runs' context end it early.     *)
(* One action is one step between two points where another goroutine, a    *)
(* worker process or a timer can intervene.                                *)
(***************************************************************************)
EXTENDS Naturals, FiniteSets

CONSTANTS Requests,     \* the calls of Pool.Run, one goroutine each
          Size,         \* PoolOptions.Size: lease slots
          MaxAttempts   \* PoolOptions.MaxAttempts: first attempt + retries

ASSUME PoolAssumption == /\ IsFiniteSet(Requests)
                         /\ Size \in Nat \ {0}
                         /\ MaxAttempts \in Nat \ {0}

VARIABLES pc,         \* where each Run call is
          attempt,    \* Run's loop variable, 0 before the loop
          worker,     \* the worker process of the current attempt
          code,       \* exit code of the last worker that ended
          unread,     \* output of the current worker not yet handed to the sink
          outcome,    \* what runOnce returned for the last attempt
          verdict,    \* what Run returned
          slots,      \* len(p.slots)
          active,     \* p.active: tracked handles, by worker id
          draining,   \* p.draining, and p.drained being closed
          drain,      \* where the one Drain call is
          killSet,    \* the handles Drain copied to kill
          cancelled   \* the runs' context is cancelled

poolVars == <<pc, attempt, worker, code, unread, outcome, verdict, slots,
              active, draining, drain, killSet, cancelled>>

-----------------------------------------------------------------------------

Codes == {"ok", "tempfail", "permanent", "crash"}  \* exit 0, 75, 76, any other

\* Run's program points at which it owns a lease slot.
Leased == {"loop", "launch", "track", "pump", "kill", "wait", "untrack",
           "judge", "cooloff", "backoff"}

PoolInit ==
    /\ pc = [r \in Requests |-> "idle"]
    /\ attempt = [r \in Requests |-> 0]
    /\ worker = [r \in Requests |-> "none"]
    /\ code = [r \in Requests |-> "none"]
    /\ unread = [r \in Requests |-> FALSE]
    /\ outcome = [r \in Requests |-> "none"]
    /\ verdict = [r \in Requests |-> "none"]
    /\ slots = 0
    /\ active = {}
    /\ draining = FALSE
    /\ drain = "idle"
    /\ killSet = {}
    /\ cancelled = FALSE

Goto(r, from, to) == pc[r] = from /\ pc' = [pc EXCEPT ![r] = to]

\* Mutant of Return: the release is never deferred.
ReturnNeverReleases(r, from, v) ==
    Goto(r, from, "done") /\ verdict' = [verdict EXCEPT ![r] = v] /\ slots' = slots

\* Run returns v; the deferred release frees the slot it holds, if any.
Return(r, from, v) ==
    /\ Goto(r, from, "done")
    /\ verdict' = [verdict EXCEPT ![r] = v]
    /\ slots' = IF from \in Leased THEN slots - 1 ELSE slots

-----------------------------------------------------------------------------
(* acquire *)

\* The draining check at the head of acquire.
AcquireCheck(r) ==
    /\ IF draining
       THEN Return(r, "idle", "draining")
       ELSE Goto(r, "idle", "acquire") /\ UNCHANGED <<verdict, slots>>
    /\ UNCHANGED <<attempt, worker, code, unread, outcome, active, draining,
                   drain, killSet, cancelled>>

\* Mutant of AcquireSlot: room for one lease too many.
AcquireSlotOffByOne(r) ==
    /\ slots <= Size
    /\ Goto(r, "acquire", "loop")
    /\ slots' = slots + 1
    /\ attempt' = [attempt EXCEPT ![r] = 1]
    /\ UNCHANGED <<worker, code, unread, outcome, verdict, active, draining,
                   drain, killSet, cancelled>>

\* The select of acquire takes a slot; Run goes on to its first attempt.
AcquireSlot(r) ==
    /\ slots < Size
    /\ Goto(r, "acquire", "loop")
    /\ slots' = slots + 1
    /\ attempt' = [attempt EXCEPT ![r] = 1]
    /\ UNCHANGED <<worker, code, unread, outcome, verdict, active, draining,
                   drain, killSet, cancelled>>

\* The select of acquire takes ctx.Done() or the closed drained channel.
AcquireAbort(r) ==
    /\ \/ cancelled /\ Return(r, "acquire", "cancelled")
       \/ draining /\ Return(r, "acquire", "draining")
    /\ UNCHANGED <<attempt, worker, code, unread, outcome, active, draining,
                   drain, killSet, cancelled>>

-----------------------------------------------------------------------------
(* The attempt loop of Run *)

LoopCheck(r) ==
    /\ IF draining
       THEN Return(r, "loop", "draining")
       ELSE Goto(r, "loop", "launch") /\ UNCHANGED <<verdict, slots>>
    /\ UNCHANGED <<attempt, worker, code, unread, outcome, active, draining,
                   drain, killSet, cancelled>>

\* The launcher starts a process: exec.CommandContext refuses a done context.
Launch(r) ==
    /\ ~cancelled
    /\ Goto(r, "launch", "track")
    /\ worker' = [worker EXCEPT ![r] = "running"]
    /\ unread' = [unread EXCEPT ![r] = TRUE]
    /\ UNCHANGED <<attempt, code, outcome, verdict, slots, active, draining,
                   drain, killSet, cancelled>>

\* The launcher fails: for certain under a done context, or for its own reasons.
LaunchFails(r) ==
    /\ Goto(r, "launch", "judge")
    /\ outcome' = [outcome EXCEPT ![r] = "error"]
    /\ UNCHANGED <<attempt, worker, code, unread, verdict, slots, active,
                   draining, drain, killSet, cancelled>>

Track(r) ==
    /\ Goto(r, "track", "pump")
    /\ active' = active \union {r}
    /\ UNCHANGED <<attempt, worker, code, unread, outcome, verdict, slots,
                   draining, drain, killSet, cancelled>>

\* lines.Next reports the end of the stream: the worker has exited and all its
\* output went to the sink.
PumpEOF(r) ==
    /\ worker[r] = "exited"
    /\ Goto(r, "pump", "wait")
    /\ unread' = [unread EXCEPT ![r] = FALSE]
    /\ UNCHANGED <<attempt, worker, code, outcome, verdict, slots, active,
                   draining, drain, killSet, cancelled>>

\* lines.Next fails with output still unread; runOnce turns to killing the worker.
PumpError(r) ==
    /\ Goto(r, "pump", "kill")
    /\ UNCHANGED <<attempt, worker, code, unread, outcome, verdict, slots,
                   active, draining, drain, killSet, cancelled>>

\* A terminated process counts as exited with a code of its signal (-1).
Exits(r, c) ==
    /\ worker' = [worker EXCEPT ![r] = "exited"]
    /\ code' = [code EXCEPT ![r] = c]

\* Kill(h) on a handle whose process already ended does nothing.
Terminate(r) ==
    IF worker[r] = "running" THEN Exits(r, "crash") ELSE UNCHANGED <<worker, code>>

\* Mutants of KillAndWait: the worker is left running; its exit code is returned.
AbandonWorker(r) ==
    /\ Goto(r, "kill", "untrack")
    /\ outcome' = [outcome EXCEPT ![r] = "error"]
    /\ UNCHANGED <<attempt, worker, code, unread, verdict, slots, active,
                   draining, drain, killSet, cancelled>>
KillAndTrustCode(r) ==
    /\ Goto(r, "kill", "untrack")
    /\ Terminate(r)
    /\ outcome' = [outcome EXCEPT ![r] = code'[r]]
    /\ UNCHANGED <<attempt, unread, verdict, slots, active, draining, drain,
                   killSet, cancelled>>

\* runOnce after a read error: Kill, then Wait, whose code is discarded.
KillAndWait(r) ==
    /\ Goto(r, "kill", "untrack")
    /\ Terminate(r)
    /\ outcome' = [outcome EXCEPT ![r] = "error"]
    /\ UNCHANGED <<attempt, unread, verdict, slots, active, draining, drain,
                   killSet, cancelled>>

\* handle.Wait returns the exit code; a clean exit under a context whose
\* cancellation already reached the process is reported as the context's error.
Wait(r) ==
    /\ worker[r] = "exited"
    /\ Goto(r, "wait", "untrack")
    /\ \E o \in {code[r]} \union (IF cancelled /\ code[r] = "ok" THEN {"error"} ELSE {}) :
          outcome' = [outcome EXCEPT ![r] = o]
    /\ UNCHANGED <<attempt, worker, code, unread, verdict, slots, active,
                   draining, drain, killSet, cancelled>>

Untrack(r) ==
    /\ Goto(r, "untrack", "judge")
    /\ active' = active \ {r}
    /\ UNCHANGED <<attempt, worker, code, unread, outcome, verdict, slots,
                   draining, drain, killSet, cancelled>>

\* The switch of Run on what runOnce returned.
Judge(r) ==
    /\ \/ outcome[r] = "ok" /\ Return(r, "judge", "ok")
       \/ outcome[r] = "permanent" /\ Return(r, "judge", "permanent")
       \/ outcome[r] = "error" /\ cancelled /\ Return(r, "judge", "cancelled")
       \/ /\ outcome[r] = "tempfail"
          /\ Goto(r, "judge", "cooloff")
          /\ UNCHANGED <<verdict, slots>>
       \/ /\ outcome[r] = "crash" \/ (outcome[r] = "error" /\ ~cancelled)
          /\ IF attempt[r] = MaxAttempts
             THEN Return(r, "judge", "permanent")
             ELSE Goto(r, "judge", "backoff") /\ UNCHANGED <<verdict, slots>>
    /\ UNCHANGED <<attempt, worker, code, unread, outcome, active, draining,
                   drain, killSet, cancelled>>

\* The sleep before a retry ends by its timer; the loop counts one attempt more
\* and falls out of the loop past the cap.
Retry(r) ==
    /\ \E from \in {"cooloff", "backoff"} :
          IF attempt[r] < MaxAttempts
          THEN /\ Goto(r, from, "loop")
               /\ attempt' = [attempt EXCEPT ![r] = @ + 1]
               /\ UNCHANGED <<verdict, slots>>
          ELSE Return(r, from, "permanent") /\ UNCHANGED attempt
    /\ UNCHANGED <<worker, code, unread, outcome, active, draining, drain,
                   killSet, cancelled>>

\* The sleep is cut short by the cancelled context.
SleepCancelled(r) ==
    /\ cancelled
    /\ \E from \in {"cooloff", "backoff"} : Return(r, from, "cancelled")
    /\ UNCHANGED <<attempt, worker, code, unread, outcome, active, draining,
                   drain, killSet, cancelled>>

-----------------------------------------------------------------------------
(* Worker processes *)

WorkerExit(r) ==
    /\ worker[r] = "running"
    /\ \E c \in Codes : Exits(r, c)
    /\ UNCHANGED <<pc, attempt, unread, outcome, verdict, slots, active,
                   draining, drain, killSet, cancelled>>

\* Mutant of CancelKills: the cancelled context does not reach the process.
CancelIgnored(r) ==
    cancelled /\ worker[r] = "running" /\ UNCHANGED poolVars

\* exec's watcher of the context runs cmd.Cancel: terminate the process group.
CancelKills(r) ==
    /\ cancelled
    /\ worker[r] = "running"
    /\ Exits(r, "crash")
    /\ UNCHANGED <<pc, attempt, unread, outcome, verdict, slots, active,
                   draining, drain, killSet, cancelled>>

-----------------------------------------------------------------------------
(* Drain, and the owner of the context *)

Cancel ==
    /\ ~cancelled
    /\ cancelled' = TRUE
    /\ UNCHANGED <<pc, attempt, worker, code, unread, outcome, verdict, slots,
                   active, draining, drain, killSet>>

DrainBegin ==
    /\ drain = "idle"
    /\ drain' = "grace"
    /\ draining' = TRUE
    /\ UNCHANGED <<pc, attempt, worker, code, unread, outcome, verdict, slots,
                   active, killSet, cancelled>>

\* A poll of the grace window finds no tracked worker.
DrainIdle ==
    /\ drain = "grace"
    /\ active = {}
    /\ drain' = "graceful"
    /\ UNCHANGED <<pc, attempt, worker, code, unread, outcome, verdict, slots,
                   active, draining, killSet, cancelled>>

\* KillTimeout elapses: copy the tracked handles under the lock.
DrainTimeout ==
    /\ drain = "grace"
    /\ drain' = "killing"
    /\ killSet' = active
    /\ UNCHANGED <<pc, attempt, worker, code, unread, outcome, verdict, slots,
                   active, draining, cancelled>>

DrainKill ==
    /\ drain = "killing"
    /\ \E r \in killSet : Terminate(r) /\ killSet' = killSet \ {r}
    /\ UNCHANGED <<pc, attempt, unread, outcome, verdict, slots, active,
                   draining, drain, cancelled>>

DrainEnd ==
    /\ drain = "killing"
    /\ killSet = {}
    /\ drain' = "forced"
    /\ UNCHANGED <<pc, attempt, worker, code, unread, outcome, verdict, slots,
                   active, draining, killSet, cancelled>>

-----------------------------------------------------------------------------

\* The steps of the goroutine that runs request r, but for a failing read.
RunProgress(r) ==
    \/ AcquireCheck(r) \/ AcquireSlot(r) \/ AcquireAbort(r)
    \/ LoopCheck(r) \/ Launch(r) \/ LaunchFails(r) \/ Track(r)
    \/ PumpEOF(r) \/ KillAndWait(r) \/ Wait(r) \/ Untrack(r)
    \/ Judge(r) \/ Retry(r) \/ SleepCancelled(r)

RunStep(r) == RunProgress(r) \/ PumpError(r)

DrainStep == DrainIdle \/ DrainTimeout \/ DrainKill \/ DrainEnd

PoolNext ==
    \/ \E r \in Requests : RunStep(r) \/ WorkerExit(r) \/ CancelKills(r)
    \/ Cancel \/ DrainBegin \/ DrainStep

PoolSpec == PoolInit /\ [][PoolNext]_poolVars

\* Goroutines run; a select on a full channel queues its senders first in, first
\* out (strong fairness of AcquireSlot); a cancelled context kills the processes
\* started under it; Server.Shutdown, which cancels it, goes on to call Drain.
FairPoolSpec ==
    /\ PoolSpec
    /\ \A r \in Requests : /\ WF_poolVars(RunProgress(r))
                           /\ SF_poolVars(AcquireSlot(r))
                           /\ WF_poolVars(CancelKills(r))
    /\ WF_poolVars(cancelled /\ DrainBegin)
    /\ WF_poolVars(DrainStep)

-----------------------------------------------------------------------------
(* Properties *)

PoolTypeOK ==
    /\ pc \in [Requests -> {"idle", "acquire", "done"} \union Leased]
    /\ attempt \in [Requests -> 0..MaxAttempts]
    /\ worker \in [Requests -> {"none", "running", "exited"}]
    /\ code \in [Requests -> Codes \union {"none"}]
    /\ unread \in [Requests -> BOOLEAN]
    /\ outcome \in [Requests -> Codes \union {"none", "error"}]
    /\ verdict \in [Requests -> {"none", "ok", "permanent", "cancelled", "draining"}]
    /\ slots \in 0..Size
    /\ active \in SUBSET Requests
    /\ draining \in BOOLEAN
    /\ drain \in {"idle", "grace", "graceful", "killing", "forced"}
    /\ killSet \in SUBSET Requests
    /\ cancelled \in BOOLEAN

Live == {r \in Requests : worker[r] = "running"}

\* The pool as its callers see it.
LeaseOf(r) ==
    IF worker[r] = "running" THEN "busy"
    ELSE IF pc[r] \in Leased THEN "idle"
    ELSE IF pc[r] = "done" THEN "left" ELSE "out"

Lease == INSTANCE WorkerLease WITH lease <- [r \in Requests |-> LeaseOf(r)]

\* The pool implements WorkerLease: through retries, read errors, kills, drains and
\* cancellations a Run has one worker at a time, under a lease that it gives back when that
\* worker is gone (pool.go Run, runOnce, acquire, release).
PoolIsLease == Lease!LeaseSpec

\* Never more worker processes alive than the pool has lease slots, across
\* retries, read errors, kills and drains: a Run gives its slot back only when
\* its worker is gone (pool.go Run, runOnce, release).
WorkersBounded == Cardinality(Live) <= Size

\* A Run that has returned, sleeps before a retry or judges an attempt has no
\* worker alive, so no process outlives its request whatever path ended it, and
\* the worker of a later attempt never runs beside an earlier one.
NoOrphanWorker == \A r \in Live : pc[r] \in {"track", "pump", "kill", "wait"}

\* What Run returns is what happened: success only of a worker that exited 0 and
\* whose whole output reached the sink (the D1 comment of runOnce); a permanent
\* failure only of exit 76 or after every attempt was spent; an abort only of a
\* cancelled context or a drain.
VerdictJustified ==
    \A r \in Requests :
        /\ pc[r] = "done" <=> verdict[r] # "none"
        /\ verdict[r] = "ok" => code[r] = "ok" /\ ~unread[r]
        /\ verdict[r] = "permanent" => code[r] = "permanent" \/ attempt[r] = MaxAttempts
        /\ verdict[r] = "cancelled" => cancelled
        /\ verdict[r] = "draining" => draining

\* What the graceful return of Drain claims: "all workers drained gracefully"
\* (pool.go, in Drain), so that no worker is alive after it.
GracefulDrainLeavesNone == drain = "graceful" => Live = {}

\* If every worker process ends after a while, every Run that queues for a slot
\* returns: the slots are given back on each path, and the retries are bounded.
RunsReturn ==
    (\A r \in Requests : WF_poolVars(WorkerExit(r)))
        => \A r \in Requests : pc[r] = "acquire" ~> pc[r] = "done"

\* A shutdown (cancel, then Drain) ends with every queued or running Run
\* returned and no worker alive, though no worker would have ended by itself.
ShutdownCompletes ==
    cancelled ~> /\ drain \in {"graceful", "forced"}
                 /\ Live = {}
                 /\ \A r \in Requests : pc[r] \in {"idle", "done"}

\* Nobody waits on the pool for ever: neither a Run for a slot nor the shutdown for a Run.
PoolSettles == RunsReturn /\ ShutdownCompletes

=============================================================================
