------------------------------- MODULE CronJobs -------------------------------
(***************************************************************************)
(* One job of the cron store (internal/cron/store.go), the schedulers that *)
(* fire it (internal/cli/cron_run.go) and the commands that pause, resume  *)
(* and remove it (internal/cli/cron.go), each a process of its own.  The   *)
(* job is a file; the per-job lock makes Update, Mutate, Remove and        *)
(* AppendRun steps (module FileLock has the lock itself), while List and   *)
(* Get read without it.  The job is due every minute, the unit of time.    *)
(***************************************************************************)
EXTENDS Naturals, FiniteSets

CONSTANTS Schedulers,  \* processes of "holt cron run"
          Commands,    \* processes of "holt cron pause", "resume" and "remove"
          MaxTime      \* bound: minutes that pass

ASSUME CronAssumption == Schedulers # {} /\ MaxTime \in Nat

Times == 0..(MaxTime + 1)

VARIABLES now,      \* the minute it is
          exists,   \* the job's metadata file exists
          job,      \* its contents
          runs,     \* records in runs.jsonl
          pc,       \* where each process is
          copy,     \* the job as the process read it
          fired,    \* fireJob's fired, of each scheduler
          slots,    \* the claims of each value of NextRunAt
          rewound,  \* a write moved NextRunAt back
          faulty    \* in this behaviour schedulers are killed, locks time out and writes fail

cronVars == <<now, exists, job, runs, pc, copy, fired, slots, rewound, faulty>>

Processes == Schedulers \union Commands
Jobs == [status : {"active", "paused"}, next : Times, count : Nat, valid : BOOLEAN]

CronInit ==
    /\ now = 0
    /\ exists = TRUE
    /\ job \in [status : {"active"}, next : {0}, count : {0}, valid : BOOLEAN]
    /\ runs = 0
    /\ pc = [p \in Processes |-> IF p \in Schedulers THEN "start" ELSE "idle"]
    /\ copy = [p \in Processes |-> job]
    /\ fired = [s \in Schedulers |-> 0]
    /\ slots = [t \in Times |-> 0]
    /\ rewound = FALSE
    /\ faulty \in BOOLEAN

Goto(p, from, to) == pc[p] = from /\ pc' = [pc EXCEPT ![p] = to]

\* The job is read without the lock.
Read(p) == exists /\ copy' = [copy EXCEPT ![p] = job]

\* writeJob of an existing job.
Write(j) == job' = j /\ rewound' = (rewound \/ j.next < job.next)

Due(j, t) == j.status = "active" /\ j.next <= t

Clock ==
    /\ now < MaxTime
    /\ now' = now + 1
    /\ UNCHANGED <<exists, job, runs, pc, copy, fired, slots, rewound, faulty>>

-----------------------------------------------------------------------------
(* A scheduler *)

\* cronRun begins: with --catch-up or a job not overdue there is nothing to skip.
Start(s) ==
    /\ Goto(s, "start", "idle")
    /\ UNCHANGED <<now, exists, job, runs, copy, fired, slots, rewound, faulty>>

\* reconcileOverdue lists the jobs and finds this one strictly overdue.
ReconcileList(s) ==
    /\ Goto(s, "start", "reconcile")
    /\ Read(s)
    /\ job.status = "active" /\ job.next < now /\ job.valid
    /\ UNCHANGED <<now, exists, job, runs, fired, slots, rewound, faulty>>

\* It is rescheduled: Update of the copy, under the lock.
ReconcileUpdate(s) ==
    /\ Goto(s, "reconcile", "idle")
    /\ IF exists THEN Write([copy[s] EXCEPT !.next = now + 1]) ELSE UNCHANGED <<job, rewound>>
    /\ UNCHANGED <<now, exists, runs, copy, fired, slots, faulty>>

\* fireDue lists the jobs and finds this one due.
List(s) ==
    /\ Goto(s, "idle", "listed")
    /\ Read(s)
    /\ Due(job, now)
    /\ UNCHANGED <<now, exists, job, runs, fired, slots, rewound, faulty>>

\* fireJob takes the time; other due jobs may have been fired since the listing.
Begin(s) ==
    /\ Goto(s, "listed", "claim")
    /\ fired' = [fired EXCEPT ![s] = now]
    /\ UNCHANGED <<now, exists, job, runs, copy, slots, rewound, faulty>>

\* The slot that follows the fire; a schedule that has none pauses the job.
Advanced(j, t) == IF j.valid THEN [j EXCEPT !.next = t + 1] ELSE [j EXCEPT !.status = "paused"]

\* Mutants of Claim: the due check is left to the listing; a job that is due is
\* taken for one that another scheduler has claimed.
ClaimUnchecked(s) ==
    /\ pc[s] = "claim"
    /\ exists /\ job.status = "active"
    /\ pc' = [pc EXCEPT ![s] = "exec"]
    /\ Write(Advanced(job, fired[s]))
    /\ slots' = [slots EXCEPT ![job.next] = @ + 1]
    /\ UNCHANGED <<now, exists, runs, copy, fired, faulty>>
ClaimStuck(s) ==
    /\ pc[s] = "claim"
    /\ exists /\ Due(job, now + 1)
    /\ pc' = [pc EXCEPT ![s] = "idle"]
    /\ UNCHANGED <<now, exists, job, runs, copy, fired, slots, rewound, faulty>>

\* claimFire: the job as it is now decides, and is advanced, under the lock.
Claim(s) ==
    /\ pc[s] = "claim"
    /\ IF exists /\ Due(job, fired[s])
       THEN /\ pc' = [pc EXCEPT ![s] = "exec"]
            /\ Write(Advanced(job, fired[s]))
            /\ slots' = [slots EXCEPT ![job.next] = @ + 1]
       ELSE pc' = [pc EXCEPT ![s] = "idle"] /\ UNCHANGED <<job, slots, rewound>>
    /\ UNCHANGED <<now, exists, runs, copy, fired, faulty>>

\* The claim fails: the lock times out or the job cannot be read.
ClaimFails(s) ==
    /\ faulty
    /\ Goto(s, "claim", "idle")
    /\ UNCHANGED <<now, exists, job, runs, copy, fired, slots, rewound, faulty>>

\* The run of "holt exec" ends.
ExecEnds(s) ==
    /\ Goto(s, "exec", "persist")
    /\ UNCHANGED <<now, exists, job, runs, copy, fired, slots, rewound, faulty>>

\* What fireJob makes of its copy of the job, after the run.
Counted(s) == LET j == Advanced(copy[s], fired[s]) IN [j EXCEPT !.count = @ + 1]

\* The copy is written, under the lock, unless the job was removed; the pause of
\* a job that could be read again is kept.
Persist(s) ==
    /\ pc[s] = "persist"
    /\ IF exists
       THEN /\ pc' = [pc EXCEPT ![s] = "record"]
            /\ \E readable \in BOOLEAN :
                  Write(IF readable /\ job.status = "paused"
                        THEN [Counted(s) EXCEPT !.status = "paused"]
                        ELSE Counted(s))
       ELSE pc' = [pc EXCEPT ![s] = "idle"] /\ UNCHANGED <<job, rewound>>
    /\ UNCHANGED <<now, exists, runs, copy, fired, slots, faulty>>

\* The lock times out, or the write fails: the fire is recorded nevertheless.
PersistFails(s) ==
    /\ faulty
    /\ Goto(s, "persist", "record")
    /\ UNCHANGED <<now, exists, job, runs, copy, fired, slots, rewound, faulty>>

\* Mutant of Record: the directory of a removed job is made again.
RecordAnyway(s) ==
    /\ Goto(s, "record", "idle")
    /\ runs' = runs + 1
    /\ UNCHANGED <<now, exists, job, copy, fired, slots, rewound, faulty>>

\* AppendRun, under the lock, unless the job was removed.
Record(s) ==
    /\ Goto(s, "record", "idle")
    /\ runs' = IF exists THEN runs + 1 ELSE runs
    /\ UNCHANGED <<now, exists, job, copy, fired, slots, rewound, faulty>>

\* The scheduler is killed, and started again.
Crash(s) ==
    /\ faulty
    /\ pc[s] # "start"
    /\ pc' = [pc EXCEPT ![s] = "start"]
    /\ UNCHANGED <<now, exists, job, runs, copy, fired, slots, rewound, faulty>>

-----------------------------------------------------------------------------
(* A command *)

\* cronSetStatus and cronResume read the job ...
CommandGet(c) ==
    /\ \/ Goto(c, "idle", "pause")
       \/ Goto(c, "idle", "resume") /\ job.valid
    /\ Read(c)
    /\ UNCHANGED <<now, exists, job, runs, fired, slots, rewound, faulty>>

\* ... and write their copy of it under the lock, if the job is still there.
CommandUpdate(c) ==
    /\ \/ /\ Goto(c, "pause", "over")
          /\ IF exists THEN Write([copy[c] EXCEPT !.status = "paused"]) ELSE UNCHANGED <<job, rewound>>
       \/ /\ Goto(c, "resume", "over")
          /\ IF exists THEN Write([copy[c] EXCEPT !.status = "active", !.next = now + 1])
             ELSE UNCHANGED <<job, rewound>>
    /\ UNCHANGED <<now, exists, runs, copy, fired, slots, faulty>>

CommandRemove(c) ==
    /\ Goto(c, "idle", "over")
    /\ exists
    /\ exists' = FALSE
    /\ runs' = 0
    /\ UNCHANGED <<now, job, copy, fired, slots, rewound, faulty>>

-----------------------------------------------------------------------------

SchedulerStep(s) ==
    \/ Start(s) \/ ReconcileList(s) \/ ReconcileUpdate(s) \/ List(s) \/ Begin(s)
    \/ Claim(s) \/ ExecEnds(s) \/ Persist(s) \/ Record(s)

CommandStep(c) == CommandGet(c) \/ CommandUpdate(c) \/ CommandRemove(c)

CronNext ==
    \/ Clock
    \/ \E s \in Schedulers : SchedulerStep(s) \/ ClaimFails(s) \/ PersistFails(s) \/ Crash(s)
    \/ \E c \in Commands : CommandStep(c)

CronSpec == CronInit /\ [][CronNext]_cronVars

\* Each scheduler goes on, and its runs end.
FairCronSpec == CronSpec /\ \A s \in Schedulers : WF_cronVars(SchedulerStep(s))

-----------------------------------------------------------------------------
(* Properties *)

CronTypeOK ==
    /\ now \in 0..MaxTime
    /\ exists \in BOOLEAN
    /\ job \in Jobs
    /\ runs \in Nat
    /\ pc \in [Processes -> {"start", "reconcile", "idle", "listed", "claim", "exec", "persist",
                             "record", "pause", "resume", "over"}]
    /\ copy \in [Processes -> Jobs]
    /\ fired \in [Schedulers -> 0..MaxTime]
    /\ slots \in [Times -> Nat]
    /\ rewound \in BOOLEAN /\ faulty \in BOOLEAN

\* claimFire: however many schedulers list the same due job, one of them fires a
\* slot, also of a job that cannot be advanced; as long as no write of an older
\* copy moves NextRunAt back.
ClaimIsExclusive ==
    /\ CronTypeOK
    /\ ~rewound => \A t \in Times : slots[t] <= 1

\* A removed job stays removed: no scheduler and no command writes it or its run
\* log again, whatever copies they hold (store.go Update, Mutate, AppendRun).
RemovedStaysRemoved == [][~exists => ~exists' /\ runs' = 0]_cronVars

\* Without faults, a due job is fired or is no longer due: no slot waits forever
\* for a claim.
DueJobAdvances ==
    \A t \in Times : ~faulty /\ exists /\ Due(job, now) /\ job.next = t
                     ~> ~exists \/ job.status = "paused" \/ job.next # t

\* The comments of fireJob and claimFire (cron_run.go:137-142 and 238-241): the
\* schedulers "can't both execute the same due job", "so a valid recurring job
\* never double-fires"; here where nothing fails.
SlotFiredOnce == ~faulty => \A t \in Times : slots[t] <= 1

=============================================================================
