---------------------------- MODULE CronJobsProofs ----------------------------
(***************************************************************************)
(* Proofs about CronJobs, for any schedulers and commands: a slot is       *)
(* claimed once as long as NextRunAt is not moved back, for a job that can *)
(* be advanced because every claimed slot lies before NextRunAt, for one   *)
(* that cannot because its claim pauses it for good; and what is removed   *)
(* stays removed.                                                          *)
(***************************************************************************)
EXTENDS CronJobs, TLAPS

USE CronAssumption

\* The schedule of a job never changes, and the steps that leave or make a job active
\* without a claim are taken with a schedule that has a next slot only.
ValidityKept ==
    \A p \in Processes :
        /\ copy[p].valid = job.valid
        /\ pc[p] \in {"reconcile", "resume"} => job.valid

\* A claimed slot cannot become due again.
ClaimedIsPast ==
    ~rewound => \A t \in Times : slots[t] # 0 =>
        /\ slots[t] = 1
        /\ t < job.next \/ (~job.valid /\ job.status = "paused")

NothingLeft == ~exists => runs = 0

CronInv == CronTypeOK /\ ValidityKept /\ ClaimedIsPast /\ NothingLeft

\* The job, rescheduled.
LEMMA RescheduledJob ==
  ASSUME NEW j \in Jobs, NEW t \in Times
  PROVE  /\ [j EXCEPT !.next = t] \in Jobs
         /\ [j EXCEPT !.next = t].valid = j.valid
         /\ [j EXCEPT !.status = "active", !.next = t] \in Jobs
         /\ [j EXCEPT !.status = "active", !.next = t].valid = j.valid
  BY DEF Jobs

\* What becomes of the job when it is fired, or written from a copy.
LEMMA AdvancedJob ==
  ASSUME NEW j \in Jobs, NEW t \in 0..MaxTime
  PROVE  /\ Advanced(j, t) \in Jobs
         /\ Advanced(j, t).valid = j.valid
         /\ j.valid => Advanced(j, t).next = t + 1
         /\ ~j.valid => Advanced(j, t).status = "paused" /\ Advanced(j, t).next = j.next
  BY DEF Advanced, Jobs, Times

\* A write that keeps the schedule, and of an invalid job a pause, keeps the claimed
\* slots in the past, or moves NextRunAt back.
LEMMA WriteKeeps ==
  ASSUME CronInv, NEW j \in Jobs, Write(j), UNCHANGED slots,
         j.valid = job.valid, ~j.valid => j.status = "paused"
  PROVE  ClaimedIsPast' /\ job' \in Jobs /\ job'.valid = job.valid /\ rewound' \in BOOLEAN
<1>1. job' = j /\ rewound' = (rewound \/ j.next < job.next)
  BY DEF Write
<1>2. job \in Jobs /\ rewound \in BOOLEAN
  BY DEF CronInv, CronTypeOK
<1>3. job.next \in Nat /\ j.next \in Nat
  BY <1>2 DEF Jobs, Times
<1>4. ASSUME ~rewound', NEW t \in Times, slots'[t] # 0
      PROVE  slots'[t] = 1 /\ (t < job'.next \/ (~job'.valid /\ job'.status = "paused"))
  <2>1. ~rewound /\ ~(j.next < job.next)
    BY <1>1, <1>4
  <2>2. slots[t] = 1 /\ (t < job.next \/ (~job.valid /\ job.status = "paused"))
    BY <1>4, <2>1 DEF CronInv, ClaimedIsPast
  <2>3. t < job.next => t < j.next
    BY <1>3, <2>1 DEF Times
  <2>. QED  BY <1>1, <2>2, <2>3
<1>. QED  BY <1>1, <1>2, <1>4 DEF ClaimedIsPast

\* The steps that leave the job and its claims alone.
LEMMA ReadersPreserve ==
  ASSUME CronInv, UNCHANGED <<job, slots, rewound, faulty>>,
         CronTypeOK', ValidityKept', NothingLeft'
  PROVE  CronInv'
  BY DEF CronInv, ClaimedIsPast

\* A scheduler's step.
LEMMA SchedulerPreserves ==
  ASSUME CronInv, NEW s \in Schedulers,
         SchedulerStep(s) \/ ClaimFails(s) \/ PersistFails(s) \/ Crash(s)
  PROVE  CronInv'
<1>. s \in Processes  BY DEF Processes
<1>. USE DEF CronInv, CronTypeOK, ValidityKept, NothingLeft
<1>1. CASE \/ Start(s) \/ Begin(s) \/ ExecEnds(s) \/ Record(s)
           \/ ClaimFails(s) \/ PersistFails(s) \/ Crash(s)
  <2>1. CronTypeOK'
    BY <1>1 DEF Start, Begin, ExecEnds, Record, ClaimFails, PersistFails, Crash, Goto
  <2>2. ValidityKept'
    BY <1>1 DEF Start, Begin, ExecEnds, Record, ClaimFails, PersistFails, Crash, Goto
  <2>3. NothingLeft' /\ UNCHANGED <<job, slots, rewound, faulty>>
    BY <1>1 DEF Start, Begin, ExecEnds, Record, ClaimFails, PersistFails, Crash, Goto
  <2>. QED  BY <2>1, <2>2, <2>3, ReadersPreserve
<1>2. CASE ReconcileList(s) \/ List(s)
  <2>1. CronTypeOK'
    BY <1>2 DEF ReconcileList, List, Read, Goto
  <2>2. ValidityKept'
    BY <1>2 DEF ReconcileList, List, Read, Goto
  <2>3. NothingLeft' /\ UNCHANGED <<job, slots, rewound, faulty>>
    BY <1>2 DEF ReconcileList, List, Read, Goto
  <2>. QED  BY <2>1, <2>2, <2>3, ReadersPreserve
<1>3. CASE ReconcileUpdate(s)
  <2>1. /\ pc' \in [Processes -> {"start", "reconcile", "idle", "listed", "claim", "exec",
                                  "persist", "record", "pause", "resume", "over"}]
        /\ \A p \in Processes : pc'[p] \in {"reconcile", "resume"} => job.valid
        /\ UNCHANGED <<now, exists, runs, copy, fired, slots, faulty>>
    BY <1>3 DEF ReconcileUpdate, Goto
  <2>2. CASE ~exists
    BY <1>3, <2>1, <2>2 DEF ReconcileUpdate, ClaimedIsPast
  <2>3. CASE exists
    <3>. DEFINE j == [copy[s] EXCEPT !.next = now + 1]
    <3>0. copy[s] \in Jobs /\ copy[s].valid = job.valid /\ now + 1 \in Times
      BY DEF Times
    <3>1. j \in Jobs /\ j.valid = job.valid /\ job.valid
      BY <1>3, <3>0, RescheduledJob DEF ReconcileUpdate, Goto
    <3>2. Write(j)
      BY <1>3, <2>3 DEF ReconcileUpdate
    <3>. HIDE DEF j
    <3>3. ClaimedIsPast' /\ job' \in Jobs /\ job'.valid = job.valid /\ rewound' \in BOOLEAN
      BY <2>1, <3>1, <3>2, WriteKeeps
    <3>. QED  BY <2>1, <3>3
  <2>. QED  BY <2>2, <2>3
<1>4. CASE Claim(s)
  <2>1. /\ pc' \in [Processes -> {"start", "reconcile", "idle", "listed", "claim", "exec",
                                  "persist", "record", "pause", "resume", "over"}]
        /\ \A p \in Processes : pc'[p] \in {"reconcile", "resume"} => job.valid
        /\ UNCHANGED <<now, exists, runs, copy, fired, faulty>>
    BY <1>4 DEF Claim
  <2>2. CASE ~(exists /\ Due(job, fired[s]))
    BY <1>4, <2>1, <2>2 DEF Claim, ClaimedIsPast
  <2>3. CASE exists /\ Due(job, fired[s])
    <3>. DEFINE j == Advanced(job, fired[s])
    <3>1. /\ j \in Jobs /\ j.valid = job.valid
          /\ job.valid => j.next = fired[s] + 1
          /\ ~job.valid => j.status = "paused" /\ j.next = job.next
      <4>1. job \in Jobs /\ fired[s] \in 0..MaxTime
        OBVIOUS
      <4>. QED  BY <4>1, AdvancedJob
    <3>2. /\ job' = j /\ rewound' = (rewound \/ j.next < job.next)
          /\ slots' = [slots EXCEPT ![job.next] = @ + 1]
      BY <1>4, <2>3 DEF Claim, Write
    <3>3. /\ job.status = "active" /\ job.next <= fired[s]
          /\ job.next \in Times /\ fired[s] \in Nat
      BY <2>3 DEF Due, Jobs
    <3>. HIDE DEF j
    <3>4. slots' \in [Times -> Nat] /\ rewound' \in BOOLEAN
      BY <3>2, <3>3
    <3>5. ASSUME ~rewound', NEW t \in Times, slots'[t] # 0
          PROVE  slots'[t] = 1 /\ (t < job'.next \/ (~job'.valid /\ job'.status = "paused"))
      <4>1. ~rewound /\ (slots[t] # 0 => slots[t] = 1 /\ t < job.next)
        <5>1. ~rewound
          BY <3>2, <3>5
        <5>. QED  BY <3>3, <5>1 DEF ClaimedIsPast
      <4>2. CASE t = job.next
        <5>1. slots[t] = 0
          BY <3>3, <4>1, <4>2 DEF Times
        <5>2. slots'[t] = 1
          BY <3>2, <3>3, <4>2, <5>1
        <5>3. job.valid => t < j.next
          BY <3>1, <3>3, <4>2 DEF Times
        <5>. QED  BY <3>1, <3>2, <5>2, <5>3
      <4>3. CASE t # job.next
        <5>1. slots'[t] = 1 /\ t < job.next
          BY <3>2, <3>3, <3>5, <4>1, <4>3
        <5>2. job.valid => t < j.next
          BY <3>1, <3>3, <5>1 DEF Times
        <5>. QED  BY <3>1, <3>2, <5>1, <5>2
      <4>. QED  BY <4>2, <4>3
    <3>6. ClaimedIsPast'
      BY <3>5 DEF ClaimedIsPast
    <3>. QED  BY <2>1, <3>1, <3>2, <3>4, <3>6
  <2>. QED  BY <2>2, <2>3
<1>5. CASE Persist(s)
  <2>1. /\ pc' \in [Processes -> {"start", "reconcile", "idle", "listed", "claim", "exec",
                                  "persist", "record", "pause", "resume", "over"}]
        /\ \A p \in Processes : pc'[p] \in {"reconcile", "resume"} => job.valid
        /\ UNCHANGED <<now, exists, runs, copy, fired, slots, faulty>>
    BY <1>5 DEF Persist
  <2>2. CASE ~exists
    BY <1>5, <2>1, <2>2 DEF Persist, ClaimedIsPast
  <2>3. CASE exists
    <3>1. PICK readable \in BOOLEAN :
            Write(IF readable /\ job.status = "paused"
                  THEN [Counted(s) EXCEPT !.status = "paused"]
                  ELSE Counted(s))
      BY <1>5, <2>3 DEF Persist
    <3>. DEFINE a == Advanced(copy[s], fired[s])
                j == IF readable /\ job.status = "paused"
                     THEN [Counted(s) EXCEPT !.status = "paused"]
                     ELSE Counted(s)
    <3>2. a \in Jobs /\ a.valid = job.valid /\ (~job.valid => a.status = "paused")
      <4>1. copy[s] \in Jobs /\ fired[s] \in 0..MaxTime /\ copy[s].valid = job.valid
        OBVIOUS
      <4>. QED  BY <4>1, AdvancedJob
    <3>3. Counted(s) = [a EXCEPT !.count = @ + 1]
      BY DEF Counted
    <3>. HIDE DEF a
    <3>4. /\ Counted(s) \in Jobs /\ Counted(s).valid = job.valid
          /\ ~job.valid => Counted(s).status = "paused"
      BY <3>2, <3>3 DEF Jobs
    <3>5. j \in Jobs /\ j.valid = job.valid /\ (~j.valid => j.status = "paused")
      BY <3>4 DEF Jobs
    <3>6. Write(j)
      BY <3>1
    <3>. HIDE DEF j
    <3>7. ClaimedIsPast' /\ job' \in Jobs /\ job'.valid = job.valid /\ rewound' \in BOOLEAN
      BY <2>1, <3>5, <3>6, WriteKeeps
    <3>. QED  BY <2>1, <3>7
  <2>. QED  BY <2>2, <2>3
<1>. QED  BY <1>1, <1>2, <1>3, <1>4, <1>5 DEF SchedulerStep

\* A command's step.
LEMMA CommandPreserves ==
  ASSUME CronInv, NEW c \in Commands, CommandStep(c)
  PROVE  CronInv'
<1>. c \in Processes  BY DEF Processes
<1>. USE DEF CronInv, CronTypeOK, ValidityKept, NothingLeft
<1>1. CASE CommandGet(c) \/ CommandRemove(c)
  <2>1. CronTypeOK'
    <3>1. CASE CommandGet(c)
      <4>1. pc' \in [Processes -> {"start", "reconcile", "idle", "listed", "claim", "exec",
                                   "persist", "record", "pause", "resume", "over"}]
        BY <3>1 DEF CommandGet, Goto
      <4>. QED  BY <3>1, <4>1 DEF CommandGet, Read
    <3>2. CASE CommandRemove(c)
      BY <3>2 DEF CommandRemove, Goto
    <3>. QED  BY <1>1, <3>1, <3>2
  <2>2. ValidityKept'
    <3>1. CASE CommandGet(c)
      <4>1. /\ job' = job /\ copy' = [copy EXCEPT ![c] = job]
            /\ \A p \in Processes : p = c \/ pc'[p] = pc[p]
            /\ pc'[c] = "pause" \/ (pc'[c] = "resume" /\ job.valid)
        BY <3>1 DEF CommandGet, Read, Goto
      <4>. QED  BY <4>1
    <3>2. CASE CommandRemove(c)
      BY <3>2 DEF CommandRemove, Goto
    <3>. QED  BY <1>1, <3>1, <3>2
  <2>3. NothingLeft' /\ UNCHANGED <<job, slots, rewound, faulty>>
    BY <1>1 DEF CommandGet, CommandRemove, Read, Goto
  <2>. QED  BY <2>1, <2>2, <2>3, ReadersPreserve
<1>2. CASE CommandUpdate(c)
  <2>1. /\ pc' \in [Processes -> {"start", "reconcile", "idle", "listed", "claim", "exec",
                                  "persist", "record", "pause", "resume", "over"}]
        /\ \A p \in Processes : pc'[p] \in {"reconcile", "resume"} => job.valid
        /\ UNCHANGED <<now, exists, runs, copy, fired, slots, faulty>>
    BY <1>2 DEF CommandUpdate, Goto
  <2>2. CASE ~exists
    BY <1>2, <2>1, <2>2 DEF CommandUpdate, ClaimedIsPast
  <2>3. ASSUME exists, NEW j, Write(j), j \in Jobs, j.valid = job.valid,
               ~j.valid => j.status = "paused"
        PROVE  CronInv'
    <3>1. ClaimedIsPast' /\ job' \in Jobs /\ job'.valid = job.valid /\ rewound' \in BOOLEAN
      BY <2>1, <2>3, WriteKeeps
    <3>. QED  BY <2>1, <3>1
  <2>4. CASE exists /\ pc[c] = "pause"
    <3>1. Write([copy[c] EXCEPT !.status = "paused"])
      BY <1>2, <2>4 DEF CommandUpdate, Goto
    <3>2. /\ [copy[c] EXCEPT !.status = "paused"] \in Jobs
          /\ [copy[c] EXCEPT !.status = "paused"].valid = job.valid
          /\ [copy[c] EXCEPT !.status = "paused"].status = "paused"
      BY DEF Jobs
    <3>. QED  BY <2>3, <2>4, <3>1, <3>2
  <2>5. CASE exists /\ pc[c] = "resume"
    <3>1. Write([copy[c] EXCEPT !.status = "active", !.next = now + 1])
      BY <1>2, <2>5 DEF CommandUpdate, Goto
    <3>2. /\ [copy[c] EXCEPT !.status = "active", !.next = now + 1] \in Jobs
          /\ [copy[c] EXCEPT !.status = "active", !.next = now + 1].valid = job.valid
          /\ job.valid
      <4>1. copy[c] \in Jobs /\ copy[c].valid = job.valid /\ now + 1 \in Times
        BY DEF Times
      <4>. QED  BY <2>5, <4>1, RescheduledJob
    <3>. QED  BY <2>3, <2>5, <3>1, <3>2
  <2>6. pc[c] \in {"pause", "resume"}
    BY <1>2 DEF CommandUpdate, Goto
  <2>. QED  BY <2>2, <2>4, <2>5, <2>6
<1>. QED  BY <1>1, <1>2 DEF CommandStep

\* The inductive invariant.
THEOREM CronInvariant == CronSpec => []CronInv
<1>1. CronInit => CronInv
  <2>. SUFFICES ASSUME CronInit PROVE CronInv
    OBVIOUS
  <2>1. job \in Jobs
    BY DEF CronInit, Jobs, Times
  <2>2. CronTypeOK
    <3>1. pc \in [Processes -> {"start", "reconcile", "idle", "listed", "claim", "exec",
                                "persist", "record", "pause", "resume", "over"}]
      BY DEF CronInit
    <3>2. copy \in [Processes -> Jobs] /\ exists \in BOOLEAN /\ rewound \in BOOLEAN
      BY <2>1 DEF CronInit
    <3>3. /\ now \in 0..MaxTime /\ runs \in Nat /\ slots \in [Times -> Nat]
          /\ fired \in [Schedulers -> 0..MaxTime]
      BY DEF CronInit, CronAssumption
    <3>. QED  BY <2>1, <3>1, <3>2, <3>3 DEF CronInit, CronTypeOK
  <2>3. ValidityKept
    BY DEF CronInit, ValidityKept
  <2>4. ClaimedIsPast /\ NothingLeft
    BY DEF CronInit, ClaimedIsPast, NothingLeft
  <2>. QED  BY <2>2, <2>3, <2>4 DEF CronInv
<1>2. ASSUME CronInv, [CronNext]_cronVars PROVE CronInv'
  <2>1. CASE UNCHANGED cronVars
    BY <1>2, <2>1 DEF cronVars, CronInv, CronTypeOK, ValidityKept, ClaimedIsPast, NothingLeft
  <2>2. CASE Clock
    BY <1>2, <2>2 DEF Clock, CronInv, CronTypeOK, ValidityKept, ClaimedIsPast, NothingLeft
  <2>. QED  BY <1>2, <2>1, <2>2, SchedulerPreserves, CommandPreserves DEF CronNext
<1>. QED  BY <1>1, <1>2, PTL DEF CronSpec

\* For any number of schedulers and commands, killed and started again, one of them
\* fires a slot until a write of an older copy moves NextRunAt back (claimFire).
THEOREM ClaimExclusive == CronSpec => []ClaimIsExclusive
<1>1. CronInv => ClaimIsExclusive
  BY DEF CronInv, CronTypeOK, ClaimedIsPast, ClaimIsExclusive
<1>. QED  BY <1>1, CronInvariant, PTL

\* For any number of them, what is removed is never written again (store.go).
THEOREM RemovalIsFinal == CronSpec => RemovedStaysRemoved
<1>1. ASSUME CronInv, [CronNext]_cronVars PROVE [~exists => ~exists' /\ runs' = 0]_cronVars
  <2>. SUFFICES ASSUME ~exists PROVE ~exists' /\ runs' = 0
    OBVIOUS
  <2>1. runs = 0
    BY <1>1 DEF CronInv, NothingLeft
  <2>2. CASE UNCHANGED cronVars
    BY <2>1, <2>2 DEF cronVars
  <2>3. CASE CronNext
    BY <2>1, <2>3 DEF CronNext, Clock, SchedulerStep, Start, ReconcileList, ReconcileUpdate, List,
                      Begin, Claim, ExecEnds, Persist, Record, ClaimFails, PersistFails, Crash,
                      CommandStep, CommandGet, CommandUpdate, CommandRemove
  <2>. QED  BY <1>1, <2>2, <2>3
<1>. QED  BY <1>1, CronInvariant, PTL DEF CronSpec, RemovedStaysRemoved
=============================================================================
