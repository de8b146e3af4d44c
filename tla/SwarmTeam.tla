------------------------------ MODULE SwarmTeam ------------------------------
(***************************************************************************)
(* One team of the swarm: the slot count and FIFO queue of team.go, the    *)
(* task registry of coordinator.go, and the goroutines of lifecycle.go     *)
(* that spawn, supervise, hand off and adopt.  Every call and every member *)
(* runs concurrently; only the team's mutex, the coordinator's mutex and   *)
(* the atomic id counter order them, so a step is one critical section.    *)
(* A member and the task minted with it share an id; an adopted task keeps *)
(* its id and gets a member of a new one.                                  *)
(***************************************************************************)
EXTENDS Naturals, Sequences, FiniteSets

CONSTANTS MaxIds,      \* bound: ids nextID mints
          MaxSize,     \* Team.maxSize: members running at once
          MaxRestarts  \* maxMemberRestarts

ASSUME SwarmAssumption == /\ MaxIds \in Nat
                          /\ MaxSize \in Nat \ {0}
                          /\ MaxRestarts \in Nat

Ids == 1..MaxIds

VARIABLES idSeq,     \* Swarm.idSeq: ids minted
          status,    \* Coordinator: each task's status, "none" if unregistered
          owner,     \* Coordinator: each task's AgentID, 0 if unregistered
          running,   \* Team.running
          queue,     \* Team.queue: the queued specs, by member id
          members,   \* Team.members
          pc,        \* where the goroutine that serves each member id is
          serves,    \* MemberSpec.TaskID
          from,      \* the task a Handoff retires in favour of this id, else 0
          restarts,  \* Member.restarts
          adopter    \* the AdoptOrphans call: its program point and snapshots

registryVars == <<status, owner>>
teamVars == <<running, queue, members>>
memberVars == <<serves, from, restarts>>
swarmVars == <<idSeq, registryVars, teamVars, pc, memberVars, adopter>>

Statuses == {"pending", "running", "done", "failed", "handed_off"}
terminal == {"done", "failed", "handed_off"}
Terminal(t) == status[t] \in terminal
Pending == {t \in Ids : status[t] \in {"pending", "running"}}

\* Where a member holds a slot of the team.
Slotted == {"launching", "started", "added", "alive", "ok", "failed", "remove", "exiting"}

\* Where a member's agent runs.
Executing == {"started", "added", "alive"}

SwarmInit ==
    /\ idSeq = 0
    /\ status = [t \in Ids |-> "none"]
    /\ owner = [t \in Ids |-> 0]
    /\ running = 0 /\ queue = <<>> /\ members = {}
    /\ pc = [m \in Ids |-> "none"]
    /\ serves = [m \in Ids |-> 0]
    /\ from = [m \in Ids |-> 0]
    /\ restarts = [m \in Ids |-> 0]
    /\ adopter = [at |-> "idle", live |-> {}, todo |-> {}]

Goto(m, a, b) == pc[m] = a /\ pc' = [pc EXCEPT ![m] = b]

\* nextID: the id minted by this step, which serves task t.
Mint(m, t, at) ==
    /\ m \in Ids
    /\ m = idSeq + 1
    /\ idSeq' = m
    /\ pc' = [pc EXCEPT ![m] = at]
    /\ serves' = [serves EXCEPT ![m] = t]

-----------------------------------------------------------------------------
(* Coordinator *)

\* Register of a fresh id, owned by itself.
Register(t) ==
    /\ status' = [status EXCEPT ![t] = "pending"]
    /\ owner' = [owner EXCEPT ![t] = t]

\* SetStatus, whose error its callers drop: no way out of a terminal state.
SetStatus(t, s) ==
    status' = [status EXCEPT ![t] = IF Terminal(t) THEN @ ELSE s]

\* finish, behind Complete and Fail: the first outcome stays.
Finish(t, s) ==
    status' = [status EXCEPT ![t] = IF Terminal(t) THEN @ ELSE s]

\* Reassign of a task that is not terminal.
Reassign(t, m) ==
    /\ status' = [status EXCEPT ![t] = "pending"]
    /\ owner' = [owner EXCEPT ![t] = m]

-----------------------------------------------------------------------------
(* Spawn, dispatch and launch *)

\* Spawn mints an id and registers its task.
Spawn(m) ==
    /\ Mint(m, m, "registered")
    /\ Register(m)
    /\ UNCHANGED <<teamVars, from, restarts, adopter>>

\* dispatch: admit reserves a slot or queues the spec.
Admit(m) ==
    /\ \/ /\ running < MaxSize
          /\ running' = running + 1
          /\ Goto(m, "registered", "launching")
          /\ UNCHANGED queue
       \/ /\ running >= MaxSize
          /\ queue' = Append(queue, m)
          /\ Goto(m, "registered", "queued")
          /\ UNCHANGED running
    /\ UNCHANGED <<idSeq, registryVars, members, memberVars, adopter>>

\* launch: the launcher starts the member's agent.
LaunchStarts(m) ==
    /\ Goto(m, "launching", "started")
    /\ UNCHANGED <<idSeq, registryVars, teamVars, memberVars, adopter>>

\* Mutants of LaunchFails: the slot stays taken; the task is not failed.
LaunchFailsKeepsSlot(m) ==
    /\ Goto(m, "launching", "gone")
    /\ Finish(serves[m], "failed")
    /\ UNCHANGED <<idSeq, owner, teamVars, memberVars, adopter>>
LaunchFailsSilently(m) ==
    /\ Goto(m, "launching", "exiting")
    /\ UNCHANGED <<idSeq, registryVars, teamVars, memberVars, adopter>>

\* launch: the launcher refuses, which fails the task; afterExit follows.
LaunchFails(m) ==
    /\ Goto(m, "launching", "exiting")
    /\ Finish(serves[m], "failed")
    /\ UNCHANGED <<idSeq, owner, teamVars, memberVars, adopter>>

AddMember(m) ==
    /\ Goto(m, "started", "added")
    /\ members' = members \union {m}
    /\ UNCHANGED <<idSeq, registryVars, running, queue, memberVars, adopter>>

\* launch marks the task running and leaves the member to its watch goroutine.
MarkRunning(m) ==
    /\ Goto(m, "added", "alive")
    /\ SetStatus(serves[m], "running")
    /\ UNCHANGED <<idSeq, owner, teamVars, memberVars, adopter>>

-----------------------------------------------------------------------------
(* watch and afterExit *)

\* The member's agent ends; its outcome is yet to be recorded.
MemberEnds(m) ==
    /\ \/ Goto(m, "alive", "ok")
       \/ Goto(m, "alive", "failed")
    /\ UNCHANGED <<idSeq, registryVars, teamVars, memberVars, adopter>>

\* A temporary failure is relaunched, up to the cap, as the same member.
MemberRelaunched(m) ==
    /\ pc[m] = "alive"
    /\ restarts[m] < MaxRestarts
    /\ restarts' = [restarts EXCEPT ![m] = @ + 1]
    /\ UNCHANGED <<idSeq, registryVars, teamVars, pc, serves, from, adopter>>

RecordOutcome(m) ==
    /\ \/ Goto(m, "ok", "remove") /\ Finish(serves[m], "done")
       \/ Goto(m, "failed", "remove") /\ Finish(serves[m], "failed")
    /\ UNCHANGED <<idSeq, owner, teamVars, memberVars, adopter>>

RemoveMember(m) ==
    /\ Goto(m, "remove", "exiting")
    /\ members' = members \ {m}
    /\ UNCHANGED <<idSeq, registryVars, running, queue, memberVars, adopter>>

\* onExit with nothing to launch next.
ExitIdle(m) ==
    /\ queue = <<>>
    /\ Goto(m, "exiting", "gone")
    /\ running' = IF running > 0 THEN running - 1 ELSE running
    /\ UNCHANGED <<idSeq, registryVars, queue, members, memberVars, adopter>>

\* Mutant of ExitNext: the slot is freed and the queue left for a later exit.
ExitForgetsQueue(m) ==
    /\ queue # <<>>
    /\ Goto(m, "exiting", "gone")
    /\ running' = running - 1
    /\ UNCHANGED <<idSeq, registryVars, queue, members, memberVars, adopter>>

\* onExit hands the freed slot to the head of the queue, which launches next.
ExitNext(m) ==
    /\ queue # <<>>
    /\ pc[m] = "exiting"
    /\ pc' = [pc EXCEPT ![m] = "gone", ![Head(queue)] = "launching"]
    /\ queue' = Tail(queue)
    /\ UNCHANGED <<idSeq, registryVars, running, members, memberVars, adopter>>

-----------------------------------------------------------------------------
(* Handoff *)

\* Handoff reads the task, finds it unfinished and mints the successor's id.
HandoffCheck(m, t) ==
    /\ status[t] \in {"pending", "running"}
    /\ Mint(m, m, "handoff")
    /\ from' = [from EXCEPT ![m] = t]
    /\ UNCHANGED <<registryVars, teamVars, restarts, adopter>>

\* The note to the successor's inbox cannot be delivered: Handoff gives up.
HandoffNoteFails(m) ==
    /\ Goto(m, "handoff", "gone")
    /\ UNCHANGED <<idSeq, registryVars, teamVars, memberVars, adopter>>

HandoffRegister(m) ==
    /\ Goto(m, "handoff", "retire")
    /\ Register(m)
    /\ UNCHANGED <<idSeq, teamVars, memberVars, adopter>>

\* The original task is retired, unless it ended meanwhile; dispatch follows.
HandoffRetire(m) ==
    /\ Goto(m, "retire", "registered")
    /\ SetStatus(from[m], "handed_off")
    /\ UNCHANGED <<idSeq, owner, teamVars, memberVars, adopter>>

-----------------------------------------------------------------------------
(* AdoptOrphans *)

\* liveAgents, under the team's mutex.
AdoptLive ==
    /\ adopter.at = "idle"
    /\ adopter' = [at |-> "list", todo |-> {},
                   live |-> members \union {queue[i] : i \in DOMAIN queue}]
    /\ UNCHANGED <<idSeq, registryVars, teamVars, pc, memberVars>>

\* List, under the coordinator's mutex: the unfinished tasks without live owner.
AdoptList ==
    /\ adopter.at = "list"
    /\ adopter' = [adopter EXCEPT !.at = "scan",
                                  !.todo = {t \in Pending : owner[t] \notin adopter.live}]
    /\ UNCHANGED <<idSeq, registryVars, teamVars, pc, memberVars>>

\* Reassign an orphan to a fresh member, which is dispatched next.
AdoptOne(m, t) ==
    /\ adopter.at = "scan"
    /\ t \in adopter.todo
    /\ ~Terminal(t)
    /\ Mint(m, t, "registered")
    /\ Reassign(t, m)
    /\ adopter' = [adopter EXCEPT !.todo = @ \ {t}]
    /\ UNCHANGED <<teamVars, from, restarts>>

\* "raced to terminal; skip".
AdoptSkip(t) ==
    /\ adopter.at = "scan"
    /\ t \in adopter.todo
    /\ Terminal(t)
    /\ adopter' = [adopter EXCEPT !.todo = @ \ {t}]
    /\ UNCHANGED <<idSeq, registryVars, teamVars, pc, memberVars>>

AdoptEnd ==
    /\ adopter.at = "scan"
    /\ adopter.todo = {}
    /\ adopter' = [at |-> "idle", live |-> {}, todo |-> {}]
    /\ UNCHANGED <<idSeq, registryVars, teamVars, pc, memberVars>>

-----------------------------------------------------------------------------

\* The calls of the orchestrator.
CallStep == \E m \in Ids :
    \/ Spawn(m)
    \/ \E t \in Ids : HandoffCheck(m, t) \/ AdoptOne(m, t)

AdoptStep == AdoptLive \/ AdoptList \/ AdoptEnd \/ \E t \in Ids : AdoptSkip(t)

\* What the goroutine of member m does without waiting for its agent.
GoroutineStep(m) ==
    \/ Admit(m) \/ LaunchStarts(m) \/ LaunchFails(m) \/ AddMember(m) \/ MarkRunning(m)
    \/ RecordOutcome(m) \/ RemoveMember(m) \/ ExitIdle(m) \/ ExitNext(m)
    \/ HandoffRegister(m) \/ HandoffRetire(m)

SwarmNext ==
    \/ CallStep
    \/ AdoptStep
    \/ \E m \in Ids : \/ GoroutineStep(m) \/ HandoffNoteFails(m)
                      \/ MemberEnds(m) \/ MemberRelaunched(m)

SwarmSpec == SwarmInit /\ [][SwarmNext]_swarmVars

\* Goroutines run, and every member's agent ends after a while.
FairSwarmSpec ==
    /\ SwarmSpec
    /\ \A m \in Ids : WF_swarmVars(GoroutineStep(m)) /\ WF_swarmVars(MemberEnds(m))

-----------------------------------------------------------------------------
(* Properties *)

SwarmTypeOK ==
    /\ idSeq \in 0..MaxIds
    /\ status \in [Ids -> Statuses \union {"none"}]
    /\ owner \in [Ids -> Ids \union {0}]
    /\ running \in 0..MaxSize
    /\ queue \in Seq(Ids)
    /\ members \in SUBSET Ids
    /\ pc \in [Ids -> Slotted \union {"none", "registered", "queued", "gone", "handoff", "retire"}]
    /\ serves \in [Ids -> Ids \union {0}]
    /\ from \in [Ids -> Ids \union {0}]
    /\ restarts \in [Ids -> 0..MaxRestarts]
    /\ adopter \in [at : {"idle", "list", "scan"}, live : SUBSET Ids, todo : SUBSET Ids]

\* The slot counter is the number of members between admit and onExit, through
\* relaunches, failed launches and the hand-over of a slot to a queued spec.
SlotsExact == running = Cardinality({m \in Ids : pc[m] \in Slotted})

\* No spec waits while a slot is free: whoever frees one passes it on.
NoIdleSlot == queue # <<>> => running = MaxSize

Team == INSTANCE WorkQueue WITH Workers <- Ids, Slots <- MaxSize,
                                 holders <- {m \in Ids : pc[m] \in Slotted}, waiting <- queue

\* The team implements WorkQueue: through failed launches, relaunches, exits, handoffs and
\* adoptions the slots are those of its members, first come first served, and whoever frees
\* one passes it on (team.go admit and onExit, lifecycle.go afterExit).
TeamIsWorkQueue == Team!QueueSpec

\* An unfinished task always has an owner that will still record an outcome for
\* it: no task is lost between the registry and the team, whatever calls race.
NoTaskLost ==
    \A t \in Pending :
        /\ serves[owner[t]] = t
        /\ pc[owner[t]] \in {"retire", "registered", "queued", "launching", "started",
                             "added", "alive", "ok", "failed"}

\* Every registered task ends, so swarm_collect's wait for the team ends.
TasksSettle == \A t \in Ids : t \in Pending ~> Terminal(t)

\* The comments of liveAgents ("so orphan adoption never re-dispatches (and thus
\* double-executes) a task", team.go:314) and of AdoptOrphans ("tasks with a live
\* owner are left alone", lifecycle.go:140).
NoDoubleExecution ==
    \A m1, m2 \in Ids : pc[m1] \in Executing /\ pc[m2] \in Executing
                        /\ serves[m1] = serves[m2] => m1 = m2

\* The comment of Handoff (lifecycle.go:96-97): it is "marking the original task
\* handed-off", and a handoff of a task already terminal is rejected.
HandoffRetiresTask ==
    \A m \in Ids : from[m] # 0 /\ pc[m] \in {"registered", "queued"} \union Slotted
                   => status[from[m]] = "handed_off"

=============================================================================
