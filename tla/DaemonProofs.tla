----------------------------- MODULE DaemonProofs -----------------------------
(***************************************************************************)
(* Proofs about the two machines that carry a request through the daemon:  *)
(* the worker pool that runs it (DaemonPool) and the session that streams  *)
(* it (DaemonSession).                                                     *)
(***************************************************************************)
EXTENDS DaemonPool, DaemonSession, FiniteSetTheorems, SequenceTheorems, NaturalsInduction,
        WellFoundedInduction, TLAPS

(***************************************************************************)
(* Proofs about DaemonPool for any set of requests, any pool size and any  *)
(* cap on the attempts.  The inductive invariant ties the counter of the   *)
(* slot channel to the Run calls that own a slot, confines live workers to *)
(* the steps of a Run that owns one, and carries what runOnce found out    *)
(* about an attempt up to the verdict of Run.                              *)
(***************************************************************************)

\* The Run calls that own a lease slot.
Holders == {r \in Requests : pc[r] \in Leased}

SlotsAreLeases == slots = Cardinality(Holders)

\* What runOnce reports agrees with how the worker of the attempt ended.
OutcomeTruthful ==
    \A r \in Requests :
        /\ pc[r] = "wait" => ~unread[r]
        /\ pc[r] \in {"untrack", "judge"} =>
              /\ outcome[r] = "ok" => code[r] = "ok" /\ ~unread[r]
              /\ outcome[r] = "permanent" => code[r] = "permanent"

PoolInv == PoolTypeOK /\ SlotsAreLeases /\ NoOrphanWorker /\ OutcomeTruthful
           /\ VerdictJustified

-----------------------------------------------------------------------------
(* The slot counter and the set of slot owners move together. *)

LEMMA HoldersFinite ==
    IsFiniteSet(Holders) /\ Cardinality(Holders) \in Nat
  BY PoolAssumption, FS_Subset, FS_CardinalityType DEF Holders

\* A step of r that neither takes nor frees a slot.
LEMMA HoldersKept ==
    ASSUME NEW r \in Requests, NEW from, NEW to, PoolTypeOK,
           Goto(r, from, to), (from \in Leased) <=> (to \in Leased)
    PROVE  Holders' = Holders
  BY DEF Holders, Goto, PoolTypeOK

\* r takes a slot.
LEMMA HoldersTaken ==
    ASSUME NEW r \in Requests, NEW from, NEW to, PoolTypeOK,
           Goto(r, from, to), from \notin Leased, to \in Leased
    PROVE  Cardinality(Holders') = Cardinality(Holders) + 1
<1>1. Holders' = Holders \union {r} /\ r \notin Holders
  BY DEF Holders, Goto, PoolTypeOK
<1>. QED  BY <1>1, HoldersFinite, FS_AddElement

\* r gives its slot back: there is one to give.
LEMMA HoldersFreed ==
    ASSUME NEW r \in Requests, NEW from, NEW to, PoolTypeOK,
           Goto(r, from, to), from \in Leased, to \notin Leased
    PROVE  /\ Cardinality(Holders') = Cardinality(Holders) - 1
           /\ Cardinality(Holders') \in Nat
<1>1. Holders' = Holders \ {r} /\ r \in Holders
  BY DEF Holders, Goto, PoolTypeOK
<1>2. IsFiniteSet(Holders') /\ Cardinality(Holders') \in Nat
  BY <1>1, HoldersFinite, FS_RemoveElement, FS_CardinalityType
<1>. QED  BY <1>1, <1>2, HoldersFinite, FS_RemoveElement

\* Whatever the reason, Run's return keeps the counter equal to the owners.
LEMMA ReturnKeepsSlots ==
    ASSUME NEW r \in Requests, NEW from, NEW v, PoolTypeOK, SlotsAreLeases,
           Return(r, from, v)
    PROVE  SlotsAreLeases' /\ slots' \in 0..Size
<1>0. "done" \notin Leased /\ slots \in 0..Size
  BY DEF Leased, PoolTypeOK
<1>1. CASE from \in Leased
  <2>1. Cardinality(Holders') = Cardinality(Holders) - 1 /\ Cardinality(Holders') \in Nat
    BY <1>0, <1>1, HoldersFreed DEF Return
  <2>. QED  BY <1>0, <1>1, <2>1, PoolAssumption DEF Return, SlotsAreLeases
<1>2. CASE from \notin Leased
  <2>1. Holders' = Holders
    BY <1>0, <1>2, HoldersKept DEF Return
  <2>. QED  BY <1>0, <1>2, <2>1 DEF Return, SlotsAreLeases
<1>. QED  BY <1>1, <1>2

-----------------------------------------------------------------------------
(* Every step keeps the invariant: the steps of a Run first. *)

LEMMA InitInv == PoolInit => PoolInv
<1>. SUFFICES ASSUME PoolInit PROVE PoolInv
  OBVIOUS
<1>1. PoolTypeOK
  <2>1. pc \in [Requests -> {"idle", "acquire", "done"} \union Leased]
    BY DEF PoolInit
  <2>2. attempt \in [Requests -> 0..MaxAttempts] /\ slots \in 0..Size
    BY PoolAssumption DEF PoolInit
  <2>3. /\ worker \in [Requests -> {"none", "running", "exited"}]
        /\ code \in [Requests -> Codes \union {"none"}]
        /\ outcome \in [Requests -> Codes \union {"none", "error"}]
        /\ verdict \in [Requests -> {"none", "ok", "permanent", "cancelled", "draining"}]
    BY DEF PoolInit
  <2>4. unread \in [Requests -> BOOLEAN]
    BY DEF PoolInit
  <2>. QED  BY <2>1, <2>2, <2>3, <2>4 DEF PoolInit, PoolTypeOK
<1>3. NoOrphanWorker /\ OutcomeTruthful
  BY DEF PoolInit, NoOrphanWorker, OutcomeTruthful, Live
<1>4. VerdictJustified
  BY DEF PoolInit, VerdictJustified
<1>2. SlotsAreLeases
  <2>1. Holders = {}
    BY DEF PoolInit, Holders, Leased
  <2>. QED  BY <2>1, FS_EmptySet DEF PoolInit, SlotsAreLeases
<1>. QED  BY <1>1, <1>2, <1>3, <1>4 DEF PoolInv

\* A step that goes on within a Run's attempt leaves the slots alone.
LEMMA AttemptStepInv ==
    ASSUME PoolInv, NEW r \in Requests,
           \/ Launch(r) \/ LaunchFails(r) \/ Track(r) \/ PumpEOF(r) \/ PumpError(r)
           \/ KillAndWait(r) \/ Wait(r) \/ Untrack(r)
    PROVE  PoolInv'
<1>1. CASE Launch(r)
  <2>1. Holders' = Holders
    BY <1>1, HoldersKept DEF Launch, PoolInv, Leased
  <2>2. SlotsAreLeases'
    BY <1>1, <2>1 DEF Launch, PoolInv, SlotsAreLeases
  <2>3. PoolTypeOK' /\ NoOrphanWorker' /\ OutcomeTruthful' /\ VerdictJustified'
    BY <1>1 DEF Launch, Goto, PoolInv,
       PoolTypeOK, NoOrphanWorker, OutcomeTruthful, VerdictJustified, Live, Leased, Codes
  <2>. QED  BY <2>2, <2>3 DEF PoolInv
<1>2. CASE LaunchFails(r)
  <2>1. Holders' = Holders
    BY <1>2, HoldersKept DEF LaunchFails, PoolInv, Leased
  <2>2. SlotsAreLeases'
    BY <1>2, <2>1 DEF LaunchFails, PoolInv, SlotsAreLeases
  <2>3. PoolTypeOK' /\ NoOrphanWorker' /\ OutcomeTruthful' /\ VerdictJustified'
    BY <1>2 DEF LaunchFails, Goto, PoolInv,
       PoolTypeOK, NoOrphanWorker, OutcomeTruthful, VerdictJustified, Live, Leased, Codes
  <2>. QED  BY <2>2, <2>3 DEF PoolInv
<1>3. CASE Track(r)
  <2>1. Holders' = Holders
    BY <1>3, HoldersKept DEF Track, PoolInv, Leased
  <2>2. SlotsAreLeases'
    BY <1>3, <2>1 DEF Track, PoolInv, SlotsAreLeases
  <2>3. PoolTypeOK' /\ NoOrphanWorker' /\ OutcomeTruthful' /\ VerdictJustified'
    BY <1>3 DEF Track, Goto, PoolInv,
       PoolTypeOK, NoOrphanWorker, OutcomeTruthful, VerdictJustified, Live, Leased, Codes
  <2>. QED  BY <2>2, <2>3 DEF PoolInv
<1>4. CASE PumpEOF(r)
  <2>1. Holders' = Holders
    BY <1>4, HoldersKept DEF PumpEOF, PoolInv, Leased
  <2>2. SlotsAreLeases'
    BY <1>4, <2>1 DEF PumpEOF, PoolInv, SlotsAreLeases
  <2>3. PoolTypeOK' /\ NoOrphanWorker' /\ OutcomeTruthful' /\ VerdictJustified'
    BY <1>4 DEF PumpEOF, Goto, PoolInv,
       PoolTypeOK, NoOrphanWorker, OutcomeTruthful, VerdictJustified, Live, Leased, Codes
  <2>. QED  BY <2>2, <2>3 DEF PoolInv
<1>5. CASE PumpError(r)
  <2>1. Holders' = Holders
    BY <1>5, HoldersKept DEF PumpError, PoolInv, Leased
  <2>2. SlotsAreLeases'
    BY <1>5, <2>1 DEF PumpError, PoolInv, SlotsAreLeases
  <2>3. PoolTypeOK' /\ NoOrphanWorker' /\ OutcomeTruthful' /\ VerdictJustified'
    BY <1>5 DEF PumpError, Goto, PoolInv,
       PoolTypeOK, NoOrphanWorker, OutcomeTruthful, VerdictJustified, Live, Leased, Codes
  <2>. QED  BY <2>2, <2>3 DEF PoolInv
<1>6. CASE KillAndWait(r)
  <2>1. Holders' = Holders
    BY <1>6, HoldersKept DEF KillAndWait, PoolInv, Leased
  <2>2. SlotsAreLeases'
    BY <1>6, <2>1 DEF KillAndWait, PoolInv, SlotsAreLeases
  <2>3. PoolTypeOK' /\ NoOrphanWorker' /\ OutcomeTruthful' /\ VerdictJustified'
    BY <1>6 DEF KillAndWait, Goto, Terminate, Exits, PoolInv,
       PoolTypeOK, NoOrphanWorker, OutcomeTruthful, VerdictJustified, Live, Leased, Codes
  <2>. QED  BY <2>2, <2>3 DEF PoolInv
<1>7. CASE Wait(r)
  <2>1. Holders' = Holders
    BY <1>7, HoldersKept DEF Wait, PoolInv, Leased
  <2>2. SlotsAreLeases'
    BY <1>7, <2>1 DEF Wait, PoolInv, SlotsAreLeases
  <2>3. PoolTypeOK' /\ NoOrphanWorker' /\ OutcomeTruthful' /\ VerdictJustified'
    BY <1>7 DEF Wait, Goto, PoolInv,
       PoolTypeOK, NoOrphanWorker, OutcomeTruthful, VerdictJustified, Live, Leased, Codes
  <2>. QED  BY <2>2, <2>3 DEF PoolInv
<1>8. CASE Untrack(r)
  <2>1. Holders' = Holders
    BY <1>8, HoldersKept DEF Untrack, PoolInv, Leased
  <2>2. SlotsAreLeases'
    BY <1>8, <2>1 DEF Untrack, PoolInv, SlotsAreLeases
  <2>3. PoolTypeOK' /\ NoOrphanWorker' /\ OutcomeTruthful' /\ VerdictJustified'
    BY <1>8 DEF Untrack, Goto, PoolInv,
       PoolTypeOK, NoOrphanWorker, OutcomeTruthful, VerdictJustified, Live, Leased, Codes
  <2>. QED  BY <2>2, <2>3 DEF PoolInv
<1>. QED  BY <1>1, <1>2, <1>3, <1>4, <1>5, <1>6, <1>7, <1>8

\* The steps with which a Run takes a slot, or returns and frees it.
LEMMA LeaseStepInv ==
    ASSUME PoolInv, NEW r \in Requests,
           \/ AcquireCheck(r) \/ AcquireSlot(r) \/ AcquireAbort(r) \/ LoopCheck(r)
           \/ Judge(r) \/ Retry(r) \/ SleepCancelled(r)
    PROVE  PoolInv'
<1>1. CASE AcquireSlot(r)
  <2>1. Cardinality(Holders') = Cardinality(Holders) + 1
    BY <1>1, HoldersTaken DEF AcquireSlot, PoolInv, Leased
  <2>2. SlotsAreLeases'
    BY <1>1, <2>1 DEF AcquireSlot, PoolInv, SlotsAreLeases
  <2>3. PoolTypeOK' /\ NoOrphanWorker' /\ OutcomeTruthful' /\ VerdictJustified'
    BY <1>1, PoolAssumption DEF AcquireSlot, Goto, PoolInv,
       PoolTypeOK, NoOrphanWorker, OutcomeTruthful, VerdictJustified, Live, Leased, Codes
  <2>. QED  BY <2>2, <2>3 DEF PoolInv
<1>2. CASE AcquireCheck(r)
  <2>1. SlotsAreLeases' /\ slots' \in 0..Size
    BY <1>2, ReturnKeepsSlots, HoldersKept DEF AcquireCheck, PoolInv, PoolTypeOK, SlotsAreLeases, Leased
  <2>2. PoolTypeOK' /\ NoOrphanWorker' /\ OutcomeTruthful' /\ VerdictJustified'
    BY <1>2, <2>1, PoolAssumption DEF AcquireCheck, Return, Goto, PoolInv,
       PoolTypeOK, NoOrphanWorker, OutcomeTruthful, VerdictJustified, Live, Leased, Codes
  <2>. QED  BY <2>1, <2>2 DEF PoolInv
<1>3. CASE AcquireAbort(r)
  <2>1. SlotsAreLeases' /\ slots' \in 0..Size
    BY <1>3, ReturnKeepsSlots, HoldersKept DEF AcquireAbort, PoolInv, PoolTypeOK, SlotsAreLeases, Leased
  <2>2. PoolTypeOK' /\ NoOrphanWorker' /\ OutcomeTruthful' /\ VerdictJustified'
    BY <1>3, <2>1, PoolAssumption DEF AcquireAbort, Return, Goto, PoolInv,
       PoolTypeOK, NoOrphanWorker, OutcomeTruthful, VerdictJustified, Live, Leased, Codes
  <2>. QED  BY <2>1, <2>2 DEF PoolInv
<1>4. CASE LoopCheck(r)
  <2>1. SlotsAreLeases' /\ slots' \in 0..Size
    BY <1>4, ReturnKeepsSlots, HoldersKept DEF LoopCheck, PoolInv, PoolTypeOK, SlotsAreLeases, Leased
  <2>2. PoolTypeOK' /\ NoOrphanWorker' /\ OutcomeTruthful' /\ VerdictJustified'
    BY <1>4, <2>1, PoolAssumption DEF LoopCheck, Return, Goto, PoolInv,
       PoolTypeOK, NoOrphanWorker, OutcomeTruthful, VerdictJustified, Live, Leased, Codes
  <2>. QED  BY <2>1, <2>2 DEF PoolInv
<1>5. CASE Judge(r)
  <2>1. SlotsAreLeases' /\ slots' \in 0..Size
    BY <1>5, ReturnKeepsSlots, HoldersKept DEF Judge, PoolInv, PoolTypeOK, SlotsAreLeases, Leased
  <2>2. PoolTypeOK' /\ NoOrphanWorker' /\ OutcomeTruthful' /\ VerdictJustified'
    BY <1>5, <2>1, PoolAssumption DEF Judge, Return, Goto, PoolInv,
       PoolTypeOK, NoOrphanWorker, OutcomeTruthful, VerdictJustified, Live, Leased, Codes
  <2>. QED  BY <2>1, <2>2 DEF PoolInv
<1>6. CASE Retry(r)
  <2>1. SlotsAreLeases' /\ slots' \in 0..Size
    BY <1>6, ReturnKeepsSlots, HoldersKept DEF Retry, PoolInv, PoolTypeOK, SlotsAreLeases, Leased
  <2>2. PoolTypeOK' /\ NoOrphanWorker' /\ OutcomeTruthful' /\ VerdictJustified'
    BY <1>6, <2>1, PoolAssumption DEF Retry, Return, Goto, PoolInv,
       PoolTypeOK, NoOrphanWorker, OutcomeTruthful, VerdictJustified, Live, Leased, Codes
  <2>. QED  BY <2>1, <2>2 DEF PoolInv
<1>7. CASE SleepCancelled(r)
  <2>1. SlotsAreLeases' /\ slots' \in 0..Size
    BY <1>7, ReturnKeepsSlots, HoldersKept DEF SleepCancelled, PoolInv, PoolTypeOK, SlotsAreLeases, Leased
  <2>2. PoolTypeOK' /\ NoOrphanWorker' /\ OutcomeTruthful' /\ VerdictJustified'
    BY <1>7, <2>1, PoolAssumption DEF SleepCancelled, Return, Goto, PoolInv,
       PoolTypeOK, NoOrphanWorker, OutcomeTruthful, VerdictJustified, Live, Leased, Codes
  <2>. QED  BY <2>1, <2>2 DEF PoolInv
<1>. QED  BY <1>1, <1>2, <1>3, <1>4, <1>5, <1>6, <1>7

\* The steps of worker processes, of Drain and of the context's owner.
LEMMA OtherStepInv ==
    ASSUME PoolInv,
           \/ \E r \in Requests : WorkerExit(r) \/ CancelKills(r)
           \/ Cancel \/ DrainBegin \/ DrainStep \/ UNCHANGED poolVars
    PROVE  PoolInv'
<1>1. pc' = pc /\ slots' = slots
  BY DEF WorkerExit, CancelKills, Exits, Cancel, DrainBegin, DrainStep, DrainIdle,
         DrainTimeout, DrainKill, DrainEnd, Terminate, poolVars
<1>2. SlotsAreLeases'
  BY <1>1 DEF PoolInv, SlotsAreLeases, Holders
<1>3. CASE \E r \in Requests : WorkerExit(r) \/ CancelKills(r)
  <2>1. PoolTypeOK' /\ NoOrphanWorker' /\ OutcomeTruthful' /\ VerdictJustified'
    BY <1>3 DEF WorkerExit, CancelKills, Exits, PoolInv,
       PoolTypeOK, NoOrphanWorker, OutcomeTruthful, VerdictJustified, Live, Leased, Codes
  <2>. QED  BY <1>2, <2>1 DEF PoolInv
<1>4. CASE DrainKill
  <2>1. PoolTypeOK' /\ NoOrphanWorker' /\ OutcomeTruthful' /\ VerdictJustified'
    BY <1>4 DEF DrainKill, Terminate, Exits, PoolInv,
       PoolTypeOK, NoOrphanWorker, OutcomeTruthful, VerdictJustified, Live, Leased, Codes
  <2>. QED  BY <1>2, <2>1 DEF PoolInv
<1>5. CASE Cancel \/ DrainBegin \/ DrainIdle \/ DrainTimeout \/ DrainEnd \/ UNCHANGED poolVars
  <2>2. /\ UNCHANGED <<pc, attempt, worker, code, unread, outcome, verdict, slots, active>>
        /\ cancelled => cancelled'
        /\ draining => draining'
    BY <1>5 DEF Cancel, DrainBegin, DrainIdle, DrainTimeout, DrainEnd, poolVars
  <2>3. PoolTypeOK'
    BY <1>5, <2>2 DEF Cancel, DrainBegin, DrainIdle, DrainTimeout, DrainEnd, poolVars, PoolInv,
       PoolTypeOK
  <2>1. PoolTypeOK' /\ NoOrphanWorker' /\ OutcomeTruthful' /\ VerdictJustified'
    BY <2>2, <2>3 DEF PoolInv, NoOrphanWorker, OutcomeTruthful, VerdictJustified, Live
  <2>. QED  BY <1>2, <2>1 DEF PoolInv
<1>. QED  BY <1>3, <1>4, <1>5 DEF DrainStep

-----------------------------------------------------------------------------
(* The theorems *)

\* The inductive invariant holds of every behaviour of the pool.
THEOREM PoolInvariant == PoolSpec => []PoolInv
<1>1. PoolInv /\ [PoolNext]_poolVars => PoolInv'
  BY AttemptStepInv, LeaseStepInv, OtherStepInv DEF PoolNext, RunStep, RunProgress
<1>. QED  BY InitInv, <1>1, PTL DEF PoolSpec

\* pool.go: the variables keep their types; in particular the slot channel never
\* holds more than Size tokens and no Run releases a slot it does not own.
THEOREM PoolTypeCorrect == PoolSpec => []PoolTypeOK
BY PoolInvariant, PTL DEF PoolInv

\* pool.go Run and runOnce: a worker process never outlives the part of Run that
\* owns it.
THEOREM NoOrphans == PoolSpec => []NoOrphanWorker
BY PoolInvariant, PTL DEF PoolInv

\* pool.go Run: the verdict reports what the workers did.
THEOREM VerdictsJustified == PoolSpec => []VerdictJustified
BY PoolInvariant, PTL DEF PoolInv

\* pool.go Run and release: at most Size workers are alive at any time.
THEOREM WorkersAreBounded == PoolSpec => []WorkersBounded
<1>1. PoolInv => WorkersBounded
  <2>. SUFFICES ASSUME PoolInv PROVE WorkersBounded
    OBVIOUS
  <2>1. Live \subseteq Holders
    BY DEF PoolInv, NoOrphanWorker, Live, Holders, Leased
  <2>2. Cardinality(Live) <= Cardinality(Holders) /\ Cardinality(Live) \in Nat
    BY <2>1, HoldersFinite, FS_Subset, FS_CardinalityType
  <2>3. Cardinality(Holders) <= Size
    BY PoolAssumption DEF PoolInv, PoolTypeOK, SlotsAreLeases
  <2>. QED  BY <2>2, <2>3, HoldersFinite, PoolAssumption DEF WorkersBounded
<1>. QED  BY PoolInvariant, <1>1, PTL

-----------------------------------------------------------------------------
(* The pool implements WorkerLease. *)

Leases == [r \in Requests |-> LeaseOf(r)]

\* What a step may make of the lease of one request.
Moves(r) ==
    \/ LeaseOf(r)' = LeaseOf(r)
    \/ LeaseOf(r) = "out" /\ LeaseOf(r)' = "idle" /\ slots < Size
    \/ LeaseOf(r) = "idle" /\ LeaseOf(r)' = "busy"
    \/ LeaseOf(r) = "busy" /\ LeaseOf(r)' = "idle"
    \/ LeaseOf(r) \in {"out", "idle"} /\ LeaseOf(r)' = "left"

\* The leases that are out are those of the slots.
LEMMA LeasesAreSlots ==
    ASSUME PoolInv
    PROVE  slots = Cardinality({q \in Requests : Leases[q] \in {"idle", "busy"}})
<1>1. {q \in Requests : Leases[q] \in {"idle", "busy"}} = Holders
  BY DEF Leases, LeaseOf, Holders, PoolInv, NoOrphanWorker, Live, Leased
<1>. QED  BY <1>1 DEF PoolInv, SlotsAreLeases

\* A move of one lease is a step of WorkerLease.
LEMMA MoveIsStep ==
    ASSUME PoolInv, NEW r \in Requests, Moves(r),
           \A q \in Requests \ {r} : LeaseOf(q)' = LeaseOf(q)
    PROVE  [Lease!LeaseNext]_Leases
<1>1. Leases' = [Leases EXCEPT ![r] = LeaseOf(r)']
  BY DEF Leases
<1>2. CASE LeaseOf(r)' = LeaseOf(r)
  BY <1>2 DEF Leases
<1>3. CASE LeaseOf(r) = "out" /\ LeaseOf(r)' = "idle" /\ slots < Size
  <2>2. Cardinality({q \in Requests : Leases[q] \in {"idle", "busy"}}) < Size
    BY <1>3, LeasesAreSlots
  <2>1. Lease!Grant(r)
    BY <1>1, <1>3, <2>2 DEF Lease!Cardinality, Cardinality, Lease!Grant, Lease!Becomes, Leases
  <2>. QED  BY <2>1 DEF Lease!LeaseNext
<1>4. CASE LeaseOf(r) = "idle" /\ LeaseOf(r)' = "busy"
  <2>1. Lease!Start(r)
    BY <1>1, <1>4 DEF Lease!Start, Lease!Becomes, Leases
  <2>. QED  BY <2>1 DEF Lease!LeaseNext
<1>5. CASE LeaseOf(r) = "busy" /\ LeaseOf(r)' = "idle"
  <2>1. Lease!End(r)
    BY <1>1, <1>5 DEF Lease!End, Lease!Becomes, Leases
  <2>. QED  BY <2>1 DEF Lease!LeaseNext
<1>6. CASE LeaseOf(r) \in {"out", "idle"} /\ LeaseOf(r)' = "left"
  <2>1. Lease!Leave(r)
    BY <1>1, <1>6 DEF Lease!Leave, Lease!Becomes, Leases
  <2>. QED  BY <2>1 DEF Lease!LeaseNext
<1>. QED  BY <1>2, <1>3, <1>4, <1>5, <1>6 DEF Moves

\* The steps of a Run move its own lease only.
LEMMA RunMovesLease ==
    ASSUME PoolInv, NEW r \in Requests, RunStep(r)
    PROVE  [Lease!LeaseNext]_Leases
<1>0. /\ pc \in [Requests -> {"idle", "acquire", "done"} \union Leased]
      /\ worker \in [Requests -> {"none", "running", "exited"}]
      /\ worker[r] = "running" => pc[r] \in {"track", "pump", "kill", "wait"}
  BY DEF PoolInv, PoolTypeOK, NoOrphanWorker, Live
<1>1. \A q \in Requests \ {r} : pc'[q] = pc[q] /\ worker'[q] = worker[q]
  BY <1>0 DEF RunStep, RunProgress, AcquireCheck, AcquireSlot, AcquireAbort, LoopCheck, Launch,
         LaunchFails, Track, PumpEOF, PumpError, KillAndWait, Wait, Untrack, Judge, Retry,
         SleepCancelled, Return, Goto, Terminate, Exits
<1>. SUFFICES Moves(r)
  BY <1>1, MoveIsStep DEF LeaseOf
<1>2. CASE AcquireCheck(r) \/ AcquireAbort(r)
  <2>1. /\ pc[r] \in {"idle", "acquire"} /\ pc'[r] \in {"acquire", "done"}
        /\ worker' = worker /\ worker[r] # "running"
    BY <1>0, <1>2 DEF AcquireCheck, AcquireAbort, Return, Goto
  <2>. QED  BY <2>1 DEF Moves, LeaseOf, Leased
<1>3. CASE AcquireSlot(r)
  <2>1. /\ pc[r] = "acquire" /\ pc'[r] = "loop" /\ slots < Size
        /\ worker' = worker /\ worker[r] # "running"
    BY <1>0, <1>3 DEF AcquireSlot, Goto
  <2>. QED  BY <2>1 DEF Moves, LeaseOf, Leased
<1>4. CASE LoopCheck(r) \/ Judge(r) \/ Retry(r) \/ SleepCancelled(r) \/ LaunchFails(r)
  <2>1. /\ pc[r] \in Leased /\ pc'[r] \in Leased \union {"done"}
        /\ worker' = worker /\ worker[r] # "running"
    BY <1>0, <1>4 DEF LoopCheck, Judge, Retry, SleepCancelled, LaunchFails, Return, Goto, Leased
  <2>. QED  BY <2>1 DEF Moves, LeaseOf, Leased
<1>5. CASE \/ Launch(r) \/ Track(r) \/ PumpEOF(r) \/ PumpError(r)
           \/ KillAndWait(r) \/ Wait(r) \/ Untrack(r)
  <2>1. /\ pc[r] \in Leased /\ pc'[r] \in Leased
    BY <1>0, <1>5 DEF Launch, Track, PumpEOF, PumpError, KillAndWait, Wait, Untrack, Goto, Leased
  <2>. QED  BY <2>1 DEF Moves, LeaseOf, Leased
<1>. QED  BY <1>2, <1>3, <1>4, <1>5 DEF RunStep, RunProgress

\* A worker that ends does so under its Run's lease.
LEMMA ExitMovesLease ==
    ASSUME PoolInv, NEW r \in Requests, worker[r] = "running", pc' = pc,
           NEW c, Exits(r, c)
    PROVE  [Lease!LeaseNext]_Leases
<1>1. Moves(r)
  BY DEF PoolInv, PoolTypeOK, NoOrphanWorker, Live, Exits, Moves, LeaseOf, Leased
<1>2. \A q \in Requests \ {r} : LeaseOf(q)' = LeaseOf(q)
  BY DEF Exits, LeaseOf, PoolInv, PoolTypeOK
<1>. QED  BY <1>1, <1>2, MoveIsStep

\* pool.go implements what WorkerLease promises, for any requests, size and attempts.
THEOREM PoolImplementsLease == PoolSpec => PoolIsLease
<1>1. PoolInit => Lease!LeaseInit
  BY DEF PoolInit, Lease!LeaseInit, LeaseOf, Leased
<1>2. ASSUME PoolInv, [PoolNext]_poolVars PROVE [Lease!LeaseNext]_Leases
  <2>1. ASSUME NEW r \in Requests, RunStep(r) PROVE [Lease!LeaseNext]_Leases
    BY <1>2, <2>1, RunMovesLease
  <2>2. ASSUME NEW r \in Requests, WorkerExit(r) \/ CancelKills(r)
        PROVE  [Lease!LeaseNext]_Leases
    BY <1>2, <2>2, ExitMovesLease DEF WorkerExit, CancelKills
  <2>3. CASE DrainKill
    <3>1. PICK r \in killSet : Terminate(r) /\ pc' = pc
      BY <2>3 DEF DrainKill
    <3>2. r \in Requests
      BY <1>2, <3>1 DEF PoolInv, PoolTypeOK
    <3>3. CASE worker[r] = "running"
      BY <1>2, <3>1, <3>2, <3>3, ExitMovesLease DEF Terminate
    <3>4. CASE worker[r] # "running"
      BY <3>1, <3>4 DEF Terminate, Leases, LeaseOf
    <3>. QED  BY <3>3, <3>4
  <2>4. CASE Cancel \/ DrainBegin \/ DrainIdle \/ DrainTimeout \/ DrainEnd \/ UNCHANGED poolVars
    <3>1. pc' = pc /\ worker' = worker
      BY <2>4 DEF Cancel, DrainBegin, DrainIdle, DrainTimeout, DrainEnd, poolVars
    <3>. QED  BY <3>1 DEF Leases, LeaseOf
  <2>. QED  BY <1>2, <2>1, <2>2, <2>3, <2>4 DEF PoolNext, DrainStep
<1>. QED  BY <1>1, <1>2, PoolInvariant, PTL DEF PoolSpec, PoolIsLease, Lease!LeaseSpec, Leases

-----------------------------------------------------------------------------
(***************************************************************************)
(* Proofs about DaemonSession, for any clients, ring and channels.  No     *)
(* channel is sent to or closed after it was closed: a registered one and  *)
(* one that finish took are open, they are never the same, and whoever     *)
(* visits the subscribers holds the mutex.  The ring holds the latest      *)
(* lines without a hole.  The stream of a client that is registered, or    *)
(* was told the end, accounts for every line: what it was sent, what waits *)
(* in its channel and what is counted as missing add up to the output.     *)
(***************************************************************************)

USE SessionAssumption DEF SessionAssumption

\* Who may still send to a channel, or close it.
ChannelsOpen ==
    /\ todo \subseteq subs
    /\ subs \intersect toClose = {}
    /\ (subs \union toClose) \intersect closed = {}
    /\ finish = "no" => toClose = {}
    /\ finish # "no" => subs = {}

\* A client that has not attached has no channel.
AwayHasNone == \A c \in Clients : phase[c] = "away" => c \notin subs \union toClose \union closed

\* What the proofs need of the types.
SessionShape ==
    /\ subs \subseteq Clients /\ toClose \subseteq Clients
    /\ panicked \in BOOLEAN
    /\ phase \in [Clients -> {"away", "attached", "streaming", "leaving", "gone"}]

ChannelInv == SessionShape /\ ChannelsOpen /\ AwayHasNone /\ NoPanic

RingInv == lines \in Nat /\ buffer \in Seq(Nat) /\ RingIsSuffix

-----------------------------------------------------------------------------
(* The channels *)

\* The worker's steps.
LEMMA WorkerPreserves ==
  ASSUME ChannelInv, WorkerStep
  PROVE  ChannelInv'
<1>. USE DEF ChannelInv, SessionShape, ChannelsOpen, AwayHasNone, NoPanic
<1>1. CASE LineRecord
  BY <1>1 DEF LineRecord, streamVars
<1>2. CASE Started \/ FinishDone
  BY <1>2 DEF Started, FinishDone, streamVars, recordVars
<1>3. CASE FinishRecord
  BY <1>3 DEF FinishRecord, Unlocked, streamVars
<1>4. ASSUME NEW c \in Clients, OfferGap(c) \/ OfferLine(c) PROVE ChannelInv'
  <2>1. /\ c \notin closed
        /\ todo' \subseteq todo
        /\ UNCHANGED <<finish, subs, toClose, closed, phase>>
    BY <1>4 DEF OfferGap, OfferLine, streamVars
  <2>2. panicked' = panicked
    BY <1>4, <2>1 DEF OfferGap, OfferLine, Send
  <2>. QED  BY <2>1, <2>2
<1>5. ASSUME NEW c \in Clients, FinishClose(c) PROVE ChannelInv'
  <2>1. /\ c \in toClose /\ toClose' = toClose \ {c} /\ closed' = closed \union {c}
        /\ panicked' = (panicked \/ c \in closed)
        /\ UNCHANGED <<finish, subs, todo, phase>>
    BY <1>5 DEF FinishClose, Close, streamVars
  <2>2. panicked' = panicked /\ finish # "no"
    BY <2>1
  <2>. QED  BY <2>1, <2>2
<1>. QED  BY <1>1, <1>2, <1>3, <1>4, <1>5 DEF WorkerStep

\* The steps of a client's handler.
LEMMA ClientPreserves ==
  ASSUME ChannelInv, NEW c \in Clients, Subscribe(c) \/ StreamStep(c) \/ Disconnect(c)
  PROVE  ChannelInv'
<1>. USE DEF ChannelInv, SessionShape, ChannelsOpen, AwayHasNone, NoPanic
<1>1. CASE Subscribe(c)
  <2>0. PICK p \in {"streaming", "attached"} : phase' = [phase EXCEPT ![c] = p]
    BY <1>1 DEF Subscribe
  <2>1. CASE finish # "no"
    BY <1>1, <2>0, <2>1 DEF Subscribe, Unlocked
  <2>2. CASE finish = "no"
    BY <1>1, <2>0, <2>2 DEF Subscribe, Unlocked
  <2>. QED  BY <2>1, <2>2
<1>2. CASE Receive(c)
  BY <1>2 DEF Receive
<1>3. CASE Get(c) \/ StreamEnds(c) \/ Disconnect(c)
  <2>1. /\ \E p \in {"streaming", "leaving"} : phase' = [phase EXCEPT ![c] = p]
        /\ phase[c] # "away"
        /\ UNCHANGED <<finish, subs, toClose, todo, closed, panicked>>
    BY <1>3 DEF Get, StreamEnds, Disconnect
  <2>. QED  BY <2>1
<1>4. CASE CancelSub(c)
  <2>1. CASE c \in subs
    BY <1>4, <2>1 DEF CancelSub, Close, Unlocked
  <2>2. CASE c \notin subs
    BY <1>4, <2>2 DEF CancelSub, Unlocked
  <2>. QED  BY <2>1, <2>2
<1>. QED  BY <1>1, <1>2, <1>3, <1>4 DEF StreamStep

\* Other sessions come and go.
LEMMA RegistryMoves ==
  ASSUME RegistryStep
  PROVE  /\ named' # "this"
         /\ named' \in {"nothing", "other"}
         /\ UNCHANGED <<state, lines, buffer, failed, finish, subs, toClose, todo, chan, closed,
                        dropped, panicked, phase, found, joined, got, final>>
<1>1. CASE Evict
  BY <1>1 DEF Evict, streamVars
<1>2. CASE Rebind
  BY <1>2 DEF Rebind, streamVars
<1>. QED  BY <1>1, <1>2 DEF RegistryStep

\* Nobody sends to a closed channel or closes one twice, as nobody still may.
THEOREM ChannelInvariant == SessionSpec => []ChannelInv
<1>1. SessionInit => ChannelInv
  BY DEF SessionInit, ChannelInv, SessionShape, ChannelsOpen, AwayHasNone, NoPanic
<1>2. ASSUME ChannelInv, [SessionNext]_sessionVars PROVE ChannelInv'
  <2>1. CASE UNCHANGED sessionVars
    BY <1>2, <2>1 DEF sessionVars, ChannelInv, SessionShape, ChannelsOpen, AwayHasNone, NoPanic
  <2>2. CASE RegistryStep
    BY <1>2, <2>2, RegistryMoves DEF ChannelInv, SessionShape, ChannelsOpen, AwayHasNone, NoPanic
  <2>. QED  BY <1>2, <2>1, <2>2, WorkerPreserves, ClientPreserves DEF SessionNext
<1>. QED  BY <1>1, <1>2, PTL DEF SessionSpec

\* For any clients and capacity: no send meets a closed channel and none is closed
\* twice, whenever clients leave and the session ends (Line, finish, Subscribe).
THEOREM ChannelsSafe == SessionSpec => []NoPanic
<1>1. ChannelInv => NoPanic
  BY DEF ChannelInv
<1>. QED  BY <1>1, ChannelInvariant, PTL

-----------------------------------------------------------------------------
(* The ring *)

\* The last n lines, or as many of them as the ring holds.
IsEnd(s, n) ==
    /\ s \in Seq(Nat)
    /\ Len(s) = IF n < MaxBuffer THEN n ELSE MaxBuffer
    /\ \A i \in 1..Len(s) : s[i] = n - Len(s) + i

\* The next line at the end of a ring that is full pushes the first one out.
LEMMA AppendTrims ==
  ASSUME NEW n \in Nat, NEW s, IsEnd(s, n)
  PROVE  IsEnd(Trim(Append(s, n + 1)), n + 1)
<1>. DEFINE a == Append(s, n + 1)
            t == Trim(a)
<1>0. s \in Seq(Nat) /\ Len(s) \in Nat
  BY DEF IsEnd
<1>1. /\ a \in Seq(Nat) /\ Len(a) = Len(s) + 1
      /\ \A i \in 1..Len(a) : a[i] = n + 1 - Len(a) + i
  <2>1. a \in Seq(Nat) /\ Len(a) = Len(s) + 1
    BY <1>0
  <2>2. ASSUME NEW i \in 1..Len(s) PROVE a[i] = n - Len(s) + i
    BY <1>0, <2>2 DEF IsEnd
  <2>3. a[Len(s) + 1] = n + 1
    BY <1>0
  <2>. HIDE DEF a
  <2>4. ASSUME NEW i \in 1..Len(a) PROVE a[i] = n + 1 - Len(a) + i
    <3>1. CASE i = Len(s) + 1
      BY <1>0, <2>1, <2>3, <3>1
    <3>2. CASE i # Len(s) + 1
      <4>1. i \in 1..Len(s)
        BY <1>0, <2>1, <3>2
      <4>2. a[i] = n - Len(s) + i
        BY <2>2, <4>1
      <4>. QED  BY <1>0, <2>1, <4>1, <4>2
    <3>. QED  BY <3>1, <3>2
  <2>. QED  BY <2>1, <2>4
<1>2. t = IF Len(a) > MaxBuffer THEN SubSeq(a, Len(a) - MaxBuffer + 1, Len(a)) ELSE a
  BY DEF Trim, Ring
<1>3. Len(s) = IF n < MaxBuffer THEN n ELSE MaxBuffer
  BY DEF IsEnd
<1>. HIDE DEF a, t
<1>4. CASE Len(a) > MaxBuffer
  <2>1. Len(a) = MaxBuffer + 1 /\ Len(a) - MaxBuffer + 1 = 2 /\ ~(n + 1 < MaxBuffer)
    BY <1>0, <1>1, <1>3, <1>4
  <2>2. t = SubSeq(a, 2, Len(a))
    BY <1>2, <1>4, <2>1
  <2>3. t \in Seq(Nat) /\ Len(t) = MaxBuffer
    BY <1>1, <2>1, <2>2
  <2>4. ASSUME NEW i \in 1..Len(t) PROVE t[i] = n + 1 - Len(t) + i
    <3>1. t[i] = a[i + 1] /\ i + 1 \in 1..Len(a)
      BY <1>1, <2>1, <2>2, <2>3
    <3>2. a[i + 1] = n + 1 - Len(a) + (i + 1)
      BY <1>1, <3>1
    <3>3. Len(t) = MaxBuffer /\ i \in Nat
      BY <2>3
    <3>. QED  BY <2>1, <3>1, <3>2, <3>3
  <2>5. IsEnd(t, n + 1)
    BY <2>1, <2>3, <2>4 DEF IsEnd
  <2>. QED  BY <2>5 DEF t, a
<1>5. CASE ~(Len(a) > MaxBuffer)
  <2>1. t = a
    BY <1>2, <1>5
  <2>2. Len(a) = IF n + 1 < MaxBuffer THEN n + 1 ELSE MaxBuffer
    BY <1>0, <1>1, <1>3, <1>5
  <2>3. n + 1 \in Nat /\ \A i \in 1..Len(a) : a[i] = (n + 1) - Len(a) + i
    BY <1>1
  <2>4. IsEnd(a, n + 1)
    BY <1>1, <2>2, <2>3, Zenon DEF IsEnd
  <2>. QED  BY <2>1, <2>4 DEF t, a
<1>. QED  BY <1>4, <1>5

\* For any ring: what a late attach replays is the end of the output, without a hole
\* (Session.Line, Session.Subscribe).
THEOREM RingHoldsTheEnd == SessionSpec => []RingIsSuffix
<1>1. SessionInit => RingInv
  BY DEF SessionInit, RingInv, RingIsSuffix
<1>2. ASSUME RingInv, [SessionNext]_sessionVars PROVE RingInv'
  <2>1. CASE LineRecord
    <3>1. lines \in Nat /\ IsEnd(buffer, lines)
      BY <1>2 DEF RingInv, RingIsSuffix, IsEnd
    <3>2. IsEnd(Trim(Append(buffer, lines + 1)), lines + 1)
      BY <3>1, AppendTrims
    <3>3. lines' = lines + 1 /\ buffer' = Trim(Append(buffer, lines + 1))
      BY <2>1 DEF LineRecord
    <3>4. lines' \in Nat /\ IsEnd(buffer', lines')
      BY <3>1, <3>2, <3>3
    <3>. QED  BY <3>4 DEF RingInv, RingIsSuffix, IsEnd
  <2>2. CASE UNCHANGED <<lines, buffer>>
    BY <1>2, <2>2 DEF RingInv, RingIsSuffix
  <2>3. LineRecord \/ UNCHANGED <<lines, buffer>>
    BY <1>2, RegistryMoves DEF SessionNext, sessionVars, recordVars, WorkerStep, StreamStep, Started,
                FinishRecord, FinishDone, OfferGap, OfferLine, FinishClose, Subscribe, Get, Receive,
                StreamEnds, CancelSub, Disconnect
  <2>. QED  BY <2>1, <2>2, <2>3
<1>3. RingInv => RingIsSuffix
  BY DEF RingInv
<1>. QED  BY <1>1, <1>2, <1>3, PTL DEF SessionSpec
-----------------------------------------------------------------------------
(* Where a stream stands after its items *)

HIDE SessionAssumption DEF SessionAssumption

\* A set of naturals that is not empty has a least one.
LEMMA LeastNatural ==
    ASSUME NEW T \in SUBSET Nat, T # {}
    PROVE  \E n \in T : \A m \in T : n <= m
<1>1. PICK n \in T : \A m \in T : ~(<<m, n>> \in OpToRel(<, Nat))
  BY NatLessThanWellFounded, WFMin
<1>2. ASSUME NEW m \in T PROVE <<m, n>> \in OpToRel(<, Nat) <=> m < n
  BY DEF OpToRel
<1>3. ASSUME NEW m \in T PROVE n <= m
  <2>1. m \in Nat /\ n \in Nat /\ ~(m < n)
    BY <1>1, <1>2
  <2>. QED  BY <2>1
<1>. QED  BY <1>3

\* at[i] is where the first i items take a stream that stands at n.
Positions(n, items, at) ==
    at = [i \in 0..Len(items) |-> IF i = 0 THEN n ELSE Accounts(at[i - 1], items[i])]

LEMMA AfterIsLast ==
    ASSUME NEW n, NEW items, NEW at, Positions(n, items, at)
    PROVE  \E f : Positions(n, items, f) /\ After(n, items) = f[Len(items)]
<1>. DEFINE f == CHOOSE f : Positions(n, items, f)
<1>1. Positions(n, items, f)
  OBVIOUS
<1>2. After(n, items) = f[Len(items)]
  BY DEF After, Positions
<1>. QED  BY <1>1, <1>2

\* The recursion has one solution at most.
LEMMA PositionsAreOne ==
    ASSUME NEW n, NEW items \in Seq(Items), NEW f, NEW g,
           Positions(n, items, f), Positions(n, items, g)
    PROVE  f = g
<1>. DEFINE N == Len(items)
            T == {i \in 0..N : f[i] # g[i]}
<1>1. N \in Nat
  OBVIOUS
<1>2. ASSUME NEW h, Positions(n, items, h), NEW i \in 0..N
      PROVE  h[i] = IF i = 0 THEN n ELSE Accounts(h[i - 1], items[i])
  BY <1>2 DEF Positions
<1>3. f = [i \in 0..N |-> f[i]] /\ g = [i \in 0..N |-> g[i]]
  BY DEF Positions
<1>4. CASE T = {}
  <2>1. \A i \in 0..N : f[i] = g[i]
    BY <1>4
  <2>. QED  BY <1>3, <2>1
<1>5. CASE T # {}
  <2>1. T \subseteq Nat
    BY <1>1
  <2>2. PICK m \in T : \A i \in T : m <= i
    BY <1>5, <2>1, LeastNatural
  <2>3. m \in 0..N /\ m # 0
    BY <1>2, <2>2
  <2>4. m - 1 \in 0..N /\ ~(m <= m - 1)
    BY <1>1, <2>3
  <2>5. f[m - 1] = g[m - 1]
    BY <2>2, <2>4
  <2>. QED  BY <1>2, <2>2, <2>3, <2>5
<1>. QED  BY <1>4, <1>5

Extended(items, at, item) ==
    [i \in 0..(Len(items) + 1) |-> IF i <= Len(items) THEN at[i] ELSE Accounts(at[i - 1], item)]

\* One item more.
LEMMA PositionsExtend ==
    ASSUME NEW n, NEW items \in Seq(Items), NEW item \in Items, NEW at, Positions(n, items, at)
    PROVE  Positions(n, Append(items, item), Extended(items, at, item))
<1>. DEFINE N == Len(items)
            more == Append(items, item)
            ext == Extended(items, at, item)
<1>1. /\ N \in Nat /\ Len(more) = N + 1 /\ more[N + 1] = item
      /\ \A i \in 1..N : more[i] = items[i]
  OBVIOUS
<1>2. /\ \A i \in 0..N : ext[i] = at[i]
      /\ ext[N + 1] = Accounts(at[N], item)
  BY <1>1 DEF Extended
<1>3. ASSUME NEW i \in 0..N
      PROVE  at[i] = IF i = 0 THEN n ELSE Accounts(at[i - 1], items[i])
  BY <1>1 DEF Positions
<1>. HIDE DEF more
<1>4. ext = [i \in 0..(N + 1) |-> ext[i]]
  BY DEF Extended
<1>. HIDE DEF ext
<1>5. ASSUME NEW i \in 0..(N + 1)
      PROVE  ext[i] = IF i = 0 THEN n ELSE Accounts(ext[i - 1], more[i])
  <2>1. CASE i = 0
    BY <1>1, <1>2, <1>3, <2>1
  <2>2. CASE i \in 1..N
    <3>1. i \in 0..N /\ i - 1 \in 0..N /\ i # 0
      BY <1>1, <2>2
    <3>2. ext[i] = at[i] /\ ext[i - 1] = at[i - 1] /\ more[i] = items[i]
      BY <1>1, <1>2, <2>2, <3>1
    <3>. QED  BY <1>3, <3>1, <3>2
  <2>3. CASE i = N + 1
    <3>1. i - 1 = N /\ i # 0 /\ N \in 0..N
      BY <1>1, <2>3
    <3>2. ext[i - 1] = at[N] /\ more[i] = item
      BY <1>1, <1>2, <2>3, <3>1
    <3>. QED  BY <1>2, <2>3, <3>1, <3>2
  <2>. QED  BY <1>1, <2>1, <2>2, <2>3
<1>6. ext = [i \in 0..Len(more) |-> IF i = 0 THEN n ELSE Accounts(ext[i - 1], more[i])]
  BY <1>1, <1>4, <1>5
<1>. QED  BY <1>6 DEF Positions, ext, more

\* A sequence that is not empty is one with an element appended.
LEMMA LastApart ==
    ASSUME NEW S, NEW xs \in Seq(S), xs # <<>>
    PROVE  \E front \in Seq(S), e \in S : xs = Append(front, e) /\ Len(front) = Len(xs) - 1
<1>. DEFINE n == Len(xs)
            front == SubSeq(xs, 1, n - 1)
            e == xs[n]
            whole == Append(front, e)
<1>1. n \in Nat /\ n # 0
  OBVIOUS
<1>2. e \in S
  BY <1>1
<1>3. front \in Seq(S) /\ Len(front) = n - 1 /\ \A i \in 1..(n - 1) : front[i] = xs[i]
  <2>. HIDE DEF n
  <2>1. n = Len(xs) /\ n - 1 \in 0..Len(xs)
    BY <1>1 DEF n
  <2>2. Len(front) = n - 1 /\ \A i \in 1..(n - 1) : front[i] = xs[i]
    BY <1>1, <2>1
  <2>3. front \in Seq(S)
    BY <1>1, <2>1
  <2>. QED  BY <2>2, <2>3
<1>. HIDE DEF front, e
<1>4. whole \in Seq(S) /\ Len(whole) = n /\ whole[n] = e /\ \A i \in 1..(n - 1) : whole[i] = front[i]
  BY <1>1, <1>2, <1>3
<1>. HIDE DEF whole
<1>5. ASSUME NEW i \in 1..n PROVE whole[i] = xs[i]
  <2>1. i = n \/ i \in 1..(n - 1)
    BY <1>1
  <2>. QED  BY <1>3, <1>4, <2>1 DEF e
<1>6. whole = xs
  BY <1>4, <1>5, SeqEqual
<1>. QED  BY <1>2, <1>3, <1>6 DEF whole

\* The recursion has a solution: that of the sequence without its last item, extended.
LEMMA PositionsExist ==
    ASSUME NEW n, NEW items \in Seq(Items)
    PROVE  \E at : Positions(n, items, at)
<1>. DEFINE Unsolved == {xs \in Seq(Items) : ~ \E at : Positions(n, xs, at)}
            Lengths == {Len(xs) : xs \in Unsolved}
<1>1. SUFFICES ASSUME Unsolved # {} PROVE FALSE
  OBVIOUS
<1>2. Lengths \in SUBSET Nat /\ Lengths # {}
  <2>1. \A xs \in Unsolved : Len(xs) \in Nat
    OBVIOUS
  <2>. HIDE DEF Unsolved
  <2>. QED  BY <1>1, <2>1
<1>3. PICK k \in Lengths : \A m \in Lengths : k <= m
  <2>. HIDE DEF Lengths
  <2>. QED  BY <1>2, LeastNatural
<1>4. PICK xs \in Unsolved : Len(xs) = k
  OBVIOUS
<1>5. xs # <<>>
  <2>1. Positions(n, <<>>, [i \in 0..0 |-> n])
    BY DEF Positions
  <2>. QED  BY <2>1
<1>6. xs \in Seq(Items) /\ k \in Nat
  BY <1>2
<1>7. PICK front \in Seq(Items), item \in Items : xs = Append(front, item) /\ Len(front) = k - 1
  <2>. HIDE DEF Unsolved, Lengths
  <2>. QED  BY <1>4, <1>5, <1>6, LastApart
<1>8. front \notin Unsolved
  <2>1. front \in Unsolved => k - 1 \in Lengths
    BY <1>7
  <2>. HIDE DEF Unsolved, Lengths
  <2>. QED  BY <1>3, <1>6, <2>1
<1>9. PICK at : Positions(n, front, at)
  BY <1>8
<1>10. Positions(n, xs, Extended(front, at, item))
  BY <1>7, <1>9, PositionsExtend
<1>. QED  BY <1>10

LEMMA AfterNothing == \A n : After(n, <<>>) = n
<1>. TAKE n
<1>1. <<>> \in Seq(Items) /\ Len(<<>>) = 0 /\ 0 \in 0..0
  OBVIOUS
<1>2. PICK f : Positions(n, <<>>, f) /\ After(n, <<>>) = f[0]
  BY <1>1, PositionsExist, AfterIsLast
<1>3. f[0] = n
  BY <1>1, <1>2 DEF Positions
<1>. QED  BY <1>2, <1>3

\* One item more takes the stream where that item takes it.
LEMMA AfterOneMore ==
    ASSUME NEW n, NEW items \in Seq(Items), NEW item \in Items
    PROVE  After(n, Append(items, item)) = Accounts(After(n, items), item)
<1>. DEFINE N == Len(items)
            more == Append(items, item)
<1>1. N \in Nat /\ more \in Seq(Items) /\ Len(more) = N + 1
  OBVIOUS
<1>2. PICK f : Positions(n, items, f) /\ After(n, items) = f[N]
  BY PositionsExist, AfterIsLast
<1>. HIDE DEF more
<1>3. PICK g : Positions(n, more, g) /\ After(n, more) = g[Len(more)]
  BY <1>1, PositionsExist, AfterIsLast
<1>4. g = Extended(items, f, item)
  <2>1. Positions(n, more, Extended(items, f, item))
    BY <1>2, PositionsExtend DEF more
  <2>. QED  BY <1>1, <1>3, <2>1, PositionsAreOne
<1>5. Extended(items, f, item)[N + 1] = Accounts(f[N], item)
  BY <1>1 DEF Extended
<1>. QED  BY <1>1, <1>2, <1>3, <1>4, <1>5 DEF more

-----------------------------------------------------------------------------
(* The streams *)

\* The client's handler is between Subscribe and the end of the stream.
Streaming(c) == phase[c] \in {"attached", "streaming"}

\* Whose stream is held to the lines printed: every client that is registered, streams, or
\* was told the end.
Followed(c) == c \in subs \union toClose \/ Streaming(c) \/ final[c] # "none"

\* The handler lost the session between its two lookups, and the session is evicted.
Lost(c) == found[c] # "this" /\ named # "this"

\* What the client has, will get and was counted as missing.
Balanced(c) ==
    /\ Accounted(c) \in Nat
    /\ Accounted(c) + dropped[c] = IF c \in todo THEN lines - 1 ELSE lines

StreamsBalance == \A c \in Clients : Followed(c) => Balanced(c)

\* How far the session and the handlers of its clients are.
Lifecycle ==
    /\ finish # "no" => state # "running"
    /\ \A c \in Clients :
          /\ Streaming(c) => c \in subs \/ finish # "no"
          /\ phase[c] = "streaming" => found[c] = "this" \/ Lost(c)
          /\ final[c] # "none" => /\ phase[c] # "away" /\ ~Streaming(c) /\ finish # "no"
                                  /\ (final[c] = "error" <=> failed) \/ Lost(c)

\* A client that has not attached has nothing yet.
AwayHasNothing ==
    \A c \in Clients : phase[c] = "away" => got[c] = <<>> /\ chan[c] = <<>> /\ dropped[c] = 0

\* The types, in two halves.
StreamTypes ==
    /\ lines \in 0..MaxLines
    /\ subs \subseteq Clients /\ toClose \subseteq Clients /\ todo \subseteq subs
    /\ chan \in [Clients -> Seq(Items)] /\ \A c \in Clients : Len(chan[c]) <= Capacity
    /\ dropped \in [Clients -> 0..MaxLines]
    /\ joined \in [Clients -> 0..MaxLines]
    /\ got \in [Clients -> Seq(Items)]

RecordTypes ==
    /\ state \in {"queued", "running", "done", "failed"}
    /\ finish \in {"no", "detached", "done"}
    /\ failed \in BOOLEAN
    /\ closed \subseteq Clients
    /\ panicked \in BOOLEAN
    /\ named \in {"this", "nothing", "other"}
    /\ phase \in [Clients -> {"away", "attached", "streaming", "leaving", "gone"}]
    /\ found \in [Clients -> {"this", "nothing", "other"}]
    /\ final \in [Clients -> {"none", "end", "error"}]

BufferTypes == buffer \in Seq(1..MaxLines) /\ Len(buffer) <= MaxBuffer

StreamInv ==
    /\ StreamTypes /\ RecordTypes /\ BufferTypes
    /\ Lifecycle /\ AwayHasNothing /\ StreamsBalance

LEMMA TypesTogether == StreamTypes /\ RecordTypes /\ BufferTypes => SessionTypeOK
  BY DEF StreamTypes, RecordTypes, BufferTypes, SessionTypeOK

LEMMA GapAccounts ==
    ASSUME NEW n \in Nat, NEW k \in Nat
    PROVE  Accounts(n, Gap(k)) = n + k
  BY DEF Accounts, Gap

LEMMA LineAccounts ==
    ASSUME NEW n \in Nat
    PROVE  Accounts(n, Line(n + 1)) = n + 1
  BY DEF Accounts, Line

LEMMA ItemsAre ==
    ASSUME NEW n \in 1..MaxLines
    PROVE  Gap(n) \in Items /\ Line(n) \in Items
  BY DEF Gap, Line, Items

\* Nothing is taken or given: the streams stand where they stood.
LEMMA NothingMoves ==
    ASSUME UNCHANGED <<joined, got, chan>>
    PROVE  \A c \in Clients : Accounted(c)' = Accounted(c)
  BY DEF Accounted

\* An item sent to one client takes its stream where the item takes it.
LEMMA SentAccounts ==
    ASSUME StreamTypes, NEW c \in Clients, NEW item \in Items,
           chan' = [chan EXCEPT ![c] = Append(@, item)], UNCHANGED <<joined, got>>
    PROVE  /\ Accounted(c)' = Accounts(Accounted(c), item)
           /\ \A d \in Clients \ {c} : Accounted(d)' = Accounted(d)
<1>. DEFINE had == got[c]
            waits == chan[c]
<1>1. had \in Seq(Items) /\ waits \in Seq(Items) /\ chan'[c] = Append(waits, item)
  BY DEF StreamTypes
<1>2. had \o Append(waits, item) = Append(had \o waits, item) /\ had \o waits \in Seq(Items)
  <2>. HIDE DEF had, waits
  <2>. QED  BY <1>1
<1>3. After(joined[c], Append(had \o waits, item)) = Accounts(After(joined[c], had \o waits), item)
  <2>. HIDE DEF had, waits
  <2>. QED  BY <1>2, AfterOneMore
<1>4. Accounted(c)' = After(joined[c], had \o Append(waits, item))
  BY <1>1 DEF Accounted
<1>5. \A d \in Clients \ {c} : chan'[d] = chan[d]
  BY DEF StreamTypes
<1>. QED  BY <1>2, <1>3, <1>4, <1>5 DEF Accounted

\* What a client receives was in its channel already.
LEMMA ReceivedAccounts ==
    ASSUME StreamTypes, NEW c \in Clients, Receive(c)
    PROVE  \A d \in Clients : Accounted(d)' = Accounted(d)
<1>. DEFINE had == got[c]
            waits == chan[c]
<1>1. /\ had \in Seq(Items) /\ waits \in Seq(Items) /\ waits # <<>>
      /\ got'[c] = Append(had, Head(waits)) /\ chan'[c] = Tail(waits) /\ joined' = joined
  BY DEF StreamTypes, Receive
<1>2. Append(had, Head(waits)) \o Tail(waits) = had \o waits
  <2>. HIDE DEF had, waits
  <2>. QED  BY <1>1
<1>3. Accounted(c)' = Accounted(c)
  BY <1>1, <1>2 DEF Accounted
<1>4. ASSUME NEW d \in Clients \ {c} PROVE Accounted(d)' = Accounted(d)
  <2>1. got'[d] = got[d] /\ chan'[d] = chan[d] /\ joined' = joined
    BY DEF StreamTypes, Receive
  <2>. QED  BY <2>1 DEF Accounted
<1>. QED  BY <1>3, <1>4


\* A step that moves no item and counts nothing keeps the balance of those it follows.
LEMMA BalanceStays ==
    ASSUME StreamsBalance, UNCHANGED <<lines, todo, dropped>>,
           \A c \in Clients : Accounted(c)' = Accounted(c),
           \A c \in Clients : Followed(c)' => Followed(c)
    PROVE  StreamsBalance'
<1>. SUFFICES ASSUME NEW c \in Clients, Followed(c)' PROVE Balanced(c)'
  BY DEF StreamsBalance
<1>1. Balanced(c)
  BY DEF StreamsBalance
<1>. QED  BY <1>1 DEF Balanced

\* A visit of Line to a subscriber counts or sends, and the stream accounts for it.
LEMMA OfferBalances ==
    ASSUME StreamTypes, StreamsBalance, NEW c \in Clients, OfferGap(c) \/ OfferLine(c)
    PROVE  StreamTypes' /\ StreamsBalance'
<1>0. /\ c \in todo /\ c \in subs
      /\ UNCHANGED <<lines, subs, toClose, phase, joined, got, final>>
  BY DEF OfferGap, OfferLine, recordVars, streamVars, StreamTypes
<1>. DEFINE acc == Accounted(c)
            behind == dropped[c]
<1>1. acc \in Nat /\ acc + behind = lines - 1
  BY <1>0 DEF StreamsBalance, Followed, Balanced
<1>2. /\ behind \in 0..MaxLines /\ lines \in 0..MaxLines /\ MaxLines \in Nat /\ Capacity \in Nat
      /\ Len(chan[c]) \in Nat
  BY SessionAssumption DEF StreamTypes, SessionAssumption
<1>3. \A d \in Clients : Followed(d)' <=> Followed(d)
  BY <1>0 DEF Followed, Streaming
<1>4. SUFFICES /\ chan' \in [Clients -> Seq(Items)] /\ \A d \in Clients : Len(chan'[d]) <= Capacity
               /\ dropped' \in [Clients -> 0..MaxLines] /\ todo' \subseteq subs
               /\ Balanced(c)'
               /\ \A d \in Clients \ {c} :
                     Accounted(d)' = Accounted(d) /\ dropped'[d] = dropped[d] /\ (d \in todo' <=> d \in todo)
  <2>1. StreamTypes'
    BY <1>0, <1>4 DEF StreamTypes
  <2>2. ASSUME NEW d \in Clients \ {c}, Followed(d)' PROVE Balanced(d)'
    <3>1. Balanced(d)
      BY <1>3, <2>2 DEF StreamsBalance
    <3>. QED  BY <1>0, <1>4, <3>1 DEF Balanced
  <2>. QED  BY <1>4, <2>1, <2>2 DEF StreamsBalance
<1>5. CASE /\ behind > 0 /\ ~Full(c) /\ Send(c, Gap(behind))
           /\ dropped' = [dropped EXCEPT ![c] = 0] /\ todo' = todo
  <2>1. Gap(behind) \in Items
    BY <1>2, <1>5, ItemsAre
  <2>2. chan' = [chan EXCEPT ![c] = Append(@, Gap(behind))]
    BY <1>5 DEF Send
  <2>3. /\ Accounted(c)' = acc + behind
        /\ \A d \in Clients \ {c} : Accounted(d)' = Accounted(d)
    <3>1. Accounted(c)' = Accounts(acc, Gap(behind))
      BY <1>0, <2>1, <2>2, SentAccounts
    <3>2. Accounts(acc, Gap(behind)) = acc + behind
      <4>1. acc \in Nat /\ behind \in Nat
        BY <1>1, <1>2
      <4>. HIDE DEF acc, behind
      <4>. QED  BY <4>1, GapAccounts
    <3>3. \A d \in Clients \ {c} : Accounted(d)' = Accounted(d)
      BY <1>0, <2>1, <2>2, SentAccounts
    <3>. QED  BY <3>1, <3>2, <3>3
  <2>4. dropped' \in [Clients -> 0..MaxLines] /\ dropped'[c] = 0 /\ \A d \in Clients \ {c} : dropped'[d] = dropped[d]
    BY <1>2, <1>5 DEF StreamTypes
  <2>5. chan' \in [Clients -> Seq(Items)] /\ \A d \in Clients : Len(chan'[d]) <= Capacity
    <3>1. chan[c] \in Seq(Items) /\ Len(chan[c]) + 1 <= Capacity
      BY <1>2, <1>5 DEF StreamTypes, Full
    <3>2. Append(chan[c], Gap(behind)) \in Seq(Items) /\ Len(Append(chan[c], Gap(behind))) <= Capacity
      BY <2>1, <3>1
    <3>. QED  BY <2>2, <3>2 DEF StreamTypes
  <2>6. Balanced(c)'
    <3>1. Accounted(c)' \in Nat /\ Accounted(c)' + dropped'[c] = lines' - 1 /\ c \in todo'
      <4>. HIDE DEF acc, behind
      <4>. QED  BY <1>0, <1>1, <1>2, <1>5, <2>3, <2>4
    <3>. QED  BY <3>1 DEF Balanced
  <2>7. todo' \subseteq subs
    BY <1>5 DEF StreamTypes
  <2>. QED  BY <1>5, <2>3, <2>4, <2>5, <2>6, <2>7
<1>6. CASE /\ behind = 0 /\ ~Full(c) /\ Send(c, Line(lines))
           /\ dropped' = dropped /\ todo' = todo \ {c}
  <2>0. acc = lines - 1 /\ lines = acc + 1
    <3>. HIDE DEF acc, behind
    <3>. QED  BY <1>1, <1>2, <1>6
  <2>1. Line(lines) \in Items
    BY <1>1, <1>2, <2>0, ItemsAre
  <2>2. chan' = [chan EXCEPT ![c] = Append(@, Line(lines))]
    BY <1>6 DEF Send
  <2>3. /\ Accounted(c)' = lines
        /\ \A d \in Clients \ {c} : Accounted(d)' = Accounted(d)
    <3>1. Accounted(c)' = Accounts(acc, Line(lines))
      BY <1>0, <2>1, <2>2, SentAccounts
    <3>2. Accounts(acc, Line(acc + 1)) = acc + 1
      BY <1>1, LineAccounts
    <3>3. \A d \in Clients \ {c} : Accounted(d)' = Accounted(d)
      BY <1>0, <2>1, <2>2, SentAccounts
    <3>. HIDE DEF acc
    <3>. QED  BY <2>0, <3>1, <3>2, <3>3
  <2>5. chan' \in [Clients -> Seq(Items)] /\ \A d \in Clients : Len(chan'[d]) <= Capacity
    <3>1. chan[c] \in Seq(Items) /\ Len(chan[c]) + 1 <= Capacity
      BY <1>2, <1>6 DEF StreamTypes, Full
    <3>2. Append(chan[c], Line(lines)) \in Seq(Items) /\ Len(Append(chan[c], Line(lines))) <= Capacity
      BY <2>1, <3>1
    <3>. QED  BY <2>2, <3>2 DEF StreamTypes
  <2>6. Balanced(c)'
    <3>1. Accounted(c)' \in Nat /\ Accounted(c)' + dropped'[c] = lines' /\ c \notin todo'
      <4>1. dropped'[c] = 0
        BY <1>6
      <4>. QED  BY <1>0, <1>2, <1>6, <2>3, <4>1
    <3>. QED  BY <3>1 DEF Balanced
  <2>7. todo' \subseteq subs /\ dropped' \in [Clients -> 0..MaxLines]
    BY <1>6 DEF StreamTypes
  <2>. QED  BY <1>6, <2>3, <2>5, <2>6, <2>7
<1>7. CASE /\ Full(c) /\ UNCHANGED chan
           /\ dropped' = [dropped EXCEPT ![c] = behind + 1] /\ todo' = todo \ {c}
  <2>1. \A d \in Clients : Accounted(d)' = Accounted(d)
    BY <1>0, <1>7, NothingMoves
  <2>2. behind + 1 \in 0..MaxLines /\ acc + (behind + 1) = lines
    <3>. HIDE DEF acc, behind
    <3>. QED  BY <1>1, <1>2
  <2>3. dropped' \in [Clients -> 0..MaxLines] /\ dropped'[c] = behind + 1 /\ \A d \in Clients \ {c} : dropped'[d] = dropped[d]
    BY <1>7, <2>2 DEF StreamTypes
  <2>4. Balanced(c)'
    <3>1. Accounted(c)' \in Nat /\ Accounted(c)' + dropped'[c] = lines' /\ c \notin todo'
      BY <1>0, <1>1, <1>7, <2>1, <2>2, <2>3
    <3>. QED  BY <3>1 DEF Balanced
  <2>5. chan' \in [Clients -> Seq(Items)] /\ (\A d \in Clients : Len(chan'[d]) <= Capacity) /\ todo' \subseteq subs
    BY <1>7 DEF StreamTypes
  <2>. QED  BY <1>7, <2>1, <2>3, <2>4, <2>5
<1>8. CASE OfferGap(c)
  BY <1>5, <1>7, <1>8 DEF OfferGap
<1>9. CASE OfferLine(c)
  <2>1. CASE ~Full(c)
    BY <1>6, <1>9, <2>1 DEF OfferLine
  <2>2. CASE Full(c)
    <3>1. behind + 1 = 1
      BY <1>9 DEF OfferLine
    <3>. QED  BY <1>7, <1>9, <2>2, <3>1 DEF OfferLine
  <2>. QED  BY <2>1, <2>2
<1>. QED  BY <1>8, <1>9


\* The other steps of the worker.
LEMMA WorkerBalances ==
    ASSUME StreamInv, ChannelInv,
           \/ Started \/ LineRecord \/ FinishRecord \/ FinishDone
           \/ \E c \in Clients : FinishClose(c)
    PROVE  StreamTypes' /\ StreamsBalance'
<1>1. CASE Started \/ FinishDone \/ \E c \in Clients : FinishClose(c)
  <2>1. /\ UNCHANGED <<lines, subs, todo, chan, dropped, joined, got, phase, final>>
        /\ toClose' \subseteq toClose
    BY <1>1 DEF Started, FinishDone, FinishClose, recordVars, streamVars
  <2>2. StreamTypes'
    BY <2>1 DEF StreamInv, StreamTypes
  <2>3. \A d \in Clients : Followed(d)' => Followed(d)
    BY <2>1 DEF Followed, Streaming
  <2>. QED  BY <2>1, <2>2, <2>3, NothingMoves, BalanceStays DEF StreamInv
<1>2. CASE FinishRecord
  <2>1. /\ UNCHANGED <<lines, todo, chan, dropped, joined, got, phase, final>>
        /\ toClose' = subs /\ subs' = {} /\ todo = {}
    BY <1>2 DEF FinishRecord, Unlocked, streamVars
  <2>2. StreamTypes'
    BY <2>1 DEF StreamInv, StreamTypes
  <2>3. \A d \in Clients : Followed(d)' => Followed(d)
    BY <2>1 DEF Followed, Streaming
  <2>. QED  BY <2>1, <2>2, <2>3, NothingMoves, BalanceStays DEF StreamInv
<1>3. CASE LineRecord
  <2>1. /\ UNCHANGED <<subs, toClose, chan, dropped, joined, got, phase, final>>
        /\ todo = {} /\ todo' = subs /\ lines' = lines + 1 /\ lines < MaxLines
    BY <1>3 DEF LineRecord, Unlocked, streamVars
  <2>2. StreamTypes'
    BY <2>1, SessionAssumption DEF StreamInv, StreamTypes, SessionAssumption
  <2>3. ASSUME NEW d \in Clients, Followed(d)' PROVE d \in subs /\ Followed(d)
    <3>1. finish = "no"
      BY <1>3 DEF LineRecord, StreamInv, Lifecycle
    <3>2. toClose = {} /\ (Streaming(d) => d \in subs) /\ ~(final[d] # "none")
      BY <3>1 DEF StreamInv, Lifecycle, ChannelInv, ChannelsOpen
    <3>3. d \in subs
      BY <2>1, <2>3, <3>2 DEF Followed, Streaming
    <3>. QED  BY <3>3 DEF Followed
  <2>4. ASSUME NEW d \in Clients, Followed(d)' PROVE Balanced(d)'
    <3>1. Accounted(d) \in Nat /\ Accounted(d) + dropped[d] = lines
      BY <2>1, <2>3, <2>4 DEF StreamInv, StreamsBalance, Balanced
    <3>2. Accounted(d)' = Accounted(d)
      BY <2>1, NothingMoves
    <3>3. lines' - 1 = lines /\ d \in todo' /\ dropped' = dropped
      BY <2>1, <2>3, <2>4 DEF StreamInv, StreamTypes
    <3>. QED  BY <3>1, <3>2, <3>3 DEF Balanced
  <2>. QED  BY <2>2, <2>4 DEF StreamsBalance
<1>. QED  BY <1>1, <1>2, <1>3

\* A verdict is an outcome, and that of the session unless the handler lost it.
LEMMA ToldAnOutcome ==
    ASSUME RecordTypes, NEW c \in Clients, Told(c)
    PROVE  \E v \in {"end", "error"} :
              /\ final' = [final EXCEPT ![c] = v]
              /\ found[c] = "this" => (v = "error" <=> failed)
<1>1. PICK v \in Verdicts(c) : final' = [final EXCEPT ![c] = v]
  BY DEF Told
<1>2. found[c] = "this" => v = IF failed THEN "error" ELSE "end"
  BY DEF Verdicts
<1>3. v \in {"end", "error"}
  BY DEF Verdicts, RecordTypes
<1>. QED  BY <1>1, <1>2, <1>3

\* The handlers of the clients.
LEMMA ClientBalances ==
    ASSUME StreamInv, NEW c \in Clients, Subscribe(c) \/ StreamStep(c) \/ Disconnect(c)
    PROVE  StreamTypes' /\ StreamsBalance'
<1>1. CASE Receive(c)
  <2>1. UNCHANGED <<lines, subs, toClose, todo, dropped, joined, phase, final>>
    BY <1>1 DEF Receive, recordVars
  <2>2. StreamTypes'
    <3>1. /\ chan[c] \in Seq(Items) /\ chan[c] # <<>> /\ got[c] \in Seq(Items) /\ Len(chan[c]) <= Capacity
      BY <1>1 DEF Receive, StreamInv, StreamTypes
    <3>2. /\ Append(got[c], Head(chan[c])) \in Seq(Items) /\ Tail(chan[c]) \in Seq(Items)
          /\ Len(Tail(chan[c])) <= Capacity
      BY <3>1, SessionAssumption DEF SessionAssumption
    <3>3. /\ got' \in [Clients -> Seq(Items)] /\ chan' \in [Clients -> Seq(Items)]
          /\ \A d \in Clients : Len(chan'[d]) <= Capacity
      BY <1>1, <3>2 DEF Receive, StreamInv, StreamTypes
    <3>. QED  BY <2>1, <3>3 DEF StreamInv, StreamTypes
  <2>3. \A d \in Clients : Accounted(d)' = Accounted(d)
    BY <1>1, ReceivedAccounts DEF StreamInv
  <2>4. \A d \in Clients : Followed(d)' => Followed(d)
    BY <2>1 DEF Followed, Streaming
  <2>. QED  BY <2>1, <2>2, <2>3, <2>4, BalanceStays DEF StreamInv
<1>2. CASE Get(c) \/ StreamEnds(c) \/ Disconnect(c) \/ CancelSub(c)
  <2>1. /\ UNCHANGED <<lines, toClose, todo, chan, dropped, joined, got>>
        /\ subs' = subs \/ (subs' = subs \ {c} /\ todo = {})
    BY <1>2 DEF Get, StreamEnds, Disconnect, CancelSub, recordVars, Unlocked
  <2>2. StreamTypes'
    BY <2>1 DEF StreamInv, StreamTypes
  <2>3. ASSUME NEW d \in Clients, Followed(d)' PROVE Followed(d)
    <3>1. Streaming(d)' => Streaming(d)
      BY <1>2 DEF Get, StreamEnds, Disconnect, CancelSub, StreamInv, RecordTypes, Streaming
    <3>2. final'[d] # "none" => final[d] # "none" \/ Streaming(d)
      <4>1. d # c \/ Streaming(d) \/ final' = final
        BY <1>2 DEF Get, StreamEnds, Disconnect, CancelSub, Streaming
      <4>2. final' = final \/ \E v \in {"end", "error"} : final' = [final EXCEPT ![c] = v]
        BY <1>2, ToldAnOutcome DEF StreamInv, Get, StreamEnds, Disconnect, CancelSub
      <4>. QED  BY <4>1, <4>2 DEF StreamInv, RecordTypes
    <3>. QED  BY <2>1, <2>3, <3>1, <3>2 DEF Followed
  <2>. QED  BY <2>1, <2>2, <2>3, NothingMoves, BalanceStays DEF StreamInv
<1>3. CASE Subscribe(c)
  <2>1. /\ UNCHANGED <<lines, toClose, todo, chan, dropped, got, final>>
        /\ todo = {} /\ phase[c] = "away" /\ joined' = [joined EXCEPT ![c] = lines]
        /\ \E p \in {"attached", "streaming"} : phase' = [phase EXCEPT ![c] = p]
        /\ subs' = subs \/ subs' = subs \union {c}
    BY <1>3 DEF Subscribe, recordVars, Unlocked
  <2>2. StreamTypes'
    BY <2>1 DEF StreamInv, StreamTypes
  <2>3. ASSUME NEW d \in Clients, Followed(d)' PROVE Balanced(d)'
    <3>1. CASE d = c
      <4>1. got'[c] = <<>> /\ chan'[c] = <<>> /\ dropped'[c] = 0 /\ joined'[c] = lines /\ lines' = lines
        BY <2>1 DEF StreamInv, StreamTypes, AwayHasNothing
      <4>2. <<>> \o <<>> = <<>>
        OBVIOUS
      <4>3. Accounted(c)' = lines
        BY <4>1, <4>2, AfterNothing DEF Accounted
      <4>. QED  BY <2>1, <3>1, <4>1, <4>3 DEF Balanced, StreamInv, StreamTypes
    <3>2. CASE d # c
      <4>1. Followed(d)
        BY <2>1, <2>3, <3>2 DEF Followed, Streaming, StreamInv, RecordTypes
      <4>2. Accounted(d)' = Accounted(d)
        BY <2>1, <3>2 DEF Accounted, StreamInv, StreamTypes
      <4>. QED  BY <2>1, <4>1, <4>2 DEF Balanced, StreamInv, StreamsBalance
    <3>. QED  BY <3>1, <3>2
  <2>. QED  BY <2>2, <2>3 DEF StreamsBalance
<1>. QED  BY <1>1, <1>2, <1>3 DEF StreamStep

\* Where the session and the handlers are.
LEMMA LifecycleStays ==
    ASSUME StreamInv, ChannelInv, SessionNext
    PROVE  RecordTypes' /\ Lifecycle' /\ AwayHasNothing'
<1>. USE DEF StreamInv
<1>1. ASSUME NEW c \in Clients, OfferGap(c) \/ OfferLine(c) \/ Receive(c)
      PROVE  RecordTypes' /\ Lifecycle' /\ AwayHasNothing'
  <2>1. /\ UNCHANGED <<state, finish, failed, subs, closed, phase, final, named, found>>
        /\ panicked' \in BOOLEAN
        /\ phase[c] # "away"
        /\ \A d \in Clients \ {c} : chan'[d] = chan[d] /\ dropped'[d] = dropped[d] /\ got'[d] = got[d]
    <3>1. /\ UNCHANGED <<state, finish, failed, subs, closed, phase, final, named, found>>
          /\ panicked' \in BOOLEAN
      BY <1>1 DEF OfferGap, OfferLine, Receive, Send, recordVars, streamVars, RecordTypes
    <3>2. phase[c] # "away"
      BY <1>1 DEF OfferGap, OfferLine, Receive, ChannelInv, AwayHasNone, StreamTypes
    <3>3. \A d \in Clients \ {c} : chan'[d] = chan[d]
      BY <1>1 DEF OfferGap, OfferLine, Receive, Send, StreamTypes
    <3>4. \A d \in Clients \ {c} : dropped'[d] = dropped[d] /\ got'[d] = got[d]
      BY <1>1 DEF OfferGap, OfferLine, Receive, StreamTypes, streamVars
    <3>. QED  BY <3>1, <3>2, <3>3, <3>4
  <2>2. RecordTypes' /\ Lifecycle'
    BY <2>1 DEF RecordTypes, Lifecycle, Streaming, Lost
  <2>3. AwayHasNothing'
    BY <2>1 DEF AwayHasNothing
  <2>. QED  BY <2>2, <2>3
<1>2. ASSUME Started \/ LineRecord \/ FinishDone \/ \E c \in Clients : FinishClose(c)
      PROVE  RecordTypes' /\ Lifecycle' /\ AwayHasNothing'
  <2>1. /\ UNCHANGED <<subs, chan, dropped, got, phase, final, failed, named, found>>
        /\ finish' \in {finish, "done"} /\ (finish = "no" <=> finish' = "no")
        /\ state' = state \/ (finish = "no" /\ state' = "running")
        /\ closed' \subseteq Clients /\ panicked' \in BOOLEAN
    BY <1>2 DEF Started, LineRecord, FinishDone, FinishClose, Close, recordVars, streamVars, RecordTypes
  <2>2. RecordTypes'
    BY <2>1 DEF RecordTypes
  <2>3. Lifecycle'
    BY <2>1 DEF Lifecycle, Streaming, Lost
  <2>4. AwayHasNothing'
    BY <2>1 DEF AwayHasNothing
  <2>. QED  BY <2>2, <2>3, <2>4
<1>3. ASSUME FinishRecord PROVE RecordTypes' /\ Lifecycle' /\ AwayHasNothing'
  <2>1. /\ UNCHANGED <<chan, dropped, got, phase, final, closed, panicked, named, found>>
        /\ finish = "no" /\ finish' = "detached" /\ failed' \in BOOLEAN
        /\ state' \in {"done", "failed"}
    BY <1>3 DEF FinishRecord, streamVars, RecordTypes
  <2>2. RecordTypes'
    BY <2>1 DEF RecordTypes
  <2>3. Lifecycle'
    BY <2>1 DEF Lifecycle, Streaming, Lost
  <2>4. AwayHasNothing'
    BY <2>1 DEF AwayHasNothing
  <2>. QED  BY <2>2, <2>3, <2>4
<1>4. ASSUME NEW c \in Clients, Subscribe(c) PROVE RecordTypes' /\ Lifecycle' /\ AwayHasNothing'
  <2>1. /\ UNCHANGED <<state, finish, failed, chan, dropped, got, final, panicked, named, found>>
        /\ phase' = [phase EXCEPT ![c] = IF found[c] = "this" THEN "streaming" ELSE "attached"]
        /\ phase[c] = "away"
        /\ closed' \subseteq Clients /\ subs \subseteq subs'
        /\ c \in subs' \/ finish # "no"
    BY <1>4 DEF Subscribe, recordVars, RecordTypes
  <2>2. RecordTypes'
    BY <2>1 DEF RecordTypes
  <2>3. Lifecycle'
    BY <2>1 DEF Lifecycle, RecordTypes, Streaming, Lost
  <2>4. AwayHasNothing'
    BY <2>1 DEF AwayHasNothing, RecordTypes
  <2>. QED  BY <2>2, <2>3, <2>4
<1>5. ASSUME NEW c \in Clients, StreamEnds(c) \/ Disconnect(c) PROVE RecordTypes' /\ Lifecycle' /\ AwayHasNothing'
  <2>1. /\ UNCHANGED <<state, finish, failed, subs, closed, chan, dropped, got, panicked, named, found>>
        /\ phase' = [phase EXCEPT ![c] = "leaving"] /\ phase[c] = "streaming"
    BY <1>5 DEF StreamEnds, Disconnect, recordVars
  <2>0. ASSUME StreamEnds(c)
        PROVE  \E v \in {"end", "error"} : /\ final' = [final EXCEPT ![c] = v]
                                           /\ found[c] = "this" => (v = "error" <=> failed)
    BY <2>0, ToldAnOutcome DEF StreamEnds
  <2>2. RecordTypes'
    <3>1. final' \in [Clients -> {"none", "end", "error"}]
      <4>1. CASE Disconnect(c)
        BY <4>1 DEF Disconnect, RecordTypes
      <4>2. CASE StreamEnds(c)
        <5>1. PICK v \in {"end", "error"} : final' = [final EXCEPT ![c] = v]
          BY <2>0, <4>2
        <5>. QED  BY <5>1 DEF RecordTypes
      <4>. QED  BY <1>5, <4>1, <4>2
    <3>. QED  BY <2>1, <3>1 DEF RecordTypes
  <2>3. c \in closed => finish # "no"
    BY <2>1 DEF Lifecycle, Streaming, ChannelInv, ChannelsOpen
  <2>4. Lifecycle'
    <3>1. CASE Disconnect(c)
      <4>1. final' = final
        BY <3>1 DEF Disconnect
      <4>. QED  BY <2>1, <4>1 DEF Lifecycle, RecordTypes, Streaming, Lost
    <3>2. CASE StreamEnds(c)
      <4>1. PICK v \in {"end", "error"} : /\ final' = [final EXCEPT ![c] = v]
                                          /\ found[c] = "this" => (v = "error" <=> failed)
        BY <2>0, <3>2
      <4>2. finish # "no" /\ ((v = "error" <=> failed) \/ Lost(c))
        BY <2>1, <2>3, <3>2, <4>1 DEF StreamEnds, Lifecycle
      <4>. QED  BY <2>1, <4>1, <4>2 DEF Lifecycle, RecordTypes, Streaming, Lost
    <3>. QED  BY <1>5, <3>1, <3>2
  <2>5. AwayHasNothing'
    BY <2>1 DEF AwayHasNothing, RecordTypes
  <2>. QED  BY <2>2, <2>4, <2>5
<1>6. ASSUME NEW c \in Clients, CancelSub(c) PROVE RecordTypes' /\ Lifecycle' /\ AwayHasNothing'
  <2>1. /\ UNCHANGED <<state, finish, failed, chan, dropped, got, final, named, found>>
        /\ phase' = [phase EXCEPT ![c] = "gone"] /\ phase[c] = "leaving"
        /\ closed' \subseteq Clients /\ panicked' \in BOOLEAN
        /\ \A d \in Clients \ {c} : d \in subs => d \in subs'
    <3>1. /\ UNCHANGED <<state, finish, failed, chan, dropped, got, final, named, found>>
          /\ phase' = [phase EXCEPT ![c] = "gone"] /\ phase[c] = "leaving"
      BY <1>6 DEF CancelSub, recordVars
    <3>2. /\ closed' \subseteq Clients /\ panicked' \in BOOLEAN
          /\ \A d \in Clients \ {c} : d \in subs => d \in subs'
      <4>1. CASE c \in subs
        BY <1>6, <4>1 DEF CancelSub, Close, RecordTypes
      <4>2. CASE c \notin subs
        BY <1>6, <4>2 DEF CancelSub, RecordTypes
      <4>. QED  BY <4>1, <4>2
    <3>. QED  BY <3>1, <3>2
  <2>2. RecordTypes'
    BY <2>1 DEF RecordTypes
  <2>3. Lifecycle'
    BY <2>1 DEF Lifecycle, RecordTypes, Streaming, Lost
  <2>4. AwayHasNothing'
    BY <2>1 DEF AwayHasNothing, RecordTypes
  <2>. QED  BY <2>2, <2>3, <2>4
<1>7. ASSUME NEW c \in Clients, Get(c) PROVE RecordTypes' /\ Lifecycle' /\ AwayHasNothing'
  <2>1. /\ UNCHANGED <<state, finish, failed, subs, closed, chan, dropped, got, final, panicked, named>>
        /\ phase' = [phase EXCEPT ![c] = "streaming"] /\ phase[c] = "attached"
        /\ found' = [found EXCEPT ![c] = named]
    BY <1>7 DEF Get, recordVars
  <2>2. RecordTypes'
    BY <2>1 DEF RecordTypes
  <2>3. Lifecycle'
    BY <2>1 DEF Lifecycle, RecordTypes, Streaming, Lost
  <2>4. AwayHasNothing'
    BY <2>1 DEF AwayHasNothing, RecordTypes
  <2>. QED  BY <2>2, <2>3, <2>4
<1>8. ASSUME RegistryStep PROVE RecordTypes' /\ Lifecycle' /\ AwayHasNothing'
  BY <1>8, RegistryMoves DEF RecordTypes, Lifecycle, AwayHasNothing, Streaming, Lost
<1>. QED  BY <1>1, <1>2, <1>3, <1>4, <1>5, <1>6, <1>7, <1>8 DEF SessionNext, WorkerStep, StreamStep

\* The ring keeps its type.
LEMMA BufferStays ==
    ASSUME StreamInv, SessionNext
    PROVE  BufferTypes'
<1>1. CASE LineRecord
  <2>. DEFINE more == Append(buffer, lines + 1)
  <2>1. /\ lines \in 0..MaxLines /\ lines < MaxLines /\ MaxLines \in Nat /\ MaxBuffer \in Nat \ {0}
        /\ buffer \in Seq(1..MaxLines) /\ Len(buffer) <= MaxBuffer /\ buffer' = Trim(more)
    BY <1>1, SessionAssumption DEF LineRecord, StreamInv, StreamTypes, BufferTypes, SessionAssumption
  <2>2. lines + 1 \in 1..MaxLines
    BY <2>1
  <2>3. more \in Seq(1..MaxLines) /\ Len(more) \in Nat /\ Len(more) <= MaxBuffer + 1
    BY <2>1, <2>2
  <2>. HIDE DEF more
  <2>4. CASE Len(more) > MaxBuffer
    <3>1. buffer' = SubSeq(more, Len(more) - MaxBuffer + 1, Len(more))
      BY <2>1, <2>4 DEF Trim, Ring
    <3>2. Len(more) - MaxBuffer + 1 \in 1..Len(more) /\ Len(more) = MaxBuffer + 1
      BY <2>1, <2>3, <2>4
    <3>3. buffer' \in Seq(1..MaxLines) /\ Len(buffer') = MaxBuffer
      BY <2>1, <2>3, <3>1, <3>2
    <3>. QED  BY <2>1, <3>3 DEF BufferTypes
  <2>5. CASE ~(Len(more) > MaxBuffer)
    BY <2>1, <2>3, <2>5 DEF Trim, BufferTypes
  <2>. QED  BY <2>4, <2>5
<1>2. CASE UNCHANGED buffer
  BY <1>2 DEF StreamInv, BufferTypes
<1>3. LineRecord \/ UNCHANGED buffer
  BY RegistryMoves DEF SessionNext, recordVars, WorkerStep, StreamStep, Started, FinishRecord,
         FinishDone, OfferGap, OfferLine, FinishClose, Subscribe, Get, Receive, StreamEnds,
         CancelSub, Disconnect
<1>. QED  BY <1>1, <1>2, <1>3

\* The inductive invariant of the streams.
THEOREM StreamInvariant == SessionSpec => []StreamInv
<1>1. SessionInit => StreamInv
  <2>. SUFFICES ASSUME SessionInit PROVE StreamInv
    OBVIOUS
  <2>1. /\ lines = 0 /\ buffer = <<>> /\ subs = {} /\ toClose = {} /\ todo = {}
        /\ dropped = [c \in Clients |-> 0] /\ joined = [c \in Clients |-> 0]
        /\ chan = [c \in Clients |-> <<>>] /\ got = [c \in Clients |-> <<>>]
    BY DEF SessionInit
  <2>2. StreamTypes
    BY <2>1, SessionAssumption DEF StreamTypes, SessionAssumption
  <2>3. BufferTypes
    BY <2>1, SessionAssumption DEF BufferTypes, SessionAssumption
  <2>4. RecordTypes
    BY DEF SessionInit, RecordTypes
  <2>5. Lifecycle /\ AwayHasNothing
    BY DEF SessionInit, Lifecycle, AwayHasNothing, Streaming
  <2>6. StreamsBalance
    BY DEF SessionInit, StreamsBalance, Followed, Streaming
  <2>. QED  BY <2>2, <2>3, <2>4, <2>5, <2>6 DEF StreamInv
<1>2. ASSUME StreamInv, ChannelInv, [SessionNext]_sessionVars PROVE StreamInv'
  <2>1. CASE SessionNext
    <3>1. StreamTypes' /\ StreamsBalance'
      <4>1. ASSUME NEW c \in Clients, OfferGap(c) \/ OfferLine(c) PROVE StreamTypes' /\ StreamsBalance'
        BY <1>2, <4>1, OfferBalances DEF StreamInv
      <4>2. ASSUME \/ Started \/ LineRecord \/ FinishRecord \/ FinishDone
                   \/ \E c \in Clients : FinishClose(c)
            PROVE  StreamTypes' /\ StreamsBalance'
        BY <1>2, <4>2, WorkerBalances
      <4>3. ASSUME NEW c \in Clients, Subscribe(c) \/ StreamStep(c) \/ Disconnect(c)
            PROVE  StreamTypes' /\ StreamsBalance'
        BY <1>2, <4>3, ClientBalances
      <4>4. ASSUME RegistryStep PROVE StreamTypes' /\ StreamsBalance'
        <5>1. UNCHANGED <<lines, subs, toClose, todo, chan, dropped, joined, got, phase, final>>
          BY <4>4, RegistryMoves
        <5>2. StreamTypes'
          BY <1>2, <5>1 DEF StreamInv, StreamTypes
        <5>3. \A d \in Clients : Followed(d)' => Followed(d)
          BY <5>1 DEF Followed, Streaming
        <5>. QED  BY <1>2, <5>1, <5>2, <5>3, NothingMoves, BalanceStays DEF StreamInv
      <4>. QED  BY <2>1, <4>1, <4>2, <4>3, <4>4 DEF SessionNext, WorkerStep
    <3>2. RecordTypes' /\ Lifecycle' /\ AwayHasNothing'
      BY <1>2, <2>1, LifecycleStays
    <3>3. BufferTypes'
      BY <1>2, <2>1, BufferStays
    <3>. QED  BY <3>1, <3>2, <3>3 DEF StreamInv
  <2>2. CASE UNCHANGED sessionVars
    <3>1. StreamTypes' /\ RecordTypes' /\ BufferTypes' /\ Lifecycle' /\ AwayHasNothing'
      BY <1>2, <2>2 DEF sessionVars, StreamInv, StreamTypes, RecordTypes, BufferTypes, Lifecycle, AwayHasNothing,
                           Streaming, Lost
    <3>2. StreamsBalance'
      BY <1>2, <2>2 DEF sessionVars, StreamInv, StreamsBalance, Followed, Streaming, Balanced, Accounted
    <3>. QED  BY <3>1, <3>2 DEF StreamInv
  <2>. QED  BY <1>2, <2>1, <2>2
<1>. QED  BY <1>1, <1>2, ChannelInvariant, PTL DEF SessionSpec

\* session.go Line and gapNotice: for any clients, ring and channels, the stream of every
\* subscribed client has each line since it attached, in order and once, or counts it.
THEOREM StreamsAreExact == SessionSpec => []StreamExact
<1>1. StreamInv /\ RingIsSuffix => StreamExact
  <2>. SUFFICES ASSUME StreamInv, RingIsSuffix PROVE StreamExact
    OBVIOUS
  <2>1. \A c \in subs \union toClose :
           Accounted(c) + dropped[c] = IF c \in todo THEN lines - 1 ELSE lines
    BY DEF StreamInv, StreamTypes, StreamsBalance, Followed, Balanced
  <2>. QED  BY <2>1, TypesTogether DEF StreamInv, StreamExact
<1>. QED  BY <1>1, StreamInvariant, RingHoldsTheEnd, PTL

\* server.go finishStream: a client that was told the end has every line that its stream does
\* not report as dropped or its subscription counted, of a session that is over; and it was
\* told how that session ended, or it attached and lost the session to an eviction between
\* handleAttach's two lookups.
THEOREM FinalFramesAreTrue == SessionSpec => []FinalFrameTruthful
<1>1. StreamInv /\ ChannelInv => FinalFrameTruthful
  <2>. SUFFICES ASSUME StreamInv, ChannelInv, NEW c \in Clients, final[c] # "none"
                PROVE  /\ finish # "no" /\ ((final[c] = "error" <=> failed) \/ Lost(c))
                       /\ Accounted(c) + dropped[c] = lines
    BY DEF FinalFrameTruthful, Lost
  <2>1. finish # "no" /\ ((final[c] = "error" <=> failed) \/ Lost(c))
    BY DEF StreamInv, Lifecycle
  <2>2. c \notin todo
    BY <2>1 DEF ChannelInv, ChannelsOpen
  <2>. QED  BY <2>1, <2>2 DEF StreamInv, StreamsBalance, Followed, Balanced
<1>. QED  BY <1>1, StreamInvariant, ChannelInvariant, PTL

=============================================================================
