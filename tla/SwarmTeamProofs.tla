--------------------------- MODULE SwarmTeamProofs ---------------------------
(***************************************************************************)
(* Proofs about SwarmTeam for any slot cap, any restart cap and any number *)
(* of ids.  The inductive invariant says which ids are in use, that a      *)
(* member in service serves a registered task, that the queue holds the    *)
(* queued members once each, that the slot counter counts the slotted      *)
(* ones, and that every unfinished task is owned by a member that is still *)
(* to record an outcome for it.                                            *)
(***************************************************************************)
EXTENDS SwarmTeam, FiniteSetTheorems, TLAPS

\* The members that hold a slot.
Holders == {m \in Ids : pc[m] \in Slotted}

\* An id not yet minted is untouched.
FreshIds ==
    \A m \in Ids : m > idSeq => /\ pc[m] = "none" /\ serves[m] = 0
                                /\ status[m] = "none" /\ owner[m] = 0

\* The queue holds exactly the queued members, once each.
QueueExact ==
    /\ \A i \in 1..Len(queue) : pc[queue[i]] = "queued"
    /\ \A i, j \in 1..Len(queue) : queue[i] = queue[j] => i = j
    /\ \A m \in Ids : pc[m] = "queued" => \E i \in 1..Len(queue) : queue[i] = m

\* A minted member serves a task of its own or an adopted one.
MembersServe ==
    /\ \A m \in Ids : pc[m] # "none" => serves[m] \in Ids
    /\ \A m \in Ids : pc[m] = "handoff" => status[m] = "none" /\ serves[m] = m
    /\ \A m \in Ids : pc[m] \in {"handoff", "retire"} =>
           from[m] \in Ids /\ status[from[m]] # "none"
    /\ \A m \in Ids : pc[m] \notin {"none", "handoff", "gone"} => status[serves[m]] # "none"
    /\ \A t \in Ids : status[t] # "none" => owner[t] \in Ids
    /\ \A t \in adopter.todo : status[t] # "none"

SwarmInv == SwarmTypeOK /\ FreshIds /\ QueueExact /\ SlotsExact /\ NoIdleSlot
            /\ MembersServe /\ NoTaskLost

-----------------------------------------------------------------------------
(* Slots *)

LEMMA HoldersFinite ==
    IsFiniteSet(Ids) /\ IsFiniteSet(Holders) /\ Cardinality(Holders) \in Nat
<1>1. IsFiniteSet(Ids)
  BY SwarmAssumption, FS_Interval DEF Ids
<1>. QED  BY <1>1, FS_Subset, FS_CardinalityType DEF Holders

\* A step of m that neither takes nor frees a slot.
LEMMA HoldersKept ==
    ASSUME NEW m \in Ids, NEW b, SwarmTypeOK, pc' = [pc EXCEPT ![m] = b],
           (pc[m] \in Slotted) <=> (b \in Slotted)
    PROVE  Holders' = Holders
  BY DEF Holders, SwarmTypeOK

LEMMA HoldersTaken ==
    ASSUME NEW m \in Ids, NEW b, SwarmTypeOK, pc' = [pc EXCEPT ![m] = b],
           pc[m] \notin Slotted, b \in Slotted
    PROVE  Cardinality(Holders') = Cardinality(Holders) + 1
<1>1. Holders' = Holders \union {m} /\ m \notin Holders
  BY DEF Holders, SwarmTypeOK
<1>. QED  BY <1>1, HoldersFinite, FS_AddElement

LEMMA HoldersFreed ==
    ASSUME NEW m \in Ids, NEW b, SwarmTypeOK, pc' = [pc EXCEPT ![m] = b],
           pc[m] \in Slotted, b \notin Slotted
    PROVE  /\ Cardinality(Holders') = Cardinality(Holders) - 1
           /\ Cardinality(Holders') \in Nat
<1>1. Holders' = Holders \ {m} /\ m \in Holders
  BY DEF Holders, SwarmTypeOK
<1>2. IsFiniteSet(Holders') /\ Cardinality(Holders') \in Nat
  BY <1>1, HoldersFinite, FS_RemoveElement, FS_CardinalityType
<1>. QED  BY <1>1, <1>2, HoldersFinite, FS_RemoveElement

\* One member's slot passes to another.
LEMMA HoldersSwapped ==
    ASSUME NEW m \in Ids, NEW h \in Ids, NEW a, NEW b, SwarmTypeOK,
           pc' = [pc EXCEPT ![m] = a, ![h] = b],
           pc[m] \in Slotted, a \notin Slotted, pc[h] \notin Slotted, b \in Slotted
    PROVE  Cardinality(Holders') = Cardinality(Holders)
<1>0. m # h
  OBVIOUS
<1>1. Holders' = (Holders \ {m}) \union {h} /\ m \in Holders /\ h \notin Holders \ {m}
  BY <1>0 DEF Holders, SwarmTypeOK
<1>2. IsFiniteSet(Holders \ {m}) /\ Cardinality(Holders \ {m}) = Cardinality(Holders) - 1
  BY <1>1, HoldersFinite, FS_RemoveElement
<1>3. Cardinality(Holders') = Cardinality(Holders \ {m}) + 1
  BY <1>1, <1>2, FS_AddElement
<1>. QED  BY <1>2, <1>3, HoldersFinite

-----------------------------------------------------------------------------
(* Every step keeps the invariant *)

\* A step of m that neither queues nor launches it leaves the team in order.
LEMMA TeamKept ==
    ASSUME SwarmInv, NEW m \in Ids, NEW b, pc' = [pc EXCEPT ![m] = b],
           pc[m] # "queued", b # "queued", (pc[m] \in Slotted) <=> (b \in Slotted),
           UNCHANGED <<running, queue>>
    PROVE  QueueExact' /\ NoIdleSlot' /\ SlotsExact'
<1>1. SlotsExact'
  BY HoldersKept DEF SwarmInv, SlotsExact, Holders
<1>2. QueueExact'
  <2>1. \A k \in Ids : pc'[k] = "queued" <=> pc[k] = "queued"
    BY DEF SwarmInv, SwarmTypeOK
  <2>2. \A i \in 1..Len(queue) : queue[i] \in Ids
    BY DEF SwarmInv, SwarmTypeOK
  <2>. QED  BY <2>1, <2>2 DEF SwarmInv, QueueExact
<1>3. NoIdleSlot'
  BY DEF SwarmInv, NoIdleSlot
<1>. QED  BY <1>1, <1>2, <1>3

\* An id minted by this step was fresh.
LEMMA MintedFresh ==
    ASSUME SwarmInv, NEW m \in Ids, NEW t, NEW at, Mint(m, t, at)
    PROVE  /\ idSeq' = m /\ idSeq' \in 0..MaxIds
           /\ pc[m] = "none" /\ serves[m] = 0 /\ status[m] = "none" /\ owner[m] = 0
           /\ \A k \in Ids : k > idSeq' => k > idSeq /\ k # m
<1>1. m > idSeq /\ idSeq \in Nat /\ m \in 1..MaxIds /\ idSeq' = m /\ m = idSeq + 1
  BY SwarmAssumption DEF Mint, SwarmInv, SwarmTypeOK, Ids
<1>2. \A k \in Ids : k > m => k > idSeq /\ k # m
  BY <1>1, SwarmAssumption DEF Ids
<1>. QED  BY <1>1, <1>2, SwarmAssumption DEF SwarmInv, FreshIds

LEMMA InitInv == SwarmInit => SwarmInv
<1>. SUFFICES ASSUME SwarmInit PROVE SwarmInv
  OBVIOUS
<1>1. SwarmTypeOK
  <2>1. running \in 0..MaxSize /\ idSeq \in 0..MaxIds /\ restarts \in [Ids -> 0..MaxRestarts]
    BY SwarmAssumption DEF SwarmInit
  <2>2. /\ status \in [Ids -> Statuses \union {"none"}]
        /\ owner \in [Ids -> Ids \union {0}]
        /\ serves \in [Ids -> Ids \union {0}]
        /\ from \in [Ids -> Ids \union {0}]
    BY DEF SwarmInit
  <2>3. pc \in [Ids -> Slotted \union {"none", "registered", "queued", "gone", "handoff",
     "retire"}]
    BY DEF SwarmInit
  <2>4. queue \in Seq(Ids) /\ members \in SUBSET Ids
    BY DEF SwarmInit
  <2>5. adopter \in [at : {"idle", "list", "scan"}, live : SUBSET Ids, todo : SUBSET Ids]
    BY DEF SwarmInit
  <2>. QED  BY <2>1, <2>2, <2>3, <2>4, <2>5 DEF SwarmTypeOK
<1>2. FreshIds /\ MembersServe
  BY DEF SwarmInit, FreshIds, MembersServe
<1>3. QueueExact /\ NoIdleSlot
  BY DEF SwarmInit, QueueExact, NoIdleSlot
<1>4. SlotsExact
  <2>1. Holders = {}
    BY DEF SwarmInit, Holders, Slotted
  <2>. QED  BY <2>1, FS_EmptySet DEF SwarmInit, SlotsExact, Holders
<1>5. NoTaskLost
  BY DEF SwarmInit, NoTaskLost, Pending
<1>. QED  BY <1>1, <1>2, <1>3, <1>4, <1>5 DEF SwarmInv

\* The calls that mint an id.
LEMMA MintInv ==
    ASSUME SwarmInv, NEW m \in Ids, NEW t \in Ids,
           Spawn(m) \/ HandoffCheck(m, t) \/ AdoptOne(m, t)
    PROVE  SwarmInv'
<1>1. CASE Spawn(m)
  <2>0. /\ idSeq' = m /\ idSeq' \in 0..MaxIds
        /\ pc[m] = "none" /\ serves[m] = 0 /\ status[m] = "none" /\ owner[m] = 0
        /\ \A k \in Ids : k > idSeq' => k > idSeq /\ k # m
    BY <1>1, MintedFresh DEF Spawn
  <2>1. SwarmTypeOK'
    BY <1>1, <2>0, SwarmAssumption DEF Spawn, Mint, Register, registryVars, teamVars,
       memberVars, SwarmInv, SwarmTypeOK, Slotted, Statuses
  <2>2. FreshIds' /\ MembersServe'
    BY <1>1, <2>0 DEF Spawn, Mint, Register, registryVars, teamVars, memberVars,
       SwarmInv, SwarmTypeOK,
       FreshIds, MembersServe, QueueExact, Slotted, terminal, Terminal, Pending
  <2>3. QueueExact' /\ NoIdleSlot' /\ SlotsExact'
    BY <1>1, <2>0, TeamKept DEF Spawn, Mint, Register, registryVars, teamVars,
       memberVars, Slotted
  <2>4. NoTaskLost'
    BY <1>1, <2>0 DEF Spawn, Mint, Register, registryVars, teamVars, memberVars,
       SwarmInv, SwarmTypeOK,
       FreshIds, MembersServe, QueueExact, NoTaskLost, Pending, terminal, Terminal
  <2>. QED  BY <2>1, <2>2, <2>3, <2>4 DEF SwarmInv
<1>2. CASE HandoffCheck(m, t)
  <2>0. /\ idSeq' = m /\ idSeq' \in 0..MaxIds
        /\ pc[m] = "none" /\ serves[m] = 0 /\ status[m] = "none" /\ owner[m] = 0
        /\ \A k \in Ids : k > idSeq' => k > idSeq /\ k # m
    BY <1>2, MintedFresh DEF HandoffCheck
  <2>1. SwarmTypeOK'
    BY <1>2, <2>0, SwarmAssumption DEF HandoffCheck, Mint, registryVars, teamVars,
       memberVars, SwarmInv, SwarmTypeOK, Slotted, Statuses
  <2>2. FreshIds' /\ MembersServe'
    BY <1>2, <2>0 DEF HandoffCheck, Mint, registryVars, teamVars, memberVars, SwarmInv,
       SwarmTypeOK,
       FreshIds, MembersServe, QueueExact, Slotted, terminal, Terminal, Pending
  <2>3. QueueExact' /\ NoIdleSlot' /\ SlotsExact'
    BY <1>2, <2>0, TeamKept DEF HandoffCheck, Mint, registryVars, teamVars, memberVars,
       Slotted
  <2>4. NoTaskLost'
    BY <1>2, <2>0 DEF HandoffCheck, Mint, registryVars, teamVars, memberVars, SwarmInv,
       SwarmTypeOK,
       FreshIds, MembersServe, QueueExact, NoTaskLost, Pending, terminal, Terminal
  <2>. QED  BY <2>1, <2>2, <2>3, <2>4 DEF SwarmInv
<1>3. CASE AdoptOne(m, t)
  <2>0. /\ idSeq' = m /\ idSeq' \in 0..MaxIds
        /\ pc[m] = "none" /\ serves[m] = 0 /\ status[m] = "none" /\ owner[m] = 0
        /\ \A k \in Ids : k > idSeq' => k > idSeq /\ k # m
    BY <1>3, MintedFresh DEF AdoptOne
  <2>1. SwarmTypeOK'
    BY <1>3, <2>0, SwarmAssumption DEF AdoptOne, Mint, Reassign, Terminal, registryVars,
       teamVars, memberVars, SwarmInv, SwarmTypeOK, Slotted, Statuses
  <2>2. FreshIds' /\ MembersServe'
    BY <1>3, <2>0 DEF AdoptOne, Mint, Reassign, Terminal, registryVars, teamVars,
       memberVars, SwarmInv, SwarmTypeOK,
       FreshIds, MembersServe, QueueExact, Slotted, terminal, Terminal, Pending
  <2>3. QueueExact' /\ NoIdleSlot' /\ SlotsExact'
    BY <1>3, <2>0, TeamKept DEF AdoptOne, Mint, Reassign, Terminal, registryVars,
       teamVars, memberVars, Slotted
  <2>4. NoTaskLost'
    BY <1>3, <2>0 DEF AdoptOne, Mint, Reassign, Terminal, registryVars, teamVars,
       memberVars, SwarmInv, SwarmTypeOK,
       FreshIds, MembersServe, QueueExact, NoTaskLost, Pending, terminal, Terminal
  <2>. QED  BY <2>1, <2>2, <2>3, <2>4 DEF SwarmInv
<1>. QED  BY <1>1, <1>2, <1>3

\* A member's steps while it holds its slot.
LEMMA SlottedStepInv ==
    ASSUME SwarmInv, NEW m \in Ids,
           \/ LaunchStarts(m) \/ LaunchFails(m) \/ AddMember(m) \/ MarkRunning(m)
           \/ MemberEnds(m) \/ MemberRelaunched(m) \/ RecordOutcome(m) \/ RemoveMember(m)
    PROVE  SwarmInv'
<1>1. CASE LaunchStarts(m)
  <2>1. SwarmTypeOK'
    BY <1>1, SwarmAssumption DEF LaunchStarts, Goto, registryVars, teamVars, memberVars,
       SwarmInv, SwarmTypeOK, Slotted, Statuses
  <2>2. FreshIds' /\ MembersServe'
    BY <1>1 DEF LaunchStarts, Goto, registryVars, teamVars, memberVars, SwarmInv,
       SwarmTypeOK,
       FreshIds, MembersServe, QueueExact, Slotted, terminal, Terminal, Pending
  <2>3. QueueExact' /\ NoIdleSlot' /\ SlotsExact'
    BY <1>1, TeamKept DEF LaunchStarts, Goto, registryVars, teamVars, memberVars, Slotted
  <2>4. NoTaskLost'
    BY <1>1 DEF LaunchStarts, Goto, registryVars, teamVars, memberVars, SwarmInv,
       SwarmTypeOK,
       FreshIds, MembersServe, QueueExact, NoTaskLost, Pending, terminal, Terminal
  <2>. QED  BY <2>1, <2>2, <2>3, <2>4 DEF SwarmInv
<1>2. CASE LaunchFails(m)
  <2>1. SwarmTypeOK'
    BY <1>2, SwarmAssumption DEF LaunchFails, Goto, Finish, registryVars, teamVars,
       memberVars, SwarmInv, SwarmTypeOK, Slotted, Statuses
  <2>2. FreshIds' /\ MembersServe'
    BY <1>2 DEF LaunchFails, Goto, Finish, registryVars, teamVars, memberVars, SwarmInv,
       SwarmTypeOK,
       FreshIds, MembersServe, QueueExact, Slotted, terminal, Terminal, Pending
  <2>3. QueueExact' /\ NoIdleSlot' /\ SlotsExact'
    BY <1>2, TeamKept DEF LaunchFails, Goto, Finish, registryVars, teamVars, memberVars,
       Slotted
  <2>4. NoTaskLost'
    BY <1>2 DEF LaunchFails, Goto, Finish, registryVars, teamVars, memberVars, SwarmInv,
       SwarmTypeOK,
       FreshIds, MembersServe, QueueExact, NoTaskLost, Pending, terminal, Terminal
  <2>. QED  BY <2>1, <2>2, <2>3, <2>4 DEF SwarmInv
<1>3. CASE AddMember(m)
  <2>1. SwarmTypeOK'
    BY <1>3, SwarmAssumption DEF AddMember, Goto, registryVars, teamVars, memberVars,
       SwarmInv, SwarmTypeOK, Slotted, Statuses
  <2>2. FreshIds' /\ MembersServe'
    BY <1>3 DEF AddMember, Goto, registryVars, teamVars, memberVars, SwarmInv, SwarmTypeOK,
       FreshIds, MembersServe, QueueExact, Slotted, terminal, Terminal, Pending
  <2>3. QueueExact' /\ NoIdleSlot' /\ SlotsExact'
    BY <1>3, TeamKept DEF AddMember, Goto, registryVars, teamVars, memberVars, Slotted
  <2>4. NoTaskLost'
    BY <1>3 DEF AddMember, Goto, registryVars, teamVars, memberVars, SwarmInv, SwarmTypeOK,
       FreshIds, MembersServe, QueueExact, NoTaskLost, Pending, terminal, Terminal
  <2>. QED  BY <2>1, <2>2, <2>3, <2>4 DEF SwarmInv
<1>4. CASE MarkRunning(m)
  <2>1. SwarmTypeOK'
    BY <1>4, SwarmAssumption DEF MarkRunning, Goto, SetStatus, registryVars, teamVars,
       memberVars, SwarmInv, SwarmTypeOK, Slotted, Statuses
  <2>2. FreshIds' /\ MembersServe'
    BY <1>4 DEF MarkRunning, Goto, SetStatus, registryVars, teamVars, memberVars,
       SwarmInv, SwarmTypeOK,
       FreshIds, MembersServe, QueueExact, Slotted, terminal, Terminal, Pending
  <2>3. QueueExact' /\ NoIdleSlot' /\ SlotsExact'
    BY <1>4, TeamKept DEF MarkRunning, Goto, SetStatus, registryVars, teamVars,
       memberVars, Slotted
  <2>5. Pending' = Pending
    <3>0. pc[m] = "added"
      BY <1>4 DEF MarkRunning, Goto
    <3>1. serves[m] \in Ids /\ status[serves[m]] \in Statuses
      <4>1. serves[m] \in Ids /\ status[serves[m]] # "none"
        BY <3>0 DEF SwarmInv, MembersServe
      <4>. QED  BY <4>1 DEF SwarmInv, SwarmTypeOK
    <3>2. status' = [status EXCEPT ![serves[m]] = IF Terminal(serves[m]) THEN @ ELSE "running"]
      BY <1>4 DEF MarkRunning, SetStatus
    <3>3. status[serves[m]] \in {"pending", "running"} \/ Terminal(serves[m])
      BY <3>1 DEF Statuses, Terminal, terminal
    <3>4. CASE Terminal(serves[m])
      BY <3>1, <3>2, <3>4 DEF Pending, SwarmInv, SwarmTypeOK
    <3>5. CASE ~Terminal(serves[m])
      <4>1. status' = [status EXCEPT ![serves[m]] = "running"]
        BY <3>2, <3>5
      <4>. QED  BY <3>1, <3>3, <3>5, <4>1 DEF Pending, SwarmInv, SwarmTypeOK
    <3>. QED  BY <3>4, <3>5
  <2>4. NoTaskLost'
    BY <1>4, <2>5 DEF MarkRunning, Goto, memberVars, SwarmInv, SwarmTypeOK, MembersServe,
       NoTaskLost, Pending
  <2>. QED  BY <2>1, <2>2, <2>3, <2>4 DEF SwarmInv
<1>5. CASE MemberEnds(m) /\ pc'[m] = "ok"
  <2>0. /\ Goto(m, "alive", "ok")
        /\ UNCHANGED <<idSeq, registryVars, teamVars, memberVars, adopter>>
    BY <1>5 DEF MemberEnds, Goto, SwarmInv, SwarmTypeOK
  <2>1. SwarmTypeOK'
    BY <2>0, SwarmAssumption DEF Goto, registryVars, teamVars, memberVars, SwarmInv,
       SwarmTypeOK, Slotted, Statuses
  <2>2. FreshIds' /\ MembersServe'
    BY <2>0 DEF Goto, registryVars, teamVars, memberVars, SwarmInv, SwarmTypeOK,
       FreshIds, MembersServe, QueueExact, Slotted, terminal, Terminal, Pending
  <2>3. QueueExact' /\ NoIdleSlot' /\ SlotsExact'
    BY <2>0, TeamKept DEF Goto, registryVars, teamVars, memberVars, Slotted
  <2>4. NoTaskLost'
    BY <2>0 DEF Goto, registryVars, teamVars, memberVars, SwarmInv, SwarmTypeOK,
       FreshIds, MembersServe, QueueExact, NoTaskLost, Pending, terminal, Terminal
  <2>. QED  BY <2>1, <2>2, <2>3, <2>4 DEF SwarmInv
<1>6. CASE MemberEnds(m) /\ pc'[m] = "failed"
  <2>0. /\ Goto(m, "alive", "failed")
        /\ UNCHANGED <<idSeq, registryVars, teamVars, memberVars, adopter>>
    BY <1>6 DEF MemberEnds, Goto, SwarmInv, SwarmTypeOK
  <2>1. SwarmTypeOK'
    BY <2>0, SwarmAssumption DEF Goto, registryVars, teamVars, memberVars, SwarmInv,
       SwarmTypeOK, Slotted, Statuses
  <2>2. FreshIds' /\ MembersServe'
    BY <2>0 DEF Goto, registryVars, teamVars, memberVars, SwarmInv, SwarmTypeOK,
       FreshIds, MembersServe, QueueExact, Slotted, terminal, Terminal, Pending
  <2>3. QueueExact' /\ NoIdleSlot' /\ SlotsExact'
    BY <2>0, TeamKept DEF Goto, registryVars, teamVars, memberVars, Slotted
  <2>4. NoTaskLost'
    BY <2>0 DEF Goto, registryVars, teamVars, memberVars, SwarmInv, SwarmTypeOK,
       FreshIds, MembersServe, QueueExact, NoTaskLost, Pending, terminal, Terminal
  <2>. QED  BY <2>1, <2>2, <2>3, <2>4 DEF SwarmInv
<1>7. CASE MemberRelaunched(m)
  <2>1. SwarmTypeOK'
    BY <1>7, SwarmAssumption DEF MemberRelaunched, registryVars, teamVars, memberVars,
       SwarmInv, SwarmTypeOK, Slotted, Statuses
  <2>2. FreshIds' /\ MembersServe'
    BY <1>7 DEF MemberRelaunched, registryVars, teamVars, memberVars, SwarmInv, SwarmTypeOK,
       FreshIds, MembersServe, QueueExact, Slotted, terminal, Terminal, Pending
  <2>3. QueueExact' /\ NoIdleSlot' /\ SlotsExact'
    BY <1>7 DEF MemberRelaunched, teamVars, SwarmInv, QueueExact, NoIdleSlot, SlotsExact
  <2>4. NoTaskLost'
    BY <1>7 DEF MemberRelaunched, registryVars, teamVars, memberVars, SwarmInv, SwarmTypeOK,
       FreshIds, MembersServe, QueueExact, NoTaskLost, Pending, terminal, Terminal
  <2>. QED  BY <2>1, <2>2, <2>3, <2>4 DEF SwarmInv
<1>8. CASE RecordOutcome(m) /\ pc[m] = "ok"
  <2>0. /\ Goto(m, "ok", "remove") /\ Finish(serves[m], "done")
        /\ UNCHANGED <<idSeq, owner, teamVars, memberVars, adopter>>
    BY <1>8 DEF RecordOutcome, Goto
  <2>1. SwarmTypeOK'
    BY <2>0, SwarmAssumption DEF Goto, Finish, registryVars, teamVars, memberVars,
       SwarmInv, SwarmTypeOK, Slotted, Statuses
  <2>2. FreshIds' /\ MembersServe'
    BY <2>0 DEF Goto, Finish, registryVars, teamVars, memberVars, SwarmInv, SwarmTypeOK,
       FreshIds, MembersServe, QueueExact, Slotted, terminal, Terminal, Pending
  <2>3. QueueExact' /\ NoIdleSlot' /\ SlotsExact'
    BY <2>0, TeamKept DEF Goto, Finish, registryVars, teamVars, memberVars, Slotted
  <2>4. NoTaskLost'
    BY <2>0 DEF Goto, Finish, registryVars, teamVars, memberVars, SwarmInv, SwarmTypeOK,
       FreshIds, MembersServe, QueueExact, NoTaskLost, Pending, terminal, Terminal
  <2>. QED  BY <2>1, <2>2, <2>3, <2>4 DEF SwarmInv
<1>9. CASE RecordOutcome(m) /\ pc[m] = "failed"
  <2>0. /\ Goto(m, "failed", "remove") /\ Finish(serves[m], "failed")
        /\ UNCHANGED <<idSeq, owner, teamVars, memberVars, adopter>>
    BY <1>9 DEF RecordOutcome, Goto
  <2>1. SwarmTypeOK'
    BY <2>0, SwarmAssumption DEF Goto, Finish, registryVars, teamVars, memberVars,
       SwarmInv, SwarmTypeOK, Slotted, Statuses
  <2>2. FreshIds' /\ MembersServe'
    BY <2>0 DEF Goto, Finish, registryVars, teamVars, memberVars, SwarmInv, SwarmTypeOK,
       FreshIds, MembersServe, QueueExact, Slotted, terminal, Terminal, Pending
  <2>3. QueueExact' /\ NoIdleSlot' /\ SlotsExact'
    BY <2>0, TeamKept DEF Goto, Finish, registryVars, teamVars, memberVars, Slotted
  <2>4. NoTaskLost'
    BY <2>0 DEF Goto, Finish, registryVars, teamVars, memberVars, SwarmInv, SwarmTypeOK,
       FreshIds, MembersServe, QueueExact, NoTaskLost, Pending, terminal, Terminal
  <2>. QED  BY <2>1, <2>2, <2>3, <2>4 DEF SwarmInv
<1>10. CASE RemoveMember(m)
  <2>1. SwarmTypeOK'
    BY <1>10, SwarmAssumption DEF RemoveMember, Goto, registryVars, teamVars, memberVars,
       SwarmInv, SwarmTypeOK, Slotted, Statuses
  <2>2. FreshIds' /\ MembersServe'
    BY <1>10 DEF RemoveMember, Goto, registryVars, teamVars, memberVars, SwarmInv,
       SwarmTypeOK,
       FreshIds, MembersServe, QueueExact, Slotted, terminal, Terminal, Pending
  <2>3. QueueExact' /\ NoIdleSlot' /\ SlotsExact'
    BY <1>10, TeamKept DEF RemoveMember, Goto, registryVars, teamVars, memberVars, Slotted
  <2>4. NoTaskLost'
    BY <1>10 DEF RemoveMember, Goto, registryVars, teamVars, memberVars, SwarmInv,
       SwarmTypeOK,
       FreshIds, MembersServe, QueueExact, NoTaskLost, Pending, terminal, Terminal
  <2>. QED  BY <2>1, <2>2, <2>3, <2>4 DEF SwarmInv
<1>. QED  BY <1>1, <1>2, <1>3, <1>4, <1>5, <1>6, <1>7, <1>8, <1>9, <1>10
  DEF SwarmInv, SwarmTypeOK, MemberEnds, RecordOutcome, Goto

\* Handoff after its check.
LEMMA HandoffStepInv ==
    ASSUME SwarmInv, NEW m \in Ids,
           HandoffNoteFails(m) \/ HandoffRegister(m) \/ HandoffRetire(m)
    PROVE  SwarmInv'
<1>1. CASE HandoffNoteFails(m)
  <2>1. SwarmTypeOK'
    BY <1>1, SwarmAssumption DEF HandoffNoteFails, Goto, registryVars, teamVars,
       memberVars, SwarmInv, SwarmTypeOK, Slotted, Statuses
  <2>2. FreshIds' /\ MembersServe'
    BY <1>1 DEF HandoffNoteFails, Goto, registryVars, teamVars, memberVars, SwarmInv,
       SwarmTypeOK,
       FreshIds, MembersServe, QueueExact, Slotted, terminal, Terminal, Pending
  <2>3. QueueExact' /\ NoIdleSlot' /\ SlotsExact'
    BY <1>1, TeamKept DEF HandoffNoteFails, Goto, registryVars, teamVars, memberVars,
       Slotted
  <2>4. NoTaskLost'
    BY <1>1 DEF HandoffNoteFails, Goto, registryVars, teamVars, memberVars, SwarmInv,
       SwarmTypeOK,
       FreshIds, MembersServe, QueueExact, NoTaskLost, Pending, terminal, Terminal
  <2>. QED  BY <2>1, <2>2, <2>3, <2>4 DEF SwarmInv
<1>2. CASE HandoffRegister(m)
  <2>1. SwarmTypeOK'
    BY <1>2, SwarmAssumption DEF HandoffRegister, Goto, Register, registryVars, teamVars,
       memberVars, SwarmInv, SwarmTypeOK, Slotted, Statuses
  <2>2. FreshIds' /\ MembersServe'
    BY <1>2 DEF HandoffRegister, Goto, Register, registryVars, teamVars, memberVars,
       SwarmInv, SwarmTypeOK,
       FreshIds, MembersServe, QueueExact, Slotted, terminal, Terminal, Pending
  <2>3. QueueExact' /\ NoIdleSlot' /\ SlotsExact'
    BY <1>2, TeamKept DEF HandoffRegister, Goto, Register, registryVars, teamVars,
       memberVars, Slotted
  <2>4. NoTaskLost'
    BY <1>2 DEF HandoffRegister, Goto, Register, registryVars, teamVars, memberVars,
       SwarmInv, SwarmTypeOK,
       FreshIds, MembersServe, QueueExact, NoTaskLost, Pending, terminal, Terminal
  <2>. QED  BY <2>1, <2>2, <2>3, <2>4 DEF SwarmInv
<1>3. CASE HandoffRetire(m)
  <2>1. SwarmTypeOK'
    BY <1>3, SwarmAssumption DEF HandoffRetire, Goto, SetStatus, registryVars, teamVars,
       memberVars, SwarmInv, SwarmTypeOK, Slotted, Statuses
  <2>2. FreshIds' /\ MembersServe'
    BY <1>3 DEF HandoffRetire, Goto, SetStatus, registryVars, teamVars, memberVars,
       SwarmInv, SwarmTypeOK,
       FreshIds, MembersServe, QueueExact, Slotted, terminal, Terminal, Pending
  <2>3. QueueExact' /\ NoIdleSlot' /\ SlotsExact'
    BY <1>3, TeamKept DEF HandoffRetire, Goto, SetStatus, registryVars, teamVars,
       memberVars, Slotted
  <2>4. NoTaskLost'
    BY <1>3 DEF HandoffRetire, Goto, SetStatus, registryVars, teamVars, memberVars,
       SwarmInv, SwarmTypeOK,
       FreshIds, MembersServe, QueueExact, NoTaskLost, Pending, terminal, Terminal
  <2>. QED  BY <2>1, <2>2, <2>3, <2>4 DEF SwarmInv
<1>. QED  BY <1>1, <1>2, <1>3

\* A member takes a free slot, or queues behind a full team.
LEMMA AdmitInv ==
    ASSUME SwarmInv, NEW m \in Ids, Admit(m)
    PROVE  SwarmInv'
<1>1. /\ pc[m] = "registered"
      /\ UNCHANGED <<idSeq, registryVars, members, memberVars, adopter>>
      /\ pc' = [pc EXCEPT ![m] = "launching"] \/ pc' = [pc EXCEPT ![m] = "queued"]
  BY DEF Admit, Goto
<1>0. \A k \in Ids : k # m => pc'[k] = pc[k]
  BY <1>1 DEF SwarmInv, SwarmTypeOK
<1>5. pc'[m] \in {"launching", "queued"}
  BY <1>1 DEF SwarmInv, SwarmTypeOK
<1>2. FreshIds' /\ MembersServe' /\ NoTaskLost'
  <2>1. FreshIds'
    BY <1>0, <1>1 DEF registryVars, memberVars, SwarmInv, FreshIds
  <2>2. MembersServe'
    BY <1>0, <1>1, <1>5 DEF registryVars, memberVars, SwarmInv, MembersServe
  <2>3. NoTaskLost'
    BY <1>0, <1>1, <1>5 DEF registryVars, memberVars, SwarmInv, NoTaskLost, Pending,
       MembersServe
  <2>. QED  BY <2>1, <2>2, <2>3
<1>3. CASE running < MaxSize
  <2>1. running' = running + 1 /\ queue' = queue /\ pc' = [pc EXCEPT ![m] = "launching"]
    BY <1>3, SwarmAssumption DEF Admit, Goto, SwarmInv, SwarmTypeOK
  <2>2. SwarmTypeOK'
    BY <1>1, <1>3, <2>1, SwarmAssumption
       DEF registryVars, memberVars, SwarmInv, SwarmTypeOK, Slotted
  <2>3. Cardinality(Holders') = Cardinality(Holders) + 1
    BY <1>1, <2>1, HoldersTaken DEF SwarmInv, Slotted
  <2>4. SlotsExact'
    BY <2>1, <2>3 DEF SwarmInv, SlotsExact, Holders
  <2>5. queue = <<>>
    BY <1>3, SwarmAssumption DEF SwarmInv, SwarmTypeOK, NoIdleSlot
  <2>6. QueueExact' /\ NoIdleSlot'
    BY <1>1, <2>1, <2>5 DEF SwarmInv, SwarmTypeOK, QueueExact, NoIdleSlot
  <2>. QED  BY <1>2, <2>2, <2>4, <2>6 DEF SwarmInv
<1>4. CASE running >= MaxSize
  <2>1. running' = running /\ queue' = Append(queue, m) /\ pc' = [pc EXCEPT ![m] = "queued"]
    BY <1>4, SwarmAssumption DEF Admit, Goto, SwarmInv, SwarmTypeOK
  <2>2. SwarmTypeOK'
    BY <1>1, <2>1 DEF registryVars, memberVars, SwarmInv, SwarmTypeOK, Slotted
  <2>3. SlotsExact'
    BY <1>1, <2>1, HoldersKept DEF SwarmInv, SlotsExact, Holders, Slotted
  <2>4. NoIdleSlot'
    BY <1>4, <2>1, SwarmAssumption DEF SwarmInv, SwarmTypeOK, NoIdleSlot
  <2>5. QueueExact'
    <3>1. /\ queue \in Seq(Ids) /\ Len(queue) \in Nat /\ Len(queue') = Len(queue) + 1
          /\ queue'[Len(queue) + 1] = m
          /\ \A i \in 1..Len(queue) : queue'[i] = queue[i] /\ queue[i] \in Ids
      BY <2>1 DEF SwarmInv, SwarmTypeOK
    <3>2. \A i \in 1..Len(queue) : queue[i] # m
      BY <1>1 DEF SwarmInv, QueueExact
    <3>3. \A k \in Ids : pc'[k] = IF k = m THEN "queued" ELSE pc[k]
      BY <2>1 DEF SwarmInv, SwarmTypeOK
    <3>4. \A i \in 1..Len(queue') : i \in 1..Len(queue) \/ i = Len(queue) + 1
      BY <3>1
    <3>5. \A i \in 1..Len(queue') : pc'[queue'[i]] = "queued"
      BY <3>1, <3>3, <3>4 DEF SwarmInv, QueueExact
    <3>6. \A i, j \in 1..Len(queue') : queue'[i] = queue'[j] => i = j
      BY <3>1, <3>2, <3>4 DEF SwarmInv, QueueExact
    <3>7. \A k \in Ids : pc'[k] = "queued" => \E i \in 1..Len(queue') : queue'[i] = k
      <4>1. SUFFICES ASSUME NEW k \in Ids, pc'[k] = "queued"
                     PROVE  \E i \in 1..Len(queue') : queue'[i] = k
        OBVIOUS
      <4>2. CASE k = m
        BY <3>1, <4>2
      <4>3. CASE k # m
        <5>1. PICK i \in 1..Len(queue) : queue[i] = k
          BY <3>3, <4>1, <4>3 DEF SwarmInv, QueueExact
        <5>. QED  BY <3>1, <5>1
      <4>. QED  BY <4>2, <4>3
    <3>. QED  BY <3>5, <3>6, <3>7 DEF QueueExact
  <2>. QED  BY <1>2, <2>2, <2>3, <2>4, <2>5 DEF SwarmInv
<1>. QED  BY <1>3, <1>4, SwarmAssumption DEF SwarmInv, SwarmTypeOK

\* A member gives its slot up: to the head of the queue if there is one.
LEMMA ExitInv ==
    ASSUME SwarmInv, NEW m \in Ids, ExitIdle(m) \/ ExitNext(m)
    PROVE  SwarmInv'
<1>1. CASE ExitIdle(m)
  <2>1. /\ pc[m] = "exiting" /\ pc' = [pc EXCEPT ![m] = "gone"] /\ queue = <<>>
        /\ UNCHANGED <<idSeq, registryVars, queue, members, memberVars, adopter>>
    BY <1>1 DEF ExitIdle, Goto
  <2>2. /\ Cardinality(Holders') = Cardinality(Holders) - 1
        /\ Cardinality(Holders') \in Nat
    BY <2>1, HoldersFreed DEF SwarmInv, Slotted
  <2>3. running = Cardinality(Holders) /\ running \in 0..MaxSize
    BY DEF SwarmInv, SwarmTypeOK, SlotsExact, Holders
  <2>4. running' = running - 1 /\ running' \in 0..MaxSize
    BY <1>1, <2>2, <2>3, HoldersFinite, SwarmAssumption DEF ExitIdle
  <2>5. SlotsExact'
    BY <2>2, <2>3, <2>4 DEF SlotsExact, Holders
  <2>6. SwarmTypeOK'
    BY <2>1, <2>4 DEF registryVars, memberVars, SwarmInv, SwarmTypeOK, Slotted
  <2>7. QueueExact' /\ NoIdleSlot'
    BY <2>1 DEF SwarmInv, SwarmTypeOK, QueueExact, NoIdleSlot
  <2>8. FreshIds' /\ MembersServe' /\ NoTaskLost'
    BY <2>1 DEF registryVars, memberVars, SwarmInv, SwarmTypeOK, FreshIds, MembersServe,
                NoTaskLost, Pending
  <2>. QED  BY <2>5, <2>6, <2>7, <2>8 DEF SwarmInv
<1>2. CASE ExitNext(m)
  <2>. DEFINE h == Head(queue)
  <2>1. /\ pc[m] = "exiting" /\ pc' = [pc EXCEPT ![m] = "gone", ![h] = "launching"]
        /\ queue # <<>> /\ queue' = Tail(queue)
        /\ UNCHANGED <<idSeq, registryVars, running, members, memberVars, adopter>>
    BY <1>2 DEF ExitNext
  <2>2. /\ queue \in Seq(Ids) /\ Len(queue) \in Nat \ {0}
        /\ h = queue[1] /\ h \in Ids /\ pc[h] = "queued" /\ h # m
        /\ Len(queue') = Len(queue) - 1 /\ queue' \in Seq(Ids)
        /\ \A i \in 1..Len(queue') : queue'[i] = queue[i + 1] /\ i + 1 \in 1..Len(queue)
    BY <2>1 DEF SwarmInv, SwarmTypeOK, QueueExact
  <2>3. \A k \in Ids : pc'[k] = IF k = h THEN "launching" ELSE IF k = m THEN "gone" ELSE pc[k]
    BY <2>1, <2>2 DEF SwarmInv, SwarmTypeOK
  <2>4. SwarmTypeOK'
    BY <2>1, <2>2 DEF registryVars, memberVars, SwarmInv, SwarmTypeOK, Slotted
  <2>5. SlotsExact'
    BY <2>1, <2>2, HoldersSwapped DEF SwarmInv, SlotsExact, Holders, Slotted
  <2>6. NoIdleSlot'
    BY <2>1, <2>2 DEF SwarmInv, NoIdleSlot
  <2>7. QueueExact'
    <3>1. \A i \in 1..Len(queue') : queue'[i] \in Ids /\ queue'[i] # h /\ queue'[i] # m
      BY <2>1, <2>2 DEF SwarmInv, QueueExact
    <3>2. \A i \in 1..Len(queue') : pc'[queue'[i]] = "queued"
      BY <2>2, <2>3, <3>1 DEF SwarmInv, QueueExact
    <3>3. \A i, j \in 1..Len(queue') : queue'[i] = queue'[j] => i = j
      BY <2>2 DEF SwarmInv, QueueExact
    <3>4. \A k \in Ids : pc'[k] = "queued" => \E i \in 1..Len(queue') : queue'[i] = k
      <4>1. SUFFICES ASSUME NEW k \in Ids, pc'[k] = "queued"
                     PROVE  \E i \in 1..Len(queue') : queue'[i] = k
        OBVIOUS
      <4>2. PICK i \in 1..Len(queue) : queue[i] = k
        BY <2>3, <4>1 DEF SwarmInv, QueueExact
      <4>3. i # 1 /\ i - 1 \in 1..Len(queue')
        BY <2>2, <2>3, <4>1, <4>2
      <4>4. queue'[i - 1] = queue[i]
        BY <2>2, <4>3
      <4>. QED  BY <4>2, <4>3, <4>4
    <3>. QED  BY <3>2, <3>3, <3>4 DEF QueueExact
  <2>8. FreshIds' /\ MembersServe' /\ NoTaskLost'
    <3>0. /\ \A k \in Ids : k # m /\ k # h => pc'[k] = pc[k]
          /\ pc'[m] = "gone" /\ pc'[h] = "launching"
      BY <2>2, <2>3
    <3>1. FreshIds'
      BY <2>1, <2>2, <2>3 DEF registryVars, memberVars, SwarmInv, FreshIds
    <3>2. MembersServe'
      BY <2>1, <2>2, <3>0 DEF registryVars, memberVars, SwarmInv, MembersServe
    <3>3. NoTaskLost'
      <4>1. Pending' = Pending /\ owner' = owner /\ serves' = serves
        BY <2>1 DEF registryVars, memberVars, Pending
      <4>2. \A t \in Pending : owner[t] \in Ids /\ owner[t] # m
        BY <2>1 DEF SwarmInv, NoTaskLost, MembersServe, Pending
      <4>3. \A t \in Pending : pc'[owner[t]] = pc[owner[t]] \/ pc'[owner[t]] = "launching"
        BY <3>0, <4>2
      <4>. QED  BY <4>1, <4>3 DEF SwarmInv, NoTaskLost
    <3>. QED  BY <3>1, <3>2, <3>3
  <2>. QED  BY <2>4, <2>5, <2>6, <2>7, <2>8 DEF SwarmInv
<1>. QED  BY <1>1, <1>2

\* AdoptOrphans between its snapshots, and stuttering.
LEMMA AdopterInv ==
    ASSUME SwarmInv, AdoptStep \/ UNCHANGED swarmVars
    PROVE  SwarmInv'
<1>1. UNCHANGED <<idSeq, registryVars, teamVars, pc, memberVars>>
  BY DEF AdoptStep, AdoptLive, AdoptList, AdoptSkip, AdoptEnd, swarmVars
<1>2. /\ adopter' \in [at : {"idle", "list", "scan"}, live : SUBSET Ids, todo : SUBSET Ids]
      /\ \A t \in adopter'.todo : status[t] # "none"
  <2>1. CASE AdoptLive
    BY <2>1 DEF AdoptLive, SwarmInv, SwarmTypeOK, MembersServe
  <2>2. CASE AdoptList
    BY <2>2 DEF AdoptList, Pending, SwarmInv, SwarmTypeOK, MembersServe
  <2>3. CASE AdoptEnd
    BY <2>3 DEF AdoptEnd, SwarmInv, SwarmTypeOK, MembersServe
  <2>4. CASE \E t \in Ids : AdoptSkip(t)
    <3>1. PICK t \in Ids : adopter' = [adopter EXCEPT !.todo = @ \ {t}]
      BY <2>4 DEF AdoptSkip
    <3>2. adopter'.todo \subseteq adopter.todo /\ adopter'.at = adopter.at
          /\ adopter'.live = adopter.live
      BY <3>1 DEF SwarmInv, SwarmTypeOK
    <3>. QED  BY <3>1, <3>2 DEF SwarmInv, SwarmTypeOK, MembersServe
  <2>5. CASE UNCHANGED swarmVars
    BY <2>5 DEF swarmVars, SwarmInv, SwarmTypeOK, MembersServe
  <2>. QED  BY <2>1, <2>2, <2>3, <2>4, <2>5 DEF AdoptStep
<1>3. SwarmTypeOK'
  BY <1>1, <1>2 DEF registryVars, teamVars, memberVars, SwarmInv, SwarmTypeOK
<1>4. FreshIds' /\ MembersServe' /\ NoTaskLost'
  BY <1>1, <1>2 DEF registryVars, memberVars, SwarmInv, FreshIds, MembersServe,
     NoTaskLost, Pending
<1>5. QueueExact' /\ NoIdleSlot' /\ SlotsExact'
  BY <1>1 DEF teamVars, SwarmInv, QueueExact, NoIdleSlot, SlotsExact
<1>. QED  BY <1>3, <1>4, <1>5 DEF SwarmInv

-----------------------------------------------------------------------------
(* The theorems *)

\* The inductive invariant holds of every behaviour of the swarm.
THEOREM SwarmInvariant == SwarmSpec => []SwarmInv
<1>1. SwarmInv /\ [SwarmNext]_swarmVars => SwarmInv'
  BY MintInv, SlottedStepInv, HandoffStepInv, AdmitInv, ExitInv, AdopterInv
     DEF SwarmNext, CallStep, GoroutineStep
<1>. QED  BY InitInv, <1>1, PTL DEF SwarmSpec

\* team.go and coordinator.go: the state keeps its types, the slot counter its
\* bound.
THEOREM SwarmTypeCorrect == SwarmSpec => []SwarmTypeOK
BY SwarmInvariant, PTL DEF SwarmInv

\* team.go admit and onExit: no slot leaks and none is released twice.
THEOREM SlotsAreExact == SwarmSpec => []SlotsExact
BY SwarmInvariant, PTL DEF SwarmInv

\* team.go onExit: a freed slot goes to the queue before anyone else sees it.
THEOREM TeamIsWorkConserving == SwarmSpec => []NoIdleSlot
BY SwarmInvariant, PTL DEF SwarmInv

\* lifecycle.go: every unfinished task has a member that will settle it.
THEOREM NoTaskIsLost == SwarmSpec => []NoTaskLost
BY SwarmInvariant, PTL DEF SwarmInv

-----------------------------------------------------------------------------
(* The team implements its work queue *)

\* What the mapping shows of a state, for steps that do not touch it.
LEMMA QueueStutters ==
    ASSUME Holders' = Holders, queue' = queue
    PROVE  [Team!QueueNext]_(Team!queueVars)
BY DEF Holders, Team!queueVars

\* Minting an id gives it no slot.
LEMMA MintStutters ==
    ASSUME SwarmInv, NEW m \in Ids, NEW t \in Ids,
           Spawn(m) \/ HandoffCheck(m, t) \/ AdoptOne(m, t)
    PROVE  [Team!QueueNext]_(Team!queueVars)
<1>1. queue' = queue
  BY DEF Spawn, HandoffCheck, AdoptOne, teamVars
<1>2. PICK at \in {"registered", "handoff"} : pc' = [pc EXCEPT ![m] = at]
  BY DEF Spawn, HandoffCheck, AdoptOne, Mint
<1>3. pc[m] = "none"
  BY MintedFresh DEF Spawn, HandoffCheck, AdoptOne
<1>4. Holders' = Holders
  BY <1>2, <1>3, HoldersKept DEF Slotted, SwarmInv
<1>. QED  BY <1>1, <1>4, QueueStutters

\* Between its slot and the end of its service a member moves alone.
LEMMA ServiceStutters ==
    ASSUME SwarmInv, NEW m \in Ids,
           \/ LaunchStarts(m) \/ LaunchFails(m) \/ AddMember(m) \/ MarkRunning(m)
           \/ MemberEnds(m) \/ MemberRelaunched(m) \/ RecordOutcome(m) \/ RemoveMember(m)
           \/ HandoffNoteFails(m) \/ HandoffRegister(m) \/ HandoffRetire(m)
    PROVE  [Team!QueueNext]_(Team!queueVars)
<1>1. queue' = queue
  BY DEF LaunchStarts, LaunchFails, AddMember, MarkRunning, MemberEnds, MemberRelaunched,
         RecordOutcome, RemoveMember, HandoffNoteFails, HandoffRegister, HandoffRetire, teamVars
<1>2. \/ pc' = pc
      \/ /\ pc[m] \in Slotted
         /\ \E b \in Slotted : pc' = [pc EXCEPT ![m] = b]
      \/ /\ pc[m] \notin Slotted
         /\ \E b \in {"gone", "retire", "registered"} : pc' = [pc EXCEPT ![m] = b]
  BY DEF LaunchStarts, LaunchFails, AddMember, MarkRunning, MemberEnds, MemberRelaunched,
         RecordOutcome, RemoveMember, HandoffNoteFails, HandoffRegister, HandoffRetire, Goto,
         Slotted
<1>3. Holders' = Holders
  <2>1. CASE pc' = pc
    BY <2>1 DEF Holders
  <2>2. ASSUME pc[m] \in Slotted, NEW b \in Slotted, pc' = [pc EXCEPT ![m] = b]
        PROVE  Holders' = Holders
    BY <2>2, HoldersKept DEF SwarmInv
  <2>3. ASSUME pc[m] \notin Slotted, NEW b \in {"gone", "retire", "registered"},
               pc' = [pc EXCEPT ![m] = b]
        PROVE  Holders' = Holders
    <3>1. b \notin Slotted
      BY DEF Slotted
    <3>. QED  BY <2>3, <3>1, HoldersKept DEF SwarmInv
  <2>. QED  BY <1>2, <2>1, <2>2, <2>3
<1>. QED  BY <1>1, <1>3, QueueStutters

\* The slot counter decides as the abstract queue does.
LEMMA AdmitImplements ==
    ASSUME SwarmInv, NEW m \in Ids, Admit(m)
    PROVE  Team!QueueNext
<1>1. pc[m] = "registered" /\ m \notin Holders
  BY DEF Admit, Goto, Holders, Slotted
<1>2. running = Cardinality(Holders) /\ running \in Nat
  BY SwarmAssumption DEF SwarmInv, SwarmTypeOK, SlotsExact, Holders
<1>3. Team!Full <=> running >= MaxSize
  BY <1>2 DEF Team!Full, Team!Cardinality, Cardinality, Holders
<1>4. CASE running < MaxSize
  <2>1. pc' = [pc EXCEPT ![m] = "launching"] /\ queue' = queue
    BY <1>2, <1>4, SwarmAssumption DEF Admit, Goto
  <2>2. Holders' = Holders \union {m}
    BY <2>1 DEF Holders, Slotted, SwarmInv, SwarmTypeOK
  <2>3. Team!Serve(m)
    BY <1>1, <1>2, <1>3, <1>4, <2>1, <2>2, SwarmAssumption DEF Team!Serve, Holders
  <2>. QED  BY <2>3 DEF Team!QueueNext
<1>5. CASE running >= MaxSize
  <2>1. pc' = [pc EXCEPT ![m] = "queued"] /\ queue' = Append(queue, m)
    BY <1>2, <1>5, SwarmAssumption DEF Admit, Goto
  <2>2. Holders' = Holders
    BY <1>1, <2>1, HoldersKept DEF Slotted, SwarmInv
  <2>3. Team!Queue(m)
    BY <1>3, <1>5, <2>1, <2>2 DEF Team!Queue, Holders
  <2>. QED  BY <2>3 DEF Team!QueueNext
<1>. QED  BY <1>2, <1>4, <1>5, SwarmAssumption

\* onExit frees the slot, or passes it to the first who waits.
LEMMA ExitImplements ==
    ASSUME SwarmInv, NEW m \in Ids, ExitIdle(m) \/ ExitNext(m)
    PROVE  Team!QueueNext
<1>1. CASE ExitIdle(m)
  <2>1. pc[m] = "exiting" /\ pc' = [pc EXCEPT ![m] = "gone"] /\ queue = <<>> /\ queue' = queue
    BY <1>1 DEF ExitIdle, Goto
  <2>2. m \in Holders /\ Holders' = Holders \ {m}
    BY <2>1 DEF Holders, Slotted, SwarmInv, SwarmTypeOK
  <2>3. Team!Free(m)
    BY <2>1, <2>2 DEF Team!Free, Holders
  <2>. QED  BY <2>3 DEF Team!QueueNext
<1>2. CASE ExitNext(m)
  <2>. DEFINE h == Head(queue)
  <2>1. /\ pc[m] = "exiting" /\ pc' = [pc EXCEPT ![m] = "gone", ![h] = "launching"]
        /\ queue # <<>> /\ queue' = Tail(queue)
    BY <1>2 DEF ExitNext
  <2>2. h \in Ids /\ pc[h] = "queued" /\ h # m
    BY <2>1 DEF SwarmInv, SwarmTypeOK, QueueExact
  <2>3. m \in Holders /\ Holders' = (Holders \ {m}) \union {h}
    BY <2>1, <2>2 DEF Holders, Slotted, SwarmInv, SwarmTypeOK
  <2>4. Team!Pass(m)
    BY <2>1, <2>3 DEF Team!Pass, Holders
  <2>. QED  BY <2>4 DEF Team!QueueNext
<1>. QED  BY <1>1, <1>2

\* team.go: the slots and the queue of any team are those of a first-come, first-served
\* work queue that leaves no slot idle.
THEOREM TeamImplementsWorkQueue == SwarmSpec => TeamIsWorkQueue
<1>1. SwarmInit => Team!QueueInit
  BY DEF SwarmInit, Team!QueueInit, Slotted
<1>2. SwarmInv /\ [SwarmNext]_swarmVars => [Team!QueueNext]_(Team!queueVars)
  <2>1. SUFFICES ASSUME SwarmInv, [SwarmNext]_swarmVars
                 PROVE  [Team!QueueNext]_(Team!queueVars)
    OBVIOUS
  <2>2. CASE UNCHANGED swarmVars \/ AdoptStep
    <3>1. UNCHANGED <<teamVars, pc>>
      BY <2>2 DEF AdoptStep, AdoptLive, AdoptList, AdoptSkip, AdoptEnd, swarmVars
    <3>. QED  BY <3>1, QueueStutters DEF teamVars, Holders
  <2>3. CASE CallStep
    <3>1. PICK m \in Ids : Spawn(m) \/ \E t \in Ids : HandoffCheck(m, t) \/ AdoptOne(m, t)
      BY <2>3 DEF CallStep
    <3>2. PICK t \in Ids : Spawn(m) \/ HandoffCheck(m, t) \/ AdoptOne(m, t)
      BY <3>1
    <3>. QED  BY <2>1, <3>2, MintStutters
  <2>4. CASE \E m \in Ids : \/ GoroutineStep(m) \/ HandoffNoteFails(m)
                            \/ MemberEnds(m) \/ MemberRelaunched(m)
    <3>1. PICK m \in Ids : \/ GoroutineStep(m) \/ HandoffNoteFails(m)
                           \/ MemberEnds(m) \/ MemberRelaunched(m)
      BY <2>4
    <3>2. CASE Admit(m)
      BY <2>1, <3>2, AdmitImplements
    <3>3. CASE ExitIdle(m) \/ ExitNext(m)
      BY <2>1, <3>3, ExitImplements
    <3>4. CASE \/ LaunchStarts(m) \/ LaunchFails(m) \/ AddMember(m) \/ MarkRunning(m)
               \/ MemberEnds(m) \/ MemberRelaunched(m) \/ RecordOutcome(m) \/ RemoveMember(m)
               \/ HandoffNoteFails(m) \/ HandoffRegister(m) \/ HandoffRetire(m)
      BY <2>1, <3>4, ServiceStutters
    <3>. QED  BY <3>1, <3>2, <3>3, <3>4 DEF GoroutineStep
  <2>. QED  BY <2>1, <2>2, <2>3, <2>4 DEF SwarmNext
<1>. QED  BY <1>1, <1>2, SwarmInvariant, PTL DEF SwarmSpec, TeamIsWorkQueue, Team!QueueSpec

=============================================================================
