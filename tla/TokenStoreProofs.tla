--------------------------- MODULE TokenStoreProofs ---------------------------
(***************************************************************************)
(* Proofs about FileLock, for any set of contenders, and about TokenStore, *)
(* which EXTENDS it, for any processes and keys.  The lock is exclusive    *)
(* until a fresh file is moved: until then every owner's file is at        *)
(* lockPath, and what is aside is stale, so nothing is ever restored over  *)
(* another file.  The steps of the store are steps of the lock, so its     *)
(* invariant holds there; under an exclusive lock what an operation has    *)
(* read is still the file when it writes it back, and no save undoes       *)
(* another.  A process presents a refresh token once, since whoever has    *)
(* spent one holds the mutex of its key until another is in the file.      *)
(***************************************************************************)
EXTENDS TokenStore, FiniteSetTheorems, TLAPS

-----------------------------------------------------------------------------
(* The lock *)

\* Where a contender has not created its file.
Early == {"try", "stat", "wait", "reclaim", "verify", "restore", "drop"}

\* A contender that has not created its file has none anywhere.
Unborn ==
    \A c \in Contenders : pc[c] \in Early => at # c /\ \A d \in Contenders : aside[d] # c

\* Only a file whose owner is gone is stale.
StaleIsOver == \A c \in Contenders : c \in stale => pc[c] \in Over

\* Until a fresh file is moved, the owner of a file has it at lockPath ...
OwnersAreAt == ~moved => \A c \in Contenders : pc[c] \in Live => at = c

\* ... and a file that is aside is stale.
AsideIsStale ==
    ~moved => \A c \in Contenders : /\ pc[c] = "verify" => aside[c] \in stale
                                    /\ pc[c] # "restore"

FileLockInv == FileLockTypeOK /\ Unborn /\ StaleIsOver /\ OwnersAreAt /\ AsideIsStale

USE FileLockAssumption

LEMMA InitEstablishes == FileLockInit => FileLockInv
BY DEF FileLockInit, FileLockInv, FileLockTypeOK, Unborn, StaleIsOver, OwnersAreAt,
       AsideIsStale, Files, Live, Holding, Over

\* Ageing spares the file of whoever may still hold the lock.
LEMMA AgePreserves ==
  ASSUME FileLockInv, NEW f \in Files, Age(f)
  PROVE  FileLockInv'
BY DEF FileLockInv, FileLockTypeOK, Unborn, StaleIsOver, OwnersAreAt, AsideIsStale, Age, Files

\* A step that moves no file and makes no file anyone's.
LEMMA QuietPreserves ==
  ASSUME FileLockInv, NEW c \in Contenders, UNCHANGED <<at, aside, stale, moved>>,
         \/ WriteToken(c) \/ Contended(c) \/ Stat(c) \/ Wait(c)
         \/ RenameFails(c) \/ Verify(c) \/ Release(c) \/ ReadToken(c) \/ Crash(c)
  PROVE  FileLockInv'
<1>1. FileLockTypeOK'
  BY DEF FileLockInv, FileLockTypeOK, WriteToken, Contended, Stat, Wait, RenameFails, Verify,
         Release, ReadToken, Crash, Goto, Live, Holding, Over
<1>2. Unborn'
  BY DEF FileLockInv, FileLockTypeOK, Unborn, Early, WriteToken, Contended, Stat, Wait,
         RenameFails, Verify, Release, ReadToken, Crash, Goto
<1>3. StaleIsOver'
  BY DEF FileLockInv, FileLockTypeOK, StaleIsOver, WriteToken, Contended, Stat, Wait,
         RenameFails, Verify, Release, ReadToken, Crash, Goto, Over
<1>4. OwnersAreAt'
  BY DEF FileLockInv, FileLockTypeOK, OwnersAreAt, WriteToken, Contended, Stat, Wait,
         RenameFails, Verify, Release, ReadToken, Crash, Goto, Live, Holding
<1>5. AsideIsStale'
  BY DEF FileLockInv, FileLockTypeOK, AsideIsStale, WriteToken, Contended, Stat, Wait,
         RenameFails, Verify, Release, ReadToken, Crash, Goto
<1>. QED  BY <1>1, <1>2, <1>3, <1>4, <1>5 DEF FileLockInv

\* A new file has no owner but its creator, and no other name.
LEMMA CreatePreserves ==
  ASSUME FileLockInv, NEW c \in Contenders, Create(c)
  PROVE  FileLockInv'
<1>. USE DEF FileLockInv, FileLockTypeOK, Create, Goto, Files, Live, Holding, Over
<1>1. FileLockTypeOK'
  BY DEF Unborn, Early
<1>2. Unborn'
  BY DEF Unborn, Early
<1>3. StaleIsOver'
  BY DEF StaleIsOver
<1>4. OwnersAreAt'
  BY DEF OwnersAreAt
<1>5. AsideIsStale'
  BY DEF AsideIsStale
<1>. QED  BY <1>1, <1>2, <1>3, <1>4, <1>5

\* Removing what is at lockPath: until a fresh file is moved it is one's own.
LEMMA RemovePreserves ==
  ASSUME FileLockInv, NEW c \in Contenders, WriteFails(c) \/ Remove(c)
  PROVE  FileLockInv'
<1>. USE DEF FileLockInv, FileLockTypeOK, WriteFails, Remove, Goto, Files, Live, Holding, Over
<1>1. FileLockTypeOK'
  OBVIOUS
<1>2. Unborn'
  BY DEF Unborn, Early
<1>3. StaleIsOver'
  BY DEF StaleIsOver
<1>4. OwnersAreAt'
  BY DEF OwnersAreAt
<1>5. AsideIsStale'
  BY DEF AsideIsStale
<1>. QED  BY <1>1, <1>2, <1>3, <1>4, <1>5

\* The racers' renames: a stale file that is moved is nobody's.
LEMMA MovePreserves ==
  ASSUME FileLockInv, NEW c \in Contenders, Rename(c) \/ Restore(c) \/ Drop(c)
  PROVE  FileLockInv'
<1>. USE DEF FileLockInv, FileLockTypeOK, Rename, Restore, Drop, Goto, Files, Live, Holding, Over
<1>1. FileLockTypeOK'
  <2>1. CASE Rename(c)
    BY <2>1
  <2>2. CASE Restore(c)
    BY <2>2
  <2>3. CASE Drop(c)
    BY <2>3
  <2>. QED  BY <2>1, <2>2, <2>3
<1>2. Unborn'
  BY DEF Unborn, Early
<1>3. StaleIsOver'
  BY DEF StaleIsOver
<1>4. OwnersAreAt'
  <2>1. CASE Rename(c)
    <3>1. ~moved' => \A d \in Contenders : pc[d] \notin Live
      BY <2>1 DEF OwnersAreAt, StaleIsOver
    <3>. QED  BY <2>1, <3>1 DEF OwnersAreAt
  <2>2. CASE Restore(c)
    BY <2>2 DEF OwnersAreAt, AsideIsStale
  <2>3. CASE Drop(c)
    BY <2>3 DEF OwnersAreAt
  <2>. QED  BY <2>1, <2>2, <2>3
<1>5. AsideIsStale'
  <2>. USE DEF AsideIsStale
  <2>1. CASE Rename(c)
    BY <2>1
  <2>2. CASE Restore(c)
    BY <2>2
  <2>3. CASE Drop(c)
    BY <2>3
  <2>. QED  BY <2>1, <2>2, <2>3
<1>. QED  BY <1>1, <1>2, <1>3, <1>4, <1>5

\* Every step keeps the invariant.
LEMMA StepPreserves ==
  ASSUME FileLockInv, [FileLockNext]_fileLockVars
  PROVE  FileLockInv'
<1>1. CASE UNCHANGED fileLockVars
  BY <1>1 DEF fileLockVars, FileLockInv, FileLockTypeOK, Unborn, StaleIsOver,
              OwnersAreAt, AsideIsStale
<1>2. ASSUME NEW f \in Files, Age(f) PROVE FileLockInv'
  BY <1>2, AgePreserves
<1>3. ASSUME NEW c \in Contenders, ContenderStep(c) PROVE FileLockInv'
  <2>1. CASE Create(c)
    BY <2>1, CreatePreserves
  <2>2. CASE WriteFails(c) \/ Remove(c)
    BY <2>2, RemovePreserves
  <2>3. CASE Rename(c) \/ Restore(c) \/ Drop(c)
    BY <2>3, MovePreserves
  <2>4. CASE \/ WriteToken(c) \/ Contended(c) \/ Stat(c) \/ Wait(c)
             \/ RenameFails(c) \/ Verify(c) \/ Release(c) \/ ReadToken(c) \/ Crash(c)
    <3>1. UNCHANGED <<at, aside, stale, moved>>
      BY <2>4 DEF WriteToken, Contended, Stat, Wait, RenameFails, Verify, Release,
                  ReadToken, Crash
    <3>. QED  BY <2>4, <3>1, QuietPreserves
  <2>. QED  BY <1>3, <2>1, <2>2, <2>3, <2>4 DEF ContenderStep
<1>. QED  BY <1>1, <1>2, <1>3 DEF FileLockNext

THEOREM FileLockInvariant == FileLockSpec => []FileLockInv
BY InitEstablishes, StepPreserves, PTL DEF FileLockSpec

\* The types, and that a file has one name (cron/lock.go reclaimStaleLock renames).
THEOREM FileLockTypeCorrect == FileLockSpec => []FileLockTypeOK
<1>1. FileLockInv => FileLockTypeOK
  BY DEF FileLockInv
<1>. QED  BY <1>1, FileLockInvariant, PTL

\* For any number of contenders, cron/lock.go is exclusive until a racer renames a
\* lock that is not stale.
THEOREM LockIsExclusive == FileLockSpec => []ExclusiveUnlessMoved
<1>1. FileLockInv => ExclusiveUnlessMoved
  BY DEF FileLockInv, OwnersAreAt, ExclusiveUnlessMoved, Exclusive, Live
<1>. QED  BY <1>1, FileLockInvariant, PTL

-----------------------------------------------------------------------------
(* The token store *)

USE TokenAssumption

\* An operation between its read and its write holds the lock.
WriterHolds == \A c \in Contenders : Runs(c) /\ step[c] = "write" => pc[c] = "hold"

\* Until a fresh file is moved, what it has read is what is there.
ViewIsCurrent ==
    ~moved => \A c \in Contenders : Runs(c) /\ step[c] = "write" => view[c] = tokens

\* What the provers need of the types.
Shape ==
    /\ step \in [Contenders -> Steps]
    /\ view = [c \in Contenders |-> view[c]]

TokenInv == FileLockInv /\ Shape /\ WriterHolds /\ ViewIsCurrent /\ NoUpdateLost

\* Every step of the store is a step of the lock, or leaves it alone.
LEMMA StepsOfTheLock ==
  ASSUME [TokenNext]_allVars
  PROVE  [FileLockNext]_fileLockVars
<1>1. CASE UNCHANGED allVars
  BY <1>1 DEF allVars
<1>2. ASSUME NEW f \in Files, Age(f) PROVE FileLockNext
  BY <1>2 DEF FileLockNext
<1>3. ASSUME NEW p \in Processes, Die(p) PROVE UNCHANGED fileLockVars
  BY <1>3 DEF Die
<1>4. ASSUME NEW c \in Contenders, OpStep(c) PROVE [FileLockNext]_fileLockVars
  <2>1. CASE \/ Load(c) \/ LockKey(c) \/ Reload(c) \/ Present(c) \/ Answer(c) \/ Refusal(c)
             \/ Decide(c) \/ ReadState(c) \/ WriteState(c) \/ WriteStateFails(c)
    BY <2>1 DEF Load, LockKey, Reload, Present, Answer, Refusal, Decide, ReadState, WriteState,
                WriteStateFails
  <2>2. CASE LockStep(c)
    <3>1. ContenderStep(c)
      BY <2>2 DEF LockStep, ContenderStep, Wait
    <3>. QED  BY <3>1 DEF FileLockNext
  <2>3. CASE StoreFails(c)
    <3>1. ContenderStep(c)
      BY <2>3 DEF StoreFails, ContenderStep, Wait
    <3>. QED  BY <3>1 DEF FileLockNext
  <2>4. CASE Unlock(c) \/ Done(c) \/ Perish(c)
    <3>1. ContenderStep(c)
      BY <2>4 DEF Unlock, Done, Perish, ContenderStep
    <3>. QED  BY <3>1 DEF FileLockNext
  <2>. QED  BY <1>4, <2>1, <2>2, <2>3, <2>4 DEF OpStep
<1>. QED  BY <1>1, <1>2, <1>3, <1>4 DEF TokenNext

\* What the steps of the operations do to the file and the views of it.
LEMMA OpPreserves ==
  ASSUME TokenInv, FileLockInv', NEW c \in Contenders, OpStep(c)
  PROVE  Shape' /\ WriterHolds' /\ ViewIsCurrent' /\ NoUpdateLost'
<1>. USE DEF TokenInv, Shape, WriterHolds, ViewIsCurrent, NoUpdateLost, Move, Runs, Steps
<1>1. CASE \/ Load(c) \/ LockKey(c) \/ Reload(c) \/ Present(c) \/ Answer(c) \/ Refusal(c)
           \/ Decide(c) \/ WriteStateFails(c)
  <2>1. UNCHANGED <<view, tokens, meant, dead, moved, pc>>
    BY <1>1 DEF Load, LockKey, Reload, Present, Answer, Refusal, Decide, WriteStateFails,
                fileLockVars
  <2>2. PICK to \in Steps \ {"write"} : step' = [step EXCEPT ![c] = to]
    BY <1>1 DEF Load, LockKey, Reload, Present, Answer, Refusal, Decide, WriteStateFails
  <2>3. /\ step' \in [Contenders -> Steps]
        /\ \A d \in Contenders : step'[d] = "write" => d # c /\ step[d] = "write"
    BY <2>2
  <2>. QED  BY <2>1, <2>3
<1>2. CASE LockStep(c)
  <2>1. UNCHANGED <<step, view, tokens, meant, dead>> /\ step[c] = "store"
    BY <1>2 DEF LockStep, tokenVars, opVars
  <2>2. \A d \in Contenders \ {c} : pc'[d] = pc[d]
    <3>1. \E to : pc' = [pc EXCEPT ![c] = to]
      BY <1>2 DEF LockStep, Goto, Create, WriteToken, Contended, Stat, Rename, RenameFails,
                  Verify, Restore, Drop
    <3>2. DOMAIN pc = Contenders
      BY DEF FileLockInv, FileLockTypeOK
    <3>. QED  BY <3>1, <3>2
  <2>3. moved => moved'
    BY <1>2 DEF LockStep, FileLockInv, FileLockTypeOK, Create, WriteToken, Contended, Stat,
                Rename, RenameFails, Verify, Restore, Drop
  <2>. QED  BY <2>1, <2>2, <2>3
<1>3. CASE StoreFails(c)
  <2>1. /\ UNCHANGED <<view, tokens, meant, dead, moved>>
        /\ step' = [step EXCEPT ![c] = "failed"]
        /\ \A d \in Contenders \ {c} : pc'[d] = pc[d]
    BY <1>3 DEF StoreFails, FileLockInv, FileLockTypeOK, Goto, WriteFails
  <2>. QED  BY <2>1
<1>4. CASE ReadState(c)
  BY <1>4 DEF ReadState, fileLockVars
<1>5. CASE WriteState(c)
  <2>1. /\ pc[c] = "hold" /\ UNCHANGED fileLockVars
        /\ UNCHANGED <<view, dead>> /\ step' = [step EXCEPT ![c] = "release"]
    BY <1>5 DEF WriteState
  <2>2. ~moved => \A d \in Contenders \ {c} : Runs(d) => step[d] # "write"
    BY <2>1 DEF FileLockInv, OwnersAreAt, Live, Holding
  <2>3. ~moved => tokens' = meant'
    BY <1>5 DEF WriteState
  <2>. QED  BY <2>1, <2>2, <2>3 DEF fileLockVars
<1>6. CASE Unlock(c) \/ Done(c)
  <2>1. /\ UNCHANGED <<view, tokens, meant, dead, moved>>
        /\ \A d \in Contenders \ {c} : pc'[d] = pc[d]
        /\ step' \in [Contenders -> Steps] /\ step'[c] # "write"
        /\ \A d \in Contenders \ {c} : step'[d] = step[d]
    <3>1. CASE Unlock(c)
      BY <3>1 DEF Unlock, tokenVars, opVars, FileLockInv, FileLockTypeOK, Goto, Release, ReadToken
    <3>2. CASE Done(c)
      <4>1. \/ UNCHANGED pc
            \/ \E to : pc' = [pc EXCEPT ![c] = to]
        BY <3>2 DEF Done, Goto, ReadToken, Remove
      <4>2. UNCHANGED <<view, tokens, meant, dead>>
        BY <3>2 DEF Done, tokenVars, opVars
      <4>3. moved' = moved
        BY <3>2 DEF Done, ReadToken, Remove, fileLockVars
      <4>4. /\ step' \in [Contenders -> Steps] /\ step'[c] # "write"
            /\ \A d \in Contenders \ {c} : step'[d] = step[d]
        BY <3>2 DEF Done
      <4>5. DOMAIN pc = Contenders
        BY DEF FileLockInv, FileLockTypeOK
      <4>6. \A d \in Contenders \ {c} : pc'[d] = pc[d]
        BY <4>1, <4>5
      <4>. QED  BY <4>2, <4>3, <4>4, <4>6
    <3>. QED  BY <1>6, <3>1, <3>2
  <2>. QED  BY <2>1
<1>7. CASE Perish(c)
  BY <1>7 DEF Perish, Crash, tokenVars, opVars, FileLockInv, FileLockTypeOK
<1>. QED  BY <1>1, <1>2, <1>3, <1>4, <1>5, <1>6, <1>7 DEF OpStep

\* The store uses the lock as FileLock says: what is proved of the lock holds here.
THEOREM TokenImplementsLock == TokenSpec => FileLockSpec
<1>1. TokenInit => FileLockInit
  BY DEF TokenInit
<1>. QED  BY <1>1, StepsOfTheLock, PTL DEF TokenSpec, FileLockSpec

\* The inductive invariant.
THEOREM TokenInvariant == TokenSpec => []TokenInv
<1>1. TokenInit => TokenInv
  <2>1. TokenInit => Shape /\ WriterHolds /\ ViewIsCurrent /\ NoUpdateLost
    BY DEF TokenInit, Shape, WriterHolds, ViewIsCurrent, NoUpdateLost, Steps
  <2>. QED  BY <2>1, InitEstablishes DEF TokenInit, TokenInv
<1>2. ASSUME TokenInv, [TokenNext]_allVars PROVE TokenInv'
  <2>1. FileLockInv'
    BY <1>2, StepsOfTheLock, StepPreserves DEF TokenInv
  <2>2. CASE UNCHANGED allVars
    BY <1>2, <2>1, <2>2 DEF TokenInv, Shape, WriterHolds, ViewIsCurrent, NoUpdateLost, Runs,
                            allVars, fileLockVars, tokenVars, opVars
  <2>3. ASSUME NEW f \in Files, Age(f), UNCHANGED tokenVars PROVE TokenInv'
    BY <1>2, <2>1, <2>3 DEF Age, TokenInv, Shape, WriterHolds, ViewIsCurrent, NoUpdateLost, Runs,
                            tokenVars, opVars
  <2>4. ASSUME NEW p \in Processes, Die(p) PROVE TokenInv'
    BY <1>2, <2>1, <2>4 DEF Die, TokenInv, Shape, WriterHolds, ViewIsCurrent, NoUpdateLost, Runs,
                            fileLockVars, opVars
  <2>5. ASSUME NEW c \in Contenders, OpStep(c) PROVE TokenInv'
    BY <1>2, <2>1, <2>5, OpPreserves DEF TokenInv
  <2>. QED  BY <1>2, <2>2, <2>3, <2>4, <2>5 DEF TokenNext
<1>. QED  BY <1>1, <1>2, PTL DEF TokenSpec

\* For any contenders, processes and keys, oauth/store.go loses no save until a racer
\* renames a lock that is not stale.
THEOREM SavesAreKept == TokenSpec => []NoUpdateLost
<1>1. TokenInv => NoUpdateLost
  BY DEF TokenInv
<1>. QED  BY <1>1, TokenInvariant, PTL

-----------------------------------------------------------------------------
(* The refresh mutex *)

\* An operation has the mutex of its key from the reload to the end of the save.
Refreshing(c) == job[c] = "refresh" /\ step[c] \notin {"begin", "wait", "over", "failed"}

OpsTyped ==
    /\ step \in [Contenders -> Steps]
    /\ job \in [Contenders -> {"refresh", "login", "logout"}] /\ key \in [Contenders -> Keys]
    /\ dead \subseteq Processes
    /\ mutex \in [Processes -> [Keys -> Contenders \union {Nobody}]]

MutexHeld == \A c \in Contenders : Runs(c) => (Mutex(c) = c <=> Refreshing(c))

\* What a step of operation c leaves alone.
OthersWait(c) ==
    /\ step' \in [Contenders -> Steps] /\ \A d \in Contenders \ {c} : step'[d] = step[d]
    /\ UNCHANGED <<job, key, dead>>

LEMMA MutexMoves ==
    ASSUME OpsTyped, MutexHeld, NEW c \in Contenders, OthersWait(c),
           \/ mutex' = mutex /\ (Refreshing(c) <=> Refreshing(c)')
           \/ mutex' = Unlocked(c) /\ ~Refreshing(c)'
           \/ /\ Mutex(c) = Nobody /\ Refreshing(c)'
              /\ mutex' = [mutex EXCEPT ![ProcessOf[c]][key[c]] = c]
    PROVE  OpsTyped' /\ MutexHeld'
<1>1. /\ ProcessOf \in [Contenders -> Processes] /\ Nobody \notin Contenders
      /\ \A d \in Contenders : ProcessOf[d] \in Processes /\ key[d] \in Keys
  BY DEF OpsTyped, Nobody
<1>2. \A d \in Contenders \ {c} : Refreshing(d)' <=> Refreshing(d)
  BY DEF Refreshing, OthersWait
<1>3. \A d \in Contenders : Mutex(d)' = mutex'[ProcessOf[d]][key[d]] /\ (Runs(d)' <=> Runs(d))
  BY DEF Mutex, Runs, OthersWait
<1>4. CASE mutex' = mutex /\ (Refreshing(c) <=> Refreshing(c)')
  BY <1>2, <1>3, <1>4 DEF OpsTyped, MutexHeld, Mutex, OthersWait
<1>5. CASE mutex' = Unlocked(c) /\ ~Refreshing(c)'
  <2>1. CASE Mutex(c) = c
    <3>1. mutex' = [mutex EXCEPT ![ProcessOf[c]][key[c]] = Nobody]
      BY <1>5, <2>1 DEF Unlocked
    <3>2. mutex' \in [Processes -> [Keys -> Contenders \union {Nobody}]]
      BY <1>1, <3>1 DEF OpsTyped
    <3>3. \A d \in Contenders : mutex'[ProcessOf[d]][key[d]] = d <=> Mutex(d) = d /\ d # c
      BY <1>1, <2>1, <3>1 DEF OpsTyped, Mutex
    <3>. QED  BY <1>2, <1>3, <1>5, <3>2, <3>3 DEF OpsTyped, MutexHeld, OthersWait
  <2>2. CASE Mutex(c) # c
    BY <1>2, <1>3, <1>5, <2>2 DEF Unlocked, OpsTyped, MutexHeld, Mutex, OthersWait
  <2>. QED  BY <2>1, <2>2
<1>6. CASE /\ Mutex(c) = Nobody /\ Refreshing(c)'
           /\ mutex' = [mutex EXCEPT ![ProcessOf[c]][key[c]] = c]
  <2>1. mutex' \in [Processes -> [Keys -> Contenders \union {Nobody}]]
    BY <1>1, <1>6 DEF OpsTyped
  <2>2. \A d \in Contenders : mutex'[ProcessOf[d]][key[d]] = d <=> Mutex(d) = d \/ d = c
    BY <1>1, <1>6 DEF OpsTyped, Mutex
  <2>. QED  BY <1>2, <1>3, <1>6, <2>1, <2>2 DEF OpsTyped, MutexHeld, OthersWait
<1>. QED  BY <1>4, <1>5, <1>6

\* Only a refresh waits for the mutex, and only of a token that there was.
RefreshWaits ==
    \A c \in Contenders : step[c] \in {"wait", "reload", "present", "answer"} => job[c] = "refresh"

LEMMA MutexStep ==
    ASSUME OpsTyped, MutexHeld, RefreshWaits, [TokenNext]_allVars
    PROVE  OpsTyped' /\ MutexHeld'
<1>1. CASE UNCHANGED tokenVars
  BY <1>1 DEF tokenVars, opVars, OpsTyped, MutexHeld, Mutex, Refreshing, Runs
<1>2. ASSUME NEW p \in Processes, Die(p) PROVE OpsTyped' /\ MutexHeld'
  BY <1>2 DEF Die, opVars, OpsTyped, MutexHeld, Mutex, Refreshing, Runs
<1>3. ASSUME NEW c \in Contenders, OpStep(c) PROVE OpsTyped' /\ MutexHeld'
  <2>1. ASSUME NEW to \in Steps, step' = [step EXCEPT ![c] = to], UNCHANGED <<job, key, dead>>
        PROVE  OthersWait(c) /\ step'[c] = to /\ job'[c] = job[c]
    BY <2>1 DEF OpsTyped, OthersWait
  <2>2. CASE Load(c) \/ Present(c) \/ Answer(c) \/ Decide(c) \/ ReadState(c) \/ WriteState(c)
             \/ WriteStateFails(c)
    <3>1. /\ mutex' = mutex /\ UNCHANGED <<job, key, dead>>
          /\ \E to \in Steps : /\ step' = [step EXCEPT ![c] = to]
                               /\ \/ step[c] = "begin" /\ (job[c] # "refresh" \/ to \in {"wait", "over"})
                                  \/ /\ step[c] \in {"present", "answer", "store", "write"}
                                     /\ to \in {"answer", "store", "write", "release", "release failed"}
      BY <2>2 DEF Load, Present, Answer, Decide, ReadState, WriteState, WriteStateFails, Move, Steps
    <3>2. OthersWait(c) /\ (Refreshing(c) <=> Refreshing(c)')
      BY <2>1, <3>1 DEF Refreshing
    <3>. QED  BY <3>1, <3>2, MutexMoves
  <2>3. CASE LockKey(c)
    <3>1. /\ Mutex(c) = Nobody /\ UNCHANGED <<job, key, dead>> /\ job[c] = "refresh"
          /\ mutex' = [mutex EXCEPT ![ProcessOf[c]][key[c]] = c]
          /\ step' = [step EXCEPT ![c] = "reload"] /\ "reload" \in Steps
      BY <2>3 DEF LockKey, Move, Steps, RefreshWaits
    <3>2. OthersWait(c) /\ Refreshing(c)'
      BY <2>1, <3>1 DEF Refreshing
    <3>. QED  BY <3>1, <3>2, MutexMoves
  <2>4. CASE Reload(c) /\ step'[c] = "present"
    <3>1. /\ mutex' = mutex /\ UNCHANGED <<job, key, dead>> /\ step[c] = "reload"
          /\ step' = [step EXCEPT ![c] = "present"] /\ "present" \in Steps
      BY <2>4 DEF Reload, Move, Steps, OpsTyped
    <3>2. OthersWait(c) /\ (Refreshing(c) <=> Refreshing(c)')
      BY <2>1, <3>1 DEF Refreshing
    <3>. QED  BY <3>1, <3>2, MutexMoves
  <2>5. CASE Refusal(c) \/ StoreFails(c) \/ Done(c) \/ (Reload(c) /\ step'[c] # "present")
    <3>1. /\ mutex' = Unlocked(c) /\ UNCHANGED <<job, key, dead>>
          /\ \E to \in {"over", "failed"} : step' = [step EXCEPT ![c] = to]
      BY <2>5 DEF Refusal, StoreFails, Done, Reload, Move, OpsTyped
    <3>2. PICK to \in Steps : to \in {"over", "failed"} /\ step' = [step EXCEPT ![c] = to]
      BY <3>1 DEF Steps
    <3>3. OthersWait(c) /\ ~Refreshing(c)'
      BY <2>1, <3>1, <3>2 DEF Refreshing
    <3>. QED  BY <3>1, <3>3, MutexMoves
  <2>6. CASE LockStep(c) \/ Unlock(c) \/ Perish(c)
    BY <1>1, <2>6 DEF LockStep, Unlock, Perish
  <2>. QED  BY <1>3, <2>2, <2>3, <2>4, <2>5, <2>6 DEF OpStep
<1>4. CASE UNCHANGED allVars
  BY <1>1, <1>4 DEF allVars
<1>. QED  BY <1>1, <1>2, <1>3, <1>4 DEF TokenNext

-----------------------------------------------------------------------------
(* The tokens *)

\* Who has been given a token by the provider.
Minters == {c \in Contenders : mine[c] # NoToken}

\* Each operation is given one token at most.
Minting ==
    /\ minted = Cardinality(Keys) + Cardinality(Minters)
    /\ \A c \in Contenders :
           step[c] \in {"begin", "wait", "reload", "present", "answer"} => mine[c] = NoToken

ValuesTyped ==
    /\ tokens \in [Keys -> Tokens \union {NoToken}] /\ meant \in [Keys -> Tokens \union {NoToken}]
    /\ view \in [Contenders -> [Keys -> Tokens \union {NoToken}]]
    /\ current \in [Contenders -> Tokens \union {NoToken}]
    /\ mine \in [Contenders -> Tokens \union {NoToken}]
    /\ spentBy \in [Tokens -> SUBSET Contenders]

\* The tokens issued so far.
Issued == 1..minted

LEMMA TokensNumbered ==
    /\ Cardinality(Keys) \in Nat \ {0} /\ Cardinality(Contenders) \in Nat
    /\ NoToken \notin Tokens
    /\ 1..Cardinality(Keys) \subseteq Tokens
<1>1. Cardinality(Keys) \in Nat /\ Cardinality(Contenders) \in Nat
  BY FS_CardinalityType
<1>2. Cardinality(Keys) # 0
  BY FS_EmptySet
<1>. QED  BY <1>1, <1>2 DEF Tokens, NoToken

\* One more operation is given a token: there is one left to give.
LEMMA MintBound ==
    ASSUME Minting
    PROVE  /\ minted \in Tokens /\ minted \in Nat /\ Issued \subseteq Tokens /\ IsFiniteSet(Minters)
           /\ \A c \in Contenders \ Minters : minted + 1 \in Tokens
<1>1. IsFiniteSet(Minters) /\ Cardinality(Minters) \in Nat /\ Cardinality(Minters) <= Cardinality(Contenders)
  BY FS_Subset, FS_CardinalityType DEF Minters
<1>2. minted \in Tokens /\ minted \in Nat /\ Issued \subseteq Tokens
  BY <1>1, TokensNumbered DEF Minting, Tokens, Issued
<1>3. ASSUME NEW c \in Contenders \ Minters PROVE minted + 1 \in Tokens
  <2>1. Minters \union {c} \in SUBSET Contenders
    BY DEF Minters
  <2>2. Cardinality(Minters \union {c}) <= Cardinality(Contenders)
    BY <2>1, FS_Subset
  <2>3. Cardinality(Minters \union {c}) = Cardinality(Minters) + 1
    BY <1>1, FS_AddElement
  <2>. QED  BY <1>1, <2>2, <2>3, TokensNumbered DEF Minting, Tokens
<1>. QED  BY <1>1, <1>2, <1>3

\* The provider issues a token to operation c.
Mints(c) ==
    /\ step[c] \in {"begin", "answer"} /\ step'[c] = "store"
    /\ \A d \in Contenders \ {c} : step'[d] = step[d]
    /\ minted' = minted + 1 /\ mine' = [mine EXCEPT ![c] = minted']

LEMMA MintsOne ==
    ASSUME Minting, ValuesTyped, NEW c \in Contenders, Mints(c)
    PROVE  /\ Minting' /\ mine' \in [Contenders -> Tokens \union {NoToken}]
           /\ minted' \in Tokens /\ minted' \notin Issued /\ minted' # NoToken
           /\ Issued \subseteq Issued' /\ minted' \in Issued'
<1>1. mine[c] = NoToken /\ c \in Contenders \ Minters
  BY DEF Mints, Minting, Minters
<1>2. minted' \in Tokens /\ minted' # NoToken
  BY <1>1, MintBound, TokensNumbered DEF Mints
<1>3. mine' \in [Contenders -> Tokens \union {NoToken}] /\ mine'[c] = minted'
      /\ \A d \in Contenders \ {c} : mine'[d] = mine[d]
  BY <1>2 DEF Mints, ValuesTyped
<1>4. Minters' = Minters \union {c}
  BY <1>2, <1>3 DEF Minters
<1>5. Cardinality(Minters') = Cardinality(Minters) + 1 /\ Cardinality(Minters) \in Nat
  BY <1>1, <1>4, MintBound, FS_AddElement, FS_CardinalityType
<1>6. Minting'
  <2>1. minted' = Cardinality(Keys) + Cardinality(Minters')
    BY <1>5, TokensNumbered DEF Mints, Minting
  <2>2. \A d \in Contenders :
            step'[d] \in {"begin", "wait", "reload", "present", "answer"} => mine'[d] = NoToken
    BY <1>3 DEF Mints, Minting
  <2>. QED  BY <2>1, <2>2 DEF Minting
<1>7. minted \in Nat /\ minted' = minted + 1
  BY MintBound DEF Mints
<1>8. minted' \notin Issued /\ Issued \subseteq Issued' /\ minted' \in Issued'
  BY <1>7 DEF Issued
<1>. QED  BY <1>2, <1>3, <1>6, <1>8

\* Nothing is issued, and no operation goes back to where it has no token.
LEMMA MintsNone ==
    ASSUME Minting, UNCHANGED <<minted, mine>>,
           \A d \in Contenders :
               step'[d] \in {"begin", "wait", "reload", "present", "answer"}
                   => step[d] \in {"begin", "wait", "reload", "present", "answer"}
    PROVE  Minting' /\ Issued' = Issued
<1>1. Minters' = Minters
  BY DEF Minters
<1>. QED  BY <1>1 DEF Minting, Issued

\* Waiting operations have loaded a token.
Loaded ==
    \A c \in Contenders : step[c] \in {"wait", "reload", "present", "answer"} => current[c] # NoToken

ValuesInv == ValuesTyped /\ Minting /\ RefreshWaits /\ Loaded

\* A step keeps the values typed, and issues one token at most.
LEMMA ValuesStep ==
    ASSUME OpsTyped, ValuesInv, [TokenNext]_allVars
    PROVE  ValuesInv'
<1>1. CASE UNCHANGED tokenVars
  <2>1. UNCHANGED <<tokens, step, job, key, current, mine, view, minted, spentBy, meant>>
    BY <1>1 DEF tokenVars, opVars
  <2>2. Minting'
    BY <2>1, MintsNone DEF ValuesInv
  <2>. QED  BY <2>1, <2>2 DEF ValuesInv, ValuesTyped, RefreshWaits, Loaded
<1>2. ASSUME NEW p \in Processes, Die(p) PROVE ValuesInv'
  <2>1. UNCHANGED <<tokens, step, job, key, current, mine, view, minted, spentBy, meant>>
    BY <1>2 DEF Die, opVars
  <2>2. Minting'
    BY <2>1, MintsNone DEF ValuesInv
  <2>. QED  BY <2>1, <2>2 DEF ValuesInv, ValuesTyped, RefreshWaits, Loaded
<1>3. ASSUME NEW c \in Contenders, OpStep(c) PROVE ValuesInv'
  <2>. USE DEF ValuesInv
  <2>1. CASE Load(c)
    <3>1. /\ UNCHANGED <<tokens, job, key, mine, view, minted, spentBy, meant>> /\ job[c] = "refresh"
          /\ step[c] = "begin" /\ current' = [current EXCEPT ![c] = tokens[key[c]]]
          /\ \/ step' = [step EXCEPT ![c] = "wait"] /\ tokens[key[c]] # NoToken
             \/ step' = [step EXCEPT ![c] = "over"]
      BY <2>1 DEF Load, Move
    <3>2. Minting'
      BY <3>1, MintsNone DEF OpsTyped
    <3>3. current' \in [Contenders -> Tokens \union {NoToken}]
      BY <3>1 DEF ValuesTyped, OpsTyped
    <3>4. RefreshWaits' /\ Loaded'
      BY <3>1 DEF RefreshWaits, Loaded, OpsTyped, ValuesTyped
    <3>. QED  BY <3>1, <3>2, <3>3, <3>4 DEF ValuesTyped
  <2>2. CASE \/ LockKey(c) \/ Reload(c) \/ Refusal(c) \/ StoreFails(c) \/ WriteStateFails(c) \/ Done(c)
    <3>1. /\ UNCHANGED <<tokens, job, key, current, mine, view, minted, spentBy, meant>>
          /\ \E to \in Steps \ {"begin", "wait", "answer"} :
                /\ step' = [step EXCEPT ![c] = to]
                /\ to \in {"reload", "present"} => step[c] \in {"wait", "reload"}
      BY <2>2 DEF LockKey, Reload, Refusal, StoreFails, WriteStateFails, Done, Move, Steps
    <3>2. Minting'
      BY <3>1, MintsNone DEF OpsTyped
    <3>3. RefreshWaits' /\ Loaded'
      BY <3>1 DEF RefreshWaits, Loaded, OpsTyped
    <3>. QED  BY <3>1, <3>2, <3>3 DEF ValuesTyped
  <2>3. CASE Present(c)
    <3>1. /\ UNCHANGED <<tokens, job, key, current, mine, view, minted, meant>>
          /\ step[c] = "present" /\ step' = [step EXCEPT ![c] = "answer"]
          /\ spentBy' = [spentBy EXCEPT ![current[c]] = @ \union {c}]
      BY <2>3 DEF Present, Move
    <3>2. Minting'
      BY <3>1, MintsNone DEF OpsTyped
    <3>3. RefreshWaits' /\ Loaded'
      BY <3>1 DEF RefreshWaits, Loaded, OpsTyped
    <3>4. spentBy' \in [Tokens -> SUBSET Contenders]
      BY <3>1 DEF ValuesTyped
    <3>. QED  BY <3>1, <3>2, <3>3, <3>4 DEF ValuesTyped
  <2>4. CASE Answer(c) \/ (Decide(c) /\ job[c] = "login")
    <3>1. /\ UNCHANGED <<tokens, job, key, current, view, spentBy, meant>>
          /\ step[c] \in {"begin", "answer"} /\ step' = [step EXCEPT ![c] = "store"]
          /\ minted' = minted + 1 /\ mine' = [mine EXCEPT ![c] = minted']
      BY <2>4 DEF Answer, Decide, Move
    <3>2. Mints(c)
      BY <3>1 DEF Mints, OpsTyped
    <3>3. Minting' /\ mine' \in [Contenders -> Tokens \union {NoToken}]
      BY <3>2, MintsOne
    <3>4. RefreshWaits' /\ Loaded'
      BY <3>1 DEF RefreshWaits, Loaded, OpsTyped
    <3>. QED  BY <3>1, <3>3, <3>4 DEF ValuesTyped
  <2>5. CASE Decide(c) /\ job[c] # "login"
    <3>1. /\ UNCHANGED <<tokens, job, key, current, mine, view, minted, spentBy, meant>>
          /\ step' = [step EXCEPT ![c] = "store"]
      BY <2>5 DEF Decide, Move
    <3>2. Minting'
      BY <3>1, MintsNone DEF OpsTyped
    <3>3. RefreshWaits' /\ Loaded'
      BY <3>1 DEF RefreshWaits, Loaded, OpsTyped
    <3>. QED  BY <3>1, <3>2, <3>3 DEF ValuesTyped
  <2>6. CASE ReadState(c)
    <3>1. /\ UNCHANGED <<tokens, job, key, current, mine, minted, spentBy, meant>>
          /\ step' = [step EXCEPT ![c] = "write"] /\ view' = [view EXCEPT ![c] = tokens]
      BY <2>6 DEF ReadState, Move
    <3>2. Minting'
      BY <3>1, MintsNone DEF OpsTyped
    <3>3. RefreshWaits' /\ Loaded'
      BY <3>1 DEF RefreshWaits, Loaded, OpsTyped
    <3>4. view' \in [Contenders -> [Keys -> Tokens \union {NoToken}]]
      BY <3>1 DEF ValuesTyped
    <3>. QED  BY <3>1, <3>2, <3>3, <3>4 DEF ValuesTyped
  <2>7. CASE WriteState(c)
    <3>1. /\ UNCHANGED <<job, key, current, mine, view, minted, spentBy>>
          /\ step' = [step EXCEPT ![c] = "release"]
          /\ tokens' = [view[c] EXCEPT ![key[c]] = mine[c]]
          /\ meant' = [meant EXCEPT ![key[c]] = mine[c]]
      BY <2>7 DEF WriteState, Move
    <3>2. Minting'
      BY <3>1, MintsNone DEF OpsTyped
    <3>3. RefreshWaits' /\ Loaded'
      BY <3>1 DEF RefreshWaits, Loaded, OpsTyped
    <3>4. /\ tokens' \in [Keys -> Tokens \union {NoToken}]
          /\ meant' \in [Keys -> Tokens \union {NoToken}]
      BY <3>1 DEF ValuesTyped
    <3>. QED  BY <3>1, <3>2, <3>3, <3>4 DEF ValuesTyped
  <2>8. CASE LockStep(c) \/ Unlock(c) \/ Perish(c)
    BY <1>1, <2>8 DEF LockStep, Unlock, Perish
  <2>. QED  BY <1>3, <2>1, <2>2, <2>3, <2>4, <2>5, <2>6, <2>7, <2>8 DEF OpStep
<1>4. CASE UNCHANGED allVars
  BY <1>1, <1>4 DEF allVars
<1>. QED  BY <1>1, <1>2, <1>3, <1>4 DEF TokenNext

\* Every key starts with a token of its own.
LEMMA FirstTokens ==
    TokenInit => /\ tokens \in [Keys -> 1..Cardinality(Keys)]
                 /\ \A k, l \in Keys : k # l => tokens[k] # tokens[l]
<1>. DEFINE N == Cardinality(Keys)
            First(f) == f \in [Keys -> 1..N] /\ \A k, l \in Keys : k # l => f[k] # f[l]
<1>1. PICK g : g \in Bijection(1..N, Keys)
  BY FS_CardinalityType DEF ExistsBijection
<1>2. \A k \in Keys : \E i \in 1..N : g[i] = k
  BY <1>1 DEF Bijection, Surjection
<1>. DEFINE h == [k \in Keys |-> CHOOSE i \in 1..N : g[i] = k]
<1>3. \A k \in Keys : h[k] \in 1..N /\ g[h[k]] = k
  BY <1>2
<1>4. h \in [Keys -> 1..N] /\ \A k, l \in Keys : k # l => h[k] # h[l]
  BY <1>3
<1>5. ASSUME TokenInit PROVE First(tokens)
  <2>1. tokens = CHOOSE f \in [Keys -> 1..N] : \A k, l \in Keys : k # l => f[k] # f[l]
    BY <1>5 DEF TokenInit
  <2>. HIDE DEF h
  <2>. QED  BY <1>4, <2>1
<1>. QED  BY <1>5

-----------------------------------------------------------------------------
(* Whose token it is *)

\* As long as every save is kept.
Quiet == Calm /\ ~moved

\* A token that is still to be saved.
Pending(c) == step[c] \in {"store", "write"}

\* Only what was issued is stored, loaded or to be saved.
AllIssued ==
    /\ \A k \in Keys : tokens[k] \in Issued
    /\ \A c \in Contenders : mine[c] \in Issued \union {NoToken} /\ current[c] \in Issued \union {NoToken}

\* The tokens of different keys are different, loaded or not; one that is to be saved
\* is nobody else's.
KeysApart ==
    /\ \A k, l \in Keys : tokens[k] = tokens[l] => k = l
    /\ \A c \in Contenders, k \in Keys : current[c] = tokens[k] => k = key[c]
    /\ \A c, d \in Contenders : current[c] = current[d] /\ current[c] # NoToken => key[c] = key[d]
    /\ \A c \in Contenders : Pending(c) =>
          /\ mine[c] # NoToken
          /\ \A k \in Keys : mine[c] # tokens[k]
          /\ \A d \in Contenders : mine[c] # current[d]
          /\ \A d \in Contenders : Pending(d) /\ mine[c] = mine[d] => c = d

\* Who presented a token has saved another in its place, or is about to.
SpentIsReplaced ==
    \A t \in Tokens : \A d \in spentBy[t] :
        /\ current[d] = t /\ job[d] = "refresh"
        /\ step[d] \in {"answer", "store", "write", "release", "over"}
        /\ step[d] \in {"release", "over"} => \A k \in Keys : tokens[k] # t

\* Who is to present a token finds it unspent by its own process.
ToSpend ==
    \A c, d \in Contenders :
        step[c] = "present" /\ ProcessOf[c] = ProcessOf[d] => d \notin spentBy[current[c]]

OncePerProcess ==
    \A t \in Tokens : \A c, d \in spentBy[t] : ProcessOf[c] = ProcessOf[d] => c = d

Spending == AllIssued /\ KeysApart /\ SpentIsReplaced /\ ToSpend /\ OncePerProcess

SpendingInv == Quiet => Spending

Base == OpsTyped /\ MutexHeld /\ ValuesInv /\ TokenInv

\* What fails, fails for good, and so does the lock.
LEMMA QuietBefore ==
    ASSUME Base, [TokenNext]_allVars, Quiet'
    PROVE  Quiet
<1>1. ~moved' => ~moved
  <2>1. CASE UNCHANGED moved
    BY <2>1
  <2>2. [FileLockNext]_fileLockVars
    BY StepsOfTheLock
  <2>3. FileLockNext => (moved => moved')
    BY DEF FileLockNext, Age, ContenderStep, Create, WriteToken, WriteFails, Contended, Stat, Wait, Rename,
           RenameFails, Verify, Restore, Drop, Release, ReadToken, Remove, Crash
  <2>. QED  BY <2>1, <2>2, <2>3 DEF fileLockVars
<1>2. Calm' => Calm
  <2>1. CASE UNCHANGED <<step, job>>
    BY <2>1 DEF Calm
  <2>2. ASSUME NEW c \in Contenders, OpStep(c) PROVE Calm' => Calm
    <3>1. /\ job' = job
          /\ \/ step' = step
             \/ /\ step[c] # "failed"
                /\ \E to \in Steps : step' = [step EXCEPT ![c] = to] /\ (step[c] = "release failed" => to = "failed")
      <4>1. CASE LockStep(c) \/ Unlock(c) \/ Perish(c)
        BY <4>1 DEF LockStep, Unlock, Perish, tokenVars, opVars
      <4>2. CASE \/ Load(c) \/ LockKey(c) \/ Reload(c) \/ Present(c) \/ Answer(c) \/ Refusal(c) \/ Decide(c)
        BY <4>2 DEF Load, LockKey, Reload, Present, Answer, Refusal, Decide, Move, Steps
      <4>3. CASE StoreFails(c) \/ ReadState(c) \/ WriteState(c) \/ WriteStateFails(c) \/ Done(c)
        BY <4>3 DEF StoreFails, ReadState, WriteState, WriteStateFails, Done, Move, Steps
      <4>. QED  BY <2>2, <4>1, <4>2, <4>3 DEF OpStep
    <3>. QED  BY <3>1 DEF Calm, Base, OpsTyped
  <2>3. CASE UNCHANGED allVars
    BY <2>1, <2>3 DEF allVars, tokenVars, opVars
  <2>4. ASSUME NEW f \in Files, UNCHANGED tokenVars PROVE Calm' => Calm
    BY <2>1, <2>4 DEF tokenVars, opVars
  <2>5. ASSUME NEW p \in Processes, Die(p) PROVE Calm' => Calm
    BY <2>1, <2>5 DEF Die, opVars
  <2>. QED  BY <2>2, <2>3, <2>4, <2>5 DEF TokenNext
<1>. QED  BY <1>1, <1>2 DEF Quiet

\* Steps that move an operation on, and change no token.
LEMMA MovesOn ==
    ASSUME Base, Spending, NEW c \in Contenders, NEW to \in Steps,
           step' = [step EXCEPT ![c] = to],
           UNCHANGED <<tokens, job, key, current, mine, minted, spentBy>>,
           to \in {"store", "write"} => Pending(c),
           to \notin {"present", "release"},
           to = "over" => step[c] \in {"begin", "reload", "release"},
           step[c] \in {"answer", "store", "write", "release", "over"} => to \in {"answer", "store", "write", "over"}
    PROVE  Spending'
<1>1. Issued' = Issued
  BY DEF Issued
<1>2. step'[c] = to /\ \A d \in Contenders \ {c} : step'[d] = step[d]
  BY DEF Base, OpsTyped
<1>3. \A d \in Contenders : Pending(d)' => Pending(d)
  BY <1>2 DEF Pending
<1>4. AllIssued'
  BY <1>1 DEF Spending, AllIssued
<1>5. KeysApart'
  BY <1>3 DEF Spending, KeysApart
<1>6. SpentIsReplaced'
  BY <1>2 DEF Spending, SpentIsReplaced, Base, ValuesInv, ValuesTyped
<1>7. ToSpend' /\ OncePerProcess'
  BY <1>2 DEF Spending, ToSpend, OncePerProcess
<1>. QED  BY <1>4, <1>5, <1>6, <1>7 DEF Spending

\* A token is loaded that is stored.
LEMMA LoadSpends ==
    ASSUME Base, Spending, NEW c \in Contenders, Load(c)
    PROVE  Spending'
<1>1. /\ UNCHANGED <<tokens, job, key, mine, minted, spentBy>>
      /\ step[c] = "begin" /\ current' = [current EXCEPT ![c] = tokens[key[c]]]
      /\ \E to \in {"wait", "over"} : step' = [step EXCEPT ![c] = to]
  BY DEF Load, Move
<1>2. /\ step'[c] \in {"wait", "over"} /\ \A d \in Contenders \ {c} : step'[d] = step[d]
      /\ current'[c] = tokens[key[c]] /\ \A d \in Contenders \ {c} : current'[d] = current[d]
      /\ key[c] \in Keys
  BY <1>1 DEF Base, OpsTyped, ValuesInv, ValuesTyped
<1>3. Issued' = Issued
  BY <1>1 DEF Issued
<1>4. \A d \in Contenders : Pending(d)' <=> Pending(d)
  BY <1>1, <1>2 DEF Pending
<1>5. AllIssued'
  BY <1>1, <1>2, <1>3 DEF Spending, AllIssued
<1>6. KeysApart'
  <2>1. /\ \A k, l \in Keys : tokens'[k] = tokens'[l] => k = l
        /\ \A d \in Contenders, k \in Keys : current'[d] = tokens'[k] => k = key'[d]
    BY <1>1, <1>2 DEF Spending, KeysApart
  <2>2. \A d, e \in Contenders : current'[d] = current'[e] /\ current'[d] # NoToken => key'[d] = key'[e]
    BY <1>1, <1>2 DEF Spending, KeysApart
  <2>3. ASSUME NEW d \in Contenders, Pending(d)
        PROVE  /\ mine'[d] # NoToken
               /\ \A k \in Keys : mine'[d] # tokens'[k]
               /\ \A e \in Contenders : mine'[d] # current'[e]
               /\ \A e \in Contenders : Pending(e)' /\ mine'[d] = mine'[e] => d = e
    BY <1>1, <1>2, <1>4, <2>3 DEF Spending, KeysApart
  <2>. HIDE DEF Pending
  <2>. QED  BY <1>4, <2>1, <2>2, <2>3 DEF KeysApart
<1>7. \A t \in Tokens : c \notin spentBy[t]
  BY <1>1 DEF Spending, SpentIsReplaced
<1>8. SpentIsReplaced'
  BY <1>1, <1>2, <1>7 DEF Spending, SpentIsReplaced, Base, ValuesInv, ValuesTyped
<1>9. ToSpend' /\ OncePerProcess'
  BY <1>1, <1>2 DEF Spending, ToSpend, OncePerProcess
<1>. QED  BY <1>5, <1>6, <1>8, <1>9 DEF Spending

\* The token that is still stored under the mutex is unspent by this process: who spent
\* it would hold the mutex, or have replaced it.
LEMMA ReloadSpends ==
    ASSUME Base, Spending, NEW c \in Contenders, Reload(c), step'[c] = "present"
    PROVE  Spending'
<1>1. /\ UNCHANGED <<tokens, job, key, current, mine, minted, spentBy>> /\ Runs(c)
      /\ step[c] = "reload" /\ step' = [step EXCEPT ![c] = "present"]
      /\ tokens[key[c]] \in {NoToken, current[c]}
  BY DEF Reload, Move, Base, OpsTyped
<1>2. /\ step'[c] = "present" /\ \A d \in Contenders \ {c} : step'[d] = step[d]
      /\ key[c] \in Keys
  BY <1>1 DEF Base, OpsTyped
<1>3. Issued' = Issued /\ \A d \in Contenders : Pending(d)' <=> Pending(d)
  BY <1>1, <1>2 DEF Issued, Pending
<1>4. current[c] = tokens[key[c]] /\ current[c] \in Tokens
  <2>1. tokens[key[c]] \in Issued /\ Issued \subseteq Tokens /\ NoToken \notin Tokens
    BY <1>2, MintBound, TokensNumbered DEF Spending, AllIssued, Base, ValuesInv
  <2>. QED  BY <1>1, <2>1
<1>5. ASSUME NEW d \in Contenders, ProcessOf[c] = ProcessOf[d], d \in spentBy[current[c]] PROVE FALSE
  <2>1. /\ current[d] = current[c] /\ job[d] = "refresh"
        /\ step[d] \in {"answer", "store", "write"}
    BY <1>2, <1>4, <1>5 DEF Spending, SpentIsReplaced
  <2>2. key[d] = key[c] /\ Runs(d)
    BY <1>1, <1>2, <1>4, <1>5, <2>1 DEF Spending, KeysApart, Runs
  <2>3. Mutex(d) = d /\ Mutex(c) = c
    <3>1. Refreshing(d)
      BY <2>1 DEF Refreshing
    <3>2. Refreshing(c)
      BY <1>1 DEF Refreshing, Base, ValuesInv, RefreshWaits
    <3>. QED  BY <1>1, <2>2, <3>1, <3>2 DEF Base, MutexHeld
  <2>4. c = d
    BY <1>5, <2>2, <2>3 DEF Mutex
  <2>. QED  BY <1>1, <2>1, <2>4
<1>6. AllIssued' /\ KeysApart'
  BY <1>1, <1>3 DEF Spending, AllIssued, KeysApart
<1>7. SpentIsReplaced'
  BY <1>1, <1>2 DEF Spending, SpentIsReplaced, Base, ValuesInv, ValuesTyped
<1>8. ToSpend' /\ OncePerProcess'
  BY <1>1, <1>2, <1>5 DEF Spending, ToSpend, OncePerProcess
<1>. QED  BY <1>6, <1>7, <1>8 DEF Spending

\* The token is spent: nobody else of the process is about to.
LEMMA PresentSpends ==
    ASSUME Base, Spending, NEW c \in Contenders, Present(c)
    PROVE  Spending'
<1>1. /\ UNCHANGED <<tokens, job, key, current, mine, minted>> /\ Runs(c)
      /\ step[c] = "present" /\ step' = [step EXCEPT ![c] = "answer"]
      /\ spentBy' = [spentBy EXCEPT ![current[c]] = @ \union {c}]
  BY DEF Present, Move
<1>2. step'[c] = "answer" /\ \A d \in Contenders \ {c} : step'[d] = step[d]
  BY <1>1 DEF Base, OpsTyped
<1>3. Issued' = Issued /\ \A d \in Contenders : Pending(d)' <=> Pending(d)
  BY <1>1, <1>2 DEF Issued, Pending
<1>4. /\ current[c] \in Tokens /\ job[c] = "refresh" /\ current[c] # NoToken
      /\ spentBy \in [Tokens -> SUBSET Contenders]
  BY <1>1 DEF Base, ValuesInv, ValuesTyped, Loaded, RefreshWaits
<1>5. /\ spentBy'[current[c]] = spentBy[current[c]] \union {c}
      /\ \A t \in Tokens \ {current[c]} : spentBy'[t] = spentBy[t]
  BY <1>1, <1>4
<1>6. AllIssued' /\ KeysApart'
  BY <1>1, <1>3 DEF Spending, AllIssued, KeysApart
<1>7. SpentIsReplaced'
  BY <1>1, <1>2, <1>4, <1>5 DEF Spending, SpentIsReplaced
<1>8. ASSUME NEW d \in Contenders, d # c, step[d] = "present", ProcessOf[d] = ProcessOf[c]
      PROVE  current[d] # current[c]
  <2>1. ASSUME current[d] = current[c] PROVE FALSE
    <3>1. key[d] = key[c] /\ Runs(d)
      BY <1>1, <1>4, <1>8, <2>1 DEF Spending, KeysApart, Runs
    <3>2. Refreshing(c) /\ Refreshing(d)
      BY <1>1, <1>8 DEF Refreshing, Base, ValuesInv, RefreshWaits
    <3>3. Mutex(d) = d /\ Mutex(c) = c
      BY <1>1, <3>1, <3>2 DEF Base, MutexHeld
    <3>. QED  BY <1>8, <3>1, <3>3 DEF Mutex
  <2>. QED  BY <2>1
<1>9. \A d \in Contenders : step[d] = "present" => current[d] \in Tokens
  BY DEF Base, ValuesInv, ValuesTyped, Loaded
<1>10. ToSpend'
  <2>. SUFFICES ASSUME NEW d \in Contenders, NEW e \in Contenders,
                       step'[d] = "present", ProcessOf[d] = ProcessOf[e]
                PROVE  e \notin spentBy'[current[d]]
    BY <1>1 DEF ToSpend
  <2>1. d # c /\ step[d] = "present" /\ current[d] \in Tokens
    BY <1>2, <1>9
  <2>2. e \notin spentBy[current[d]]
    BY <2>1 DEF Spending, ToSpend
  <2>3. CASE current[d] = current[c]
    <3>1. e # c
      BY <1>8, <2>1, <2>3
    <3>. QED  BY <1>5, <2>2, <2>3, <3>1
  <2>. QED  BY <1>5, <2>1, <2>2, <2>3
<1>11. OncePerProcess'
  <2>1. \A d \in spentBy[current[c]] : ProcessOf[d] # ProcessOf[c]
    BY <1>1, <1>4 DEF Spending, ToSpend
  <2>. QED  BY <1>4, <1>5, <2>1 DEF Spending, OncePerProcess
<1>. QED  BY <1>6, <1>7, <1>10, <1>11 DEF Spending

\* A new token is nobody's yet.
LEMMA MintSpends ==
    ASSUME Base, Spending, NEW c \in Contenders, Mints(c), step' = [step EXCEPT ![c] = "store"],
           UNCHANGED <<tokens, job, key, current, spentBy>>
    PROVE  Spending'
<1>1. /\ minted' \notin Issued /\ minted' # NoToken /\ Issued \subseteq Issued' /\ minted' \in Issued'
      /\ mine' = [mine EXCEPT ![c] = minted']
  BY MintsOne DEF Base, ValuesInv, Mints
<1>2. /\ step'[c] = "store" /\ \A d \in Contenders \ {c} : step'[d] = step[d]
      /\ mine'[c] = minted' /\ \A d \in Contenders \ {c} : mine'[d] = mine[d]
      /\ step[c] \in {"begin", "answer"}
  BY <1>1 DEF Base, OpsTyped, ValuesInv, ValuesTyped, Mints
<1>3. \A d \in Contenders : Pending(d)' <=> Pending(d) \/ d = c
  BY <1>2 DEF Pending
<1>4. AllIssued'
  BY <1>1, <1>2 DEF Spending, AllIssued
<1>5. KeysApart'
  <2>1. /\ \A k, l \in Keys : tokens'[k] = tokens'[l] => k = l
        /\ \A d \in Contenders, k \in Keys : current'[d] = tokens'[k] => k = key'[d]
        /\ \A d, e \in Contenders : current'[d] = current'[e] /\ current'[d] # NoToken => key'[d] = key'[e]
    BY DEF Spending, KeysApart
  <2>2. /\ \A k \in Keys : minted' # tokens[k]
        /\ \A d \in Contenders : minted' # current[d] /\ minted' # mine[d]
    BY <1>1 DEF Spending, AllIssued
  <2>3. ASSUME NEW d \in Contenders, Pending(d)'
        PROVE  /\ mine'[d] # NoToken
               /\ \A k \in Keys : mine'[d] # tokens'[k]
               /\ \A e \in Contenders : mine'[d] # current'[e]
               /\ \A e \in Contenders : Pending(e)' /\ mine'[d] = mine'[e] => d = e
    <3>1. CASE d = c
      BY <1>1, <1>2, <2>2, <3>1
    <3>2. CASE d # c
      <4>1. Pending(d) /\ mine'[d] = mine[d]
        BY <1>2, <1>3, <2>3, <3>2
      <4>2. /\ mine[d] # NoToken
            /\ \A k \in Keys : mine[d] # tokens[k]
            /\ \A e \in Contenders : mine[d] # current[e]
            /\ \A e \in Contenders : Pending(e) /\ mine[d] = mine[e] => d = e
        BY <4>1 DEF Spending, KeysApart
      <4>3. \A e \in Contenders : Pending(e)' /\ mine'[d] = mine'[e] => d = e
        BY <1>2, <1>3, <2>2, <4>1, <4>2
      <4>. QED  BY <4>1, <4>2, <4>3
    <3>. QED  BY <3>1, <3>2
  <2>. QED  BY <2>1, <2>3 DEF KeysApart
<1>6. SpentIsReplaced'
  BY <1>2 DEF Spending, SpentIsReplaced, Base, ValuesInv, ValuesTyped
<1>7. ToSpend' /\ OncePerProcess'
  BY <1>2 DEF Spending, ToSpend, OncePerProcess
<1>. QED  BY <1>4, <1>5, <1>6, <1>7 DEF Spending

\* A save replaces the token of its key: whose refresh it is has spent the old one.
LEMMA WriteSpends ==
    ASSUME Base, Spending, ~moved, NEW c \in Contenders, WriteState(c)
    PROVE  Spending'
<1>1. /\ UNCHANGED <<job, key, current, mine, minted, spentBy>> /\ Runs(c)
      /\ step[c] = "write" /\ step' = [step EXCEPT ![c] = "release"]
      /\ tokens' = [view[c] EXCEPT ![key[c]] = mine[c]]
  BY DEF WriteState, Move
<1>2. view[c] = tokens
  BY <1>1 DEF Base, TokenInv, ViewIsCurrent
<1>3. /\ step'[c] = "release" /\ \A d \in Contenders \ {c} : step'[d] = step[d]
      /\ key[c] \in Keys
      /\ tokens'[key[c]] = mine[c] /\ \A k \in Keys \ {key[c]} : tokens'[k] = tokens[k]
  BY <1>1, <1>2 DEF Base, OpsTyped, ValuesInv, ValuesTyped
<1>4. Issued' = Issued
  BY <1>1 DEF Issued
<1>5. Pending(c) /\ \A d \in Contenders : Pending(d)' <=> Pending(d) /\ d # c
  BY <1>1, <1>3 DEF Pending
<1>6. /\ mine[c] # NoToken
      /\ \A k \in Keys : mine[c] # tokens[k]
      /\ \A d \in Contenders : mine[c] # current[d]
      /\ \A d \in Contenders : Pending(d) /\ mine[c] = mine[d] => c = d
  BY <1>5 DEF Spending, KeysApart
<1>7. AllIssued'
  BY <1>1, <1>3, <1>4, <1>6 DEF Spending, AllIssued
<1>8. KeysApart'
  <2>1. /\ \A k, l \in Keys : tokens'[k] = tokens'[l] => k = l
        /\ \A d \in Contenders, k \in Keys : current'[d] = tokens'[k] => k = key'[d]
    BY <1>1, <1>3, <1>6 DEF Spending, KeysApart
  <2>2. \A d, e \in Contenders : current'[d] = current'[e] /\ current'[d] # NoToken => key'[d] = key'[e]
    BY <1>1 DEF Spending, KeysApart
  <2>3. ASSUME NEW d \in Contenders, Pending(d)'
        PROVE  /\ mine'[d] # NoToken
               /\ \A k \in Keys : mine'[d] # tokens'[k]
               /\ \A e \in Contenders : mine'[d] # current'[e]
               /\ \A e \in Contenders : Pending(e)' /\ mine'[d] = mine'[e] => d = e
    <3>1. Pending(d) /\ d # c
      BY <1>5, <2>3
    <3>2. /\ mine[d] # NoToken
          /\ \A k \in Keys : mine[d] # tokens[k]
          /\ \A e \in Contenders : mine[d] # current[e]
          /\ \A e \in Contenders : Pending(e) /\ mine[d] = mine[e] => d = e
      BY <3>1 DEF Spending, KeysApart
    <3>. QED  BY <1>1, <1>3, <1>5, <1>6, <3>1, <3>2
  <2>. QED  BY <2>1, <2>2, <2>3 DEF KeysApart
<1>9. SpentIsReplaced'
  <2>. SUFFICES ASSUME NEW t \in Tokens, NEW d \in spentBy[t]
                PROVE  /\ current[d] = t /\ job[d] = "refresh"
                       /\ step'[d] \in {"answer", "store", "write", "release", "over"}
                       /\ step'[d] \in {"release", "over"} => \A k \in Keys : tokens'[k] # t
    BY <1>1 DEF SpentIsReplaced
  <2>1. /\ current[d] = t /\ job[d] = "refresh" /\ d \in Contenders
        /\ step[d] \in {"answer", "store", "write", "release", "over"}
        /\ step[d] \in {"release", "over"} => \A k \in Keys : tokens[k] # t
    BY DEF Spending, SpentIsReplaced, Base, ValuesInv, ValuesTyped
  <2>2. mine[c] # t
    BY <1>6, <2>1
  <2>3. CASE d = c
    <3>1. \A k \in Keys : tokens'[k] # t
      BY <1>3, <2>1, <2>2, <2>3 DEF Spending, KeysApart
    <3>. QED  BY <1>3, <2>1, <2>3, <3>1
  <2>4. CASE d # c
    BY <1>3, <2>1, <2>2, <2>4
  <2>. QED  BY <2>3, <2>4
<1>10. ToSpend' /\ OncePerProcess'
  BY <1>1, <1>3 DEF Spending, ToSpend, OncePerProcess
<1>. QED  BY <1>7, <1>8, <1>9, <1>10 DEF Spending

LEMMA SpendingStep ==
    ASSUME Base, SpendingInv, [TokenNext]_allVars
    PROVE  SpendingInv'
<1>. SUFFICES ASSUME Quiet' PROVE Spending'
  BY DEF SpendingInv
<1>0. Spending /\ Quiet /\ ~moved
  BY QuietBefore DEF SpendingInv, Quiet
<1>1. CASE UNCHANGED tokenVars
  BY <1>0, <1>1 DEF tokenVars, opVars, Spending, AllIssued, Issued, KeysApart, Pending, SpentIsReplaced,
                    ToSpend, OncePerProcess
<1>2. ASSUME NEW p \in Processes, Die(p) PROVE Spending'
  BY <1>0, <1>2 DEF Die, opVars, Spending, AllIssued, Issued, KeysApart, Pending, SpentIsReplaced,
                    ToSpend, OncePerProcess
<1>3. ASSUME NEW c \in Contenders, OpStep(c) PROVE Spending'
  <2>1. CASE Load(c)
    BY <1>0, <2>1, LoadSpends
  <2>2. CASE LockKey(c)
    <3>1. /\ UNCHANGED <<tokens, job, key, current, mine, minted, spentBy>> /\ step[c] = "wait"
          /\ step' = [step EXCEPT ![c] = "reload"] /\ "reload" \in Steps
      BY <2>2 DEF LockKey, Move, Steps
    <3>. QED  BY <1>0, <3>1, MovesOn
  <2>3. CASE Reload(c) /\ step'[c] = "present"
    BY <1>0, <2>3, ReloadSpends
  <2>4. CASE Reload(c) /\ step'[c] # "present"
    <3>1. /\ UNCHANGED <<tokens, job, key, current, mine, minted, spentBy>> /\ step[c] = "reload"
          /\ step' = [step EXCEPT ![c] = "over"] /\ "over" \in Steps
      BY <2>4 DEF Reload, Move, Steps, Base, OpsTyped
    <3>. QED  BY <1>0, <3>1, MovesOn
  <2>5. CASE Present(c)
    BY <1>0, <2>5, PresentSpends
  <2>6. CASE Answer(c) \/ (Decide(c) /\ job[c] = "login")
    <3>1. /\ UNCHANGED <<tokens, job, key, current, spentBy>>
          /\ step[c] \in {"begin", "answer"} /\ step' = [step EXCEPT ![c] = "store"]
          /\ minted' = minted + 1 /\ mine' = [mine EXCEPT ![c] = minted']
      BY <2>6 DEF Answer, Decide, Move
    <3>2. Mints(c)
      BY <3>1 DEF Mints, Base, OpsTyped
    <3>. QED  BY <1>0, <3>1, <3>2, MintSpends
  <2>7. CASE Decide(c) /\ job[c] # "login"
    BY <1>0, <2>7 DEF Decide, Quiet, Calm
  <2>8. CASE Refusal(c) \/ StoreFails(c) \/ WriteStateFails(c)
    <3>1. step'[c] \in {"failed", "release failed"}
      BY <2>8 DEF Refusal, StoreFails, WriteStateFails, Move, Base, OpsTyped
    <3>. QED  BY <3>1 DEF Quiet, Calm
  <2>9. CASE ReadState(c)
    <3>1. /\ UNCHANGED <<tokens, job, key, current, mine, minted, spentBy>> /\ step[c] = "store"
          /\ step' = [step EXCEPT ![c] = "write"] /\ "write" \in Steps
      BY <2>9 DEF ReadState, Move, Steps
    <3>2. Pending(c)
      BY <3>1 DEF Pending
    <3>. QED  BY <1>0, <3>1, <3>2, MovesOn
  <2>10. CASE WriteState(c)
    BY <1>0, <2>10, WriteSpends
  <2>11. CASE Done(c)
    <3>1. step[c] = "release"
      BY <1>0, <2>11 DEF Done, Move, Quiet, Calm
    <3>2. /\ UNCHANGED <<tokens, job, key, current, mine, minted, spentBy>>
          /\ step' = [step EXCEPT ![c] = "over"] /\ "over" \in Steps
      BY <2>11, <3>1 DEF Done, Move, Steps
    <3>. QED  BY <1>0, <3>1, <3>2, MovesOn
  <2>12. CASE LockStep(c) \/ Unlock(c) \/ Perish(c)
    BY <1>1, <2>12 DEF LockStep, Unlock, Perish
  <2>. QED  BY <1>3, <2>1, <2>2, <2>3, <2>4, <2>5, <2>6, <2>7, <2>8, <2>9, <2>10, <2>11, <2>12 DEF OpStep
<1>4. CASE UNCHANGED allVars
  BY <1>1, <1>4 DEF allVars
<1>. QED  BY <1>1, <1>2, <1>3, <1>4 DEF TokenNext

OpsInv == OpsTyped /\ MutexHeld /\ ValuesInv /\ SpendingInv

LEMMA OpsInit == TokenInit => OpsInv
<1>. SUFFICES ASSUME TokenInit PROVE OpsInv
  OBVIOUS
<1>1. /\ tokens \in [Keys -> 1..Cardinality(Keys)] /\ minted = Cardinality(Keys) /\ meant = tokens
      /\ \A k, l \in Keys : k # l => tokens[k] # tokens[l]
  BY FirstTokens DEF TokenInit
<1>2. PICK asked \in [Contenders -> {"refresh", "login", "logout"} \X Keys] :
          job = [c \in Contenders |-> asked[c][1]] /\ key = [c \in Contenders |-> asked[c][2]]
  BY DEF TokenInit
<1>3. /\ step = [c \in Contenders |-> "begin"] /\ dead = {}
      /\ current = [c \in Contenders |-> NoToken] /\ mine = [c \in Contenders |-> NoToken]
      /\ view = [c \in Contenders |-> tokens] /\ spentBy = [t \in Tokens |-> {}]
      /\ mutex = [p \in Processes |-> [k \in Keys |-> Nobody]]
  BY DEF TokenInit
<1>4. OpsTyped
  <2>1. /\ job \in [Contenders -> {"refresh", "login", "logout"}] /\ key \in [Contenders -> Keys]
    BY <1>2
  <2>. QED  BY <1>3, <2>1 DEF OpsTyped, Steps
<1>5. MutexHeld
  <2>1. \A c \in Contenders : Mutex(c) = Nobody
    BY <1>3, <1>4 DEF Mutex, OpsTyped
  <2>. QED  BY <1>3, <2>1 DEF MutexHeld, Refreshing, Nobody
<1>6. ValuesInv
  <2>1. tokens \in [Keys -> Tokens \union {NoToken}]
    BY <1>1, TokensNumbered
  <2>2. ValuesTyped
    BY <1>1, <1>3, <2>1 DEF ValuesTyped
  <2>3. Minting
    <3>1. Minters = {}
      BY <1>3 DEF Minters
    <3>2. Cardinality(Minters) = 0 /\ Cardinality(Keys) \in Nat
      BY <3>1, FS_EmptySet, TokensNumbered
    <3>3. minted = Cardinality(Keys) + Cardinality(Minters)
      BY <1>1, <3>2
    <3>. QED  BY <1>3, <3>3 DEF Minting
  <2>4. RefreshWaits /\ Loaded
    BY <1>3 DEF RefreshWaits, Loaded
  <2>. QED  BY <2>2, <2>3, <2>4 DEF ValuesInv
<1>7. Spending
  <2>1. AllIssued
    BY <1>1, <1>3 DEF AllIssued, Issued
  <2>2. KeysApart
    <3>1. \A c \in Contenders, k \in Keys : current[c] # tokens[k]
      <4>1. \A k \in Keys : tokens[k] # NoToken
        BY <1>1, TokensNumbered
      <4>. QED  BY <1>3, <4>1
    <3>2. \A c \in Contenders : ~Pending(c) /\ current[c] = NoToken
      BY <1>3 DEF Pending
    <3>. QED  BY <1>1, <3>1, <3>2 DEF KeysApart
  <2>3. SpentIsReplaced /\ ToSpend /\ OncePerProcess
    BY <1>3 DEF SpentIsReplaced, ToSpend, OncePerProcess
  <2>. QED  BY <2>1, <2>2, <2>3 DEF Spending
<1>. QED  BY <1>4, <1>5, <1>6, <1>7 DEF OpsInv, SpendingInv

\* For any processes, operations and keys, oauth/manager.go presents a refresh token
\* once in a process, as long as every save is kept.
THEOREM TokensAreSpentOnce == TokenSpec => []SpentOnce
<1>1. TokenInit => OpsInv
  BY OpsInit
<1>2. OpsInv /\ TokenInv /\ [TokenNext]_allVars => OpsInv'
  <2>. SUFFICES ASSUME OpsInv, TokenInv, [TokenNext]_allVars PROVE OpsInv'
    OBVIOUS
  <2>1. OpsTyped' /\ MutexHeld'
    BY MutexStep DEF OpsInv, ValuesInv
  <2>2. ValuesInv'
    BY ValuesStep DEF OpsInv
  <2>3. SpendingInv'
    BY SpendingStep DEF OpsInv, Base
  <2>. QED  BY <2>1, <2>2, <2>3 DEF OpsInv
<1>3. OpsInv => SpentOnce
  <2>. SUFFICES ASSUME OpsInv PROVE SpentOnce
    OBVIOUS
  <2>1. TokenTypeOK
    <3>1. minted \in Tokens
      BY MintBound DEF OpsInv, ValuesInv
    <3>. QED  BY <3>1 DEF OpsInv, OpsTyped, MutexHeld, ValuesInv, ValuesTyped, TokenTypeOK, Refreshing
  <2>2. Calm /\ ~moved => OncePerProcess
    BY DEF OpsInv, SpendingInv, Quiet, Spending
  <2>. QED  BY <2>1, <2>2 DEF SpentOnce, OncePerProcess
<1>. QED  BY <1>1, <1>2, <1>3, TokenInvariant, PTL DEF TokenSpec
=============================================================================
