------------------------------- MODULE FileLock -------------------------------
(***************************************************************************)
(* The cross-process lock file of internal/cron/lock.go, which             *)
(* internal/oauth/lock.go and internal/hooks/lock.go repeat: created with  *)
(* O_EXCL, holding its owner's token, removed on release, and taken away   *)
(* by rename from an owner that crashed.  A step is one system call.  A    *)
(* contender is one call of lockJob; it creates at most one file, which    *)
(* bears its name.                                                         *)
(***************************************************************************)
EXTENDS Naturals, FiniteSets

CONSTANTS Contenders,  \* the calls of lockJob
          Old,         \* the file of a holder that crashed before them
          NoFile

ASSUME FileLockAssumption == Old \notin Contenders /\ NoFile \notin Contenders \union {Old}

Files == Contenders \union {Old}

VARIABLES at,      \* the file at lockPath
          aside,   \* the file each contender has renamed to its ".stale" name
          stale,   \* the files older than cronLockStaleAfter
          pc,      \* where each contender is
          moved    \* a file that was not stale has been renamed aside

fileLockVars == <<at, aside, stale, pc, moved>>

Holding == {"hold", "read", "remove"}        \* lockJob returned, its release has not
Live == Holding \union {"write"}             \* the owner of a file
Over == {"done", "failed", "crashed"}

FileLockInit ==
    /\ at \in {Old, NoFile}
    /\ aside = [c \in Contenders |-> NoFile]
    /\ stale = {}
    /\ pc = [c \in Contenders |-> "try"]
    /\ moved = FALSE

Goto(c, from, to) == pc[c] = from /\ pc' = [pc EXCEPT ![c] = to]

\* A hold is milliseconds long and the threshold a minute: only a file whose owner
\* is gone grows that old.
Age(f) ==
    /\ f \notin stale
    /\ f \in Contenders => pc[f] \in Over
    /\ stale' = stale \union {f}
    /\ UNCHANGED <<at, aside, pc, moved>>

-----------------------------------------------------------------------------
(* lockJob *)

\* The exclusive create succeeds.
Create(c) ==
    /\ at = NoFile
    /\ Goto(c, "try", "write")
    /\ at' = c
    /\ UNCHANGED <<aside, stale, moved>>

WriteToken(c) ==
    /\ Goto(c, "write", "hold")
    /\ UNCHANGED <<at, aside, stale, moved>>

\* The token cannot be written: what is at lockPath is removed.
WriteFails(c) ==
    /\ Goto(c, "write", "failed")
    /\ at' = NoFile
    /\ UNCHANGED <<aside, stale, moved>>

\* The create finds a file.
Contended(c) ==
    /\ at # NoFile
    /\ Goto(c, "try", "stat")
    /\ UNCHANGED <<at, aside, stale, moved>>

\* Only a stale file is worth reclaiming.
Stat(c) ==
    /\ Goto(c, "stat", IF at \in stale THEN "reclaim" ELSE "wait")
    /\ UNCHANGED <<at, aside, stale, moved>>

\* The pause before another try, unless the deadline has passed.
Wait(c) ==
    /\ Goto(c, "wait", "try") \/ Goto(c, "wait", "failed")
    /\ UNCHANGED <<at, aside, stale, moved>>

-----------------------------------------------------------------------------
(* reclaimStaleLock *)

\* Mutant of Rename: a stale lock is removed on sight.
RemoveBlindly(c) ==
    /\ Goto(c, "reclaim", "try")
    /\ at' = NoFile
    /\ UNCHANGED <<aside, stale, moved>>

\* What is at lockPath by now is renamed aside.
Rename(c) ==
    /\ at # NoFile
    /\ Goto(c, "reclaim", "verify")
    /\ aside' = [aside EXCEPT ![c] = at]
    /\ at' = NoFile
    /\ moved' = (moved \/ at \notin stale)
    /\ UNCHANGED stale

\* Another racer has moved or removed it.
RenameFails(c) ==
    /\ at = NoFile
    /\ Goto(c, "reclaim", "wait")
    /\ UNCHANGED <<at, aside, stale, moved>>

\* The age of the file that was moved decides.
Verify(c) ==
    /\ Goto(c, "verify", IF aside[c] \in stale THEN "drop" ELSE "restore")
    /\ UNCHANGED <<at, aside, stale, moved>>

\* It is put back, over whatever is at lockPath.
Restore(c) ==
    /\ Goto(c, "restore", "wait")
    /\ at' = aside[c]
    /\ aside' = [aside EXCEPT ![c] = NoFile]
    /\ UNCHANGED <<stale, moved>>

Drop(c) ==
    /\ Goto(c, "drop", "try")
    /\ aside' = [aside EXCEPT ![c] = NoFile]
    /\ UNCHANGED <<at, stale, moved>>

-----------------------------------------------------------------------------
(* The release, and the end of a process *)

\* The metadata is written; release begins.
Release(c) ==
    /\ Goto(c, "hold", "read")
    /\ UNCHANGED <<at, aside, stale, moved>>

\* Only a file with this contender's token is removed.
ReadToken(c) ==
    /\ Goto(c, "read", IF at = c THEN "remove" ELSE "done")
    /\ UNCHANGED <<at, aside, stale, moved>>

Remove(c) ==
    /\ Goto(c, "remove", "done")
    /\ at' = NoFile
    /\ UNCHANGED <<aside, stale, moved>>

Crash(c) ==
    /\ pc[c] \notin Over
    /\ pc' = [pc EXCEPT ![c] = "crashed"]
    /\ UNCHANGED <<at, aside, stale, moved>>

-----------------------------------------------------------------------------

ContenderStep(c) ==
    \/ Create(c) \/ WriteToken(c) \/ WriteFails(c) \/ Contended(c) \/ Stat(c) \/ Wait(c)
    \/ Rename(c) \/ RenameFails(c) \/ Verify(c) \/ Restore(c) \/ Drop(c)
    \/ Release(c) \/ ReadToken(c) \/ Remove(c) \/ Crash(c)

FileLockNext ==
    \/ \E f \in Files : Age(f)
    \/ \E c \in Contenders : ContenderStep(c)

FileLockSpec == FileLockInit /\ [][FileLockNext]_fileLockVars

-----------------------------------------------------------------------------
(* Properties *)

\* Types; and a file has one name, as rename moves it.
FileLockTypeOK ==
    /\ at \in Files \union {NoFile}
    /\ aside \in [Contenders -> Files \union {NoFile}]
    /\ stale \in SUBSET Files
    /\ pc \in [Contenders -> Live \union Over \union
                  {"try", "stat", "wait", "reclaim", "verify", "restore", "drop"}]
    /\ moved \in BOOLEAN
    /\ \A c \in Contenders : aside[c] # NoFile =>
           aside[c] # at /\ \A d \in Contenders \ {c} : aside[d] # aside[c]

\* The comments of lockJob (cron/lock.go:23, 74-79): the lock is exclusive, and "a
\* live lock is never deleted out from under its holder".
Exclusive == \A c, d \in Contenders : pc[c] \in Holding /\ pc[d] \in Holding => c = d

\* What the code does guarantee, for any number of contenders: the lock is exclusive
\* until a racer that saw a stale file moves the fresh one which replaced it.
ExclusiveUnlessMoved == ~moved => Exclusive

\* The comment of lockJob (cron/lock.go:26-27): "The lock file is removed on release".
ReleaseRemovesLock == \A c \in Contenders : pc[c] = "done" => at # c

=============================================================================
