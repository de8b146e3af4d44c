------------------------------ MODULE TokenStore ------------------------------
(***************************************************************************)
(* The OAuth tokens of internal/oauth: refresh, login and logout by the    *)
(* goroutines of several processes (manager.go), over the one file that    *)
(* holds the tokens of all keys (store.go), under FileLock.  A contender   *)
(* of the lock is one operation, which writes the file at most once.  The  *)
(* provider accepts a refresh token once and rotates it.  A token stands   *)
(* for its access and its refresh part.  The mutex of a Store, which only  *)
(* keeps the goroutines of one process apart, is left out: what holds      *)
(* without it holds with it.                                               *)
(***************************************************************************)
EXTENDS FileLock, Integers

CONSTANTS Processes, ProcessOf,  \* the process each contender is a goroutine of
          Keys,                  \* the providers logged into
          Jobs                   \* what each contender may be asked: <<job, key>>

ASSUME TokenAssumption ==
    /\ ProcessOf \in [Contenders -> Processes]
    /\ Jobs \in [Contenders -> SUBSET ({"refresh", "login", "logout"} \X Keys)]
    /\ IsFiniteSet(Contenders) /\ IsFiniteSet(Keys) /\ Keys # {}

VARIABLES tokens,   \* the file: of each key its token, or NoToken
          step,     \* where each operation is
          job, key, \* what it does, to which key
          current,  \* the token it has loaded
          mine,     \* the token it will save
          view,     \* the file as it has read it under the lock
          mutex,    \* of each process and key, who holds the refresh mutex
          minted,   \* the tokens issued so far
          spentBy,  \* history: who has presented each token for a refresh
          meant,    \* history: the file if each save had changed its own key only
          dead      \* the processes that have crashed

NoToken == 0
Tokens == 1 .. (Cardinality(Keys) + Cardinality(Contenders))
Nobody == NoFile

opVars == <<step, job, key, current, mine, view, mutex, minted, spentBy>>
tokenVars == <<tokens, opVars, meant, dead>>
allVars == <<fileLockVars, tokenVars>>

\* Every key has a token of its own.
TokenInit ==
    /\ FileLockInit
    /\ tokens = CHOOSE f \in [Keys -> 1..Cardinality(Keys)] :
                    \A k, l \in Keys : k # l => f[k] # f[l]
    /\ \E asked \in [Contenders -> {"refresh", "login", "logout"} \X Keys] :
           /\ \A c \in Contenders : asked[c] \in Jobs[c]
           /\ job = [c \in Contenders |-> asked[c][1]]
           /\ key = [c \in Contenders |-> asked[c][2]]
    /\ step = [c \in Contenders |-> "begin"]
    /\ current = [c \in Contenders |-> NoToken]
    /\ mine = [c \in Contenders |-> NoToken]
    /\ view = [c \in Contenders |-> tokens]
    /\ mutex = [p \in Processes |-> [k \in Keys |-> Nobody]]
    /\ minted = Cardinality(Keys)
    /\ spentBy = [t \in Tokens |-> {}]
    /\ meant = tokens
    /\ dead = {}

Runs(c) == ProcessOf[c] \notin dead
Move(c, from, to) == Runs(c) /\ step[c] = from /\ step' = [step EXCEPT ![c] = to]
Mutex(c) == mutex[ProcessOf[c]][key[c]]

\* What the deferred Unlock of refreshAndSave leaves.
Unlocked(c) == IF Mutex(c) = c THEN [mutex EXCEPT ![ProcessOf[c]][key[c]] = Nobody] ELSE mutex

-----------------------------------------------------------------------------
(* GetFresh, Handle401, refreshAndSave *)

\* The token is loaded without any lock; if it is still valid, or there is none, that
\* is all.
Load(c) ==
    /\ job[c] = "refresh"
    /\ \/ Move(c, "begin", "wait") /\ tokens[key[c]] # NoToken
       \/ Move(c, "begin", "over")
    /\ current' = [current EXCEPT ![c] = tokens[key[c]]]
    /\ UNCHANGED <<fileLockVars, tokens, job, key, mine, view, mutex, minted, spentBy, meant, dead>>

LockKey(c) ==
    /\ Move(c, "wait", "reload")
    /\ Mutex(c) = Nobody
    /\ mutex' = [mutex EXCEPT ![ProcessOf[c]][key[c]] = c]
    /\ UNCHANGED <<fileLockVars, tokens, job, key, current, mine, view, minted, spentBy, meant, dead>>

\* A mutant: the token is not loaded again under the mutex.
ReloadNothing(c) ==
    /\ Move(c, "reload", "present")
    /\ UNCHANGED <<fileLockVars, tokens, job, key, current, mine, view, mutex, minted, spentBy,
                   meant, dead>>

\* Another token is stored by now: it is returned.  A token that is gone is refreshed.
Reload(c) ==
    LET stored == tokens[key[c]]
    IN  /\ \/ /\ stored \notin {NoToken, current[c]}
              /\ Move(c, "reload", "over")
              /\ mutex' = Unlocked(c)
           \/ /\ stored \in {NoToken, current[c]}
              /\ Move(c, "reload", "present")
              /\ UNCHANGED mutex
        /\ UNCHANGED <<fileLockVars, tokens, job, key, current, mine, view, minted, spentBy, meant,
                       dead>>

\* The provider takes the refresh token.
Present(c) ==
    /\ Move(c, "present", "answer")
    /\ spentBy' = [spentBy EXCEPT ![current[c]] = @ \union {c}]
    /\ UNCHANGED <<fileLockVars, tokens, job, key, current, mine, view, mutex, minted, meant, dead>>

\* It answers the first to present it with a new token.  The answer may be lost.
Answer(c) ==
    /\ Move(c, "answer", "store")
    /\ spentBy[current[c]] = {c}
    /\ minted' = minted + 1
    /\ mine' = [mine EXCEPT ![c] = minted']
    /\ UNCHANGED <<fileLockVars, tokens, job, key, current, view, mutex, spentBy, meant, dead>>

Refusal(c) ==
    /\ Move(c, "answer", "failed")
    /\ mutex' = Unlocked(c)
    /\ UNCHANGED <<fileLockVars, tokens, job, key, current, mine, view, minted, spentBy, meant, dead>>

\* Login ends with a new token to save, Logout has one to delete.
Decide(c) ==
    /\ \/ /\ job[c] = "login"
          /\ minted' = minted + 1
          /\ mine' = [mine EXCEPT ![c] = minted']
       \/ job[c] = "logout" /\ UNCHANGED <<minted, mine>>
    /\ Move(c, "begin", "store")
    /\ UNCHANGED <<fileLockVars, tokens, job, key, current, view, mutex, spentBy, meant, dead>>

-----------------------------------------------------------------------------
(* Save and Delete, under the lock *)

\* What Save and Delete do before and after: the lock's own steps.
LockStep(c) ==
    /\ Runs(c) /\ step[c] = "store"
    /\ \/ Create(c) \/ WriteToken(c) \/ Contended(c) \/ Stat(c)
       \/ Rename(c) \/ RenameFails(c) \/ Verify(c) \/ Restore(c) \/ Drop(c)
       \/ Goto(c, "wait", "try") /\ UNCHANGED <<at, aside, stale, moved>>
    /\ UNCHANGED tokenVars

\* The lock is not to be had.
StoreFails(c) ==
    /\ Move(c, "store", "failed")
    /\ \/ WriteFails(c)
       \/ Goto(c, "wait", "failed") /\ UNCHANGED <<at, aside, stale, moved>>
    /\ mutex' = Unlocked(c)
    /\ UNCHANGED <<tokens, job, key, current, mine, view, minted, spentBy, meant, dead>>

\* A mutant: nothing is locked.
ReadStateUnlocked(c) ==
    /\ pc[c] = "try"
    /\ Move(c, "store", "write")
    /\ view' = [view EXCEPT ![c] = tokens]
    /\ UNCHANGED <<fileLockVars, tokens, job, key, current, mine, mutex, minted, spentBy, meant, dead>>

ReadState(c) ==
    /\ pc[c] = "hold"
    /\ Move(c, "store", "write")
    /\ view' = [view EXCEPT ![c] = tokens]
    /\ UNCHANGED <<fileLockVars, tokens, job, key, current, mine, mutex, minted, spentBy, meant, dead>>

\* The whole file is replaced.
WriteState(c) ==
    /\ Move(c, "write", "release")
    /\ tokens' = [view[c] EXCEPT ![key[c]] = mine[c]]
    /\ meant' = [meant EXCEPT ![key[c]] = mine[c]]
    /\ UNCHANGED <<fileLockVars, job, key, current, mine, view, mutex, minted, spentBy, dead>>

WriteStateFails(c) ==
    /\ Move(c, "write", "release failed")
    /\ UNCHANGED <<fileLockVars, tokens, job, key, current, mine, view, mutex, minted, spentBy,
                   meant, dead>>

Unlock(c) ==
    /\ Runs(c) /\ step[c] \in {"release", "release failed"}
    /\ Release(c) \/ (ReadToken(c) /\ at = c)
    /\ UNCHANGED tokenVars

\* The last step of the release ends the operation too.
Done(c) ==
    /\ Move(c, "release", "over") \/ Move(c, "release failed", "failed")
    /\ Remove(c) \/ (ReadToken(c) /\ at # c)
    /\ mutex' = Unlocked(c)
    /\ UNCHANGED <<tokens, job, key, current, mine, view, minted, spentBy, meant, dead>>

-----------------------------------------------------------------------------
(* Crashes *)

Die(p) ==
    /\ p \notin dead
    /\ dead' = dead \union {p}
    /\ UNCHANGED <<fileLockVars, tokens, opVars, meant>>

\* What a dead process held in the lock is seen as crashed.
Perish(c) ==
    /\ ~Runs(c)
    /\ Crash(c)
    /\ UNCHANGED tokenVars

-----------------------------------------------------------------------------

OpStep(c) ==
    \/ Load(c) \/ LockKey(c) \/ Reload(c) \/ Present(c) \/ Answer(c) \/ Refusal(c) \/ Decide(c)
    \/ LockStep(c) \/ StoreFails(c) \/ ReadState(c) \/ WriteState(c) \/ WriteStateFails(c)
    \/ Unlock(c) \/ Done(c) \/ Perish(c)

TokenNext ==
    \/ \E f \in Files : Age(f) /\ UNCHANGED tokenVars
    \/ \E c \in Contenders : OpStep(c)
    \/ \E p \in Processes : Die(p)

TokenSpec == TokenInit /\ [][TokenNext]_allVars

-----------------------------------------------------------------------------
(* Properties *)

Steps == {"begin", "wait", "reload", "present", "answer", "store", "write", "release",
          "release failed", "over", "failed"}

\* Types; the refresh mutex is held from the reload to the end of the save.
TokenTypeOK ==
    /\ tokens \in [Keys -> Tokens \union {NoToken}] /\ meant \in [Keys -> Tokens \union {NoToken}]
    /\ view \in [Contenders -> [Keys -> Tokens \union {NoToken}]]
    /\ step \in [Contenders -> Steps]
    /\ job \in [Contenders -> {"refresh", "login", "logout"}] /\ key \in [Contenders -> Keys]
    /\ current \in [Contenders -> Tokens \union {NoToken}]
    /\ mine \in [Contenders -> Tokens \union {NoToken}]
    /\ minted \in Tokens /\ spentBy \in [Tokens -> SUBSET Contenders]
    /\ dead \subseteq Processes
    /\ \A c \in Contenders : Runs(c) =>
           (Mutex(c) = c <=> job[c] = "refresh" /\ step[c] \notin {"begin", "wait", "over", "failed"})

\* A save changes its own key only (store.go:227-242): until a fresh lock is moved the
\* file is what the saves and deletions meant it to be, whoever crashed.
NoUpdateLost == ~moved => tokens = meant

\* No save failed, and nobody logged out.
Calm == \A c \in Contenders : step[c] \notin {"failed", "release failed"} /\ job[c] # "logout"

\* The comment of refreshAndSave (manager.go:331-333): within a process a refresh token
\* is presented once, however many callers find it expired, as long as every save is
\* kept: none failed, nobody logged out, and no fresh lock was moved, after which a save
\* may be undone and the token it replaced found again.
SpentOnce ==
    /\ TokenTypeOK
    /\ Calm /\ ~moved =>
           \A t \in Tokens : \A c, d \in spentBy[t] : ProcessOf[c] = ProcessOf[d] => c = d

\* Refuted across processes: the mutex is one process's.
SpentOnceAnywhere ==
    Calm => \A t \in Tokens : Cardinality(spentBy[t]) <= 1

\* After a logout the key has no token (manager.go:401-404): a refresh that is on its way
\* saves one all the same.
LogoutSticks ==
    \A c \in Contenders :
        job[c] = "logout" /\ step[c] = "over" => tokens[key[c]] \in {NoToken} \union
            {mine[d] : d \in {d \in Contenders : job[d] = "login"}}
=============================================================================
