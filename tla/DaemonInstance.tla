---------------------------- MODULE DaemonInstance ----------------------------
(***************************************************************************)
(* The single instance of the daemon: its PID lock (internal/daemon/       *)
(* lock.go) and what Server.Serve does under it with the control socket    *)
(* and the status file (internal/daemon/server.go).  A step is one system  *)
(* call.  A daemon is one process: it creates at most one lock file, which *)
(* bears its name, as do its socket and its status file.  A PID is not     *)
(* given to another process.                                               *)
(***************************************************************************)
EXTENDS Naturals, FiniteSets

CONSTANTS Daemons,  \* the processes that run "holt daemon start --foreground"
          Old,      \* the files of a daemon that died before them
          NoFile

ASSUME DaemonsAssumption == Old \notin Daemons /\ NoFile \notin Daemons \union {Old}

Files == Daemons \union {Old}
Passes == 2

VARIABLES lock,     \* the file at the lock's path
          aside,    \* the lock file each daemon has renamed to its ".stale" name
          written,  \* the lock files that have their owner's PID
          socket,   \* who bound the socket file
          status,   \* who wrote the status file
          pc,       \* where each daemon is
          pass,     \* its pass of acquireLock
          rival,    \* another daemon lived while this one was acquiring
          moved     \* the lock file of a live daemon has been renamed aside

lockVars == <<lock, aside, written>>
fileVars == <<socket, status>>
instanceVars == <<lock, aside, written, socket, status, pc, pass, rival, moved>>

Acquiring == {"open", "read", "rename", "inspect", "restore", "drop"}
Holding == {"clear", "bind", "status", "serve", "unbind", "unstatus", "release"}
Live == Holding \union {"write"}             \* the owner of a lock file
Departed == {"refused", "failed", "gone"}

InstanceInit ==
    /\ lock \in {NoFile, Old} /\ socket \in {NoFile, Old} /\ status \in {NoFile, Old}
    /\ aside = [d \in Daemons |-> NoFile]
    /\ written = {}
    /\ pc = [d \in Daemons |-> "idle"]
    /\ pass = [d \in Daemons |-> 1]
    /\ rival = [d \in Daemons |-> FALSE]
    /\ moved = FALSE

Goto(d, from, to) == pc[d] = from /\ pc' = [pc EXCEPT ![d] = to]
Alive == {d \in Daemons : pc[d] \notin Departed \union {"idle"}}

\* The file has the PID of a live process: readPidFile and isAlive.
NamesLive(f) == f \in written \intersect Alive

Start(d) ==
    /\ Goto(d, "idle", "open")
    /\ rival' = [e \in Daemons |-> IF e = d THEN Alive # {} ELSE rival[e] \/ pc[e] \in Acquiring]
    /\ UNCHANGED <<lockVars, fileVars, pass, moved>>

-----------------------------------------------------------------------------
(* acquireLock and reclaimStaleLock *)

\* The exclusive create: a new empty file, or one that exists is looked at.
Create(d) ==
    /\ IF lock = NoFile THEN Goto(d, "open", "write") /\ lock' = d
                        ELSE Goto(d, "open", "read") /\ UNCHANGED lock
    /\ UNCHANGED <<aside, written, fileVars, pass, rival, moved>>

\* The PID goes into the file that was created, wherever that is by now.
WritePID(d) ==
    /\ Goto(d, "write", "clear")
    /\ written' = written \union {d}
    /\ UNCHANGED <<lock, aside, fileVars, pass, rival, moved>>

\* It cannot be written: what is at the lock's path is removed.
WriteFails(d) ==
    /\ Goto(d, "write", "failed")
    /\ lock' = NoFile
    /\ UNCHANGED <<aside, written, fileVars, pass, rival, moved>>

\* Mutant of ReadPID: a lock is in use as long as its file exists.
ReadPresence(d) ==
    /\ Goto(d, "read", IF lock # NoFile THEN "refused" ELSE "rename")
    /\ UNCHANGED <<lockVars, fileVars, pass, rival, moved>>

\* A live daemon's PID refuses; a dead one's, a missing or an unreadable one is stale.
ReadPID(d) ==
    /\ Goto(d, "read", IF NamesLive(lock) THEN "refused" ELSE "rename")
    /\ UNCHANGED <<lockVars, fileVars, pass, rival, moved>>

\* After the second pass acquireLock gives up.
NextPass(d, from) ==
    /\ pc[d] = from
    /\ IF pass[d] = Passes
       THEN pc' = [pc EXCEPT ![d] = "refused"] /\ UNCHANGED pass
       ELSE pc' = [pc EXCEPT ![d] = "open"] /\ pass' = [pass EXCEPT ![d] = @ + 1]

\* Mutant of Rename: a stale lock is removed on sight.
RemoveBlindly(d) ==
    /\ NextPass(d, "rename")
    /\ lock' = NoFile
    /\ UNCHANGED <<aside, written, fileVars, rival, moved>>

\* Whatever file is at the lock's path by now is renamed aside.
Rename(d) ==
    /\ lock # NoFile
    /\ Goto(d, "rename", "inspect")
    /\ aside' = [aside EXCEPT ![d] = lock]
    /\ lock' = NoFile
    /\ moved' = (moved \/ lock \in Alive)
    /\ UNCHANGED <<written, fileVars, pass, rival>>

\* There is none any more.
RenameFails(d) ==
    /\ lock = NoFile
    /\ NextPass(d, "rename")
    /\ UNCHANGED <<lockVars, fileVars, rival, moved>>

Inspect(d) ==
    /\ Goto(d, "inspect", IF NamesLive(aside[d]) THEN "restore" ELSE "drop")
    /\ UNCHANGED <<lockVars, fileVars, pass, rival, moved>>

\* A live daemon's lock is put back, over whatever is there.
Restore(d) ==
    /\ NextPass(d, "restore")
    /\ lock' = aside[d]
    /\ aside' = [aside EXCEPT ![d] = NoFile]
    /\ UNCHANGED <<written, fileVars, rival, moved>>

Drop(d) ==
    /\ NextPass(d, "drop")
    /\ aside' = [aside EXCEPT ![d] = NoFile]
    /\ UNCHANGED <<lock, written, fileVars, rival, moved>>

-----------------------------------------------------------------------------
(* Serve, once it has the lock *)

ClearSocket(d) ==
    /\ Goto(d, "clear", "bind")
    /\ socket' = NoFile
    /\ UNCHANGED <<lockVars, status, pass, rival, moved>>

\* The address is in use when another socket file is there.
BindSocket(d) ==
    /\ IF socket = NoFile THEN Goto(d, "bind", "status") /\ socket' = d
                          ELSE Goto(d, "bind", "unbind") /\ UNCHANGED socket
    /\ UNCHANGED <<lockVars, status, pass, rival, moved>>

WriteStatus(d) ==
    /\ Goto(d, "status", "serve")
    /\ status' = d
    /\ UNCHANGED <<lockVars, socket, pass, rival, moved>>

\* A shutdown, at work or as early as the bind, or an error closes the listener,
\* which unlinks the socket's path.
Stop(d) ==
    /\ Goto(d, "status", "unbind") \/ Goto(d, "serve", "unbind")
    /\ socket' = NoFile
    /\ UNCHANGED <<lockVars, status, pass, rival, moved>>

\* Mutant of RemoveSocket: the lock is released before the files are removed.
ReleaseFirst(d) ==
    /\ Goto(d, "unbind", "unstatus")
    /\ lock' = NoFile
    /\ UNCHANGED <<aside, written, fileVars, pass, rival, moved>>

\* cleanup: the socket, the status file, then the lock, whosever they are.
RemoveSocket(d) ==
    /\ Goto(d, "unbind", "unstatus")
    /\ socket' = NoFile
    /\ UNCHANGED <<lockVars, status, pass, rival, moved>>

RemoveStatus(d) ==
    /\ Goto(d, "unstatus", "release")
    /\ status' = NoFile
    /\ UNCHANGED <<lockVars, socket, pass, rival, moved>>

Release(d) ==
    /\ Goto(d, "release", "gone")
    /\ lock' = NoFile
    /\ UNCHANGED <<aside, written, fileVars, pass, rival, moved>>

\* A daemon is killed: its files stay.
Crash(d) ==
    /\ d \in Alive
    /\ pc' = [pc EXCEPT ![d] = "gone"]
    /\ UNCHANGED <<lockVars, fileVars, pass, rival, moved>>

-----------------------------------------------------------------------------

AcquireStep(d) ==
    \/ Create(d) \/ WritePID(d) \/ WriteFails(d) \/ ReadPID(d) \/ Rename(d) \/ RenameFails(d)
    \/ Inspect(d) \/ Restore(d) \/ Drop(d)

ServingStep(d) ==
    \/ ClearSocket(d) \/ BindSocket(d) \/ WriteStatus(d) \/ Stop(d)
    \/ RemoveSocket(d) \/ RemoveStatus(d) \/ Release(d)

InstanceNext == \E d \in Daemons : Start(d) \/ AcquireStep(d) \/ ServingStep(d) \/ Crash(d)

InstanceSpec == InstanceInit /\ [][InstanceNext]_instanceVars

-----------------------------------------------------------------------------
(* Properties *)

\* Types; and a lock file has one name, as rename moves it.
InstanceTypeOK ==
    /\ lock \in Files \union {NoFile}
    /\ aside \in [Daemons -> Files \union {NoFile}]
    /\ written \in SUBSET Daemons
    /\ socket \in Files \union {NoFile} /\ status \in Files \union {NoFile}
    /\ pc \in [Daemons -> Acquiring \union Live \union Departed \union {"idle"}]
    /\ pass \in [Daemons -> 1..Passes]
    /\ rival \in [Daemons -> BOOLEAN] /\ moved \in BOOLEAN
    /\ \A d \in Daemons : aside[d] # NoFile =>
           aside[d] # lock /\ \A e \in Daemons \ {d} : aside[e] # aside[d]

\* The comments of acquireLock (lock.go:14-17, 47-49, 58-63): of all daemons that
\* start, one holds "the single-instance lock".
SingleInstance == \A d, e \in Daemons : pc[d] \in Holding /\ pc[e] \in Holding => d = e

\* What the code does guarantee, for any number of daemons: there is one instance,
\* until a racer renames the lock file of a live daemon (a lock it saw as stale has
\* been replaced, or has no PID in it yet).
SingleUnlessMoved == ~moved => SingleInstance

\* Until then, whoever serves is who the lock, the socket and the status file lead
\* to, whatever another daemon does as it starts, shuts down or fails.
ServerOwnsFiles ==
    ~moved => \A d \in Daemons : pc[d] = "serve" => lock = d /\ socket = d /\ status = d

\* A start is refused because of another daemon that lives: the lock of one that
\* died, at whatever point, does not stand in its way (lock.go:14-17).
RefusalJustified == \A d \in Daemons : pc[d] = "refused" => rival[d]

=============================================================================
