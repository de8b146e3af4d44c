----------------------------- MODULE DaemonServer -----------------------------
(***************************************************************************)
(* The control server of internal/daemon: Serve and its connections,       *)
(* Shutdown on a signal or a command (server.go), the session registry     *)
(* (session.go), and the foreground daemon that exits when Serve returns   *)
(* (cli/daemon.go).  Pool.Run is reduced to waiting, launching and a live  *)
(* worker (DaemonPool has the rest), a session to its outcome              *)
(* (DaemonSession has its stream), the PID lock to nothing                 *)
(* (DaemonInstance has it).                                                *)
(***************************************************************************)
EXTENDS Integers, FiniteSets, Sequences

CONSTANTS Conns,        \* connections to the control socket at one time
          Ids,          \* session ids that clients use
          MaxSessions,  \* the registry's cap
          MaxStarts     \* bound: sessions ever started

ASSUME ServerAssumption == MaxSessions \in Nat \ {0} /\ MaxStarts \in Nat

Sessions == 1..MaxStarts
NoSession == 0

VARIABLES serve,      \* where Serve is; "returned" and "failed" end the process
          listener, done, cancelled,
          shutdown,   \* where the one run of Shutdown is
          conn,       \* what the handler of each connection is doing
          conns,      \* those registered by trackConn
          closed,     \* those the server has closed
          watched,    \* the session whose lines each connection gets
          named,      \* the session whose error will be its final frame
          told,       \* its final frame
          state,      \* of each session and its run
          idOf, registry, order,
          workers,    \* the sessions with a live worker process
          late,       \* history: runs that were launching when Drain ended
          commanded   \* history: a client has commanded a shutdown

connVars == <<conn, conns, closed, watched, named, told>>
sessionVars == <<state, idOf, registry, order>>
stopVars == <<serve, listener, done, cancelled, shutdown, late, commanded>>
serverVars == <<serve, listener, done, cancelled, shutdown, conn, conns, closed, watched,
                named, told, state, idOf, registry, order, workers, late, commanded>>

ServerInit ==
    /\ serve = "start" /\ listener = "none" /\ done = FALSE /\ cancelled = FALSE
    /\ shutdown = "idle" /\ late = {} /\ commanded = FALSE
    /\ conn = [c \in Conns |-> "new"] /\ conns = {} /\ closed = {}
    /\ watched = [c \in Conns |-> NoSession] /\ named = [c \in Conns |-> NoSession]
    /\ told = [c \in Conns |-> "nothing"]
    /\ state = [s \in Sessions |-> "none"] /\ workers = {}
    /\ idOf \in [Sessions -> Ids]    \* what the s-th session to start will be called
    /\ registry = {} /\ order = <<>>

Up == serve \notin {"returned", "failed"}     \* the daemon process lives
Finished(s) == state[s] \in {"done", "failed"}

-----------------------------------------------------------------------------
(* Serve *)

Bind ==
    /\ serve = "start"
    /\ serve' = "bound"
    /\ listener' = "open"
    /\ UNCHANGED <<done, cancelled, shutdown, late, commanded, workers>>
    /\ UNCHANGED <<connVars, sessionVars>>

\* A mutant: done is not looked at again.
CheckNothing ==
    /\ serve = "bound"
    /\ serve' = "accept"
    /\ UNCHANGED <<listener, done, cancelled, shutdown, late, commanded, workers>>
    /\ UNCHANGED <<connVars, sessionVars>>

\* A shutdown during the start has found no listener to close.
CheckDone ==
    /\ serve = "bound"
    /\ serve' = IF done THEN "wait" ELSE "accept"
    /\ listener' = IF done THEN "closed" ELSE listener
    /\ UNCHANGED <<done, cancelled, shutdown, late, commanded, workers>>
    /\ UNCHANGED <<connVars, sessionVars>>

Accept(c) ==
    /\ serve = "accept" /\ listener = "open"
    /\ conn[c] = "new"
    /\ serve' = "track"
    /\ conn' = [conn EXCEPT ![c] = "accepted"]
    /\ UNCHANGED <<listener, done, cancelled, shutdown, late, commanded, workers>>
    /\ UNCHANGED <<conns, closed, watched, named, told, sessionVars>>

\* trackConn, and the handler is started.
TrackConn(c) ==
    /\ serve = "track" /\ conn[c] = "accepted"
    /\ serve' = "accept"
    /\ conn' = [conn EXCEPT ![c] = "handshake"]
    /\ conns' = IF done THEN conns ELSE conns \union {c}
    /\ closed' = IF done THEN closed \union {c} ELSE closed
    /\ UNCHANGED <<listener, done, cancelled, shutdown, late, commanded, workers>>
    /\ UNCHANGED <<watched, named, told, sessionVars>>

\* Accept fails: Shutdown has closed the listener.
AcceptEnds ==
    /\ serve = "accept" /\ listener = "closed"
    /\ serve' = "wait"
    /\ UNCHANGED <<listener, done, cancelled, shutdown, late, commanded, workers>>
    /\ UNCHANGED <<connVars, sessionVars>>

\* It fails for another reason, and Serve gives up at once.
AcceptFails ==
    /\ serve = "accept" /\ ~done
    /\ serve' = "failed"
    /\ UNCHANGED <<listener, done, cancelled, shutdown, late, commanded, workers>>
    /\ UNCHANGED <<connVars, sessionVars>>

\* The handlers are over; Serve returns, and with it the process.
ServeReturns ==
    /\ serve = "wait"
    /\ \A c \in Conns : conn[c] \in {"new", "over"}
    /\ serve' = "returned"
    /\ UNCHANGED <<listener, done, cancelled, shutdown, late, commanded, workers>>
    /\ UNCHANGED <<connVars, sessionVars>>

-----------------------------------------------------------------------------
(* Shutdown *)

\* The first caller closes done; the others wait for it in shutdownOnce.
CloseDone == IF shutdown = "idle" THEN shutdown' = "cancel" /\ done' = TRUE
                                  ELSE UNCHANGED <<shutdown, done>>

Signal ==
    /\ Up /\ shutdown = "idle"
    /\ CloseDone
    /\ UNCHANGED <<serve, listener, cancelled, late, commanded, workers>>
    /\ UNCHANGED <<connVars, sessionVars>>

CancelRuns ==
    /\ Up /\ shutdown = "cancel"
    /\ shutdown' = "sweep"
    /\ cancelled' = TRUE
    /\ UNCHANGED <<serve, listener, done, late, commanded, workers>>
    /\ UNCHANGED <<connVars, sessionVars>>

\* The listener and every registered connection are closed.
Sweep ==
    /\ Up /\ shutdown = "sweep"
    /\ shutdown' = "drain"
    /\ listener' = IF listener = "open" THEN "closed" ELSE listener
    /\ closed' = closed \union conns
    /\ UNCHANGED <<serve, done, cancelled, late, commanded, workers>>
    /\ UNCHANGED <<conn, conns, watched, named, told, sessionVars>>

\* Pool.Drain: the workers end, or are killed when the time is up.
Drain ==
    /\ Up /\ shutdown = "drain"
    /\ shutdown' = "over"
    /\ workers' = {}
    /\ late' = {s \in Sessions : state[s] = "launching"}
    /\ UNCHANGED <<serve, listener, done, cancelled, commanded>>
    /\ UNCHANGED <<connVars, sessionVars>>

-----------------------------------------------------------------------------
(* The registry, and the run of a session *)

First(n, ids) == {ids[i] : i \in 1..n}
Least(a, b) == IF a < b THEN a ELSE b

\* The entries that are among some sessions.
Among(some, entries) ==
    LET among[n \in 0..Len(entries)] ==
            IF n = 0 THEN <<>>
            ELSE IF entries[n] \in some THEN Append(among[n - 1], entries[n]) ELSE among[n - 1]
    IN  among[Len(entries)]

\* A mutant: the oldest go, finished or not.
EvictedBlindly(entries) ==
    LET over == Len(entries) - MaxSessions
    IN  IF over > 0 THEN First(over, entries) ELSE {}

\* pruneLocked: over the cap, the oldest finished sessions go.
Evicted(entries) ==
    LET over == Len(entries) - MaxSessions
        old == Among({s \in Sessions : Finished(s)}, entries)
    IN  IF over > 0 THEN First(Least(over, Len(old)), old) ELSE {}

Fresh == {s \in Sessions : state[s] = "none" /\ \A r \in Sessions : r < s => state[r] # "none"}
Registered(id) == {s \in registry : idOf[s] = id}

\* SessionManager.Start of a session that is not registered.
StartSession(s) ==
    LET entries == Append(order, s)
        gone == Evicted(entries)
    IN  /\ Registered(idOf[s]) = {}
        /\ state' = [state EXCEPT ![s] = "waiting"]
        /\ order' = Among(Sessions \ gone, entries)
        /\ registry' = (registry \union {s}) \ gone
        /\ UNCHANGED idOf

\* Pool.Run has a slot and finds the pool not draining.
Checked(s) ==
    /\ Up /\ state[s] = "waiting"
    /\ shutdown # "over"
    /\ state' = [state EXCEPT ![s] = "launching"]
    /\ UNCHANGED <<idOf, registry, order, workers, connVars, stopVars>>

Launch(s) ==
    /\ Up /\ state[s] = "launching"
    /\ state' = [state EXCEPT ![s] = "working"]
    /\ workers' = workers \union {s}
    /\ UNCHANGED <<idOf, registry, order, connVars, stopVars>>

\* The worker exits or is killed because of the cancellation.
WorkerEnds(s) ==
    /\ s \in workers
    /\ workers' = workers \ {s}
    /\ UNCHANGED <<sessionVars, connVars, stopVars>>

\* Run returns, and the session is finished.
RunEnds(s) ==
    /\ Up
    /\ \/ state[s] = "working" /\ s \notin workers
       \/ state[s] = "launching"                                  \* the launch fails
       \/ state[s] = "waiting" /\ (cancelled \/ shutdown \in {"drain", "over"})
    /\ \E outcome \in {"failed"} \union (IF state[s] = "working" THEN {"done"} ELSE {}) :
           state' = [state EXCEPT ![s] = outcome]
    /\ UNCHANGED <<idOf, registry, order, workers, connVars, stopVars>>

-----------------------------------------------------------------------------
(* handleConn *)

Over(c, frame) ==
    /\ conn' = [conn EXCEPT ![c] = "over"]
    /\ conns' = conns \ {c}
    /\ told' = [told EXCEPT ![c] = IF c \in closed THEN "nothing" ELSE frame]

\* The handshake fails: the client leaves or errs, the deadline passes, the server has
\* closed the connection.  Also a status query.
HandshakeEnds(c) ==
    /\ Up /\ conn[c] = "handshake"
    /\ Over(c, "nothing")
    /\ UNCHANGED <<closed, watched, named, sessionVars, stopVars, workers>>

Command(c) == Up /\ conn[c] = "handshake" /\ c \notin closed

\* handleRun: the client is subscribed to the session it starts.
RunCommand(c) ==
    /\ Command(c)
    /\ \E s \in Fresh :
           /\ StartSession(s)
           /\ watched' = [watched EXCEPT ![c] = s]
           /\ named' = [named EXCEPT ![c] = s]
    /\ conn' = [conn EXCEPT ![c] = "stream"]
    /\ UNCHANGED <<conns, closed, told, stopVars, workers>>

\* handleAttach: the session is looked up once for its stream ...
Attach(c) ==
    /\ Command(c)
    /\ \E s \in registry :
           watched' = [watched EXCEPT ![c] = s]
    /\ conn' = [conn EXCEPT ![c] = "attached"]
    /\ UNCHANGED <<conns, closed, named, told, sessionVars, stopVars, workers>>

\* ... and once more for its error.
Get(c) ==
    /\ Up /\ conn[c] = "attached"
    /\ named' = [named EXCEPT ![c] =
           IF Registered(idOf[watched[c]]) = {} THEN NoSession
           ELSE CHOOSE s \in Registered(idOf[watched[c]]) : TRUE]
    /\ conn' = [conn EXCEPT ![c] = "stream"]
    /\ UNCHANGED <<conns, closed, watched, told, sessionVars, stopVars, workers>>

\* The id is taken, or unknown.
CommandRefused(c) ==
    /\ Command(c)
    /\ \/ \E s \in Fresh : Registered(idOf[s]) # {}
       \/ \E id \in Ids : Registered(id) = {}
    /\ Over(c, "refused")
    /\ UNCHANGED <<closed, watched, named, sessionVars, stopVars, workers>>

\* finishStream, when the session's stream ends.
FinishStream(c) ==
    /\ Up /\ conn[c] = "stream" /\ Finished(watched[c])
    /\ Over(c, IF named[c] # NoSession /\ state[named[c]] = "failed" THEN "error" ELSE "end")
    /\ UNCHANGED <<closed, watched, named, sessionVars, stopVars, workers>>

\* The daemon is shutting down; or a write fails, as the client has left or the
\* connection is closed.
StreamBroken(c) ==
    /\ Up /\ conn[c] = "stream"
    /\ Over(c, "nothing") \/ (done /\ Over(c, "shutting down"))
    /\ UNCHANGED <<closed, watched, named, sessionVars, stopVars, workers>>

ShutdownCommand(c) ==
    /\ Command(c)
    /\ CloseDone
    /\ commanded' = TRUE
    /\ conn' = [conn EXCEPT ![c] = "shutdown"]
    /\ UNCHANGED <<conns, closed, watched, named, told, sessionVars, workers>>
    /\ UNCHANGED <<serve, listener, cancelled, late>>

\* A mutant: the handler does not wait for Shutdown.
ShutdownUnawaited(c) ==
    /\ Up /\ conn[c] = "shutdown"
    /\ Over(c, "nothing")
    /\ UNCHANGED <<closed, watched, named, sessionVars, stopVars, workers>>

ShutdownDone(c) ==
    /\ Up /\ conn[c] = "shutdown" /\ shutdown = "over"
    /\ Over(c, "nothing")
    /\ UNCHANGED <<closed, watched, named, sessionVars, stopVars, workers>>

\* Another client, in the place of one that is gone.
NextClient(c) ==
    /\ Up /\ conn[c] = "over"
    /\ conn' = [conn EXCEPT ![c] = "new"]
    /\ closed' = closed \ {c}
    /\ watched' = [watched EXCEPT ![c] = NoSession]
    /\ named' = [named EXCEPT ![c] = NoSession]
    /\ told' = [told EXCEPT ![c] = "nothing"]
    /\ UNCHANGED <<conns, sessionVars, stopVars, workers>>

-----------------------------------------------------------------------------

ServeStep == Bind \/ CheckDone \/ AcceptEnds \/ ServeReturns \/ \E c \in Conns : TrackConn(c)
ShutdownStep == CancelRuns \/ Sweep \/ Drain
ConnStep(c) ==
    \/ Accept(c) \/ HandshakeEnds(c) \/ RunCommand(c) \/ Attach(c) \/ Get(c)
    \/ CommandRefused(c) \/ FinishStream(c) \/ StreamBroken(c)
    \/ ShutdownCommand(c) \/ ShutdownDone(c) \/ NextClient(c)
RunStep(s) == Checked(s) \/ Launch(s) \/ WorkerEnds(s) \/ RunEnds(s)

ServerNext ==
    \/ Signal \/ AcceptFails \/ ServeStep \/ ShutdownStep
    \/ \E c \in Conns : ConnStep(c)
    \/ \E s \in Sessions : RunStep(s)

ServerSpec == ServerInit /\ [][ServerNext]_serverVars

\* Go runs what can run; the handshake has a deadline, and a closed connection fails
\* the reads and writes of its handler.  A client of an open one may stay silent, or
\* read nothing, for good.
FairServerSpec ==
    /\ ServerSpec
    /\ WF_serverVars(ServeStep) /\ WF_serverVars(ShutdownStep)
    /\ \A c \in Conns :
           /\ WF_serverVars(HandshakeEnds(c)) /\ WF_serverVars(Get(c))
           /\ WF_serverVars(c \in closed /\ StreamBroken(c)) /\ WF_serverVars(ShutdownDone(c))

-----------------------------------------------------------------------------
(* Properties *)

\* Types; and a handler that is still at work is tracked, or its connection closed.
ServerTypeOK ==
    /\ serve \in {"start", "bound", "accept", "track", "wait", "returned", "failed"}
    /\ listener \in {"none", "open", "closed"}
    /\ done \in BOOLEAN /\ cancelled \in BOOLEAN /\ commanded \in BOOLEAN
    /\ shutdown \in {"idle", "cancel", "sweep", "drain", "over"}
    /\ conn \in [Conns -> {"new", "accepted", "handshake", "attached", "stream", "shutdown",
                           "over"}]
    /\ \A c \in Conns : conn[c] \in {"handshake", "attached", "stream", "shutdown"} =>
           c \in conns \union closed
    /\ watched \in [Conns -> 0..MaxStarts] /\ named \in [Conns -> 0..MaxStarts]
    /\ told \in [Conns -> {"nothing", "refused", "end", "error", "shutting down"}]
    /\ state \in [Sessions -> {"none", "waiting", "launching", "working", "done", "failed"}]
    /\ workers \subseteq Sessions /\ late \subseteq Sessions

\* The registry, its order of creation and the ids agree (session.go:222-225, 285-306): an
\* id leads to one session, every unfinished session can be attached to, and finished
\* ones are kept only up to the cap.
RegistryExact ==
    /\ ServerTypeOK
    /\ registry = {order[i] : i \in 1..Len(order)} /\ Cardinality(registry) = Len(order)
    /\ \A r, s \in registry : idOf[r] = idOf[s] => r = s
    /\ \A s \in Sessions : state[s] # "none" /\ ~Finished(s) => s \in registry

\* Serve returns after a shutdown, whatever its clients do, and also when the shutdown
\* was requested while it started (server.go:104-106, 175-183).
ShutdownReturns == done ~> ~Up

\* A client that commands a shutdown ends the workers before the daemon is gone, but
\* for those that were being launched when Drain was over (server.go:168-187).
CommandDrains == commanded /\ serve = "returned" => workers \subseteq late

\* The comment of streamToClient (server.go:317-318): the stream finishes "with CtrlEnd
\* (or CtrlError if the session failed)".
FinalFrameIsItsOwn ==
    \A c \in Conns : told[c] \in {"end", "error"} =>
        told[c] = IF state[watched[c]] = "failed" THEN "error" ELSE "end"

\* The comment of Shutdown (server.go:168-169): it "cancels in-flight runs, drains the
\* pool".  With a signal the process does not wait for that.
SignalDrains == serve = "returned" => workers \subseteq late
=============================================================================
