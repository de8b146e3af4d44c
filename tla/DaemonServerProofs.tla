-------------------------- MODULE DaemonServerProofs --------------------------
(***************************************************************************)
(* Proofs about the process that serves: its control server (DaemonServer) *)
(* and the lock that keeps it alone (DaemonInstance).                      *)
(***************************************************************************)
EXTENDS DaemonServer, DaemonInstance, FiniteSetTheorems, TLAPS

(***************************************************************************)
(* Proofs about DaemonServer, for any clients, ids and sessions.  A client *)
(* that commands a shutdown keeps its handler, and with it Serve, until    *)
(* Drain is over; after that only runs that were launching by then can     *)
(* have a worker.                                                          *)
(***************************************************************************)

USE ServerAssumption

\* What the provers need of the types.
Shape ==
    /\ conn = [c \in Conns |-> conn[c]]
    /\ state = [s \in Sessions |-> state[s]]
    /\ shutdown \in {"idle", "cancel", "sweep", "drain", "over"}
    /\ done = (shutdown # "idle")
    /\ workers \subseteq Sessions

\* A shutdown that was commanded is over, or its handler waits for it.
CommandIsHeld == commanded => shutdown = "over" \/ \E c \in Conns : conn[c] = "shutdown"

\* Serve has returned after the handlers, also that of the command.
ReturnIsLast == commanded /\ serve = "returned" => shutdown = "over"

\* Once Drain is over, what launches or works was launching at its end.
OnlyLate ==
    shutdown = "over" => workers \subseteq late /\ {s \in Sessions : state[s] = "launching"} \subseteq late

ServerInv == Shape /\ CommandIsHeld /\ ReturnIsLast /\ OnlyLate

LEMMA ServerInitEstablishes == ServerInit => ServerInv
BY DEF ServerInit, ServerInv, Shape, CommandIsHeld, ReturnIsLast, OnlyLate

LEMMA ServePreserves ==
  ASSUME ServerInv, ServeStep \/ AcceptFails
  PROVE  ServerInv'
<1>. USE DEF ServerInv, Shape, CommandIsHeld, ReturnIsLast, OnlyLate
<1>1. CASE Bind \/ CheckDone \/ AcceptEnds \/ AcceptFails
  BY <1>1 DEF Bind, CheckDone, AcceptEnds, AcceptFails, connVars, sessionVars
<1>2. CASE ServeReturns
  BY <1>2 DEF ServeReturns, connVars, sessionVars
<1>3. ASSUME NEW c \in Conns, TrackConn(c) PROVE ServerInv'
  BY <1>3 DEF TrackConn, sessionVars
<1>. QED  BY <1>1, <1>2, <1>3 DEF ServeStep

LEMMA ShutdownPreserves ==
  ASSUME ServerInv, Signal \/ ShutdownStep
  PROVE  ServerInv'
<1>. USE DEF ServerInv, Shape, CommandIsHeld, ReturnIsLast, OnlyLate
<1>1. CASE Signal
  BY <1>1 DEF Signal, CloseDone, Up, connVars, sessionVars
<1>2. CASE CancelRuns \/ Sweep
  BY <1>2 DEF CancelRuns, Sweep, Up, connVars, sessionVars
<1>3. CASE Drain
  BY <1>3 DEF Drain, Up, connVars, sessionVars
<1>. QED  BY <1>1, <1>2, <1>3 DEF ShutdownStep

\* Handlers: only a command changes more than the handler and the session it starts.
LEMMA ConnPreserves ==
  ASSUME ServerInv, NEW c \in Conns, ConnStep(c)
  PROVE  ServerInv'
<1>. USE DEF ServerInv, Shape, CommandIsHeld, ReturnIsLast, OnlyLate
<1>1. CASE \/ HandshakeEnds(c) \/ Attach(c) \/ Get(c) \/ CommandRefused(c) \/ FinishStream(c)
           \/ StreamBroken(c) \/ NextClient(c)
  <2>1. /\ conn[c] # "shutdown" /\ \E at : conn' = [conn EXCEPT ![c] = at]
        /\ UNCHANGED <<stopVars, sessionVars, workers>>
    BY <1>1 DEF HandshakeEnds, Attach, Get, CommandRefused, FinishStream, StreamBroken,
                NextClient, Command, Over
  <2>. QED  BY <2>1 DEF stopVars, sessionVars
<1>2. CASE Accept(c)
  BY <1>2 DEF Accept, sessionVars
<1>3. CASE RunCommand(c)
  <2>1. /\ conn[c] = "handshake" /\ conn' = [conn EXCEPT ![c] = "stream"]
        /\ \E s \in Sessions : state' = [state EXCEPT ![s] = "waiting"]
        /\ UNCHANGED <<stopVars, workers>>
    BY <1>3 DEF RunCommand, StartSession, Command, Fresh
  <2>. QED  BY <2>1 DEF stopVars
<1>4. CASE ShutdownCommand(c)
  BY <1>4 DEF ShutdownCommand, Command, CloseDone, Up, sessionVars
<1>5. CASE ShutdownDone(c)
  BY <1>5 DEF ShutdownDone, Over, stopVars, sessionVars
<1>. QED  BY <1>1, <1>2, <1>3, <1>4, <1>5 DEF ConnStep

LEMMA RunPreserves ==
  ASSUME ServerInv, NEW s \in Sessions, RunStep(s)
  PROVE  ServerInv'
<1>. USE DEF ServerInv, Shape, CommandIsHeld, ReturnIsLast, OnlyLate
<1>1. CASE Checked(s)
  BY <1>1 DEF Checked, stopVars, connVars
<1>2. CASE Launch(s)
  BY <1>2 DEF Launch, stopVars, connVars
<1>3. CASE WorkerEnds(s)
  BY <1>3 DEF WorkerEnds, stopVars, connVars, sessionVars
<1>4. CASE RunEnds(s)
  <2>1. /\ \E outcome \in {"failed", "done"} : state' = [state EXCEPT ![s] = outcome]
        /\ UNCHANGED <<workers, connVars, stopVars>>
    BY <1>4 DEF RunEnds
  <2>. QED  BY <2>1 DEF stopVars, connVars
<1>. QED  BY <1>1, <1>2, <1>3, <1>4 DEF RunStep

\* The inductive invariant.
THEOREM ServerInvariant == ServerSpec => []ServerInv
<1>1. ASSUME ServerInv, [ServerNext]_serverVars PROVE ServerInv'
  <2>1. CASE UNCHANGED serverVars
    BY <1>1, <2>1 DEF serverVars, ServerInv, Shape, CommandIsHeld, ReturnIsLast, OnlyLate
  <2>. QED  BY <1>1, <2>1, ServePreserves, ShutdownPreserves, ConnPreserves, RunPreserves
            DEF ServerNext
<1>. QED  BY <1>1, ServerInitEstablishes, PTL DEF ServerSpec

\* For any clients and sessions: when Serve returns after a commanded shutdown, no worker
\* lives but those that were being launched when Drain was over (server.go:168-187,
\* 273-275).
THEOREM CommandedShutdownDrains == ServerSpec => []CommandDrains
<1>1. ServerInv => CommandDrains
  BY DEF ServerInv, ReturnIsLast, OnlyLate, CommandDrains
<1>. QED  BY <1>1, ServerInvariant, PTL

-----------------------------------------------------------------------------
(* The loops over the order of the registry *)

\* A set of naturals that is not empty has a least one.
LEMMA LeastNatural ==
    ASSUME NEW T \in SUBSET Nat, T # {}
    PROVE  \E n \in T : \A m \in T : n <= m
<1>1. PICK n \in T : \A m \in T : ~(<<m, n>> \in OpToRel(<, Nat))
  BY NatLessThanWellFounded, WFMin
<1>2. ASSUME NEW m \in T PROVE <<m, n>> \in OpToRel(<, Nat) <=> m < n
  BY DEF OpToRel
<1>3. ASSUME NEW m \in T PROVE n <= m
  <2>1. m \in Nat /\ n \in Nat /\ ~(m < n)
    BY <1>1, <1>2
  <2>. QED  BY <2>1
<1>. QED  BY <1>3

Listed(entries) == {entries[i] : i \in 1..Len(entries)}
Once(entries) == \A i, j \in 1..Len(entries) : entries[i] = entries[j] => i = j

LEMMA AppendLists ==
    ASSUME NEW S, NEW entries \in Seq(S), NEW e \in S
    PROVE  /\ Append(entries, e) \in Seq(S)
           /\ Listed(Append(entries, e)) = Listed(entries) \union {e}
           /\ Once(entries) /\ e \notin Listed(entries) => Once(Append(entries, e))
<1>. DEFINE more == Append(entries, e)
            N == Len(entries)
<1>1. /\ more \in Seq(S) /\ N \in Nat /\ Len(more) = N + 1 /\ more[N + 1] = e
      /\ \A i \in 1..N : more[i] = entries[i]
  OBVIOUS
<1>. HIDE DEF more
<1>2. 1..(N + 1) = (1..N) \union {N + 1}
  BY <1>1
<1>3. Listed(more) = Listed(entries) \union {e}
  BY <1>1, <1>2 DEF Listed
<1>4. ASSUME Once(entries), e \notin Listed(entries) PROVE Once(more)
  <2>. SUFFICES ASSUME NEW i \in 1..(N + 1), NEW j \in 1..(N + 1), more[i] = more[j] PROVE i = j
    BY <1>1 DEF Once
  <2>1. \A k \in 1..N : entries[k] # e
    BY <1>4 DEF Listed
  <2>. QED  BY <1>1, <1>2, <1>4, <2>1 DEF Once
<1>. QED  BY <1>1, <1>3, <1>4 DEF more

LEMMA AmongLists ==
    ASSUME NEW S, NEW entries \in Seq(S), NEW some, Once(entries)
    PROVE  /\ Among(some, entries) \in Seq(S)
           /\ Listed(Among(some, entries)) = Listed(entries) \intersect some
           /\ Once(Among(some, entries))
<1>. DEFINE N == Len(entries)
            Step(f) == [n \in 0..N |->
                           IF n = 0 THEN <<>>
                           ELSE IF entries[n] \in some THEN Append(f[n - 1], entries[n]) ELSE f[n - 1]]
            f == CHOOSE g : g = Step(g)
            first(n) == {entries[i] : i \in 1..n}
            Fits(n, rest) == /\ rest \in Seq(S) /\ Once(rest)
                             /\ Listed(rest) = first(n) \intersect some
<1>0. N \in Nat
  OBVIOUS
<1>1. Among(some, entries) = f[N]
  BY DEF Among
<1>2. \E g : g = Step(g)
  <2>. DEFINE Good(n, g) == g = [k \in 0..n |->
                                    IF k = 0 THEN <<>>
                                    ELSE IF entries[k] \in some THEN Append(g[k - 1], entries[k]) ELSE g[k - 1]]
              T == {n \in 0..N : ~\E g : Good(n, g)}
  <2>1. CASE T = {}
    <3>1. N \in 0..N
      BY <1>0
    <3>2. N \notin T
      <4>. HIDE DEF T
      <4>. QED  BY <2>1
    <3>. QED  BY <3>1, <3>2
  <2>2. CASE T # {}
    <3>1. T \subseteq Nat
      BY <1>0
    <3>2. PICK m \in T : \A i \in T : m <= i
      BY <2>2, <3>1, LeastNatural
    <3>3. CASE m = 0
      <4>1. Good(0, [k \in 0..0 |-> <<>>])
        OBVIOUS
      <4>. QED  BY <3>2, <3>3, <4>1
    <3>4. CASE m # 0
      <4>1. m \in 0..N /\ m - 1 \in 0..N /\ ~(m <= m - 1) /\ m \in Nat
        BY <1>0, <3>2, <3>4
      <4>2. m - 1 \notin T
        BY <3>2, <4>1
      <4>3. PICK g : Good(m - 1, g)
        BY <4>1, <4>2
      <4>. DEFINE h == [k \in 0..m |->
                           IF k # m THEN g[k]
                           ELSE IF entries[m] \in some THEN Append(g[m - 1], entries[m]) ELSE g[m - 1]]
      <4>4. ASSUME NEW k \in 0..m
            PROVE  h[k] = IF k = 0 THEN <<>>
                          ELSE IF entries[k] \in some THEN Append(h[k - 1], entries[k]) ELSE h[k - 1]
        <5>1. CASE k = m
          <6>1. k - 1 \in 0..m /\ k - 1 # m /\ k # 0
            BY <3>4, <4>1, <5>1
          <6>2. h[k - 1] = g[k - 1]
            BY <6>1
          <6>. QED  BY <5>1, <6>1, <6>2
        <5>2. CASE k # m
          <6>1. k \in 0..(m - 1) /\ h[k] = g[k]
            BY <4>1, <5>2
          <6>2. CASE k = 0
            BY <4>3, <6>1, <6>2
          <6>3. CASE k # 0
            <7>1. k - 1 \in 0..m /\ k - 1 # m
              BY <4>1, <6>1, <6>3
            <7>2. h[k - 1] = g[k - 1]
              BY <7>1
            <7>. QED  BY <4>3, <6>1, <6>3, <7>2
          <6>. QED  BY <6>2, <6>3
        <5>. QED  BY <5>1, <5>2
      <4>5. Good(m, h)
        BY <4>4
      <4>. QED  BY <3>2, <4>5
    <3>. QED  BY <3>3, <3>4
  <2>. QED  BY <2>1, <2>2
<1>3. f = Step(f)
  BY <1>2
<1>. HIDE DEF f
<1>4. f[0] = <<>> /\ Fits(0, f[0])
  <2>1. f[0] = <<>>
    BY <1>0, <1>3
  <2>2. <<>> \in Seq(S) /\ Listed(<<>>) = {} /\ Once(<<>>) /\ first(0) = {}
    BY DEF Listed, Once
  <2>. QED  BY <2>1, <2>2
<1>5. ASSUME NEW n \in 1..N, Fits(n - 1, f[n - 1]) PROVE Fits(n, f[n])
  <2>1. n \in 0..N /\ n # 0
    BY <1>0
  <2>2. f[n] = IF entries[n] \in some THEN Append(f[n - 1], entries[n]) ELSE f[n - 1]
    <3>1. f[n] = Step(f)[n]
      BY <1>3
    <3>. HIDE <1>3
    <3>. QED  BY <2>1, <3>1
  <2>3. 1..n = (1..(n - 1)) \union {n}
    BY <1>0
  <2>4. first(n) = first(n - 1) \union {entries[n]}
    BY <2>3
  <2>5. entries[n] \in S /\ entries[n] \notin first(n - 1)
    <3>1. \A i \in 1..(n - 1) : i \in 1..N /\ i # n
      BY <1>0
    <3>. QED  BY <1>0, <3>1 DEF Once
  <2>. HIDE DEF first
  <2>6. CASE entries[n] \in some
    <3>1. f[n] = Append(f[n - 1], entries[n])
      BY <2>2, <2>6
    <3>2. f[n - 1] \in Seq(S) /\ Once(f[n - 1]) /\ entries[n] \notin Listed(f[n - 1])
      BY <1>5, <2>5
    <3>3. /\ f[n] \in Seq(S) /\ Once(f[n])
          /\ Listed(f[n]) = Listed(f[n - 1]) \union {entries[n]}
      BY <2>5, <3>1, <3>2, AppendLists
    <3>. QED  BY <1>5, <2>4, <2>6, <3>3
  <2>7. CASE entries[n] \notin some
    BY <1>5, <2>2, <2>4, <2>7
  <2>. QED  BY <2>6, <2>7
<1>. HIDE DEF Fits
<1>6. Fits(N, f[N])
  <2>. DEFINE T == {n \in 0..N : ~Fits(n, f[n])}
  <2>1. CASE T = {}
    <3>1. N \in 0..N /\ N \notin T
      BY <1>0, <2>1
    <3>. QED  BY <3>1
  <2>2. CASE T # {}
    <3>1. T \subseteq Nat
      BY <1>0
    <3>2. PICK m \in T : \A i \in T : m <= i
      BY <2>2, <3>1, LeastNatural
    <3>3. m \in 1..N /\ m - 1 \in 0..N /\ ~(m <= m - 1)
      BY <1>0, <1>4, <3>2
    <3>4. Fits(m - 1, f[m - 1])
      BY <3>2, <3>3
    <3>. QED  BY <1>5, <3>2, <3>3, <3>4
  <2>. QED  BY <2>1, <2>2
<1>. QED  BY <1>1, <1>6 DEF Fits, Listed

-----------------------------------------------------------------------------
(* The registry *)

States == {"none", "waiting", "launching", "working", "done", "failed"}

\* The registry and its order are those of sessions that have been started, each under its
\* own id, and whoever is not finished is among them.
RegistryInv ==
    /\ order \in Seq(Sessions) /\ Once(order) /\ registry = Listed(order)
    /\ state \in [Sessions -> States] /\ idOf \in [Sessions -> Ids]
    /\ \A s \in registry : state[s] # "none"
    /\ \A r, s \in registry : idOf[r] = idOf[s] => r = s
    /\ \A s \in Sessions : state[s] # "none" /\ ~Finished(s) => s \in registry

LEMMA EvictedAreFinished ==
    ASSUME NEW entries \in Seq(Sessions), Once(entries)
    PROVE  \A s \in Evicted(entries) : s \in Sessions /\ Finished(s)
<1>. DEFINE over == Len(entries) - MaxSessions
            ended == {s \in Sessions : Finished(s)}
            old == Among(ended, entries)
            n == Least(over, Len(old))
<1>1. old \in Seq(Sessions) /\ Listed(old) \subseteq ended
  <2>. HIDE DEF ended
  <2>. QED  BY AmongLists
<1>2. over \in Int /\ Len(old) \in Nat
  BY <1>1, ServerAssumption
<1>3. n \in Int /\ n <= Len(old)
  BY <1>2 DEF Least
<1>4. Evicted(entries) = IF over > 0 THEN First(n, old) ELSE {}
  BY DEF Evicted
<1>. HIDE DEF n, old, over, ended
<1>5. First(n, old) \subseteq Listed(old)
  BY <1>2, <1>3 DEF First, Listed
<1>. QED  BY <1>1, <1>4, <1>5 DEF ended

LEMMA StartKeepsRegistry ==
    ASSUME RegistryInv, NEW s \in Fresh, StartSession(s)
    PROVE  RegistryInv'
<1>. DEFINE entries == Append(order, s)
            gone == Evicted(entries)
<1>1. s \in Sessions /\ state[s] = "none" /\ s \notin registry
  BY DEF Fresh, RegistryInv
<1>2. /\ entries \in Seq(Sessions) /\ Once(entries)
      /\ Listed(entries) = registry \union {s}
  BY <1>1, AppendLists DEF RegistryInv
<1>3. \A r \in gone : r \in Sessions /\ Finished(r)
  BY <1>2, EvictedAreFinished
<1>4. /\ Registered(idOf[s]) = {}
      /\ state' = [state EXCEPT ![s] = "waiting"]
      /\ order' = Among(Sessions \ gone, entries)
      /\ registry' = (registry \union {s}) \ gone
      /\ idOf' = idOf
  BY DEF StartSession
<1>. HIDE DEF gone, entries
<1>5. registry \subseteq Sessions
  BY <1>2 DEF RegistryInv, Listed
<1>6. order' \in Seq(Sessions) /\ Once(order') /\ registry' = Listed(order')
  <2>1. /\ order' \in Seq(Sessions) /\ Once(order')
        /\ Listed(order') = (registry \union {s}) \intersect (Sessions \ gone)
    BY <1>2, <1>4, AmongLists
  <2>. QED  BY <1>1, <1>4, <1>5, <2>1
<1>7. state' \in [Sessions -> States] /\ idOf' \in [Sessions -> Ids]
  BY <1>4 DEF RegistryInv, States
<1>8. /\ state'[s] = "waiting"
      /\ \A r \in Sessions : r # s => state'[r] = state[r]
  BY <1>1, <1>4 DEF RegistryInv
<1>9. \A r \in registry' : state'[r] # "none"
  BY <1>4, <1>5, <1>8 DEF RegistryInv
<1>10. \A q, r \in registry' : idOf'[q] = idOf'[r] => q = r
  <2>1. \A r \in registry : idOf[r] # idOf[s]
    BY <1>4 DEF Registered
  <2>. QED  BY <1>4, <2>1 DEF RegistryInv
<1>11. ASSUME NEW r \in Sessions, state'[r] # "none", ~(Finished(r))' PROVE r \in registry'
  <2>1. CASE r = s
    <3>1. s \notin gone
      BY <1>1, <1>3 DEF Finished
    <3>. QED  BY <1>4, <2>1, <3>1
  <2>2. CASE r # s
    <3>1. state[r] # "none" /\ ~Finished(r)
      BY <1>8, <1>11, <2>2 DEF Finished
    <3>2. r \in registry /\ r \notin gone
      BY <1>3, <3>1 DEF RegistryInv
    <3>. QED  BY <1>4, <3>2
  <2>. QED  BY <2>1, <2>2
<1>. QED  BY <1>6, <1>7, <1>9, <1>10, <1>11 DEF RegistryInv

LEMMA RunKeepsRegistry ==
    ASSUME RegistryInv, NEW s \in Sessions, NEW at \in States \ {"none"},
           state[s] \notin {"none", "done", "failed"}, state' = [state EXCEPT ![s] = at],
           UNCHANGED <<idOf, registry, order>>
    PROVE  RegistryInv'
<1>1. s \in registry
  BY DEF RegistryInv, Finished
<1>2. /\ state'[s] = at /\ state' \in [Sessions -> States]
      /\ \A r \in Sessions : r # s => state'[r] = state[r]
  BY DEF RegistryInv
<1>3. registry \subseteq Sessions
  BY DEF RegistryInv, Listed
<1>4. \A r \in registry : state'[r] # "none"
  BY <1>2, <1>3 DEF RegistryInv
<1>5. ASSUME NEW r \in Sessions, state'[r] # "none", ~(Finished(r))' PROVE r \in registry
  <2>1. CASE r = s
    BY <1>1, <2>1
  <2>2. CASE r # s
    BY <1>2, <1>5, <2>2 DEF RegistryInv, Finished
  <2>. QED  BY <2>1, <2>2
<1>. QED  BY <1>2, <1>4, <1>5 DEF RegistryInv

LEMMA RegistryKept == RegistryInv /\ [ServerNext]_serverVars => RegistryInv'
<1>. SUFFICES ASSUME RegistryInv, [ServerNext]_serverVars PROVE RegistryInv'
  OBVIOUS
<1>1. CASE UNCHANGED sessionVars
  <2>1. UNCHANGED <<state, idOf, registry, order>>
    BY <1>1 DEF sessionVars
  <2>. QED  BY <2>1 DEF RegistryInv, Finished
<1>2. ASSUME NEW c \in Conns, RunCommand(c) PROVE RegistryInv'
  BY <1>2, StartKeepsRegistry DEF RunCommand
<1>3. ASSUME NEW s \in Sessions, Checked(s) \/ Launch(s) \/ RunEnds(s) PROVE RegistryInv'
  <2>1. /\ state[s] \notin {"none", "done", "failed"} /\ UNCHANGED <<idOf, registry, order>>
        /\ \E at \in States \ {"none"} : state' = [state EXCEPT ![s] = at]
    BY <1>3 DEF Checked, Launch, RunEnds, States
  <2>. QED  BY <2>1, RunKeepsRegistry
<1>. QED
  BY <1>1, <1>2, <1>3
  DEF ServerNext, serverVars, sessionVars, Signal, AcceptFails, ServeStep, ShutdownStep, ConnStep, RunStep,
      Bind, CheckDone, AcceptEnds, ServeReturns, TrackConn, CancelRuns, Sweep, Drain, Accept,
      HandshakeEnds, Attach, Get, CommandRefused, FinishStream, StreamBroken, ShutdownCommand,
      ShutdownDone, NextClient, WorkerEnds

-----------------------------------------------------------------------------

ControlTyped ==
    /\ serve \in {"start", "bound", "accept", "track", "wait", "returned", "failed"}
    /\ listener \in {"none", "open", "closed"}
    /\ done \in BOOLEAN /\ cancelled \in BOOLEAN /\ commanded \in BOOLEAN
    /\ shutdown \in {"idle", "cancel", "sweep", "drain", "over"}

HandlerPoints == {"new", "accepted", "handshake", "attached", "stream", "shutdown", "over"}
Frames == {"nothing", "refused", "end", "error", "shutting down"}
AtWork == {"handshake", "attached", "stream", "shutdown"}

HandlersTyped ==
    /\ conn \in [Conns -> HandlerPoints]
    /\ watched \in [Conns -> 0..MaxStarts] /\ named \in [Conns -> 0..MaxStarts]
    /\ told \in [Conns -> Frames]

\* Shutdown finds each handler that is at work, or has closed its connection.
Tracked == \A c \in Conns : conn[c] \in AtWork => c \in conns \union closed

RunsTyped == workers \subseteq Sessions /\ late \subseteq Sessions

LEMMA ControlStaysTyped == ControlTyped /\ [ServerNext]_serverVars => ControlTyped'
<1>. SUFFICES ASSUME ControlTyped, [ServerNext]_serverVars PROVE ControlTyped'
  OBVIOUS
<1>. USE DEF ControlTyped
<1>1. CASE UNCHANGED <<serve, listener, done, cancelled, commanded, shutdown>>
  BY <1>1
<1>2. CASE Bind \/ CheckDone \/ AcceptEnds \/ AcceptFails \/ ServeReturns
  BY <1>2 DEF Bind, CheckDone, AcceptEnds, AcceptFails, ServeReturns
<1>3. CASE Signal \/ CancelRuns \/ Sweep \/ Drain
  BY <1>3 DEF Signal, CancelRuns, Sweep, Drain, CloseDone
<1>4. ASSUME NEW c \in Conns, TrackConn(c) \/ Accept(c) PROVE ControlTyped'
  BY <1>4 DEF TrackConn, Accept
<1>5. ASSUME NEW c \in Conns, ShutdownCommand(c) PROVE ControlTyped'
  BY <1>5 DEF ShutdownCommand, CloseDone
<1>6. ASSUME NEW c \in Conns, ConnStep(c), ~Accept(c), ~ShutdownCommand(c) PROVE ControlTyped'
  <2>1. UNCHANGED stopVars
    BY <1>6 DEF ConnStep, HandshakeEnds, RunCommand, Attach, Get, CommandRefused, FinishStream,
                StreamBroken, ShutdownDone, NextClient
  <2>. QED  BY <1>1, <2>1 DEF stopVars
<1>7. ASSUME NEW s \in Sessions, RunStep(s) PROVE ControlTyped'
  <2>1. UNCHANGED stopVars
    BY <1>7 DEF RunStep, Checked, Launch, WorkerEnds, RunEnds
  <2>. QED  BY <1>1, <2>1 DEF stopVars
<1>. QED  BY <1>1, <1>2, <1>3, <1>4, <1>5, <1>6, <1>7
          DEF ServerNext, ServeStep, ShutdownStep, ConnStep, serverVars

LEMMA RunsStayTyped == RunsTyped /\ [ServerNext]_serverVars => RunsTyped'
<1>. SUFFICES ASSUME RunsTyped, [ServerNext]_serverVars PROVE RunsTyped'
  OBVIOUS
<1>1. CASE UNCHANGED <<workers, late>>
  BY <1>1 DEF RunsTyped
<1>2. CASE Drain
  BY <1>2 DEF Drain, RunsTyped
<1>3. ASSUME NEW s \in Sessions, RunStep(s) PROVE RunsTyped'
  BY <1>3 DEF RunStep, Checked, Launch, WorkerEnds, RunEnds, stopVars, RunsTyped
<1>. QED
  BY <1>1, <1>2, <1>3
  DEF ServerNext, serverVars, stopVars, Signal, AcceptFails, ServeStep, ShutdownStep, ConnStep,
      Bind, CheckDone, AcceptEnds, ServeReturns, TrackConn, CancelRuns, Sweep, Accept,
      HandshakeEnds, RunCommand, Attach, Get, CommandRefused, FinishStream, StreamBroken,
      ShutdownCommand, ShutdownDone, NextClient

LEMMA SessionsNumbered ==
    /\ Sessions \subseteq 0..MaxStarts /\ NoSession \in 0..MaxStarts
    /\ RegistryInv => registry \subseteq Sessions
<1>1. Sessions \subseteq 0..MaxStarts /\ NoSession \in 0..MaxStarts
  BY ServerAssumption DEF Sessions, NoSession
<1>2. RegistryInv => registry \subseteq Sessions
  BY DEF RegistryInv, Listed
<1>. QED  BY <1>1, <1>2

LEMMA HandlersStayTyped ==
    ASSUME RegistryInv, HandlersTyped, [ServerNext]_serverVars
    PROVE  HandlersTyped'
<1>1. CASE UNCHANGED <<conn, watched, named, told>>
  BY <1>1 DEF HandlersTyped
<1>2. ASSUME NEW c \in Conns, Accept(c) \/ TrackConn(c) \/ ShutdownCommand(c) PROVE HandlersTyped'
  <2>1. /\ UNCHANGED <<watched, named, told>>
        /\ \E at \in HandlerPoints : conn' = [conn EXCEPT ![c] = at]
    BY <1>2 DEF Accept, TrackConn, ShutdownCommand, HandlerPoints
  <2>. QED  BY <2>1 DEF HandlersTyped
<1>3. ASSUME NEW c \in Conns, NEW frame \in Frames, Over(c, frame), UNCHANGED <<watched, named>>
      PROVE  HandlersTyped'
  <2>1. /\ \E at \in HandlerPoints : conn' = [conn EXCEPT ![c] = at]
        /\ \E last \in Frames : told' = [told EXCEPT ![c] = last]
    BY <1>3 DEF Over, HandlerPoints, Frames
  <2>. QED  BY <1>3, <2>1 DEF HandlersTyped
<1>4. ASSUME NEW c \in Conns,
             \/ HandshakeEnds(c) \/ CommandRefused(c) \/ FinishStream(c) \/ StreamBroken(c)
             \/ ShutdownDone(c)
      PROVE  HandlersTyped'
  <2>1. UNCHANGED <<watched, named>> /\ \E frame \in Frames : Over(c, frame)
    BY <1>4 DEF HandshakeEnds, CommandRefused, FinishStream, StreamBroken, ShutdownDone, Frames
  <2>. QED  BY <1>3, <2>1
<1>5. ASSUME NEW c \in Conns, RunCommand(c) \/ Attach(c) \/ Get(c) \/ NextClient(c)
      PROVE  HandlersTyped'
  <2>1. Fresh \subseteq 0..MaxStarts /\ registry \subseteq 0..MaxStarts
    BY SessionsNumbered DEF Fresh
  <2>2. conn' \in [Conns -> HandlerPoints]
    <3>1. \E at \in HandlerPoints : conn' = [conn EXCEPT ![c] = at]
      BY <1>5 DEF RunCommand, Attach, Get, NextClient, HandlerPoints
    <3>. QED  BY <3>1 DEF HandlersTyped
  <2>3. watched' \in [Conns -> 0..MaxStarts]
    <3>1. watched' = watched \/ \E s \in 0..MaxStarts : watched' = [watched EXCEPT ![c] = s]
      BY <1>5, <2>1, SessionsNumbered DEF RunCommand, Attach, Get, NextClient
    <3>. QED  BY <3>1 DEF HandlersTyped
  <2>4. named' \in [Conns -> 0..MaxStarts]
    <3>1. CASE Get(c)
      <4>. DEFINE found == Registered(idOf[watched[c]])
      <4>1. found \subseteq 0..MaxStarts
        BY <2>1 DEF Registered
      <4>2. named' = [named EXCEPT ![c] = IF found = {} THEN NoSession ELSE CHOOSE s \in found : TRUE]
        BY <3>1 DEF Get
      <4>. HIDE DEF found
      <4>3. (IF found = {} THEN NoSession ELSE CHOOSE s \in found : TRUE) \in 0..MaxStarts
        BY <4>1, SessionsNumbered
      <4>. QED  BY <4>2, <4>3 DEF HandlersTyped
    <3>2. CASE ~Get(c)
      <4>1. named' = named \/ \E s \in 0..MaxStarts : named' = [named EXCEPT ![c] = s]
        BY <1>5, <2>1, <3>2, SessionsNumbered DEF RunCommand, Attach, NextClient
      <4>. QED  BY <4>1 DEF HandlersTyped
    <3>. QED  BY <3>1, <3>2
  <2>5. told' \in [Conns -> Frames]
    <3>1. told' = told \/ \E frame \in Frames : told' = [told EXCEPT ![c] = frame]
      BY <1>5 DEF RunCommand, Attach, Get, NextClient, Frames
    <3>. QED  BY <3>1 DEF HandlersTyped
  <2>. QED  BY <2>2, <2>3, <2>4, <2>5 DEF HandlersTyped
<1>. QED
  BY <1>1, <1>2, <1>4, <1>5
  DEF ServerNext, serverVars, connVars, Signal, AcceptFails, ServeStep, ShutdownStep, ConnStep, RunStep,
      Bind, CheckDone, AcceptEnds, ServeReturns, CancelRuns, Sweep, Drain, Checked, Launch,
      WorkerEnds, RunEnds

LEMMA TrackedStay ==
    ASSUME HandlersTyped, Tracked, [ServerNext]_serverVars
    PROVE  Tracked'
<1>1. CASE UNCHANGED <<conn, conns>> /\ closed \subseteq closed'
  BY <1>1 DEF Tracked
<1>2. ASSUME NEW c \in Conns, NEW at \in HandlerPoints, conn' = [conn EXCEPT ![c] = at],
             at \in AtWork => c \in conns' \union closed',
             conns \ {c} \subseteq conns', closed \ {c} \subseteq closed'
      PROVE  Tracked'
  <2>1. ASSUME NEW d \in Conns, conn'[d] \in AtWork PROVE d \in conns' \union closed'
    <3>1. CASE d = c
      BY <1>2, <2>1, <3>1 DEF HandlersTyped
    <3>2. CASE d # c
      BY <1>2, <2>1, <3>2 DEF HandlersTyped, Tracked
    <3>. QED  BY <3>1, <3>2
  <2>. QED  BY <2>1 DEF Tracked
<1>3. ASSUME NEW c \in Conns, NEW at \in AtWork, conn' = [conn EXCEPT ![c] = at], conn[c] \in AtWork,
             UNCHANGED <<conns, closed>>
      PROVE  Tracked'
  <2>1. at \in HandlerPoints /\ c \in conns' \union closed'
    BY <1>3 DEF Tracked, AtWork, HandlerPoints
  <2>. QED  BY <1>2, <1>3, <2>1
<1>4. ASSUME NEW c \in Conns, TrackConn(c) PROVE Tracked'
  <2>1. /\ conn' = [conn EXCEPT ![c] = "handshake"] /\ "handshake" \in HandlerPoints
        /\ c \in conns' \union closed' /\ conns \subseteq conns' /\ closed \subseteq closed'
    BY <1>4 DEF TrackConn, HandlerPoints
  <2>. QED  BY <1>2, <2>1
<1>5. ASSUME NEW c \in Conns,
             \/ Accept(c) \/ HandshakeEnds(c) \/ CommandRefused(c) \/ FinishStream(c)
             \/ StreamBroken(c) \/ ShutdownDone(c) \/ NextClient(c)
      PROVE  Tracked'
  <2>1. /\ \E at \in HandlerPoints \ AtWork : conn' = [conn EXCEPT ![c] = at]
        /\ conns \ {c} \subseteq conns' /\ closed \ {c} \subseteq closed'
    BY <1>5 DEF Accept, HandshakeEnds, CommandRefused, FinishStream, StreamBroken, ShutdownDone,
                NextClient, Over, HandlerPoints, AtWork
  <2>. QED  BY <1>2, <2>1
<1>6. ASSUME NEW c \in Conns, RunCommand(c) \/ Attach(c) \/ Get(c) \/ ShutdownCommand(c)
      PROVE  Tracked'
  <2>1. /\ conn[c] \in AtWork /\ UNCHANGED <<conns, closed>>
        /\ \E at \in AtWork : conn' = [conn EXCEPT ![c] = at]
    BY <1>6 DEF RunCommand, Attach, Get, ShutdownCommand, Command, AtWork
  <2>. QED  BY <1>3, <2>1
<1>. QED
  BY <1>1, <1>4, <1>5, <1>6
  DEF ServerNext, serverVars, connVars, Signal, AcceptFails, ServeStep, ShutdownStep, ConnStep, RunStep,
      Bind, CheckDone, AcceptEnds, ServeReturns, CancelRuns, Sweep, Drain, Checked, Launch,
      WorkerEnds, RunEnds

\* Types, and the registry: a session is registered under its id from its start until, at
\* the cap, it is evicted, which happens to finished ones only.
ServerTyped == ControlTyped /\ HandlersTyped /\ Tracked /\ RunsTyped

LEMMA RegistryStarts == ServerInit => ServerTyped /\ RegistryInv
<1>. SUFFICES ASSUME ServerInit PROVE ServerTyped /\ RegistryInv
  OBVIOUS
<1>1. ControlTyped /\ RunsTyped
  BY DEF ServerInit, ControlTyped, RunsTyped
<1>2. HandlersTyped /\ Tracked
  BY SessionsNumbered DEF ServerInit, HandlersTyped, HandlerPoints, Frames, Tracked, AtWork
<1>3. order = <<>> /\ order \in Seq(Sessions) /\ registry = {} /\ Listed(order) = {} /\ Once(order)
  BY DEF ServerInit, Listed, Once
<1>4. \A s \in Sessions : state[s] = "none"
  BY DEF ServerInit
<1>5. state \in [Sessions -> States] /\ idOf \in [Sessions -> Ids]
  BY DEF ServerInit, States
<1>. QED  BY <1>1, <1>2, <1>3, <1>4, <1>5 DEF ServerTyped, RegistryInv

THEOREM RegistryInvariant == ServerSpec => [](ServerTyped /\ RegistryInv)
<1>1. ServerTyped /\ RegistryInv /\ [ServerNext]_serverVars => (ServerTyped /\ RegistryInv)'
  BY ControlStaysTyped, HandlersStayTyped, TrackedStay, RunsStayTyped, RegistryKept DEF ServerTyped
<1>. QED  BY <1>1, RegistryStarts, PTL DEF ServerSpec

\* For any clients, ids and sessions, the registry, its order of creation and the ids agree
\* (RegistryExact): an id leads to one session, and only finished sessions are evicted.
THEOREM RegistryIsExact == ServerSpec => []RegistryExact
<1>1. ServerTyped /\ RegistryInv => RegistryExact
  <2>. SUFFICES ASSUME ServerTyped, RegistryInv PROVE RegistryExact
    OBVIOUS
  <2>1. ServerTypeOK
    BY DEF ServerTyped, RegistryInv, ServerTypeOK, ControlTyped, HandlersTyped, Tracked, RunsTyped,
           HandlerPoints, Frames, AtWork, States
  <2>2. Cardinality(registry) = Len(order)
    <3>1. order \in [1..Len(order) -> registry] /\ Len(order) \in Nat
      BY DEF RegistryInv, Listed
    <3>2. order \in Bijection(1..Len(order), registry)
      BY <3>1 DEF RegistryInv, Once, Listed, Bijection, Injection, Surjection, IsInjective
    <3>3. ExistsBijection(1..Len(order), registry)
      BY <3>2 DEF ExistsBijection
    <3>. QED  BY <3>1, <3>3, FS_CountingElements
  <2>. QED  BY <2>1, <2>2 DEF RegistryInv, RegistryExact, Listed
<1>. QED  BY <1>1, RegistryInvariant, PTL

-----------------------------------------------------------------------------
(***************************************************************************)
(* Proofs about DaemonInstance, for any set of daemons.  There is one      *)
(* instance until a racer renames the lock file of a live daemon: until    *)
(* then the file of whoever has the lock, or is about to write its PID, is *)
(* at the lock's path, and nothing is ever put back over it.               *)
(***************************************************************************)

\* Where a daemon has not created its lock file.
Early == Acquiring \union {"idle"}

\* A daemon that has not created its lock file has none, and no PID in one.
Unborn ==
    \A d \in Daemons : pc[d] \in Early =>
        d # lock /\ d \notin written /\ \A e \in Daemons : aside[e] # d

\* Until a live daemon's file is moved, the owner of a lock file has it in place ...
OwnersAreAt == ~moved => \A d \in Daemons : pc[d] \in Live => lock = d

\* ... and what is aside is a dead daemon's, so it is not put back.
AsideIsDead ==
    ~moved => \A d \in Daemons : /\ pc[d] # "restore"
                                 /\ pc[d] = "inspect" => aside[d] \notin Alive

LockInv == InstanceTypeOK /\ Unborn /\ OwnersAreAt /\ AsideIsDead

\* Until then, the socket and the status file of the daemon are its own.
FilesInv ==
    ~moved => \A d \in Daemons : /\ pc[d] \in {"status", "serve"} => socket = d
                                 /\ pc[d] = "serve" => status = d

USE DaemonsAssumption

LEMMA InstanceInitEstablishes == InstanceInit => LockInv /\ FilesInv
<1>. SUFFICES ASSUME InstanceInit PROVE LockInv /\ FilesInv
  OBVIOUS
<1>. USE DEF InstanceInit, Files, Early, Acquiring, Live, Holding, Departed, Passes
<1>1. InstanceTypeOK
  <2>1. rival \in [Daemons -> BOOLEAN] /\ moved \in BOOLEAN
    BY Zenon
  <2>. QED  BY <2>1 DEF InstanceTypeOK
<1>2. Unborn /\ OwnersAreAt /\ AsideIsDead /\ FilesInv
  BY DEF Unborn, OwnersAreAt, AsideIsDead, FilesInv
<1>. QED  BY <1>1, <1>2 DEF LockInv

\* A step of a daemon that touches no lock file, and that only Start makes alive.
LEMMA QuietPreserves ==
  ASSUME LockInv, NEW d \in Daemons, UNCHANGED <<lock, aside, moved>>,
         \/ Start(d) \/ WritePID(d) \/ ReadPID(d) \/ RenameFails(d) \/ Inspect(d) \/ Crash(d)
         \/ ClearSocket(d) \/ BindSocket(d) \/ WriteStatus(d) \/ Stop(d)
         \/ RemoveSocket(d) \/ RemoveStatus(d)
  PROVE  LockInv'
<1>. USE DEF Start, WritePID, ReadPID, RenameFails, Inspect, Crash, ClearSocket, BindSocket, WriteStatus,
         Stop, RemoveSocket, RemoveStatus, Goto, NextPass, lockVars, fileVars, LockInv
<1>1. InstanceTypeOK'
  <2>1. pass' \in [Daemons -> 1..Passes] /\ written' \in SUBSET Daemons
    BY DEF InstanceTypeOK, Passes
  <2>2. socket' \in Files \union {NoFile} /\ status' \in Files \union {NoFile}
    BY DEF InstanceTypeOK, Files
  <2>3. rival' \in [Daemons -> BOOLEAN]
    <3>1. CASE Start(d)
      BY <3>1, Zenon DEF Start
    <3>2. CASE UNCHANGED rival
      BY <3>2 DEF InstanceTypeOK
    <3>. QED  BY <3>1, <3>2
  <2>4. pc' \in [Daemons -> Acquiring \union Live \union Departed \union {"idle"}]
    BY DEF InstanceTypeOK, Acquiring, Live, Holding, Departed
  <2>. QED  BY <2>1, <2>2, <2>3, <2>4 DEF InstanceTypeOK
<1>2. Unborn'
  BY DEF InstanceTypeOK, Unborn, Early, Acquiring, Alive, Departed
<1>3. OwnersAreAt'
  BY DEF InstanceTypeOK, OwnersAreAt, Live, Holding, Alive, Departed
<1>4. AsideIsDead'
  <2>1. \A e \in Daemons : pc[e] = "idle" => \A f \in Daemons : aside[f] # e
    BY DEF Unborn, Early
  <2>2. \A e \in Daemons : e \in Alive' => e \in Alive \/ pc[e] = "idle"
    BY DEF InstanceTypeOK, Alive, Departed
  <2>3. \A e \in Daemons : aside[e] \in Alive' => aside[e] \in Alive
    BY <2>1, <2>2 DEF Alive
  <2>4. \A e \in Daemons : pc'[e] = "inspect" => pc[e] = "inspect"
    BY DEF InstanceTypeOK, Alive, Departed
  <2>5. ~moved => \A e \in Daemons : pc'[e] # "restore"
    BY DEF InstanceTypeOK, AsideIsDead, NamesLive, Alive, Departed
  <2>. QED  BY <2>3, <2>4, <2>5 DEF AsideIsDead
<1>. QED  BY <1>1, <1>2, <1>3, <1>4

\* A new lock file has no owner but its creator.
LEMMA CreatePreserves ==
  ASSUME LockInv, NEW d \in Daemons, Create(d)
  PROVE  LockInv'
<1>. USE DEF LockInv, Create, Goto, lockVars, fileVars
<1>1. InstanceTypeOK'
  BY DEF InstanceTypeOK, Unborn, Early, Files, Acquiring, Live, Holding, Departed
<1>2. Unborn'
  BY DEF InstanceTypeOK, Unborn, Early, Acquiring
<1>3. OwnersAreAt'
  BY DEF InstanceTypeOK, OwnersAreAt, Live, Holding
<1>4. AsideIsDead'
  BY DEF InstanceTypeOK, AsideIsDead, Alive, Departed
<1>. QED  BY <1>1, <1>2, <1>3, <1>4

\* Removing what is at the lock's path: until a live daemon's file is moved it is one's own.
LEMMA RemovePreserves ==
  ASSUME LockInv, NEW d \in Daemons, WriteFails(d) \/ Release(d)
  PROVE  LockInv'
<1>. USE DEF LockInv, WriteFails, Release, Goto, lockVars, fileVars
<1>1. InstanceTypeOK'
  BY DEF InstanceTypeOK, Files, Departed
<1>2. Unborn'
  BY DEF InstanceTypeOK, Unborn, Early, Acquiring
<1>3. OwnersAreAt'
  BY DEF InstanceTypeOK, OwnersAreAt, Live, Holding
<1>4. AsideIsDead'
  BY DEF InstanceTypeOK, AsideIsDead, Alive, Departed
<1>. QED  BY <1>1, <1>2, <1>3, <1>4

\* The racers' renames: a dead daemon's file that is moved is nobody's.
LEMMA MovePreserves ==
  ASSUME LockInv, NEW d \in Daemons, Rename(d) \/ Restore(d) \/ Drop(d)
  PROVE  LockInv'
<1>. USE DEF LockInv, Rename, Restore, Drop, Goto, NextPass, lockVars, fileVars
<1>1. InstanceTypeOK'
  <2>1. CASE Rename(d)
    BY <2>1 DEF InstanceTypeOK, Files, Acquiring
  <2>2. CASE Restore(d)
    BY <2>2 DEF InstanceTypeOK, Files, Acquiring, Departed, Passes
  <2>3. CASE Drop(d)
    BY <2>3 DEF InstanceTypeOK, Files, Acquiring, Departed, Passes
  <2>. QED  BY <2>1, <2>2, <2>3
<1>2. Unborn'
  BY DEF InstanceTypeOK, Unborn, Early, Acquiring
<1>3. OwnersAreAt'
  <2>1. CASE Rename(d)
    <3>1. ~moved' => lock \notin Alive
      BY <2>1
    <3>2. ~moved' => \A e \in Daemons : pc[e] \notin Live
      BY <2>1, <3>1 DEF OwnersAreAt, Live, Holding, Alive, Departed
    <3>. QED  BY <2>1, <3>2 DEF InstanceTypeOK, OwnersAreAt, Live, Holding
  <2>2. CASE Restore(d)
    BY <2>2 DEF OwnersAreAt, AsideIsDead
  <2>3. CASE Drop(d)
    BY <2>3 DEF InstanceTypeOK, OwnersAreAt, Live, Holding
  <2>. QED  BY <2>1, <2>2, <2>3
<1>4. AsideIsDead'
  <2>1. Alive' \subseteq Alive
    BY DEF InstanceTypeOK, Alive, Departed
  <2>. USE <2>1 DEF InstanceTypeOK, AsideIsDead
  <2>2. CASE Rename(d)
    BY <2>2
  <2>3. CASE Restore(d)
    BY <2>3
  <2>4. CASE Drop(d)
    BY <2>4
  <2>. QED  BY <2>2, <2>3, <2>4
<1>. QED  BY <1>1, <1>2, <1>3, <1>4

\* Every step keeps the lock's invariant ...
LEMMA StepPreserves ==
  ASSUME LockInv, [InstanceNext]_instanceVars
  PROVE  LockInv'
<1>1. CASE UNCHANGED instanceVars
  BY <1>1 DEF instanceVars, LockInv, InstanceTypeOK, Unborn, OwnersAreAt, AsideIsDead, Alive
<1>2. ASSUME NEW d \in Daemons, Start(d) \/ AcquireStep(d) \/ ServingStep(d) \/ Crash(d)
      PROVE  LockInv'
  <2>1. CASE Create(d)
    BY <2>1, CreatePreserves
  <2>2. CASE WriteFails(d) \/ Release(d)
    BY <2>2, RemovePreserves
  <2>3. CASE Rename(d) \/ Restore(d) \/ Drop(d)
    BY <2>3, MovePreserves
  <2>4. CASE \/ Start(d) \/ WritePID(d) \/ ReadPID(d) \/ RenameFails(d) \/ Inspect(d) \/ Crash(d)
             \/ ClearSocket(d) \/ BindSocket(d) \/ WriteStatus(d) \/ Stop(d)
             \/ RemoveSocket(d) \/ RemoveStatus(d)
    <3>1. UNCHANGED <<lock, aside, moved>>
      BY <2>4 DEF Start, WritePID, ReadPID, RenameFails, Inspect, Crash, ClearSocket, BindSocket,
                  WriteStatus, Stop, RemoveSocket, RemoveStatus, lockVars
    <3>. QED  BY <2>4, <3>1, QuietPreserves
  <2>. QED  BY <1>2, <2>1, <2>2, <2>3, <2>4 DEF AcquireStep, ServingStep
<1>. QED  BY <1>1, <1>2 DEF InstanceNext

\* ... and, with it, the files': only the instance's own steps touch them.
LEMMA StepKeepsFiles ==
  ASSUME LockInv, FilesInv, [InstanceNext]_instanceVars
  PROVE  FilesInv'
<1>1. CASE UNCHANGED instanceVars
  BY <1>1 DEF instanceVars, FilesInv
<1>2. ASSUME NEW d \in Daemons, Start(d) \/ AcquireStep(d) \/ Crash(d)
      PROVE  FilesInv'
  BY <1>2 DEF FilesInv, LockInv, InstanceTypeOK, Start, AcquireStep, Create, WritePID, WriteFails,
              ReadPID, Rename, RenameFails, Inspect, Restore, Drop, Crash, Goto, NextPass, fileVars
<1>3. ASSUME NEW d \in Daemons, ServingStep(d)
      PROVE  FilesInv'
  <2>1. ~moved => \A e \in Daemons : pc[e] \in Holding => e = d
    BY <1>3 DEF LockInv, OwnersAreAt, Live, Holding, ServingStep, ClearSocket, BindSocket, WriteStatus, Stop,
                RemoveSocket, RemoveStatus, Release, Goto
  <2>. QED  BY <1>3, <2>1 DEF FilesInv, LockInv, InstanceTypeOK, Holding, ServingStep, ClearSocket, BindSocket,
                              WriteStatus, Stop, RemoveSocket, RemoveStatus, Release, Goto, fileVars
<1>. QED  BY <1>1, <1>2, <1>3 DEF InstanceNext

THEOREM InstanceInvariant == InstanceSpec => [](LockInv /\ FilesInv)
BY InstanceInitEstablishes, StepPreserves, StepKeepsFiles, PTL DEF InstanceSpec

\* The types, and that a lock file has one name (daemon/lock.go reclaimStaleLock renames).
THEOREM InstanceTypeCorrect == InstanceSpec => []InstanceTypeOK
<1>1. LockInv => InstanceTypeOK
  BY DEF LockInv
<1>. QED  BY <1>1, InstanceInvariant, PTL

\* For any number of daemons there is one instance, until a racer renames the lock
\* file of a live daemon.
THEOREM InstanceIsSingle == InstanceSpec => []SingleUnlessMoved
<1>1. LockInv => SingleUnlessMoved
  BY DEF LockInv, OwnersAreAt, SingleUnlessMoved, SingleInstance, Live
<1>. QED  BY <1>1, InstanceInvariant, PTL

\* Until then the lock, the socket and the status file lead to whoever serves.
THEOREM FilesLeadToServer == InstanceSpec => []ServerOwnsFiles
<1>1. LockInv /\ FilesInv => ServerOwnsFiles
  BY DEF LockInv, OwnersAreAt, FilesInv, ServerOwnsFiles, Live, Holding
<1>. QED  BY <1>1, InstanceInvariant, PTL

-----------------------------------------------------------------------------
(* Refusals *)

\* A daemon that acquires while another one lives has had a rival.
RivalSeen ==
    \A d, e \in Daemons : pc[d] \in Acquiring /\ e # d /\ e \in Alive => rival[d]

\* One that has had none finds at most a dead one's lock, and in its second pass no lock.
Undisturbed ==
    \A d \in Daemons : pc[d] \in Acquiring /\ ~rival[d] =>
        /\ pc[d] # "restore"
        /\ pc[d] \in {"read", "rename"} => lock # NoFile
        /\ pc[d] \in {"inspect", "drop"} => lock = NoFile
        /\ pass[d] = Passes => pc[d] = "open" /\ lock = NoFile

FirstPass == \A d \in Daemons : pc[d] = "idle" => pass[d] = 1

RefusalInv == RivalSeen /\ Undisturbed /\ FirstPass /\ RefusalJustified

\* What a step of an acquiring daemon without a rival does to it.
LEMMA AcquireUndisturbed ==
  ASSUME LockInv, RefusalInv, NEW d \in Daemons, AcquireStep(d), pc[d] \in Acquiring, ~rival[d]
  PROVE  /\ pc'[d] # "refused"
         /\ pc'[d] \in Acquiring =>
              /\ pc'[d] # "restore"
              /\ pc'[d] \in {"read", "rename"} => lock' # NoFile
              /\ pc'[d] \in {"inspect", "drop"} => lock' = NoFile
              /\ pass'[d] = Passes => pc'[d] = "open" /\ lock' = NoFile
<1>1. \A e \in Daemons : e # d => e \notin Alive
  BY DEF RefusalInv, RivalSeen
<1>2. ~NamesLive(lock) /\ ~NamesLive(aside[d])
  BY <1>1 DEF NamesLive, LockInv, InstanceTypeOK, Unborn, Early
<1>3. /\ pc[d] # "restore"
      /\ pc[d] \in {"read", "rename"} => lock # NoFile
      /\ pc[d] \in {"inspect", "drop"} => lock = NoFile
      /\ pass[d] = Passes => pc[d] = "open" /\ lock = NoFile
  BY DEF RefusalInv, Undisturbed
<1>4. /\ pc \in [Daemons -> Acquiring \union Live \union Departed \union {"idle"}]
      /\ pass \in [Daemons -> 1..2]
  BY DEF LockInv, InstanceTypeOK, Passes
<1>5. CASE Create(d)
  BY <1>3, <1>4, <1>5 DEF Create, Goto, Acquiring
<1>6. CASE ReadPID(d) \/ Inspect(d)
  <2>1. /\ lock' = lock /\ pass' = pass
        /\ \/ pc[d] = "read" /\ pc'[d] = "rename"
           \/ pc[d] = "inspect" /\ pc'[d] = "drop"
    BY <1>2, <1>4, <1>6 DEF ReadPID, Inspect, Goto, lockVars
  <2>. QED  BY <1>3, <2>1
<1>7. CASE Rename(d) \/ RenameFails(d)
  <2>1. pc[d] = "rename" /\ lock # NoFile
    BY <1>3, <1>7 DEF Rename, RenameFails, Goto, NextPass
  <2>2. /\ lock' = NoFile /\ pass' = pass
        /\ pc'[d] = "inspect"
    BY <1>4, <1>7, <2>1 DEF Rename, RenameFails, Goto
  <2>. QED  BY <1>3, <2>1, <2>2
<1>8. CASE Restore(d) \/ Drop(d)
  BY <1>3, <1>4, <1>8 DEF Restore, Drop, NextPass, Passes
<1>9. CASE WritePID(d) \/ WriteFails(d)
  BY <1>4, <1>9 DEF WritePID, WriteFails, Goto, Acquiring
<1>. QED  BY <1>5, <1>6, <1>7, <1>8, <1>9 DEF AcquireStep

\* A start sets the rivals of every daemon that acquires; any other step is one of a
\* daemon that lives, which such a daemon without a rival has none of beside it.
LEMMA RefusalPreserved ==
  ASSUME LockInv, RefusalInv, [InstanceNext]_instanceVars
  PROVE  RefusalInv'
<1>0. /\ pc \in [Daemons -> Acquiring \union Live \union Departed \union {"idle"}]
      /\ pass \in [Daemons -> 1..2] /\ rival \in [Daemons -> BOOLEAN]
  BY DEF LockInv, InstanceTypeOK, Passes
<1>1. CASE UNCHANGED instanceVars
  BY <1>1 DEF instanceVars, RefusalInv, RivalSeen, Undisturbed, FirstPass, RefusalJustified, Alive
<1>2. ASSUME NEW d \in Daemons, Start(d)
      PROVE  RefusalInv'
  <2>1. /\ pc[d] = "idle" /\ pc' = [pc EXCEPT ![d] = "open"] /\ pass' = pass
        /\ rival' = [e \in Daemons |-> IF e = d THEN Alive # {} ELSE rival[e] \/ pc[e] \in Acquiring]
    BY <1>2 DEF Start, Goto
  <2>2. /\ Alive' = Alive \union {d} /\ d \notin Alive
    BY <1>0, <2>1 DEF Alive, Departed
  <2>3. RivalSeen'
    BY <1>0, <2>1, <2>2 DEF RivalSeen
  <2>4. Undisturbed'
    <3>1. pc'[d] = "open" /\ pass'[d] = 1
      BY <1>0, <2>1 DEF RefusalInv, FirstPass
    <3>2. \A e \in Daemons \ {d} : pc'[e] \in Acquiring => rival'[e]
      BY <1>0, <2>1
    <3>. QED  BY <3>1, <3>2 DEF Undisturbed, Passes
  <2>5. FirstPass' /\ RefusalJustified'
    BY <1>0, <2>1 DEF RefusalInv, FirstPass, RefusalJustified
  <2>. QED  BY <2>3, <2>4, <2>5 DEF RefusalInv
<1>3. ASSUME NEW d \in Daemons, AcquireStep(d) \/ ServingStep(d) \/ Crash(d)
      PROVE  RefusalInv'
  <2>1. /\ d \in Alive /\ rival' = rival
        /\ pc'[d] # "idle"
        /\ pc[d] \notin Acquiring => pc'[d] \notin Acquiring /\ pc'[d] # "refused"
        /\ \A e \in Daemons \ {d} : pc'[e] = pc[e] /\ pass'[e] = pass[e]
    <3>1. CASE AcquireStep(d)
      BY <1>0, <3>1 DEF AcquireStep, Create, WritePID, WriteFails, ReadPID, Rename, RenameFails,
                        Inspect, Restore, Drop, Goto, NextPass, Alive, Departed, Acquiring
    <3>2. CASE ServingStep(d)
      BY <1>0, <3>2 DEF ServingStep, ClearSocket, BindSocket, WriteStatus, Stop, RemoveSocket,
                        RemoveStatus, Release, Goto, Alive, Departed, Acquiring
    <3>3. CASE Crash(d)
      BY <1>0, <3>3 DEF Crash, Alive, Departed, Acquiring
    <3>. QED  BY <1>3, <3>1, <3>2, <3>3
  <2>2. \A e \in Daemons \ {d} : pc[e] \in Acquiring => rival[e]
    BY <2>1 DEF RefusalInv, RivalSeen
  <2>3. Alive' \subseteq Alive
    BY <2>1 DEF Alive
  <2>4. pc'[d] \in Acquiring \union {"refused"} => pc[d] \in Acquiring /\ AcquireStep(d)
    <3>1. CASE ServingStep(d)
      BY <1>0, <3>1 DEF ServingStep, ClearSocket, BindSocket, WriteStatus, Stop, RemoveSocket,
                        RemoveStatus, Release, Goto, Acquiring
    <3>2. CASE Crash(d)
      BY <1>0, <3>2 DEF Crash, Acquiring
    <3>. QED  BY <1>3, <2>1, <3>1, <3>2
  <2>5. RivalSeen'
    BY <2>1, <2>2, <2>3, <2>4 DEF RefusalInv, RivalSeen
  <2>6. Undisturbed' /\ RefusalJustified'
    <3>1. ASSUME NEW e \in Daemons \ {d}
          PROVE  /\ pc'[e] \in Acquiring => rival'[e]
                 /\ pc'[e] = "refused" => rival'[e]
      BY <2>1, <2>2 DEF RefusalInv, RefusalJustified
    <3>2. pc'[d] \in Acquiring \union {"refused"} /\ ~rival'[d] =>
            /\ pc'[d] # "refused"
            /\ pc'[d] # "restore"
            /\ pc'[d] \in {"read", "rename"} => lock' # NoFile
            /\ pc'[d] \in {"inspect", "drop"} => lock' = NoFile
            /\ pass'[d] = Passes => pc'[d] = "open" /\ lock' = NoFile
      BY <2>1, <2>4, AcquireUndisturbed
    <3>. QED  BY <3>1, <3>2 DEF Undisturbed, RefusalJustified
  <2>7. FirstPass'
    BY <2>1 DEF RefusalInv, FirstPass
  <2>. QED  BY <2>5, <2>6, <2>7 DEF RefusalInv
<1>. QED  BY <1>1, <1>2, <1>3 DEF InstanceNext

\* For any number of daemons: a start is refused only if another daemon lived while it
\* was acquiring; a lock that outlived its owner, at whatever point that died, does not
\* refuse one (daemon/lock.go acquireLock, reclaimStaleLock).
THEOREM RefusalsJustified == InstanceSpec => []RefusalJustified
<1>1. InstanceInit => RefusalInv
  BY DEF InstanceInit, RefusalInv, RivalSeen, Undisturbed, FirstPass, RefusalJustified, Acquiring
<1>2. RefusalInv => RefusalJustified
  BY DEF RefusalInv
<1>. QED  BY <1>1, <1>2, InstanceInvariant, RefusalPreserved, PTL DEF InstanceSpec
=============================================================================
