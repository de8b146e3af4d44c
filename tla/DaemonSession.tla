---------------------------- MODULE DaemonSession ----------------------------
(***************************************************************************)
(* One session of the daemon (internal/daemon/session.go): the worker's    *)
(* output is kept in a ring and fanned out to attached clients over        *)
(* bounded channels that never block the worker, until finish closes them. *)
(* The clients are the server's handlers, handleRun and handleAttach, and  *)
(* their streamToClient loops (server.go).  Line holds the session's mutex *)
(* while it visits the subscribers, yet their consumers receive without    *)
(* it: a broadcast is a step per subscriber.  handleAttach looks the id up *)
(* a second time once it is subscribed, and the registry may have evicted  *)
(* the finished session, or have another under its id, by then.            *)
(***************************************************************************)
EXTENDS Integers, Sequences, FiniteSets

CONSTANTS Clients,    \* attached clients
          MaxBuffer,  \* Session.maxBuffer: lines the ring keeps
          Capacity,   \* capacity of a subscriber's channel (256 in Subscribe)
          MaxLines    \* bound: lines the worker prints

ASSUME SessionAssumption == /\ IsFiniteSet(Clients)
                            /\ MaxBuffer \in Nat \ {0}
                            /\ Capacity \in Nat \ {0}
                            /\ MaxLines \in Nat

VARIABLES state,    \* Session.state
          lines,    \* Session.lines; the lines are the numbers 1..lines
          buffer,   \* Session.buffer
          finish,   \* how far Session.finish got: "no", "detached", "done"
          failed,   \* Session.err # nil
          subs,     \* the clients in Session.subscribers
          toClose,  \* the subscribers finish took from the map, not yet closed
          todo,     \* the subscribers Line has yet to visit, holding the mutex
          chan,     \* the items in each subscriber's channel
          closed,   \* clients whose channel is closed
          dropped,  \* subscriber.dropped
          panicked, \* a send on a closed channel or a second close happened
          named,    \* what the registry has under the id: "this", "nothing", "other"
          phase,    \* each client: "away", "attached", "streaming", "leaving", "gone"
          found,    \* the session its handler will ask for the outcome, as in named
          joined,   \* Session.lines when the client subscribed
          got,      \* the items of the live stream written to the client
          final     \* the last frame the client got: none, "end" or "error"

sessionVars == <<state, lines, buffer, finish, failed, subs, toClose, todo, chan,
                 closed, dropped, panicked, named, phase, found, joined, got, final>>
streamVars == <<phase, found, joined, got, final>>
recordVars == <<state, lines, buffer, failed, named>>

-----------------------------------------------------------------------------

Line(n) == [kind |-> "line", n |-> n]
Gap(n)  == [kind |-> "gap", n |-> n]

\* The last MaxBuffer elements of s.
Ring(s) == SubSeq(s, Len(s) - MaxBuffer + 1, Len(s))
Trim(s) == IF Len(s) > MaxBuffer THEN Ring(s) ELSE s

Unlocked == todo = {}
Full(c) == Len(chan[c]) >= Capacity

\* The session is registered.  At most one client started it and holds it (handleRun);
\* the others attach (handleAttach).
SessionInit ==
    /\ state = "queued"
    /\ lines = 0
    /\ buffer = <<>>
    /\ finish = "no"
    /\ failed = FALSE
    /\ subs = {} /\ toClose = {} /\ todo = {} /\ closed = {}
    /\ chan = [c \in Clients |-> <<>>]
    /\ dropped = [c \in Clients |-> 0]
    /\ panicked = FALSE
    /\ named = "this"
    /\ found \in {f \in [Clients -> {"this", "nothing"}] :
                    \A c, d \in Clients : f[c] = "this" /\ f[d] = "this" => c = d}
    /\ phase = [c \in Clients |-> "away"]
    /\ joined = [c \in Clients |-> 0]
    /\ got = [c \in Clients |-> <<>>]
    /\ final = [c \in Clients |-> "none"]

-----------------------------------------------------------------------------
(* The worker's side: the pool's goroutine *)

\* The lease hook: a slot was leased for the session.
Started ==
    /\ Unlocked
    /\ state = "queued"
    /\ finish = "no"
    /\ state' = "running"
    /\ UNCHANGED <<lines, buffer, finish, failed, subs, toClose, todo, chan,
                   closed, dropped, panicked, named, streamVars>>

\* Line locks the mutex, records the line and turns to the subscribers.
LineRecord ==
    /\ Unlocked
    /\ state = "running"
    /\ lines < MaxLines
    /\ lines' = lines + 1
    /\ buffer' = Trim(Append(buffer, lines'))
    /\ todo' = subs
    /\ UNCHANGED <<state, finish, failed, subs, toClose, chan, closed, dropped,
                   panicked, named, streamVars>>

\* A send that does not block: taken if there is room, else the other branch.
Send(c, item) ==
    /\ chan' = [chan EXCEPT ![c] = Append(@, item)]
    /\ panicked' = (panicked \/ c \in closed)

\* Mutant of OfferGap: a line skipped while the channel is full is not counted.
OfferGapUncounted(c) ==
    /\ c \in todo
    /\ dropped[c] > 0
    /\ \/ /\ ~Full(c)
          /\ Send(c, Gap(dropped[c]))
          /\ dropped' = [dropped EXCEPT ![c] = 0]
          /\ UNCHANGED todo
       \/ Full(c) /\ todo' = todo \ {c} /\ UNCHANGED <<chan, panicked, dropped>>
    /\ UNCHANGED <<recordVars, finish, subs, toClose, closed, streamVars>>

\* Line at a subscriber that fell behind: flush the gap notice first, or count
\* this line as missed too.
OfferGap(c) ==
    /\ c \in todo
    /\ dropped[c] > 0
    /\ \/ /\ ~Full(c)
          /\ Send(c, Gap(dropped[c]))
          /\ dropped' = [dropped EXCEPT ![c] = 0]
          /\ UNCHANGED todo
       \/ /\ Full(c)
          /\ dropped' = [dropped EXCEPT ![c] = @ + 1]
          /\ todo' = todo \ {c}
          /\ UNCHANGED <<chan, panicked>>
    /\ UNCHANGED <<recordVars, finish, subs, toClose, closed, streamVars>>

\* Line at a subscriber that is not behind: deliver the line or count it.
OfferLine(c) ==
    /\ c \in todo
    /\ dropped[c] = 0
    /\ todo' = todo \ {c}
    /\ \/ ~Full(c) /\ Send(c, Line(lines)) /\ UNCHANGED dropped
       \/ Full(c) /\ dropped' = [dropped EXCEPT ![c] = 1] /\ UNCHANGED <<chan, panicked>>
    /\ UNCHANGED <<recordVars, finish, subs, toClose, closed, streamVars>>

\* Mutant of FinishRecord: the map keeps the subscribers finish will close.
FinishKeepsSubs ==
    /\ Unlocked
    /\ finish = "no"
    /\ finish' = "detached"
    /\ failed' \in {TRUE, state = "queued"}
    /\ state' = IF failed' THEN "failed" ELSE "done"
    /\ toClose' = subs
    /\ UNCHANGED <<lines, buffer, subs, todo, chan, closed, dropped, panicked, named,
                   streamVars>>

\* finish under the mutex: record the outcome and take the subscribers away.
\* A run that never got a slot finishes queued, and failed.
FinishRecord ==
    /\ Unlocked
    /\ finish = "no"
    /\ finish' = "detached"
    /\ failed' \in {TRUE, state = "queued"}
    /\ state' = IF failed' THEN "failed" ELSE "done"
    /\ toClose' = subs
    /\ subs' = {}
    /\ UNCHANGED <<lines, buffer, todo, chan, closed, dropped, panicked, named, streamVars>>

Close(c) ==
    /\ closed' = closed \union {c}
    /\ panicked' = (panicked \/ c \in closed)

\* finish, the mutex released, closes the channels it took one by one.
FinishClose(c) ==
    /\ c \in toClose
    /\ toClose' = toClose \ {c}
    /\ Close(c)
    /\ UNCHANGED <<recordVars, finish, subs, todo, chan, dropped, streamVars>>

FinishDone ==
    /\ finish = "detached"
    /\ toClose = {}
    /\ finish' = "done"
    /\ UNCHANGED <<recordVars, subs, toClose, todo, chan, closed, dropped,
                   panicked, streamVars>>

-----------------------------------------------------------------------------
(* The registry: what other sessions do to the entry of this one *)

\* pruneLocked, when another session starts and the registry is over its cap.
Evict ==
    /\ named = "this"
    /\ finish # "no"
    /\ named' = "nothing"
    /\ UNCHANGED <<state, lines, buffer, failed, finish, subs, toClose, todo, chan, closed,
                   dropped, panicked, streamVars>>

\* A session starts under the id that became free, or is evicted in its turn.
Rebind ==
    /\ named # "this"
    /\ named' \in {"nothing", "other"} \ {named}
    /\ UNCHANGED <<state, lines, buffer, failed, finish, subs, toClose, todo, chan, closed,
                   dropped, panicked, streamVars>>

-----------------------------------------------------------------------------
(* The client's side: Subscribe and the server's stream loop *)

\* Mutant of Subscribe: a finished session is not told apart.
SubscribeAlways(c) ==
    /\ Unlocked
    /\ phase[c] = "away"
    /\ phase' = [phase EXCEPT ![c] = IF found[c] = "this" THEN "streaming" ELSE "attached"]
    /\ joined' = [joined EXCEPT ![c] = lines]
    /\ subs' = subs \union {c}
    /\ UNCHANGED <<recordVars, finish, toClose, todo, chan, closed, dropped, panicked,
                   found, got, final>>

\* Subscribe: the history and, of an unfinished session, a live channel.  Manager.Attach
\* looked the session up when it was registered, which nothing has to be still true.
Subscribe(c) ==
    /\ Unlocked
    /\ phase[c] = "away"
    /\ phase' = [phase EXCEPT ![c] = IF found[c] = "this" THEN "streaming" ELSE "attached"]
    /\ joined' = [joined EXCEPT ![c] = lines]
    /\ IF finish # "no"
       THEN closed' = closed \union {c} /\ UNCHANGED subs
       ELSE subs' = subs \union {c} /\ UNCHANGED closed
    /\ UNCHANGED <<recordVars, finish, toClose, todo, chan, dropped, panicked,
                   found, got, final>>

\* handleAttach asks the registry for the session once more, for finishStream.
Get(c) ==
    /\ phase[c] = "attached"
    /\ found' = [found EXCEPT ![c] = named]
    /\ phase' = [phase EXCEPT ![c] = "streaming"]
    /\ UNCHANGED <<recordVars, finish, subs, toClose, todo, chan, closed, dropped,
                   panicked, joined, got, final>>

\* The stream loop takes an item and writes it to the client.
Receive(c) ==
    /\ phase[c] = "streaming"
    /\ chan[c] # <<>>
    /\ got' = [got EXCEPT ![c] = Append(@, Head(chan[c]))]
    /\ chan' = [chan EXCEPT ![c] = Tail(@)]
    /\ UNCHANGED <<recordVars, finish, subs, toClose, todo, closed, dropped,
                   panicked, phase, found, joined, final>>

\* finishStream: the error of the session it was handed; an end without one, and whatever
\* another session of the id says.
Verdicts(c) ==
    CASE found[c] = "this"    -> {IF failed THEN "error" ELSE "end"}
      [] found[c] = "nothing" -> {"end"}
      [] found[c] = "other"   -> {"end", "error"}

Told(c) == \E verdict \in Verdicts(c) : final' = [final EXCEPT ![c] = verdict]

\* Mutant of StreamEnds: the end of the session is taken for the end of the stream.
StreamEndsEarly(c) ==
    /\ phase[c] = "streaming"
    /\ finish # "no"
    /\ Told(c)
    /\ phase' = [phase EXCEPT ![c] = "leaving"]
    /\ chan' = [chan EXCEPT ![c] = <<>>]
    /\ UNCHANGED <<recordVars, finish, subs, toClose, todo, closed, dropped,
                   panicked, found, joined, got>>

\* The live channel is drained and closed: finishStream reports the outcome.
StreamEnds(c) ==
    /\ phase[c] = "streaming"
    /\ chan[c] = <<>>
    /\ c \in closed
    /\ Told(c)
    /\ phase' = [phase EXCEPT ![c] = "leaving"]
    /\ UNCHANGED <<recordVars, finish, subs, toClose, todo, chan, closed,
                   dropped, panicked, found, joined, got>>

\* A write fails, the client being gone; or the server shuts down, and says so in an
\* end frame of its own.
Disconnect(c) ==
    /\ phase[c] = "streaming"
    /\ phase' = [phase EXCEPT ![c] = "leaving"]
    /\ UNCHANGED <<recordVars, finish, subs, toClose, todo, chan, closed,
                   dropped, panicked, found, joined, got, final>>

\* The handler's deferred cancel: close the channel if it is still registered.
CancelSub(c) ==
    /\ Unlocked
    /\ phase[c] = "leaving"
    /\ phase' = [phase EXCEPT ![c] = "gone"]
    /\ IF c \in subs
       THEN subs' = subs \ {c} /\ Close(c)
       ELSE UNCHANGED <<subs, closed, panicked>>
    /\ UNCHANGED <<recordVars, finish, toClose, todo, chan, dropped, found, joined, got,
                   final>>

-----------------------------------------------------------------------------

WorkerStep ==
    \/ Started \/ LineRecord \/ FinishRecord \/ FinishDone
    \/ \E c \in Clients : OfferGap(c) \/ OfferLine(c) \/ FinishClose(c)

\* A client's handler, once it is subscribed.
StreamStep(c) == Get(c) \/ Receive(c) \/ StreamEnds(c) \/ CancelSub(c)

RegistryStep == Evict \/ Rebind

SessionNext ==
    \/ WorkerStep \/ RegistryStep
    \/ \E c \in Clients : Subscribe(c) \/ StreamStep(c) \/ Disconnect(c)

SessionSpec == SessionInit /\ [][SessionNext]_sessionVars

\* The worker's goroutine and the clients' handlers run; nobody has to start sessions.
FairSessionSpec ==
    /\ SessionSpec
    /\ WF_sessionVars(WorkerStep)
    /\ \A c \in Clients : WF_sessionVars(StreamStep(c))

-----------------------------------------------------------------------------
(* Properties *)

Items == [kind : {"line", "gap"}, n : 1..MaxLines]

SessionTypeOK ==
    /\ state \in {"queued", "running", "done", "failed"}
    /\ lines \in 0..MaxLines
    /\ buffer \in Seq(1..MaxLines) /\ Len(buffer) <= MaxBuffer
    /\ finish \in {"no", "detached", "done"}
    /\ failed \in BOOLEAN
    /\ subs \subseteq Clients /\ toClose \subseteq Clients
    /\ todo \subseteq subs
    /\ closed \subseteq Clients
    /\ \A c \in Clients : chan[c] \in Seq(Items) /\ Len(chan[c]) <= Capacity
    /\ dropped \in [Clients -> 0..MaxLines]
    /\ panicked \in BOOLEAN
    /\ named \in {"this", "nothing", "other"}
    /\ phase \in [Clients -> {"away", "attached", "streaming", "leaving", "gone"}]
    /\ found \in [Clients -> {"this", "nothing", "other"}]
    /\ joined \in [Clients -> 0..MaxLines]
    /\ \A c \in Clients : got[c] \in Seq(Items)
    /\ final \in [Clients -> {"none", "end", "error"}]

\* The comment of Line: holding the mutex keeps cancel and finish from closing a
\* channel in the middle of a send; nor do the two close the same channel.
NoPanic == ~panicked

\* Where an item takes a stream that has accounted for the first n lines; -1 once
\* a line is not the next one.
Accounts(n, item) ==
    CASE n = -1             -> -1
      [] item.kind = "gap"  -> n + item.n
      [] item.kind = "line" -> IF item.n = n + 1 THEN item.n ELSE -1

\* Where a stream stands after the items that follow its first n lines.
After(n, items) ==
    LET at[i \in 0..Len(items)] == IF i = 0 THEN n ELSE Accounts(at[i - 1], items[i])
    IN  at[Len(items)]

Accounted(c) == After(joined[c], got[c] \o chan[c])

\* A client that saw the end of the stream holds everything that was not dropped, of a
\* session that is over.  It was told how that one ended, or it attached and the registry
\* had evicted the session when handleAttach asked for it again (server.go:312): then the
\* frame is a plain end, or another session's outcome (FinalFrameIsItsOwn in DaemonServer).
FinalFrameTruthful ==
    \A c \in Clients : final[c] # "none" =>
        /\ finish # "no"
        /\ Accounted(c) + dropped[c] = lines
        /\ (final[c] = "error" <=> failed) \/ (found[c] # "this" /\ named # "this")

\* The ring holds the latest lines without a hole: what a late attach replays.
RingIsSuffix ==
    /\ Len(buffer) = IF lines < MaxBuffer THEN lines ELSE MaxBuffer
    /\ \A i \in 1..Len(buffer) : buffer[i] = lines - Len(buffer) + i

\* While a client is subscribed, its stream has every line since it attached, in
\* order and once, or counts it as missed: the items it got, the items in its
\* channel and the drop counter add up to the lines printed; and what the ring
\* replays to the next one is the end of the output (session.go Line, Subscribe).
StreamExact ==
    /\ SessionTypeOK
    /\ RingIsSuffix
    /\ \A c \in subs \union toClose :
           Accounted(c) + dropped[c] = IF c \in todo THEN lines - 1 ELSE lines

\* A client that stays is told the end, however slow it and the others were.
StreamsEnd ==
    \A c \in Clients : phase[c] \in {"attached", "streaming"} ~> phase[c] = "gone"

\* The comment on subscriber (session.go:62-63): the drop count is flushed "so a
\* lagging client learns its stream is incomplete instead of silently losing
\* output".
LagIsReported == \A c \in Clients : final[c] # "none" => dropped[c] = 0

\* The comment on gapNotice (session.go:72-73): "the full output remains
\* available via a fresh attach (which replays the buffer)".
FreshAttachHasAll == (\E c \in Clients : dropped[c] > 0) => Len(buffer) = lines

=============================================================================
