----------------------------- MODULE ExecSessions -----------------------------
(***************************************************************************)
(* The interactive commands of internal/tools/exec_command.go: a table of  *)
(* sessions shared by the agents of a process, the buffer that each child  *)
(* fills, the tool calls that start a session or poll it (exec_command,    *)
(* write_stdin), the eviction of sessions beyond the limit, and the user   *)
(* who stops them.  Output is a sequence of chunks; the first Chunks[s] of *)
(* a session are numbered, those after that are not and may go on forever. *)
(***************************************************************************)
EXTENDS Integers, Sequences, SequencesExt, FiniteSets

CONSTANTS Callers,    \* the agents
          MaxStarts,  \* bounds the sessions started
          MaxTable,   \* maxExecSessions
          Spare,      \* a table of at most Spare sessions evicts none that is alive
          BufferCap,  \* the chunks a buffer holds
          Chunks      \* of each session, the chunks told apart; a child with none is silent

ASSUME ExecAssumption ==
    /\ {MaxStarts, MaxTable, Spare, BufferCap} \subseteq Nat
    /\ Chunks \in [1..MaxStarts -> Nat]
    /\ MaxTable > 0 /\ BufferCap > 0

VARIABLES table,      \* the sessions that can be found by id
          used,       \* all sessions, the least recently used first
          proc,       \* of each session, how far its child and its Wait are
          cancelled,  \* the sessions whose context is cancelled
          data,       \* of each session, the chunks not yet drained
          written,    \* of each session, the numbered chunks so far
          truncated,  \* of each session, whether chunks were dropped since this was last asked
          notify,     \* of each session, whether its notify channel holds a token
          call,       \* of each caller, its tool call
          stopped,    \* the callers whose context is cancelled
          shown,      \* history: of each session, the chunks in the results of its calls
          dropped     \* history: of each session, the chunks dropped and not yet admitted

Ids == 1..MaxStarts
More == 0     \* a chunk without a number
Nobody == 0   \* no session

procVars == <<proc, cancelled>>
bufferVars == <<data, written, truncated, notify>>
tableVars == <<table, used>>
historyVars == <<shown, dropped>>
execVars == <<tableVars, procVars, bufferVars, call, stopped, historyVars>>

\* A call: where it is, on which session, whom it evicts, the chunks it has collected
\* and those it will admit were dropped, whether its deadline has passed and whether it has
\* seen the session done; and how far exec_command is ("first" collect, "ending" for the one after the agent's stop).
NoCall == [at |-> "idle", on |-> Nobody, prune |-> Nobody, got |-> {}, cut |-> {},
           late |-> FALSE, seen |-> FALSE, tends |-> "no"]

ExecInit ==
    /\ table = {} /\ used = <<>>
    /\ proc = [s \in Ids |-> "none"] /\ cancelled = {}
    /\ data = [s \in Ids |-> <<>>] /\ written = [s \in Ids |-> 0]
    /\ truncated = [s \in Ids |-> FALSE] /\ notify = [s \in Ids |-> FALSE]
    /\ call = [c \in Callers |-> NoCall]
    /\ stopped = {}
    /\ shown = [s \in Ids |-> {}] /\ dropped = [s \in Ids |-> {}]

Numbered(chunks) == ToSet(chunks) \ {More}

-----------------------------------------------------------------------------
(* The output buffer *)

\* A mutant: the buffer that is full drops what comes.
WriteDrops(s, chunk) ==
    /\ data' = [data EXCEPT ![s] = IF Len(@) < BufferCap THEN Append(@, chunk) ELSE @]
    /\ notify' = [notify EXCEPT ![s] = TRUE]
    /\ UNCHANGED <<truncated, dropped>>

\* What is too much is dropped at the front, and the drop is noted.
Write(s, chunk) ==
    LET all == Append(data[s], chunk)
        extra == Len(all) - BufferCap
    IN  /\ data' = [data EXCEPT ![s] = IF extra > 0 THEN SubSeq(all, extra + 1, Len(all)) ELSE all]
        /\ truncated' = [truncated EXCEPT ![s] = @ \/ extra > 0]
        /\ dropped' = [dropped EXCEPT ![s] = @ \union Numbered(SubSeq(all, 1, extra))]
        /\ notify' = [notify EXCEPT ![s] = TRUE]

\* The child prints, until it is gone.
Emit(s) ==
    /\ proc[s] \in {"starting", "running"}
    /\ Chunks[s] > 0
    /\ \/ /\ written[s] < Chunks[s]
          /\ written' = [written EXCEPT ![s] = @ + 1]
          /\ Write(s, written'[s])
       \/ /\ written[s] = Chunks[s]
          /\ Write(s, More)
          /\ UNCHANGED written
    /\ UNCHANGED <<tableVars, procVars, call, stopped, shown>>

-----------------------------------------------------------------------------
(* The child and the goroutines that wait for it *)

\* Wait returns when the output is copied (the join of the terminal's copy included).  Its
\* goroutine then sets the exit code and closes done, which no caller tells apart.
Exit(s) ==
    /\ proc[s] = "running"
    /\ proc' = [proc EXCEPT ![s] = "done"]
    /\ cancelled' = cancelled \union {s}
    /\ UNCHANGED <<tableVars, bufferVars, call, stopped, historyVars>>

\* A mutant: the goroutine that removes a session leaves when its context is cancelled.
RemoveUncancelled(s) ==
    /\ proc[s] = "done" /\ s \in table \ cancelled
    /\ table' = table \ {s}
    /\ UNCHANGED <<used, procVars, bufferVars, call, stopped, historyVars>>

\* removeCompletedLater, after the retention.
RemoveCompleted(s) ==
    /\ proc[s] = "done" /\ s \in table
    /\ table' = table \ {s}
    /\ UNCHANGED <<used, procVars, bufferVars, call, stopped, historyVars>>

-----------------------------------------------------------------------------
(* startSession and store *)

At(c, from, to) == call[c].at = from /\ call' = [call EXCEPT ![c].at = to]

\* The next id is taken and the child is started; if it cannot be, the call ends.
Launch(c) ==
    LET s == Len(used) + 1
    IN  /\ c \notin stopped /\ call[c].at = "idle" /\ s \in Ids
        /\ used' = Append(used, s)
        /\ \/ /\ proc' = [proc EXCEPT ![s] = "starting"]
              /\ call' = [call EXCEPT ![c] = [NoCall EXCEPT !.at = "store", !.on = s, !.tends = "first"]]
           \/ UNCHANGED <<proc, call>>
        /\ UNCHANGED <<table, cancelled, bufferVars, stopped, historyVars>>

\* The first of used that is one of some.
LeastRecent(some) ==
    used[CHOOSE i \in DOMAIN used : used[i] \in some /\ \A j \in 1..(i - 1) : used[j] \notin some]

\* sessionToPruneLocked: a session that is over, or else the one used least recently, if
\* there are many.
ToPrune ==
    LET over == {s \in table : proc[s] = "done"}
    IN  IF over # {} THEN LeastRecent(over)
        ELSE IF Cardinality(table) <= Spare THEN Nobody ELSE LeastRecent(table)

\* The session is entered; the one to prune is removed if it is over, and else evicted.
Store(c) ==
    LET pruned == IF Cardinality(table) >= MaxTable THEN ToPrune ELSE Nobody
        over == IF pruned # Nobody /\ proc[pruned] = "done" THEN {pruned} ELSE {}
        s == call[c].on
    IN  /\ call[c].at = "store"
        /\ table' = (table \ over) \union {s}
        /\ IF pruned # Nobody /\ over = {}
           THEN /\ call' = [call EXCEPT ![c].at = "evict", ![c].prune = pruned]
                /\ UNCHANGED proc
           ELSE /\ call' = [call EXCEPT ![c].at = "drain"]
                /\ proc' = [proc EXCEPT ![s] = "running"]
        /\ UNCHANGED <<used, cancelled, bufferVars, stopped, historyVars>>

\* It is told so, and its context is cancelled.
Evict(c) ==
    LET pruned == call[c].prune
    IN  /\ At(c, "evict", "drain")
        /\ Write(pruned, More)
        /\ cancelled' = cancelled \union {pruned}
        /\ proc' = [proc EXCEPT ![call[c].on] = "running"]
        /\ UNCHANGED <<tableVars, written, stopped, shown>>

-----------------------------------------------------------------------------
(* write_stdin: a poll, or an interrupt *)

Touched(s) == Append(RemoveFirst(used, s), s)

Poll(c) ==
    \E s \in table, interrupt \in BOOLEAN :
        /\ c \notin stopped /\ call[c].at = "idle"
        /\ used' = Touched(s)
        /\ cancelled' = IF interrupt THEN cancelled \union {s} ELSE cancelled
        /\ call' = [call EXCEPT ![c] = [NoCall EXCEPT !.at = "drain", !.on = s]]
        /\ UNCHANGED <<table, proc, bufferVars, stopped, historyVars>>

-----------------------------------------------------------------------------
(* collect *)

\* A mutant: after a chunk the deadline is not looked at.
OnwardAlways(c) == "drain"

\* After a chunk: another one, unless the deadline has passed.
Onward(c) == IF call[c].late THEN "finish" ELSE "drain"

\* The whole buffer is taken.
Drain(c) ==
    LET s == call[c].on
    IN  /\ call[c].at = "drain"
        /\ call' = [call EXCEPT ![c].got = @ \union Numbered(data[s]),
                               ![c].at = IF data[s] # <<>> THEN "admit" ELSE "check"]
        /\ data' = [data EXCEPT ![s] = <<>>]
        /\ UNCHANGED <<tableVars, procVars, written, truncated, notify, stopped, historyVars>>

\* consumeTruncated: what was dropped so far will be admitted.
Admit(c, to) ==
    LET s == call[c].on
    IN  /\ call' = [call EXCEPT ![c].cut = IF truncated[s] THEN @ \union dropped[s] ELSE @,
                               ![c].at = to]
        /\ dropped' = IF truncated[s] THEN [dropped EXCEPT ![s] = {}] ELSE dropped
        /\ truncated' = [truncated EXCEPT ![s] = FALSE]
        /\ UNCHANGED <<tableVars, procVars, data, written, notify, stopped, shown>>

AdmitDrop(c) == call[c].at = "admit" /\ Admit(c, Onward(c))

\* A mutant: a session that is done is not drained again.
CheckTakesNoMore(c) ==
    LET s == call[c].on
    IN  /\ call[c].at = "check"
        /\ call' = [call EXCEPT ![c].seen = proc[s] = "done",
                               ![c].at = IF proc[s] = "done" \/ call[c].late THEN "finish"
                                         ELSE "wait"]
        /\ UNCHANGED <<tableVars, procVars, bufferVars, stopped, historyVars>>

\* Nothing was there: the session may be done, or the deadline has passed.
Check(c) ==
    LET s == call[c].on
    IN  /\ call[c].at = "check"
        /\ call' = [call EXCEPT ![c].seen = proc[s] = "done",
                               ![c].at = CASE proc[s] = "done" -> "rest"
                                           [] proc[s] # "done" /\ call[c].late -> "finish"
                                           [] OTHER -> "wait"]
        /\ UNCHANGED <<tableVars, procVars, bufferVars, stopped, historyVars>>

\* What came before it was done.
Rest(c) ==
    LET s == call[c].on
    IN  /\ call[c].at = "rest"
        /\ call' = [call EXCEPT ![c].got = @ \union Numbered(data[s]), ![c].at = "finish"]
        /\ data' = [data EXCEPT ![s] = <<>>]
        /\ UNCHANGED <<tableVars, procVars, written, truncated, notify, stopped, historyVars>>

\* The select: a chunk, the end of the session, the deadline, or the caller's context, which
\* the second collect of exec_command does not have.
Hears(c) == c \in stopped /\ call[c].tends # "ending"

Select(c) ==
    LET s == call[c].on
    IN  /\ call[c].at = "wait"
        /\ \/ /\ notify[s]
              /\ notify' = [notify EXCEPT ![s] = FALSE]
              /\ At(c, "wait", "drain")
           \/ /\ proc[s] = "done"
              /\ At(c, "wait", "drain")
              /\ UNCHANGED notify
           \/ /\ Hears(c) \/ call[c].late
              /\ At(c, "wait", "finish")
              /\ UNCHANGED notify
        /\ UNCHANGED <<tableVars, procVars, data, written, truncated, stopped, historyVars>>

Finish(c) == call[c].at = "finish" /\ Admit(c, "ended")

\* Time passes.
Deadline(c) ==
    /\ call[c].at \in {"drain", "admit", "check", "rest", "wait", "finish"}
    /\ ~call[c].late
    /\ call' = [call EXCEPT ![c].late = TRUE]
    /\ UNCHANGED <<tableVars, procVars, bufferVars, stopped, historyVars>>

-----------------------------------------------------------------------------
(* The results *)

\* exec_command: the agent was stopped meanwhile, so the session is terminated and its
\* output collected for another second.
Terminate(c) ==
    LET s == call[c].on
    IN  /\ call[c].at = "ended" /\ call[c].tends = "first"
        /\ c \in stopped /\ proc[s] # "done"
        /\ cancelled' = cancelled \union {s}
        /\ call' = [call EXCEPT ![c].at = "drain", ![c].tends = "ending", ![c].late = FALSE]
        /\ UNCHANGED <<tableVars, proc, bufferVars, stopped, historyVars>>

\* Whether the child has exited is asked after the collect; a session that has is removed.
Report(c) ==
    LET s == call[c].on
        exited == proc[s] = "done"
    IN  /\ call[c].at = "ended"
        /\ call[c].tends = "first" => c \notin stopped \/ proc[s] = "done"
        /\ table' = IF exited THEN table \ {s} ELSE table
        /\ shown' = [shown EXCEPT ![s] = @ \union call[c].got \union call[c].cut]
        /\ call' = [call EXCEPT ![c] = NoCall]
        /\ UNCHANGED <<used, procVars, bufferVars, stopped, dropped>>

-----------------------------------------------------------------------------
(* The user *)

\* A terminal is stopped, alone or with all the others.
Stop(s) ==
    /\ s \in table \ cancelled
    /\ cancelled' = cancelled \union {s}
    /\ UNCHANGED <<tableVars, proc, bufferVars, call, stopped, historyVars>>

\* The context of an agent's calls is cancelled: it makes no more of them.
CancelAgent(c) ==
    /\ c \notin stopped
    /\ stopped' = stopped \union {c}
    /\ UNCHANGED <<tableVars, procVars, bufferVars, call, historyVars>>

-----------------------------------------------------------------------------

CallStep(c) ==
    \/ Store(c) \/ Evict(c) \/ Drain(c) \/ AdmitDrop(c) \/ Check(c) \/ Rest(c) \/ Select(c)
    \/ Finish(c) \/ Terminate(c) \/ Report(c)

ExecNext ==
    \/ \E c \in Callers : Launch(c) \/ Poll(c) \/ CallStep(c) \/ Deadline(c) \/ CancelAgent(c)
    \/ \E s \in Ids : Emit(s) \/ Exit(s) \/ RemoveCompleted(s) \/ Stop(s)

ExecSpec == ExecInit /\ [][ExecNext]_execVars

\* Goroutines run, timers fire, and a child that is killed ends.
ExecFairness ==
    /\ \A c \in Callers : WF_execVars(CallStep(c)) /\ WF_execVars(Deadline(c))
    /\ \A s \in Ids : WF_execVars(s \in cancelled /\ Exit(s)) /\ WF_execVars(RemoveCompleted(s))

FairExecSpec == ExecSpec /\ ExecFairness

-----------------------------------------------------------------------------
(* Properties *)

\* Types; a session that can be found has a child, and a call that collects is on one.
ExecTypeOK ==
    /\ table \subseteq {s \in Ids : proc[s] # "none"}
    /\ IsInjective(used) /\ ToSet(used) = 1..Len(used) /\ Len(used) <= MaxStarts
    /\ proc \in [Ids -> {"none", "starting", "running", "done"}]
    /\ cancelled \subseteq {s \in Ids : proc[s] # "none"} /\ stopped \subseteq Callers
    /\ \A s \in Ids : Len(data[s]) <= BufferCap /\ (data[s] # <<>> => proc[s] # "none")
    /\ \A s \in Ids : written[s] \in 0..Chunks[s]
    /\ truncated \in [Ids -> BOOLEAN] /\ notify \in [Ids -> BOOLEAN]
    /\ \A c \in Callers : call[c].at # "idle" => proc[call[c].on] # "none"

\* exec_command.go:539 adds the output of the second collect to the first, and the buffer
\* drops at the front only: each chunk is in one place, shown, collected, in the buffer or
\* dropped with the drop to be admitted, and the buffer is in order.
ChunksConserved ==
    /\ ExecTypeOK
    /\ \A s \in Ids :
        LET held(c) == IF call[c].on = s THEN call[c].got \union call[c].cut ELSE {}
            parts == <<shown[s], Numbered(data[s]), dropped[s]>>
        IN  /\ 1..written[s] = UNION (ToSet(parts) \union {held(c) : c \in Callers})
            /\ \A i \in DOMAIN parts : \A j \in DOMAIN parts :
                   i # j => parts[i] \intersect parts[j] = {}
            /\ \A c \in Callers, i \in DOMAIN parts : held(c) \intersect parts[i] = {}
            /\ dropped[s] # {} => truncated[s]
            /\ \A i, j \in DOMAIN data[s] :
                   i < j => data[s][i] < data[s][j] \/ data[s][j] = More

\* A call that has seen the session done shows the rest of its output, or admits what was
\* dropped, before the session is removed, but for what another call on it has collected and
\* will show (the double drain of collect).
FinalResultComplete ==
    [][\A c \in Callers :
           LET s == call[c].on
               others == {d \in Callers \ {c} : call[d].on = s}
           IN  call[c].seen /\ call'[c].at = "idle" =>
                   1..written[s] \subseteq
                       shown'[s] \union UNION {call[d].got \union call[d].cut : d \in others}]_execVars

\* Refuted: a call that reports the exit of the child shows the rest of its output
\* (exec_pty_linux.go:41-46: "otherwise a command's final output chunk ... can be lost on
\* exit").  The child may print and exit after the collect, before it is asked for.
ExitShowsOutput ==
    [][\A c \in Callers : LET s == call[c].on IN
           call[c].at = "ended" /\ call'[c].at = "idle" /\ proc[s] = "done" =>
               shown'[s] = 1..written[s]]_execVars

\* Refuted, with a third start: the table never holds more sessions than its limit but for
\* those being evicted.  One that is evicted is chosen again until it is gone.
TableBounded ==
    LET evicted == cancelled \union {call[c].prune : c \in Callers}
    IN  Cardinality({s \in table \ evicted : proc[s] # "done"}) <= MaxTable

\* A call returns by its deadline even if the child never stops printing (exec_command.go:634-639).
CallsReturn == \A c \in Callers : call[c].at # "idle" ~> call[c].at = "idle"

\* A session that is stopped, evicted or over leaves the table.
StoppedSessionsGo == \A s \in Ids : s \in cancelled ~> s \notin table

\* Nothing lingers: neither a call behind a child that keeps printing nor a dead session.
NothingLingers == CallsReturn /\ StoppedSessionsGo
=============================================================================
