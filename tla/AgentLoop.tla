------------------------------ MODULE AgentLoop ------------------------------
(***************************************************************************)
(* The agent loop (internal/agent/loop.go, Run): a bounded number of turns, *)
(* each of which may compact the history, sends it to the model, recovers   *)
(* from a failed or stalled stream, records the reply and executes its tool *)
(* calls; the completion gate and the guards decide when the run ends.  The *)
(* model, the tools and the cancellation of the context are the             *)
(* environment: they choose nondeterministically.  One action is one call   *)
(* the loop makes to them, with all the code up to the next.                *)
(***************************************************************************)
EXTENDS Integers, Sequences, FiniteSetsExt

CONSTANTS MaxTurns,        \* Options.MaxTurns
          MaxCalls,        \* bound: tool calls of one reply
          MaxNotes,        \* bound: user messages added after a batch, unless more are due
          PreserveLast,    \* Options.CompactionPreserveLast
          MaxStallRetries, \* maxStreamStallRetries
          MaxEmptyTurns,   \* maxEmptyTurns
          MaxNudges,       \* maxContinueNudges
          HintAt, StopAt   \* toolFailureHintAt, toolFailureStopAt

ASSUME AgentAssumption ==
    /\ MaxTurns \in Nat \ {0} /\ MaxCalls \in Nat /\ MaxNotes \in Nat /\ PreserveLast \in Nat \ {0}
    /\ MaxStallRetries \in Nat /\ MaxEmptyTurns \in Nat \ {0} /\ MaxNudges \in Nat
    /\ HintAt \in Nat \ {0} /\ StopAt \in Nat /\ HintAt < StopAt

VARIABLES pc,          \* what the loop does next
          options,     \* Options.RequireCompletionSignal and Options.SelfCorrect
          cancelled,   \* the run's context is cancelled
          messages,    \* the history
          turn,        \* result.Turns
          collected,   \* the collected stream of this turn
          visible,     \* forwardedVisibleText
          retries,     \* stall retries of this turn
          site,        \* the call of recoverStreamError: before or after the retries
          reactive,    \* compactor.reactiveAttempted
          emptyTurns,  \* guards.emptyTurns
          planPending, \* guards.planItemsPending > 0
          nudges,      \* continueNudges
          accepted,    \* acceptanceRequested
          index,       \* the tool call to execute next
          failures,    \* the failure streak of one tool, with one error
          hint,        \* failureHint # ""
          prose,       \* streams of this turn whose prose the user saw
          late,        \* tools executed under a cancelled context
          result       \* what Run returned

requestVars == <<collected, visible, retries, site, prose>>
guardVars == <<emptyTurns, planPending, nudges, accepted, failures>>
batchVars == <<index, hint, late>>
agentVars == <<pc, options, cancelled, messages, turn, requestVars, reactive,
               guardVars, batchVars, result>>

-----------------------------------------------------------------------------
(* The history *)

System     == [role |-> "system", id |-> 0, n |-> 0]
User       == [role |-> "user", id |-> 0, n |-> 0]
Summary    == [role |-> "user", id |-> 0, n |-> 1]
Reply(t, n) == [role |-> "assistant", id |-> t, n |-> n]  \* n tool calls
ToolResult(t, i) == [role |-> "tool", id |-> t, n |-> i]  \* of the i-th call

Users(k) == [i \in 1..k |-> User]

\* Results for the calls from..n of the reply of turn t.
Results(t, from, n) == [i \in 1..(n - from + 1) |-> ToolResult(t, from + i - 1)]

\* safeSuffixBoundary: how many messages precede the preserved suffix, which
\* starts at a reply; 1, the system message, if there is none to start at.
SafeBoundary(ms) ==
    Max({1} \union {b \in 1..(Len(ms) - PreserveLast) : ms[b + 1].role = "assistant"})

\* CompactMessages: the messages between the system's and the suffix, if any,
\* become one summary.
HasMiddle(ms) == SafeBoundary(ms) > 1
Compact(ms) == <<System, Summary>> \o SubSeq(ms, SafeBoundary(ms) + 1, Len(ms))

-----------------------------------------------------------------------------
(* The model's streams *)

Texts == {"none", "blank", "plain", "cue", "admit"}
Blank == {"none", "blank"}
Errors == {"none", "image", "limit", "stall", "other", "ctx"}

\* What the words of a reply say matters only of one without error and calls; the
\* calls of a stream that ends in an error are never looked at.
Streams == [text : Texts, calls : {0}, dropped : BOOLEAN, err : {"none"}]
           \union [text : {"none", "plain"}, calls : 1..MaxCalls, dropped : BOOLEAN, err : {"none"}]
           \union [text : {"none", "plain"}, calls : {0}, dropped : {FALSE}, err : Errors \ {"none"}]
NoStream == [text |-> "none", calls |-> 0, dropped |-> FALSE, err |-> "none"]

\* What a stream may amount to: only a cancelled context ends it as such.
StreamOf(s) == s \in Streams /\ (s.err = "ctx" => cancelled)

AgentInit ==
    /\ pc = "turn"
    /\ options \in [gate : BOOLEAN, selfCorrect : BOOLEAN]
    /\ cancelled = FALSE
    /\ messages = <<System, User>>
    /\ turn = 0
    /\ collected = NoStream /\ visible = FALSE /\ retries = 0 /\ site = "before" /\ prose = 0
    /\ reactive = FALSE
    /\ emptyTurns = 0 /\ planPending = FALSE /\ nudges = 0 /\ accepted = FALSE /\ failures = 0
    /\ index = 1 /\ hint = FALSE /\ late = 0
    /\ result = [kind |-> "none", err |-> "none", incomplete |-> FALSE, messages |-> <<>>]

\* Run returns.
Return(kind, err, incomplete, ms) ==
    /\ pc' = "done"
    /\ result' = [kind |-> kind, err |-> err, incomplete |-> incomplete, messages |-> ms]

ReturnError(err, ms) == Return("error", err, FALSE, ms)

Cancel ==
    /\ pc # "done"
    /\ ~cancelled
    /\ cancelled' = TRUE
    /\ UNCHANGED <<pc, options, messages, turn, requestVars, reactive, guardVars,
                   batchVars, result>>

\* What errors.New makes of a stream's error: of the context's, no more than its text.
ErrorText(e) == IF e = "ctx" THEN "ctxText" ELSE e

-----------------------------------------------------------------------------
(* Request *)

\* The head of the loop, and maybeCompact: the history may be over its threshold,
\* the summarizer may succeed, and the summary may be shorter.
StartTurn ==
    /\ pc = "turn"
    /\ IF turn = MaxTurns
       THEN pc' = "ceiling" /\ UNCHANGED <<turn, messages>>
       ELSE /\ pc' = "connect"
            /\ turn' = turn + 1
            /\ \/ UNCHANGED messages
               \/ HasMiddle(messages) /\ messages' = Compact(messages)
    /\ collected' = NoStream /\ visible' = FALSE /\ retries' = 0
    /\ site' = "before" /\ prose' = 0 /\ index' = 1 /\ hint' = FALSE
    /\ UNCHANGED <<options, cancelled, reactive, guardVars, late, result>>

\* compactor.recover on error e, once in a run: the history is compacted and the
\* caller reissues, or the summarizer fails and the run ends.  A caller may also
\* be left its error: another kind of error, no middle, or a longer summary.
Recover(e, then) ==
    /\ e = "limit"
    /\ ~reactive
    /\ HasMiddle(messages)
    /\ reactive' = TRUE
    /\ \/ messages' = Compact(messages) /\ pc' = then /\ UNCHANGED result
       \/ ReturnError("summary", messages) /\ UNCHANGED messages

\* streamWithReconnect fails, its retries of the connect included.
ConnectError(e) == e \in {"image", "limit", "other", "ctx"} /\ (e = "ctx" => cancelled)

Connect ==
    /\ pc = "connect"
    /\ \/ pc' = "collect" /\ UNCHANGED <<messages, reactive, result>>
       \/ \E e \in Errors : /\ ConnectError(e)
                            /\ \/ Recover(e, "reconnect")
                               \/ ReturnError(e, messages) /\ UNCHANGED <<messages, reactive>>
    /\ UNCHANGED <<options, cancelled, turn, requestVars, guardVars, batchVars>>

\* The request is made again with the compacted history.
Reconnect ==
    /\ pc = "reconnect"
    /\ \/ pc' = "collect" /\ UNCHANGED result
       \/ \E e \in Errors : ConnectError(e) /\ ReturnError(e, messages)
    /\ UNCHANGED <<options, cancelled, messages, turn, requestVars, reactive,
                   guardVars, batchVars>>

\* A stream collected under the callbacks that show its prose to the user.
Forwarded(s) ==
    /\ collected' = s
    /\ visible' = (visible \/ s.text # "none")
    /\ prose' = prose + (IF s.text # "none" THEN 1 ELSE 0)

\* The stream is collected, and recoverStreamError sees its error.
Collect ==
    /\ pc = "collect"
    /\ \E s \in Streams :
          /\ StreamOf(s)
          /\ Forwarded(s)
          /\ \/ s.err = "image" /\ ReturnError("image", messages) /\ UNCHANGED <<messages, reactive>>
             \/ Recover(s.err, "reissue")
             \/ s.err # "image" /\ pc' = "check" /\ UNCHANGED <<messages, reactive, result>>
    /\ UNCHANGED <<options, cancelled, turn, retries, site, guardVars, batchVars>>

\* recoverStreamError reissues the request, without callbacks.
Reissue ==
    /\ pc = "reissue"
    /\ \/ /\ \E s \in Streams : StreamOf(s) /\ collected' = s
          /\ IF site = "before" THEN pc' = "check" /\ UNCHANGED result
             ELSE IF collected'.err = "none" THEN pc' = "commit" /\ UNCHANGED result
             ELSE ReturnError(ErrorText(collected'.err), messages)
       \/ /\ \E e \in Errors : ConnectError(e) /\ ReturnError(e, messages)
          /\ UNCHANGED collected
    /\ UNCHANGED <<options, cancelled, messages, turn, visible, retries, site, prose,
                   reactive, guardVars, batchVars>>

\* The check of the context between the first recovery and the stall retries.
CheckContext ==
    /\ pc = "check"
    /\ IF cancelled
       THEN ReturnError("ctx", messages)
       ELSE pc' = "settle" /\ UNCHANGED result
    /\ UNCHANGED <<options, cancelled, messages, turn, requestVars, reactive,
                   guardVars, batchVars>>

\* Mutant of MayRetry: prose the user saw does not stand in the way.
MayRetryAlways == retries < MaxStallRetries /\ collected.err = "stall"

\* The condition of the stall loop.
MayRetry ==
    /\ retries < MaxStallRetries
    /\ collected.err = "stall"
    /\ ~visible
    /\ collected.text = "none"

\* Mutant of StallRetry: the turn starts over, and with it the count.
StallRetryAnew ==
    /\ pc = "settle"
    /\ MayRetry
    /\ pc' = "collect"
    /\ UNCHANGED <<options, cancelled, messages, turn, requestVars, reactive,
                   guardVars, batchVars, result>>

\* A stall that showed nothing: sleep, then the same request on a fresh stream.
StallRetry ==
    /\ pc = "settle"
    /\ MayRetry
    /\ retries' = retries + 1
    /\ \/ cancelled /\ ReturnError("ctx", messages) /\ UNCHANGED <<collected, visible, prose>>
       \/ /\ \E e \in Errors : ConnectError(e) /\ ReturnError(e, messages)
          /\ UNCHANGED <<collected, visible, prose>>
       \/ \E s \in Streams : StreamOf(s) /\ Forwarded(s) /\ UNCHANGED <<pc, result>>
    /\ UNCHANGED <<options, cancelled, messages, turn, site, reactive, guardVars, batchVars>>

\* After the retries: recoverStreamError once more, on an error that is left.
Settle ==
    /\ pc = "settle"
    /\ ~MayRetry
    /\ site' = "after"
    /\ \/ collected.err = "none" /\ pc' = "commit" /\ UNCHANGED <<messages, reactive, result>>
       \/ Recover(collected.err, "reissue")
       \/ /\ collected.err # "none"
          /\ ReturnError(ErrorText(collected.err), messages)
          /\ UNCHANGED <<messages, reactive>>
    /\ UNCHANGED <<options, cancelled, turn, collected, visible, retries, prose,
                   guardVars, batchVars>>

-----------------------------------------------------------------------------
(* A reply without tool calls *)

Said == Append(messages, Reply(turn, 0))
SaidAndTold == Said \o Users(1)

NextTurn(ms) == pc' = "turn" /\ messages' = ms /\ UNCHANGED result
Answer(kind, incomplete) == Return(kind, "none", incomplete, Said) /\ messages' = Said

\* The model meant a tool call that was dropped as malformed.
ReplyDropped ==
    /\ pc = "commit"
    /\ collected.calls = 0
    /\ collected.dropped
    /\ NextTurn(SaidAndTold)
    /\ UNCHANGED <<options, cancelled, turn, requestVars, reactive, guardVars, batchVars>>

\* Neither text nor calls: a nudge, until too many in a row end the run.
ReplyEmpty ==
    /\ pc = "commit"
    /\ collected.calls = 0 /\ ~collected.dropped /\ collected.text \in Blank
    /\ emptyTurns' = emptyTurns + 1
    /\ IF emptyTurns' >= MaxEmptyTurns THEN Answer("noOutput", FALSE) ELSE NextTurn(SaidAndTold)
    /\ UNCHANGED <<options, cancelled, turn, requestVars, reactive, planPending, nudges,
                   accepted, failures, batchVars>>

Answering ==
    /\ pc = "commit"
    /\ collected.calls = 0 /\ ~collected.dropped /\ collected.text \notin Blank
    /\ emptyTurns' = 0
    /\ UNCHANGED <<options, cancelled, turn, requestVars, reactive, planPending,
                   failures, batchVars>>

Admits == collected.text = "admit"
Unfinished == collected.text = "cue" \/ planPending

\* The completion gate sends a reply that leaves work open back to the model.
MayNudge == options.gate /\ ~Admits /\ Unfinished /\ nudges < MaxNudges

GateNudges ==
    /\ Answering
    /\ MayNudge
    /\ nudges' = nudges + 1
    /\ NextTurn(SaidAndTold)
    /\ UNCHANGED accepted

\* The gate gives up on the reply: an admission, or a cue past the budget.
GateFails == options.gate /\ (Admits \/ (collected.text = "cue" /\ ~MayNudge))

GateIncomplete ==
    /\ Answering
    /\ GateFails
    /\ Answer("answer", TRUE)
    /\ UNCHANGED <<nudges, accepted>>

MayAccept == options.gate /\ ~MayNudge /\ ~GateFails /\ options.selfCorrect /\ ~accepted

\* The one acceptance check before a success.
GateDemandsCheck ==
    /\ Answering
    /\ MayAccept
    /\ accepted' = TRUE
    /\ NextTurn(SaidAndTold)
    /\ UNCHANGED nudges

\* Mutant of FinalAnswer: the gate looks at nothing but the acceptance check.
FinalAnswerUngated ==
    /\ Answering
    /\ ~MayNudge /\ ~MayAccept
    /\ Answer("answer", FALSE)
    /\ UNCHANGED <<nudges, accepted>>

FinalAnswer ==
    /\ Answering
    /\ ~MayNudge /\ ~GateFails /\ ~MayAccept
    /\ Answer("answer", FALSE)
    /\ UNCHANGED <<nudges, accepted>>

-----------------------------------------------------------------------------
(* A batch of tool calls *)

\* The reply is recorded with its calls; the guards observe the turn, which may
\* hold an update of the plan.
BeginBatch ==
    /\ pc = "commit"
    /\ collected.calls > 0
    /\ messages' = Append(messages, Reply(turn, collected.calls))
    /\ emptyTurns' = 0
    /\ planPending' \in BOOLEAN
    /\ pc' = "call"
    /\ UNCHANGED <<options, cancelled, turn, requestVars, reactive, nudges, accepted,
                   failures, batchVars, result>>

\* What observeToolResult makes of a result: the streak of the watched tool with
\* the watched error grows, starts over, is cleared, or is not concerned.
Streaks == {failures, failures + 1, 1, 0}

\* Mutant of Aborted: the calls that did not run are left without a result.
AbortedUnanswered(ms) == ms

\* appendAbortedToolResults for the calls after the one that ended the batch.
Aborted(ms) == ms \o Results(turn, index + 1, collected.calls)

\* The tool demands it, or the context is found cancelled after the tool.
MustAbort(aborts) == aborts \/ cancelled

\* A tool runs: its result is recorded, and may end the run; so do a cancelled
\* context and a tool that keeps failing.
ToolCall ==
    /\ pc = "call"
    /\ late' = late + (IF cancelled THEN 1 ELSE 0)
    /\ \E aborts, stops \in BOOLEAN, streak \in Streaks :
          LET ms == Append(messages, ToolResult(turn, index))
          IN  IF MustAbort(aborts)
              THEN /\ messages' = Aborted(ms)
                   /\ ReturnError(IF aborts THEN "tool" ELSE "ctx", messages')
                   /\ UNCHANGED <<failures, index, hint>>
              ELSE IF stops
              THEN /\ messages' = Aborted(ms)
                   /\ Return("review", "none", FALSE, messages')
                   /\ UNCHANGED <<failures, index, hint>>
              ELSE /\ failures' = streak
                   /\ IF streak > failures /\ streak >= StopAt
                      THEN /\ messages' = Aborted(ms)
                           /\ Return("failures", "none", FALSE, messages')
                           /\ UNCHANGED <<index, hint>>
                      ELSE /\ messages' = ms
                           /\ hint' = (hint \/ (streak = HintAt /\ streak > failures))
                           /\ index' = index + 1
                           /\ pc' = IF index = collected.calls THEN "after" ELSE "call"
                           /\ UNCHANGED result
    /\ UNCHANGED <<options, cancelled, turn, requestVars, reactive, emptyTurns,
                   planPending, nudges, accepted>>

\* The user messages due after a batch (the notice of a dropped call, the failure
\* hint) and those that may be (self-correction feedback, the note of a failed
\* model switch, in place of the hint a reminder).
Due == (IF collected.dropped THEN 1 ELSE 0) + (IF hint THEN 1 ELSE 0)
Optional == (IF options.selfCorrect THEN 1 ELSE 0) + 1 + (IF hint THEN 0 ELSE 1)

\* After the batch.
EndBatch ==
    /\ pc = "after"
    /\ \E k \in Due..Max({Due, MaxNotes}) : k <= Due + Optional /\ NextTurn(messages \o Users(k))
    /\ UNCHANGED <<options, cancelled, turn, requestVars, reactive, guardVars, batchVars>>

\* The ceiling of turns: finalAnswerAfterMaxTurns asks for a last answer.
Ceiling ==
    /\ pc = "ceiling"
    /\ \/ cancelled /\ ReturnError("ctx", messages)
       \/ ~cancelled /\ Return("ceiling", "none", options.gate, messages)
       \/ ~cancelled /\ Return("ceiling", "none", options.gate,
                               Append(messages \o Users(1), Reply(turn + 1, 0)))
    /\ UNCHANGED <<options, cancelled, messages, turn, requestVars, reactive,
                   guardVars, batchVars>>

-----------------------------------------------------------------------------

LoopStep ==
    \/ StartTurn \/ Connect \/ Reconnect \/ Collect \/ Reissue \/ CheckContext
    \/ StallRetry \/ Settle
    \/ ReplyDropped \/ ReplyEmpty \/ GateNudges \/ GateIncomplete \/ GateDemandsCheck
    \/ FinalAnswer \/ BeginBatch \/ ToolCall \/ EndBatch \/ Ceiling

AgentNext == LoopStep \/ Cancel

AgentSpec == AgentInit /\ [][AgentNext]_agentVars

\* Streams end (the providers time an idle one out), and tools return.
FairAgentSpec == AgentSpec /\ WF_agentVars(LoopStep)

-----------------------------------------------------------------------------
(* Properties *)

Message == [role : {"system", "user", "assistant", "tool"},
            id : 0..(MaxTurns + 1), n : 0..(MaxCalls + 1)]

AgentTypeOK ==
    /\ pc \in {"turn", "connect", "reconnect", "collect", "reissue", "check", "settle",
               "commit", "call", "after", "ceiling", "done"}
    /\ options \in [gate : BOOLEAN, selfCorrect : BOOLEAN]
    /\ cancelled \in BOOLEAN
    /\ messages \in Seq(Message)
    /\ turn \in 0..MaxTurns
    /\ collected \in Streams
    /\ visible \in BOOLEAN /\ retries \in 0..MaxStallRetries /\ site \in {"before", "after"}
    /\ reactive \in BOOLEAN
    /\ emptyTurns \in 0..MaxEmptyTurns
    /\ planPending \in BOOLEAN /\ nudges \in 0..MaxNudges /\ accepted \in BOOLEAN
    /\ index \in 1..(MaxCalls + 1)
    /\ failures \in 0..StopAt /\ hint \in BOOLEAN
    /\ prose \in Nat /\ late \in Nat
    /\ result.messages \in Seq(Message)

\* Every call a reply advertises is followed by its result, in order and without
\* another message in between, and no result stands without its call.
Answered(ms) ==
    /\ \A k \in DOMAIN ms : ms[k].role = "assistant" =>
          /\ k + ms[k].n <= Len(ms)
          /\ \A i \in 1..ms[k].n : ms[k + i] = ToolResult(ms[k].id, i)
    /\ \A k \in DOMAIN ms : ms[k].role = "tool" =>
          /\ k > ms[k].n
          /\ LET r == ms[k - ms[k].n]
             IN r.role = "assistant" /\ r.id = ms[k].id /\ ms[k].n <= r.n

\* compaction.go safeSuffixBoundary: what follows a summary is a reply, so that a
\* compaction never puts two user messages in a row; and there is one summary.
SummaryAlternates ==
    \A k \in DOMAIN messages : messages[k] = Summary =>
        k = 2 /\ k < Len(messages) /\ messages[k + 1].role = "assistant"

\* Every request sent and every history returned can be replayed to a strict
\* provider: through aborts, stops, halts and compactions (loop.go, the comments
\* on the aborted placeholders; compaction.go, Compact).  A cancellation answers the
\* rest of a batch: at most one more tool is executed.
TranscriptValid ==
    /\ AgentTypeOK
    /\ SummaryAlternates
    /\ pc \in {"connect", "reconnect", "collect", "reissue", "settle"} => Answered(messages)
    /\ pc = "done" => Answered(result.messages)
    /\ late <= 1

\* The text of a turn is shown to the user by one stream only, whatever stalls,
\* reconnects and compactions happen on the way (the comment on the stall retry).
ProseOnce == prose <= 1

\* Under the completion gate a success is never a reply that ends mid-step or
\* admits defeat, nor one the acceptance check did not precede; and a run is
\* marked incomplete for one of the documented reasons only.
GateHolds ==
    pc = "done" =>
        /\ result.kind = "answer" /\ ~result.incomplete /\ options.gate =>
              collected.text = "plain" /\ (options.selfCorrect => accepted)
        /\ result.incomplete => /\ options.gate
                                /\ \/ result.kind = "ceiling"
                                   \/ collected.text = "admit"
                                   \/ collected.text = "cue" /\ nudges = MaxNudges

\* Every run ends, though the model stalls, says nothing or fails forever.
RunEnds == <>(pc = "done")

\* The comment at the check of the context (loop.go:282-284): returning the text
\* of the error "would lose the wrapped sentinel and break errors.Is(err,
\* context.Canceled)".
CancelKeepsSentinel == result.err # "ctxText"

\* Options.RequireCompletionSignal (types.go:275-280): "a no-tool-call turn is NOT
\* treated as done while work clearly remains - pending update_plan items"; "if
\* the model keeps stalling, the run finalizes as INCOMPLETE".
PendingPlanIsIncomplete ==
    options.gate /\ result.kind = "answer" /\ planPending => result.incomplete

=============================================================================
