----------------------------- MODULE SessionStore -----------------------------
(***************************************************************************)
(* One session of internal/sessions: its event log (store.go), the         *)
(* checkpoints taken before a tool edits a file (checkpoint.go) and the    *)
(* rewind that restores the file and truncates the log (rewind.go), used   *)
(* by the processes that share the session directory.  The workspace is    *)
(* one file: version 0 is its absence, and every edit writes a new one.    *)
(* A step is one read or write of a file of the session or the workspace.  *)
(***************************************************************************)
EXTENDS Integers, FiniteSets, Sequences

CONSTANTS Processes,
          Jobs,       \* what each of them does to the session
          NoProcess,
          MaxLog,     \* bound: lines in the log
          MaxEdits,   \* bound: edits of the file
          MaxFaults   \* bound: failed writes, crashes and power failures

ASSUME SessionAssumption ==
    /\ Jobs \in [Processes -> SUBSET {"message", "once", "checkpoint", "rewind"}]
    /\ NoProcess \notin Processes
    /\ MaxLog \in Nat /\ MaxEdits \in Nat /\ MaxFaults \in Nat

VARIABLES log,      \* the complete lines of events.jsonl
          torn,     \* after them, a line cut short
          durable,  \* how many lines an fsync has covered
          count,    \* EventCount of metadata.json
          blobs,    \* the versions kept under checkpoints/blobs
          file,     \* the workspace file
          lock,     \* who holds the session's lock
          pc, job,  \* what each process is doing
          edits,    \* history: the edits that the log still tells of
          made,     \* history: the edits there have been
          acked,    \* history: the events whose append returned, less the truncated
          loose,    \* history: the workspace has left what the log tells (see below)
          faults    \* bounded by MaxFaults

sessionVars == <<log, torn, durable, count, blobs, file, lock, pc, job,
                 edits, made, acked, loose, faults>>

Kinds == {"message", "once", "checkpoint", "rewind"}
Skipped == -1                    \* a checkpoint entry that kept no content
Versions == 0 .. MaxEdits
Events == [seq : Nat, kind : Kinds, blob : Versions \union {Skipped}]
Corrupt == [seq |-> 0, kind |-> "corrupt", blob |-> Skipped]
NoJob == [kind |-> "message", target |-> 0, blob |-> Skipped, seq |-> 0, covered |-> FALSE]

SessionInit ==
    /\ log = <<>> /\ torn = FALSE /\ durable = 0 /\ count = 0
    /\ blobs = {} /\ file = 0 /\ lock = NoProcess
    /\ pc = [p \in Processes |-> "idle"]
    /\ job = [p \in Processes |-> NoJob]
    /\ edits = <<>> /\ made = 0 /\ acked = {} /\ loose = FALSE /\ faults = 0

-----------------------------------------------------------------------------
(* What is read back *)

\* ReadEvents: a line cut short at the end is dropped, a complete one that is not
\* JSON is an error.
Readable == \A i \in 1..Len(log) : log[i].kind # "corrupt"

\* A mutant: metadata.json alone numbers the events.
NextSeqByCount == count + 1

\* lastEventSequence: the log's last complete line, and failing that the count.
NextSeq ==
    LET last == IF log = <<>> THEN 0 ELSE log[Len(log)].seq
    IN  IF last > count THEN last + 1 ELSE count + 1

CheckpointsAfter(t) ==
    {i \in 1..Len(log) : log[i].kind = "checkpoint" /\ log[i].seq > t}

Oldest(S) == CHOOSE i \in S : \A j \in S : i <= j
Newest(S) == CHOOSE i \in S : \A j \in S : i >= j

\* A mutant: the newest snapshot wins.
SnapshotNewest(t) ==
    LET after == CheckpointsAfter(t)
        entry == log[Newest(after)].blob
    IN  IF after = {} THEN file ELSE IF entry \in blobs \union {0} THEN entry ELSE Skipped

\* The snapshot that a rewind to t restores: of the checkpoints after t the oldest,
\* as far as its content is there; without a checkpoint the file stays.
Snapshot(t) ==
    LET after == CheckpointsAfter(t)
        entry == log[Oldest(after)].blob
    IN  IF after = {} THEN file ELSE IF entry \in blobs \union {0} THEN entry ELSE Skipped

Referenced == {log[i].blob : i \in CheckpointsAfter(0)}

-----------------------------------------------------------------------------
(* The lock, and what a process is about to do *)

Goto(p, from, to) == pc[p] = from /\ pc' = [pc EXCEPT ![p] = to]

\* The end of a locked operation.  An agent goes on to run its tool, whether the
\* checkpoint was taken or not.
Return(p, from) ==
    /\ Goto(p, from, IF job[p].kind = "checkpoint" THEN "edit" ELSE "idle")
    /\ lock' = NoProcess
    /\ job' = [job EXCEPT ![p] = IF @.kind = "checkpoint" THEN @ ELSE NoJob]

Fault == faults < MaxFaults /\ faults' = faults + 1

Room == Len(log) + Cardinality({p \in Processes : pc[p] \notin {"idle", "edit"}}) < MaxLog

Begin(p, kind) ==
    /\ Goto(p, "idle", "lock")
    /\ kind \in Jobs[p] \ {"rewind"}
    /\ kind = "checkpoint" => made < MaxEdits
    /\ Room
    /\ job' = [job EXCEPT ![p] = [NoJob EXCEPT !.kind = kind]]
    /\ UNCHANGED <<log, torn, durable, count, blobs, file, lock, edits, made, acked,
                   loose, faults>>

\* `holt sessions rewind` picks its target from the log before it takes the lock.
BeginRewind(p) ==
    /\ Goto(p, "idle", "lock")
    /\ "rewind" \in Jobs[p]
    /\ Readable
    /\ Room
    /\ \E i \in 1..Len(log), excluded \in {0, 1} :
           job' = [job EXCEPT ![p] = [NoJob EXCEPT !.kind = "rewind",
                                                   !.target = log[i].seq - excluded]]
    /\ UNCHANGED <<log, torn, durable, count, blobs, file, lock, edits, made, acked,
                   loose, faults>>

\* What an operation does first under the lock.
FirstStep(p) == CASE job[p].kind = "once"       -> "check"
                  [] job[p].kind = "checkpoint" -> "blob"
                  [] job[p].kind = "rewind"     -> "restore"
                  [] OTHER                      -> "line"

Lock(p) ==
    /\ lock = NoProcess
    /\ Goto(p, "lock", FirstStep(p))
    /\ lock' = p
    /\ UNCHANGED <<log, torn, durable, count, blobs, file, job, edits, made, acked,
                   loose, faults>>

-----------------------------------------------------------------------------
(* AppendEvent, AppendEventUnlessExists, CaptureToolCheckpoint *)

\* The record-once event is absent, and nothing stops the append.
Absent(p) ==
    /\ Readable
    /\ \A i \in 1..Len(log) : log[i].kind # "once"
    /\ Goto(p, "check", "line")
    /\ UNCHANGED <<log, torn, durable, count, blobs, file, lock, job, edits, made, acked,
                   loose, faults>>

\* It is there, or the log cannot be read.
Present(p) ==
    /\ ~Readable \/ \E i \in 1..Len(log) : log[i].kind = "once"
    /\ Return(p, "check")
    /\ UNCHANGED <<log, torn, durable, count, blobs, file, edits, made, acked,
                   loose, faults>>

\* The content before the edit is stored; an absent file needs no blob.
WriteBlob(p) ==
    /\ Goto(p, "blob", "line")
    /\ \/ /\ job' = [job EXCEPT ![p].blob = file]
          /\ blobs' = blobs \union ({file} \ {0})
          /\ UNCHANGED faults
       \/ Fault /\ UNCHANGED <<blobs, job>>
    /\ UNCHANGED <<log, torn, durable, count, file, lock, edits, made, acked, loose>>

Event(p) == [seq |-> NextSeq, kind |-> job[p].kind, blob |-> job[p].blob]

\* The line is appended: what a torn tail is followed by belongs to the same line.
WriteLine(p) ==
    /\ Goto(p, "line", "sync")
    /\ job' = [job EXCEPT ![p].seq = NextSeq]
    /\ log' = Append(log, IF torn THEN Corrupt ELSE Event(p))
    /\ torn' = FALSE
    /\ UNCHANGED <<durable, count, blobs, file, lock, edits, made, acked, loose, faults>>

\* The write fails, and may leave a part of the line.
WriteFails(p) ==
    /\ Return(p, "line")
    /\ Fault
    /\ torn' \in {torn, TRUE}
    /\ UNCHANGED <<log, durable, count, blobs, file, edits, made, acked, loose>>

\* A mutant: the line is left in the page cache.
SyncNothing(p) ==
    /\ Goto(p, "sync", "count")
    /\ job' = [job EXCEPT ![p].covered = TRUE]
    /\ UNCHANGED <<log, torn, durable, count, blobs, file, lock, edits, made, acked,
                   loose, faults>>

Sync(p) ==
    /\ Goto(p, "sync", "count")
    /\ durable' = Len(log)
    /\ job' = [job EXCEPT ![p].covered = TRUE]
    /\ UNCHANGED <<log, torn, count, blobs, file, lock, edits, made, acked, loose, faults>>

\* metadata.json is replaced, and the append returns its event.
WriteCount(p) ==
    /\ Return(p, "count")
    /\ count' = job[p].seq
    /\ acked' = acked \union {[seq |-> job[p].seq, kind |-> job[p].kind, blob |-> job[p].blob]}
    /\ UNCHANGED <<log, torn, durable, blobs, file, edits, made, loose, faults>>

\* The line is written, and an error is returned.
AppendFails(p) ==
    /\ Return(p, "sync") \/ Return(p, "count")
    /\ Fault
    /\ UNCHANGED <<log, torn, durable, count, blobs, file, edits, made, acked, loose>>

\* The tool writes the file.  It leaves what the log tells if its checkpoint is not
\* there, or if a rewind that will drop it has restored the file already.
Edit(p) ==
    /\ Goto(p, "edit", "idle")
    /\ made < MaxEdits
    /\ job' = [job EXCEPT ![p] = NoJob]
    /\ made' = made + 1
    /\ file' = made'
    /\ edits' = Append(edits, [seq |-> job[p].seq, to |-> made'])
    /\ loose' = (loose \/ ~job[p].covered \/ \E q \in Processes : pc[q] = "truncate")
    /\ UNCHANGED <<log, torn, durable, count, blobs, lock, acked, faults>>

\* The tool is refused or fails.
EditRefused(p) ==
    /\ Goto(p, "edit", "idle")
    /\ job' = [job EXCEPT ![p] = NoJob]
    /\ UNCHANGED <<log, torn, durable, count, blobs, file, lock, edits, made, acked,
                   loose, faults>>

-----------------------------------------------------------------------------
(* ApplyRewind *)

\* An entry without content, or one that cannot be written, is reported as skipped.
Restore(p) ==
    LET snapshot == Snapshot(job[p].target)
    IN  /\ Readable
        /\ Goto(p, "restore", "truncate")
        /\ \/ snapshot # Skipped /\ file' = snapshot /\ UNCHANGED <<loose, faults>>
           \/ snapshot = Skipped /\ loose' = TRUE /\ UNCHANGED <<file, faults>>
           \/ Fault /\ loose' = TRUE /\ UNCHANGED file
        /\ UNCHANGED <<log, torn, durable, count, blobs, lock, job, edits, made, acked>>

RestoreFails(p) ==
    /\ ~Readable
    /\ Return(p, "restore")
    /\ UNCHANGED <<log, torn, durable, count, blobs, file, edits, made, acked,
                   loose, faults>>

Kept(t, e) == e.seq <= t

\* The loop over the events, which leaves out those after the target.
KeptOf(t, events) ==
    LET kept[n \in 0..Len(events)] ==
            IF n = 0 THEN <<>>
            ELSE IF Kept(t, events[n]) THEN Append(kept[n - 1], events[n]) ELSE kept[n - 1]
    IN  kept[Len(events)]

\* events.jsonl is replaced by its readable events up to the target.
Truncate(p) ==
    LET t == job[p].target
    IN  /\ Goto(p, "truncate", "recount")
        /\ log' = KeptOf(t, log)
        /\ torn' = FALSE
        /\ durable' = Len(log')
        /\ edits' = KeptOf(t, edits)
        /\ acked' = {e \in acked : Kept(t, e)}
        /\ job' = [q \in Processes |-> [job[q] EXCEPT !.covered = @ /\ Kept(t, job[q])]]
        /\ UNCHANGED <<count, blobs, file, lock, made, loose, faults>>

\* The file has been restored, and the log stays as it was.
TruncateFails(p) ==
    /\ Return(p, "truncate")
    /\ Fault
    /\ loose' = TRUE
    /\ UNCHANGED <<log, torn, durable, count, blobs, file, edits, made, acked>>

Recount(p) ==
    /\ Goto(p, "recount", "prune")
    /\ count' = Len(log)
    /\ UNCHANGED <<log, torn, durable, blobs, file, lock, job, edits, made, acked,
                   loose, faults>>

RecountFails(p) ==
    /\ Return(p, "recount")
    /\ Fault
    /\ UNCHANGED <<log, torn, durable, count, blobs, file, edits, made, acked, loose>>

\* pruneOrphanBlobsLocked; the marker is appended next.
Prune(p) ==
    /\ Goto(p, "prune", "line")
    /\ blobs' = blobs \intersect Referenced
    /\ UNCHANGED <<log, torn, durable, count, file, lock, job, edits, made, acked,
                   loose, faults>>

-----------------------------------------------------------------------------
(* Crashes *)

\* A process dies; the kernel releases its flock.
Crash(p) ==
    /\ pc[p] # "idle"
    /\ Fault
    /\ pc' = [pc EXCEPT ![p] = "idle"]
    /\ lock' = IF lock = p THEN NoProcess ELSE lock
    /\ loose' = (loose \/ pc[p] = "truncate")
    /\ job' = [job EXCEPT ![p] = NoJob]
    /\ UNCHANGED <<log, torn, durable, count, blobs, file, edits, made, acked>>

\* The machine dies: of the lines not synced a prefix remains, the last cut short
\* perhaps.
PowerFailure ==
    /\ Fault
    /\ \E n \in durable..Len(log) :
           /\ log' = SubSeq(log, 1, n)
           /\ torn' \in IF n = Len(log) THEN {torn} ELSE BOOLEAN
           /\ durable' = n
    /\ pc' = [p \in Processes |-> "idle"]
    /\ lock' = NoProcess
    /\ loose' = (loose \/ \E p \in Processes : pc[p] = "truncate")
    /\ job' = [p \in Processes |-> NoJob]
    /\ UNCHANGED <<count, blobs, file, edits, made, acked>>

-----------------------------------------------------------------------------

SessionStep(p) ==
    \/ \E kind \in Kinds : Begin(p, kind)
    \/ BeginRewind(p) \/ Lock(p) \/ Absent(p) \/ Present(p)
    \/ WriteBlob(p) \/ WriteLine(p) \/ WriteFails(p) \/ Sync(p) \/ WriteCount(p)
    \/ AppendFails(p) \/ Edit(p) \/ EditRefused(p)
    \/ Restore(p) \/ RestoreFails(p) \/ Truncate(p) \/ TruncateFails(p)
    \/ Recount(p) \/ RecountFails(p) \/ Prune(p)
    \/ Crash(p)

SessionNext == PowerFailure \/ \E p \in Processes : SessionStep(p)

SessionSpec == SessionInit /\ [][SessionNext]_sessionVars

-----------------------------------------------------------------------------
(* Properties *)

Locked == {"check", "blob", "line", "sync", "count", "restore", "truncate", "recount", "prune"}

\* Types; the lock is held by the one process inside a locked operation.
SessionStoreTypeOK ==
    /\ log \in Seq(Events \union {Corrupt}) /\ torn \in BOOLEAN
    /\ durable \in 0..Len(log) /\ count \in Nat
    /\ blobs \subseteq Versions /\ file \in Versions /\ made \in Versions
    /\ lock \in Processes \union {NoProcess}
    /\ pc \in [Processes -> Locked \union {"idle", "lock", "edit"}]
    /\ \A p \in Processes : lock = p <=> pc[p] \in Locked
    /\ loose \in BOOLEAN /\ faults \in 0..MaxFaults

\* As long as the log can be read, whatever crashed: no two events share a number,
\* so a rewind cannot mistake its target (store.go:584-589); the record-once event
\* is there once (store.go:531-537); and the blob of every checkpoint is there
\* (checkpoint.go:262-267).
LogWellFormed ==
    /\ SessionStoreTypeOK
    /\ Readable =>
        /\ \A i, j \in 1..Len(log) :
               i < j => log[i].seq < log[j].seq /\ {log[i].kind, log[j].kind} # {"once"}
        /\ Referenced \subseteq blobs \union {0, Skipped}

\* An event whose append returned stays in the log until a rewind drops it
\* (store.go:614-618), through crashes of the process and of the machine.
AckedIsDurable == Readable => acked \subseteq {log[i] : i \in 1..Len(log)}

\* When a rewind has truncated the log, the file holds what the last edit before the
\* target wrote (rewind.go:51-53), unless the workspace had left the log before.
RewindRestores ==
    [][\A p \in Processes : pc[p] = "truncate" /\ pc'[p] = "recount" /\ ~loose =>
           file = IF edits' = <<>> THEN 0 ELSE edits'[Len(edits')].to]_sessionVars

\* The comment of ReadEvents (store.go:702-706): a torn tail is dropped "so resume
\* still recovers every complete event".
LogReadable == Readable
=============================================================================
