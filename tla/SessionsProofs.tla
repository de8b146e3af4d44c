---------------------------- MODULE SessionsProofs ----------------------------
(***************************************************************************)
(* Proofs about the sessions of commands (ExecSessions), for any agents,   *)
(* table, buffer and children, and about the log of an agent's session     *)
(* (SessionStore), for any processes, edits, crashes and power failures.   *)
(*                                                                         *)
(* ExecSessions: a chunk is in one place, in the buffer of its session, in *)
(* the hands of one call, shown, or dropped with the drop to be admitted;  *)
(* and a call that has seen its session done leaves nothing of it behind.  *)
(*                                                                         *)
(* SessionStore: the lines up to any one that can be read are in order, so *)
(* that a power failure that takes the corrupt ones leaves a good log; an  *)
(* acknowledged event is synced; a truncation leaves a prefix of the log;  *)
(* and while the workspace follows the log, a snapshot in it has what the  *)
(* edits before it made, which is what a rewind to there brings back.      *)
(***************************************************************************)
EXTENDS ExecSessions, SessionStore, FiniteSetTheorems, SequenceTheorems, WellFoundedInduction, TLAPS

LEMMA BoundsTyped ==
    /\ MaxStarts \in Nat /\ MaxTable \in Nat \ {0} /\ BufferCap \in Nat \ {0}
    /\ Chunks \in [Ids -> Nat]
  BY ExecAssumption DEF ExecAssumption, Ids

LEMMA LeastNatural ==
    ASSUME NEW T \in SUBSET Nat, T # {}
    PROVE  \E n \in T : \A m \in T : n <= m
<1>1. PICK n \in T : \A m \in T : ~(<<m, n>> \in OpToRel(<, Nat))
  BY NatLessThanWellFounded, WFMin
<1>2. ASSUME NEW m \in T PROVE <<m, n>> \in OpToRel(<, Nat) <=> m < n
  BY DEF OpToRel
<1>3. ASSUME NEW m \in T PROVE n <= m
  <2>1. m \in Nat /\ n \in Nat /\ ~(m < n)
    BY <1>1, <1>2
  <2>. QED  BY <2>1
<1>. QED  BY <1>3

-----------------------------------------------------------------------------
(* What is known of the state *)

Born == {s \in Ids : proc[s] # "none"}

CallPoints == {"idle", "store", "evict", "drain", "admit", "check", "rest", "wait", "finish", "ended"}

Calls == [at : CallPoints, on : Nat, prune : Nat, got : SUBSET Nat, cut : SUBSET Nat,
          late : BOOLEAN, seen : BOOLEAN, tends : {"no", "first", "ending"}]

BufferTyped ==
    /\ data \in [Ids -> Seq(Nat)] /\ \A s \in Ids : Len(data[s]) <= BufferCap
    /\ written \in [Ids -> Nat] /\ \A s \in Ids : written[s] <= Chunks[s]
    /\ truncated \in [Ids -> BOOLEAN] /\ notify \in [Ids -> BOOLEAN]
    /\ shown \in [Ids -> SUBSET Nat] /\ dropped \in [Ids -> SUBSET Nat]

ProcTyped ==
    /\ proc \in [Ids -> {"none", "starting", "running", "done"}]
    /\ cancelled \subseteq Born /\ stopped \subseteq Callers
    /\ \A s \in Ids : data[s] # <<>> => s \in Born

\* Every session that was started is in used once.
TableTyped ==
    /\ used \in Seq(Ids) /\ IsInjective(used) /\ ToSet(used) = 1..Len(used)
    /\ Born \subseteq 1..Len(used)
    /\ table \subseteq Born

\* A call that has not entered its session is the one that started it.
CallsTyped ==
    /\ call \in [Callers -> Calls]
    /\ \A c \in Callers :
           /\ call[c].at # "idle" => call[c].on \in Born
           /\ call[c].at \in {"store", "evict"} => proc[call[c].on] = "starting"
           /\ call[c].at = "evict" => call[c].prune \in Born
           /\ call[c].at = "idle" => call[c].got = {} /\ call[c].cut = {} /\ ~call[c].seen
    /\ \A c, d \in Callers :
           /\ call[c].at \in {"store", "evict"} /\ call[d].at \in {"store", "evict"}
           /\ call[c].on = call[d].on
           => c = d

ExecShape == BufferTyped /\ ProcTyped /\ TableTyped /\ CallsTyped

\* The chunks of s in the hands of c.
Held(c, s) == IF call[c].on = s THEN call[c].got \union call[c].cut ELSE {}

\* The buffer is in order, and what is not told apart may be anywhere in it.
InOrder(chunks) ==
    \A i, j \in DOMAIN chunks : i < j => chunks[i] < chunks[j] \/ chunks[j] = More

\* Nothing is in two places ...
Apart(s) ==
    /\ shown[s] \intersect Numbered(data[s]) = {} /\ shown[s] \intersect dropped[s] = {}
    /\ Numbered(data[s]) \intersect dropped[s] = {}
    /\ \A c \in Callers : Held(c, s) \intersect (shown[s] \union Numbered(data[s]) \union dropped[s]) = {}
    /\ \A c, d \in Callers : c # d => Held(c, s) \intersect Held(d, s) = {}

\* ... and what was written is somewhere.
Placed(s) ==
    \A n \in Nat : n \in 1..written[s] <=>
        \/ n \in shown[s] \union Numbered(data[s]) \union dropped[s]
        \/ \E c \in Callers : n \in Held(c, s)

DropIsNoted(s) == dropped[s] # {} => truncated[s]

Conserved == \A s \in Ids : Apart(s) /\ Placed(s) /\ DropIsNoted(s) /\ InOrder(data[s])

\* A call that has seen its session done takes the rest, and admits the last drop.
Settled(r) ==
    r.seen =>
        /\ r.on \in Ids /\ proc[r.on] = "done"
        /\ r.at \in {"rest", "finish", "ended"}
        /\ r.at # "rest" => Numbered(data[r.on]) = {}
        /\ r.at = "ended" => dropped[r.on] = {}

SeenIsOver == \A c \in Callers : Settled(call[c])

ExecInv == ExecShape /\ Conserved /\ SeenIsOver

-----------------------------------------------------------------------------
(* The buffer *)

LEMMA NumberedMeans ==
    ASSUME NEW chunks \in Seq(Nat)
    PROVE  /\ Numbered(chunks) \subseteq Nat \ {0}
           /\ \A n \in Nat \ {0} : n \in Numbered(chunks) <=> \E i \in 1..Len(chunks) : chunks[i] = n
  BY DEF Numbered, ToSet, More

\* What a write makes of a buffer.
Fed(chunks, chunk) ==
    LET all == Append(chunks, chunk)
        extra == Len(all) - BufferCap
    IN  IF extra > 0 THEN SubSeq(all, extra + 1, Len(all)) ELSE all

Spilt(chunks, chunk) ==
    LET all == Append(chunks, chunk)
    IN  SubSeq(all, 1, Len(all) - BufferCap)

LEMMA FeedSpills ==
    ASSUME NEW chunks \in Seq(Nat), NEW chunk \in Nat, Len(chunks) <= BufferCap, InOrder(chunks),
           chunk = More \/ \A n \in Numbered(chunks) : n < chunk
    PROVE  /\ Fed(chunks, chunk) \in Seq(Nat) /\ Len(Fed(chunks, chunk)) <= BufferCap
           /\ Fed(chunks, chunk) # <<>>
           /\ InOrder(Fed(chunks, chunk))
           /\ Numbered(Fed(chunks, chunk)) \union Numbered(Spilt(chunks, chunk))
                  = Numbered(chunks) \union ({chunk} \ {More})
           /\ Numbered(Fed(chunks, chunk)) \intersect Numbered(Spilt(chunks, chunk)) = {}
           /\ Len(chunks) + 1 - BufferCap <= 0 => Numbered(Spilt(chunks, chunk)) = {}
<1>. DEFINE all == Append(chunks, chunk)
            n == Len(chunks)
            cap == BufferCap
            fed == Fed(chunks, chunk)
            spilt == Spilt(chunks, chunk)
<1>1. /\ all \in Seq(Nat) /\ Len(all) = n + 1 /\ n \in Nat
      /\ \A i \in 1..n : all[i] = chunks[i]
      /\ all[n + 1] = chunk
  OBVIOUS
<1>2. cap \in Nat \ {0} /\ n <= cap
  BY BoundsTyped
<1>3. InOrder(all)
  <2>1. \A i \in 1..n : chunks[i] = 0 \/ chunks[i] \in Numbered(chunks)
    BY NumberedMeans
  <2>. SUFFICES ASSUME NEW i \in 1..(n + 1), NEW j \in 1..(n + 1), i < j
                PROVE  all[i] < all[j] \/ all[j] = 0
    BY <1>1 DEF InOrder, More
  <2>. HIDE DEF all
  <2>2. i \in 1..n
    BY <1>1
  <2>3. CASE j \in 1..n
    <3>1. DOMAIN chunks = 1..n
      OBVIOUS
    <3>2. chunks[i] < chunks[j] \/ chunks[j] = 0
      BY <2>2, <2>3, <3>1 DEF InOrder, More
    <3>. QED  BY <1>1, <2>2, <2>3, <3>2
  <2>4. CASE j = n + 1
    <3>1. all[j] = chunk /\ all[i] = chunks[i] /\ chunks[i] \in Nat
      BY <1>1, <2>2, <2>4
    <3>. QED  BY <2>1, <2>2, <3>1 DEF More
  <2>. QED  BY <1>1, <2>3, <2>4
<1>4. Numbered(all) = Numbered(chunks) \union ({chunk} \ {More})
  <2>. HIDE DEF all
  <2>1. \A x \in Nat \ {0} : x \in Numbered(all) <=> \E i \in 1..(n + 1) : all[i] = x
    BY <1>1, NumberedMeans
  <2>2. \A x \in Nat \ {0} : x \in Numbered(chunks) <=> \E i \in 1..n : all[i] = x
    BY <1>1, NumberedMeans
  <2>3. \A x \in Nat \ {0} : x \in Numbered(all) <=> x \in Numbered(chunks) \/ x = chunk
    BY <1>1, <2>1, <2>2
  <2>4. Numbered(all) \subseteq Nat \ {0} /\ Numbered(chunks) \subseteq Nat \ {0}
    BY <1>1, NumberedMeans
  <2>. QED  BY <2>3, <2>4 DEF More
<1>5. CASE n + 1 <= cap
  <2>1. fed = all
    BY <1>1, <1>2, <1>5 DEF Fed
  <2>2. spilt = <<>>
    BY <1>1, <1>2, <1>5 DEF Spilt
  <2>3. Numbered(spilt) = {}
    BY <2>2 DEF Numbered, ToSet
  <2>. HIDE DEF all, fed, spilt
  <2>4. fed # <<>>
    BY <1>1, <2>1
  <2>. QED  BY <1>1, <1>2, <1>3, <1>4, <1>5, <2>1, <2>3, <2>4 DEF fed, spilt
<1>6. CASE n + 1 > cap
  <2>1. n = cap
    BY <1>1, <1>2, <1>6
  <2>2. fed = SubSeq(all, 2, n + 1)
    BY <1>1, <1>2, <2>1 DEF Fed
  <2>3. spilt = SubSeq(all, 1, 1)
    BY <1>1, <1>2, <2>1 DEF Spilt
  <2>. HIDE DEF all, fed, spilt
  <2>4. /\ fed \in Seq(Nat) /\ Len(fed) = n /\ \A i \in 1..n : fed[i] = all[i + 1]
    BY <1>1, <2>2
  <2>5. spilt \in Seq(Nat) /\ Len(spilt) = 1 /\ spilt[1] = all[1]
    BY <1>1, <2>3
  <2>6. InOrder(fed)
    <3>. SUFFICES ASSUME NEW i \in 1..n, NEW j \in 1..n, i < j
                  PROVE  fed[i] < fed[j] \/ fed[j] = 0
      <4>1. DOMAIN fed = 1..n
        BY <2>4
      <4>. QED  BY <4>1 DEF InOrder, More
    <3>1. all[i + 1] < all[j + 1] \/ all[j + 1] = 0
      <4>1. i + 1 \in DOMAIN all /\ j + 1 \in DOMAIN all /\ i + 1 < j + 1
        BY <1>1
      <4>. QED  BY <1>3, <4>1 DEF InOrder, More
    <3>. QED  BY <2>4, <3>1
  <2>7. ASSUME NEW x \in Nat \ {0}
        PROVE  /\ x \in Numbered(all) <=> x \in Numbered(fed) \/ x \in Numbered(spilt)
               /\ ~(x \in Numbered(fed) /\ x \in Numbered(spilt))
    <3>1. x \in Numbered(all) <=> \E i \in 1..(n + 1) : all[i] = x
      BY <1>1, NumberedMeans
    <3>2. x \in Numbered(fed) <=> \E i \in 1..n : all[i + 1] = x
      <4>1. x \in Numbered(fed) <=> \E i \in 1..n : fed[i] = x
        BY <2>4, NumberedMeans
      <4>. QED  BY <2>4, <4>1
    <3>3. x \in Numbered(spilt) <=> all[1] = x
      <4>1. \A i \in 1..Len(spilt) : i = 1
        BY <2>5
      <4>2. x \in Numbered(spilt) <=> \E i \in 1..Len(spilt) : spilt[i] = x
        BY <2>5, NumberedMeans
      <4>3. 1 \in 1..Len(spilt)
        BY <2>5
      <4>. QED  BY <2>5, <4>1, <4>2, <4>3
    <3>4. \A i \in 1..(n + 1) : i = 1 \/ (i - 1 \in 1..n /\ (i - 1) + 1 = i)
      BY <1>1
    <3>5. \A i \in 1..n : i + 1 \in 1..(n + 1) /\ 1 \in 1..(n + 1)
      BY <1>1
    <3>6. x \in Numbered(all) => x \in Numbered(fed) \/ x \in Numbered(spilt)
      BY <3>1, <3>2, <3>3, <3>4
    <3>7. \A i \in 1..n : all[i + 1] = 0 \/ all[1] < all[i + 1]
      <4>1. \A i \in 1..n : i + 1 \in DOMAIN all /\ 1 \in DOMAIN all /\ 1 < i + 1
        BY <1>1
      <4>. QED  BY <1>3, <4>1 DEF InOrder, More
    <3>8. all[1] \in Nat
      BY <1>1, <1>2, <2>1
    <3>. QED  BY <1>1, <1>2, <2>1, <3>1, <3>2, <3>3, <3>5, <3>6, <3>7, <3>8
  <2>8. Numbered(all) \subseteq Nat \ {0} /\ Numbered(fed) \subseteq Nat \ {0} /\ Numbered(spilt) \subseteq Nat \ {0}
    BY <1>1, <2>4, <2>5, NumberedMeans
  <2>9. /\ Numbered(fed) \union Numbered(spilt) = Numbered(chunks) \union ({chunk} \ {More})
        /\ Numbered(fed) \intersect Numbered(spilt) = {}
    BY <1>4, <2>7, <2>8
  <2>10. fed # <<>> /\ Len(fed) <= cap /\ ~(Len(chunks) + 1 - BufferCap <= 0)
    BY <1>1, <1>2, <2>1, <2>4
  <2>. QED  BY <2>4, <2>6, <2>9, <2>10 DEF fed, spilt
<1>. QED  BY <1>1, <1>2, <1>5, <1>6

LEMMA WriteMeans ==
    ASSUME BufferTyped, NEW s \in Ids, NEW chunk \in Nat, Write(s, chunk)
    PROVE  /\ data' = [data EXCEPT ![s] = Fed(data[s], chunk)]
           /\ dropped' = [dropped EXCEPT ![s] = @ \union Numbered(Spilt(data[s], chunk))]
           /\ truncated' = [truncated EXCEPT ![s] = @ \/ Len(Append(data[s], chunk)) - BufferCap > 0]
           /\ notify' = [notify EXCEPT ![s] = TRUE]
<1>1. data' = [data EXCEPT ![s] = Fed(data[s], chunk)]
  BY DEF Write, Fed, BufferTyped
<1>2. dropped' = [dropped EXCEPT ![s] = @ \union Numbered(Spilt(data[s], chunk))]
  BY DEF Write, Spilt, BufferTyped
<1>3. truncated' = [truncated EXCEPT ![s] = @ \/ Len(Append(data[s], chunk)) - BufferCap > 0]
  BY DEF Write
<1>4. notify' = [notify EXCEPT ![s] = TRUE]
  BY DEF Write
<1>. QED  BY <1>1, <1>2, <1>3, <1>4

\* A chunk that comes in order: what it pushes out is dropped and noted.
LEMMA WriteKeeps ==
    ASSUME BufferTyped, NEW s \in Ids, NEW chunk \in Nat, Write(s, chunk), InOrder(data[s]),
           chunk = More \/ \A n \in Numbered(data[s]) : n < chunk
    PROVE  /\ data' \in [Ids -> Seq(Nat)] /\ \A t \in Ids : Len(data'[t]) <= BufferCap
           /\ truncated' \in [Ids -> BOOLEAN] /\ notify' \in [Ids -> BOOLEAN]
           /\ dropped' \in [Ids -> SUBSET Nat]
           /\ \A t \in Ids \ {s} : /\ data'[t] = data[t] /\ dropped'[t] = dropped[t]
                                   /\ truncated'[t] = truncated[t]
           /\ InOrder(data'[s]) /\ data'[s] # <<>>
           /\ \E spilt \in SUBSET Nat :
                  /\ Numbered(data'[s]) \union spilt = Numbered(data[s]) \union ({chunk} \ {More})
                  /\ Numbered(data'[s]) \intersect spilt = {}
                  /\ dropped'[s] = dropped[s] \union spilt
                  /\ DropIsNoted(s) => DropIsNoted(s)'
<1>. DEFINE chunks == data[s]
            spilt == Numbered(Spilt(chunks, chunk))
            fed == Fed(chunks, chunk)
<1>1. chunks \in Seq(Nat) /\ Len(chunks) \in Nat /\ Len(chunks) <= BufferCap
  BY DEF BufferTyped
<1>2. /\ fed \in Seq(Nat) /\ Len(fed) <= BufferCap /\ fed # <<>> /\ InOrder(fed)
      /\ Numbered(fed) \union spilt = Numbered(chunks) \union ({chunk} \ {More})
      /\ Numbered(fed) \intersect spilt = {}
      /\ Len(chunks) + 1 - BufferCap <= 0 => spilt = {}
  <2>. HIDE DEF chunks
  <2>1. InOrder(chunks) /\ (chunk = More \/ \A n \in Numbered(chunks) : n < chunk)
    BY DEF chunks
  <2>. QED  BY <1>1, <2>1, FeedSpills
<1>3. /\ data' = [data EXCEPT ![s] = fed]
      /\ dropped' = [dropped EXCEPT ![s] = @ \union spilt]
      /\ truncated' = [truncated EXCEPT ![s] = @ \/ Len(Append(chunks, chunk)) - BufferCap > 0]
      /\ notify' = [notify EXCEPT ![s] = TRUE]
  BY WriteMeans
<1>4. spilt \subseteq Nat
  <2>1. Numbered(chunks) \subseteq Nat
    BY <1>1, NumberedMeans
  <2>. HIDE DEF spilt, chunks, fed
  <2>. QED  BY <1>2, <2>1
<1>. HIDE DEF fed, spilt
<1>5. data'[s] = fed /\ dropped'[s] = dropped[s] \union spilt
  BY <1>3 DEF BufferTyped
<1>6. DropIsNoted(s) => DropIsNoted(s)'
  <2>1. truncated'[s] = (truncated[s] \/ Len(Append(chunks, chunk)) - BufferCap > 0)
    BY <1>3 DEF BufferTyped
  <2>2. BufferCap \in Nat
    BY BoundsTyped
  <2>3. spilt = {} \/ Len(Append(chunks, chunk)) - BufferCap > 0
    <3>1. Len(Append(chunks, chunk)) = Len(chunks) + 1
      BY <1>1
    <3>. QED  BY <1>1, <1>2, <2>2, <3>1
  <2>. QED  BY <1>5, <2>1, <2>3 DEF DropIsNoted
<1>7. /\ data' \in [Ids -> Seq(Nat)] /\ \A t \in Ids : Len(data'[t]) <= BufferCap
      /\ \A t \in Ids \ {s} : data'[t] = data[t]
  BY <1>2, <1>3 DEF BufferTyped
<1>8. /\ truncated' \in [Ids -> BOOLEAN] /\ notify' \in [Ids -> BOOLEAN]
      /\ \A t \in Ids \ {s} : truncated'[t] = truncated[t]
  BY <1>3 DEF BufferTyped
<1>9. dropped' \in [Ids -> SUBSET Nat] /\ \A t \in Ids \ {s} : dropped'[t] = dropped[t]
  BY <1>3, <1>4 DEF BufferTyped
<1>. QED  BY <1>2, <1>4, <1>5, <1>6, <1>7, <1>8, <1>9

-----------------------------------------------------------------------------
(* The shape of the state *)

\* What comes next is told apart from what came before.
LEMMA NextIsGreater ==
    ASSUME ExecShape, Conserved, NEW s \in Ids
    PROVE  \A n \in Numbered(data[s]) : n < written[s] + 1
<1>1. data[s] \in Seq(Nat) /\ written[s] \in Nat /\ Placed(s)
  BY DEF ExecShape, BufferTyped, Conserved
<1>2. Numbered(data[s]) \subseteq Nat
  BY <1>1, NumberedMeans
<1>3. \A n \in Numbered(data[s]) : n \in 1..written[s]
  BY <1>1, <1>2 DEF Placed
<1>. QED  BY <1>1, <1>3

\* What a call is about.
LEMMA CallFields ==
    ASSUME ExecShape, NEW c \in Callers
    PROVE  /\ call[c] \in Calls /\ DOMAIN call = Callers
           /\ call[c].at # "idle" => call[c].on \in Born /\ call[c].on \in Ids
           /\ call[c].at = "evict" => call[c].prune \in Born /\ call[c].prune \in Ids
           /\ call[c].got \subseteq Nat /\ call[c].cut \subseteq Nat
  BY DEF ExecShape, CallsTyped, Calls, Born

LEMMA BufferKept ==
    ASSUME ExecShape, Conserved, ExecNext
    PROVE  BufferTyped'
<1>0. BufferTyped
  BY DEF ExecShape
<1>1. ASSUME NEW s \in Ids, Emit(s) PROVE BufferTyped'
  <2>1. InOrder(data[s]) /\ written[s] \in Nat /\ Chunks[s] \in Nat /\ UNCHANGED shown
    BY <1>1, <1>0, BoundsTyped DEF Conserved, BufferTyped, Emit, historyVars
  <2>2. CASE written[s] < Chunks[s] /\ written' = [written EXCEPT ![s] = @ + 1] /\ Write(s, written'[s])
    <3>1. written'[s] = written[s] + 1 /\ written' \in [Ids -> Nat] /\ \A t \in Ids : written'[t] <= Chunks[t]
      BY <1>0, <2>1, <2>2, BoundsTyped DEF BufferTyped
    <3>2. \A n \in Numbered(data[s]) : n < written[s] + 1
      BY NextIsGreater
    <3>. HIDE <2>2
    <3>3. Write(s, written[s] + 1) /\ written[s] + 1 \in Nat
      BY <2>1, <2>2, <3>1
    <3>. QED  BY <1>0, <2>1, <3>1, <3>2, <3>3, WriteKeeps DEF BufferTyped
  <2>3. CASE Write(s, More) /\ UNCHANGED written
    <3>1. More \in Nat
      BY DEF More
    <3>. QED  BY <1>0, <2>1, <2>3, <3>1, WriteKeeps DEF BufferTyped
  <2>. QED  BY <1>1, <2>2, <2>3 DEF Emit
<1>2. ASSUME NEW c \in Callers, Evict(c) PROVE BufferTyped'
  <2>. DEFINE s == call[c].prune
  <2>1. s \in Ids /\ InOrder(data[s]) /\ Write(s, More) /\ UNCHANGED <<written, shown>> /\ More \in Nat
    BY <1>2, CallFields DEF Evict, At, Conserved, historyVars, More
  <2>. HIDE DEF s
  <2>. QED  BY <1>0, <2>1, WriteKeeps DEF BufferTyped
<1>3. ASSUME NEW c \in Callers, Drain(c) \/ Rest(c) PROVE BufferTyped'
  <2>1. data' = [data EXCEPT ![call[c].on] = <<>>]
        /\ UNCHANGED <<written, truncated, notify, shown, dropped>>
    BY <1>3 DEF Drain, Rest, historyVars
  <2>2. data' \in [Ids -> Seq(Nat)]
    <3>1. <<>> \in Seq(Nat) /\ data \in [Ids -> Seq(Nat)]
      BY <1>0 DEF BufferTyped
    <3>. QED  BY <2>1, <3>1
  <2>3. ASSUME NEW s \in Ids PROVE Len(data'[s]) <= BufferCap
    <3>1. data'[s] = <<>> \/ data'[s] = data[s]
      BY <1>0, <2>1 DEF BufferTyped
    <3>2. Len(<<>>) = 0 /\ BufferCap \in Nat
      BY BoundsTyped
    <3>. QED  BY <1>0, <3>1, <3>2 DEF BufferTyped
  <2>. QED  BY <1>0, <2>1, <2>2, <2>3 DEF BufferTyped
<1>4. ASSUME NEW c \in Callers, AdmitDrop(c) \/ Finish(c) PROVE BufferTyped'
  BY <1>0, <1>4 DEF AdmitDrop, Finish, Admit, BufferTyped, historyVars
<1>5. ASSUME NEW c \in Callers, Report(c) PROVE BufferTyped'
  <2>1. /\ shown' = [shown EXCEPT ![call[c].on] = @ \union call[c].got \union call[c].cut]
        /\ UNCHANGED <<data, written, truncated, notify, dropped>>
    BY <1>5 DEF Report, bufferVars
  <2>2. call[c].got \subseteq Nat /\ call[c].cut \subseteq Nat
    BY CallFields
  <2>. QED  BY <1>0, <2>1, <2>2 DEF BufferTyped
<1>6. ASSUME NEW c \in Callers, Select(c) PROVE BufferTyped'
  <2>1. /\ UNCHANGED <<data, written, truncated, shown, dropped>>
        /\ notify' \in {notify, [notify EXCEPT ![call[c].on] = FALSE]}
    BY <1>6 DEF Select, historyVars
  <2>. QED  BY <1>0, <2>1 DEF BufferTyped
<1>7. ASSUME NEW c \in Callers,
             \/ Launch(c) \/ Poll(c) \/ Store(c) \/ Check(c) \/ Terminate(c) \/ Deadline(c)
             \/ CancelAgent(c)
      PROVE  BufferTyped'
  <2>1. UNCHANGED <<data, written, truncated, notify, shown, dropped>>
    BY <1>7 DEF Launch, Poll, Store, Check, Terminate, Deadline, CancelAgent, bufferVars, historyVars
  <2>. QED  BY <1>0, <2>1 DEF BufferTyped
<1>8. ASSUME NEW s \in Ids, Exit(s) \/ RemoveCompleted(s) \/ Stop(s) PROVE BufferTyped'
  <2>1. UNCHANGED <<data, written, truncated, notify, shown, dropped>>
    BY <1>8 DEF Exit, RemoveCompleted, Stop, bufferVars, historyVars
  <2>. QED  BY <1>0, <2>1 DEF BufferTyped
<1>. QED  BY <1>1, <1>2, <1>3, <1>4, <1>5, <1>6, <1>7, <1>8 DEF ExecNext, CallStep

\* What is pruned is a session that can be found.
LEMMA PrunedIsFound ==
    ASSUME ExecShape, NEW some \in SUBSET table, some # {}
    PROVE  LeastRecent(some) \in some
<1>1. /\ used \in Seq(Ids) /\ \E i \in 1..Len(used) : used[i] \in some
  BY DEF ExecShape, TableTyped, Born, ToSet
<1>. DEFINE P(i) == used[i] \in some /\ \A j \in 1..(i - 1) : used[j] \notin some
            T == {i \in 1..Len(used) : used[i] \in some}
<1>2. T # {} /\ T \subseteq Nat
  BY <1>1
<1>3. PICK n \in T : \A m \in T : n <= m
  BY <1>2, LeastNatural
<1>4. P(n) /\ n \in DOMAIN used
  <2>1. \A j \in 1..(n - 1) : j \in 1..Len(used) /\ j < n
    BY <1>1
  <2>2. \A j \in 1..(n - 1) : j \notin T
    BY <1>3, <2>1
  <2>. QED  BY <1>1, <2>1, <2>2
<1>5. LeastRecent(some) = used[CHOOSE i \in DOMAIN used : P(i)]
  BY DEF LeastRecent
<1>6. P(CHOOSE i \in DOMAIN used : P(i))
  BY <1>4
<1>. QED  BY <1>5, <1>6

LEMMA PruneIsFound ==
    ASSUME ExecShape, Cardinality(table) >= MaxTable
    PROVE  ToPrune \in table \union {Nobody}
<1>1. CASE {s \in table : proc[s] = "done"} # {}
  BY <1>1, PrunedIsFound DEF ToPrune
<1>2. CASE {s \in table : proc[s] = "done"} = {} /\ table # {}
  BY <1>2, PrunedIsFound DEF ToPrune
<1>3. table # {}
  <2>1. Cardinality({}) = 0
    BY FS_EmptySet
  <2>. QED  BY <2>1, BoundsTyped
<1>. QED  BY <1>1, <1>2, <1>3

\* A session that is used again goes to the end.
LEMMA TouchedKeeps ==
    ASSUME used \in Seq(Ids), IsInjective(used), NEW s \in ToSet(used)
    PROVE  /\ Touched(s) \in Seq(Ids) /\ IsInjective(Touched(s))
           /\ ToSet(Touched(s)) = ToSet(used) /\ Len(Touched(s)) = Len(used)
<1>. DEFINE n == Len(used)
            I == {i \in 1..n : used[i] = s}
            k == SelectInSeq(used, LAMBDA v : v = s)
            rest == RemoveAt(used, k)
<1>1. n \in Nat /\ \E i \in 1..n : used[i] = s
  BY DEF ToSet
<1>2. k \in 1..n /\ used[k] = s
  <2>1. I # {} /\ I \in SUBSET Nat
    BY <1>1
  <2>2. PICK m \in I : \A i \in I : m <= i
    BY <2>1, LeastNatural
  <2>3. k = Min(I)
    BY <2>1 DEF SelectInSeq
  <2>4. Min(I) \in I
    BY <2>2 DEF Min
  <2>. QED  BY <2>3, <2>4
<1>3. Touched(s) = Append(rest, s)
  BY <1>1 DEF Touched, RemoveFirst
<1>. HIDE DEF k
<1>4. /\ rest \in Seq(Ids) /\ Len(rest) = n - 1
      /\ \A i \in 1..(n - 1) : rest[i] = IF i < k THEN used[i] ELSE used[i + 1]
  <2>. DEFINE front == SubSeq(used, 1, k - 1)
              back == SubSeq(used, k + 1, n)
  <2>1. front \in Seq(Ids) /\ Len(front) = k - 1 /\ \A i \in 1..(k - 1) : front[i] = used[i]
    BY <1>1, <1>2
  <2>2. back \in Seq(Ids) /\ Len(back) = n - k /\ \A i \in 1..(n - k) : back[i] = used[k + i]
    BY <1>1, <1>2
  <2>3. rest = front \o back
    BY DEF RemoveAt
  <2>. HIDE DEF front, back, rest
  <2>4. /\ rest \in Seq(Ids) /\ Len(rest) = n - 1
        /\ \A i \in 1..(n - 1) : rest[i] = IF i <= k - 1 THEN front[i] ELSE back[i - (k - 1)]
    <3>1. /\ rest \in Seq(Ids) /\ Len(rest) = Len(front) + Len(back)
          /\ \A i \in 1..Len(rest) : rest[i] = IF i <= Len(front) THEN front[i] ELSE back[i - Len(front)]
      <4>1. front \in Seq(Ids) /\ back \in Seq(Ids)
        BY <2>1, <2>2
      <4>2. /\ Len(front \o back) = Len(front) + Len(back)
            /\ \A i \in 1..Len(front \o back) :
                   (front \o back)[i] = IF i <= Len(front) THEN front[i] ELSE back[i - Len(front)]
        BY <4>1
      <4>3. front \o back \in Seq(Ids)
        BY <4>1
      <4>. QED  BY <2>3, <4>2, <4>3
    <3>2. Len(rest) = n - 1 /\ Len(front) = k - 1
      BY <1>1, <1>2, <2>1, <2>2, <3>1
    <3>. QED  BY <3>1, <3>2
  <2>5. ASSUME NEW i \in 1..(n - 1) PROVE rest[i] = IF i < k THEN used[i] ELSE used[i + 1]
    <3>1. CASE i < k
      <4>1. i <= k - 1 /\ i \in 1..(k - 1)
        BY <1>1, <1>2, <3>1
      <4>2. rest[i] = front[i] /\ front[i] = used[i]
        BY <2>1, <2>4, <4>1
      <4>. QED  BY <3>1, <4>2
    <3>2. CASE ~(i < k)
      <4>1. i - (k - 1) \in 1..(n - k) /\ k + (i - (k - 1)) = i + 1
        BY <1>1, <1>2, <3>2
      <4>. QED  BY <1>1, <1>2, <2>2, <2>4, <3>2, <4>1
    <3>. QED  BY <3>1, <3>2
  <2>. QED  BY <2>4, <2>5
<1>. HIDE DEF rest, n, I
<1>5. s \in Ids
  BY DEF ToSet
<1>. DEFINE new == Touched(s)
<1>6. /\ new \in Seq(Ids) /\ Len(new) = n
      /\ \A i \in 1..n : new[i] = IF i = n THEN s ELSE IF i < k THEN used[i] ELSE used[i + 1]
  BY <1>1, <1>2, <1>3, <1>4, <1>5
<1>. HIDE DEF new
\* Where the elements come from, and where they go.
<1>. DEFINE from(i) == IF i = n THEN k ELSE IF i < k THEN i ELSE i + 1
            to(i) == IF i = k THEN n ELSE IF i < k THEN i ELSE i - 1
<1>7. \A i \in 1..n : from(i) \in 1..n /\ new[i] = used[from(i)] /\ to(from(i)) = i
  <2>1. \A i \in 1..n : from(i) \in 1..n /\ to(from(i)) = i
    BY <1>1, <1>2
  <2>2. \A i \in 1..n : new[i] = used[from(i)]
    BY <1>2, <1>6
  <2>. QED  BY <2>1, <2>2
<1>8. \A i \in 1..n : to(i) \in 1..n /\ from(to(i)) = i
  BY <1>1, <1>2
<1>. HIDE DEF from, to
<1>9. DOMAIN used = 1..n /\ DOMAIN new = 1..n
  BY <1>6 DEF n
<1>10. IsInjective(new)
  BY <1>7, <1>9 DEF IsInjective
<1>11. ToSet(new) = ToSet(used)
  <2>1. \A i \in 1..n : new[i] \in ToSet(used)
    BY <1>7, <1>9 DEF ToSet
  <2>2. \A i \in 1..n : used[i] \in ToSet(new)
    BY <1>7, <1>8, <1>9 DEF ToSet
  <2>. QED  BY <1>9, <2>1, <2>2 DEF ToSet
<1>. QED  BY <1>6, <1>10, <1>11 DEF new, n

LEMMA TableKept ==
    ASSUME ExecShape, ExecNext
    PROVE  TableTyped' /\ Born \subseteq Born'
<1>. USE DEF ExecShape
<1>1. ASSUME NEW c \in Callers, Launch(c) PROVE TableTyped' /\ Born \subseteq Born'
  <2>. DEFINE s == Len(used) + 1
  <2>1. /\ used \in Seq(Ids) /\ IsInjective(used) /\ ToSet(used) = 1..Len(used)
        /\ Born \subseteq 1..Len(used) /\ table \subseteq Born
    BY DEF TableTyped
  <2>2. s \in Ids /\ used' = Append(used, s) /\ UNCHANGED table
    BY <1>1 DEF Launch
  <2>3. Born \subseteq Born' /\ Born' \subseteq Born \union {s}
    BY <1>1 DEF Launch, Born, ProcTyped
  <2>4. /\ used' \in Seq(Ids) /\ Len(used') = Len(used) + 1 /\ Len(used) \in Nat
        /\ \A i \in 1..Len(used) : used'[i] = used[i]
        /\ used'[Len(used) + 1] = s
    BY <2>1, <2>2
  <2>5. \A i \in 1..Len(used) : used[i] \in 1..Len(used)
    BY <2>1 DEF ToSet
  <2>6. IsInjective(used')
    <3>1. \A i \in 1..Len(used) : used'[i] \in 1..Len(used)
      BY <2>4, <2>5
    <3>2. \A i, j \in 1..Len(used) : used'[i] = used'[j] => i = j
      BY <2>1, <2>4 DEF IsInjective
    <3>3. \A i \in 1..Len(used') : i \in 1..Len(used) \/ i = Len(used) + 1
      BY <2>4
    <3>4. s \notin 1..Len(used)
      BY <2>4
    <3>5. DOMAIN used' = 1..Len(used')
      BY <2>4
    <3>. HIDE DEF s
    <3>. QED  BY <2>4, <3>1, <3>2, <3>3, <3>4, <3>5 DEF IsInjective
  <2>7. ToSet(used') = 1..Len(used')
    <3>1. ToSet(used') = ToSet(used) \union {s}
      BY <2>1, <2>2, <2>4 DEF ToSet
    <3>. QED  BY <2>1, <2>4, <3>1
  <2>8. Born' \subseteq 1..Len(used') /\ table' \subseteq Born'
    BY <2>1, <2>2, <2>3, <2>4
  <2>. QED  BY <2>3, <2>4, <2>6, <2>7, <2>8 DEF TableTyped
<1>2. ASSUME NEW c \in Callers, Poll(c) PROVE TableTyped' /\ Born \subseteq Born'
  <2>1. PICK s \in table : used' = Touched(s)
    BY <1>2 DEF Poll
  <2>2. UNCHANGED <<table, proc>>
    BY <1>2 DEF Poll
  <2>3. s \in ToSet(used)
    BY DEF TableTyped
  <2>4. used \in Seq(Ids) /\ IsInjective(used)
    BY DEF TableTyped
  <2>. QED  BY <2>1, <2>2, <2>3, <2>4, TouchedKeeps DEF TableTyped, Born
<1>3. ASSUME NEW c \in Callers, Store(c) PROVE TableTyped' /\ Born \subseteq Born'
  <2>1. call[c].on \in Born
    BY <1>3 DEF Store, CallsTyped
  <2>2. UNCHANGED used /\ table' \subseteq table \union {call[c].on}
    BY <1>3 DEF Store
  <2>3. Born' = Born
    BY <1>3, <2>1 DEF Store, Born, ProcTyped
  <2>. QED  BY <2>1, <2>2, <2>3 DEF TableTyped
<1>4. ASSUME NEW c \in Callers, Evict(c) PROVE TableTyped' /\ Born \subseteq Born'
  <2>1. call[c].on \in Born
    BY <1>4 DEF Evict, At, CallsTyped
  <2>2. Born' = Born /\ UNCHANGED tableVars
    BY <1>4, <2>1 DEF Evict, Born, ProcTyped
  <2>. QED  BY <2>2 DEF TableTyped, tableVars
<1>5. ASSUME NEW s \in Ids, Exit(s) PROVE TableTyped' /\ Born \subseteq Born'
  <2>1. Born' = Born /\ UNCHANGED tableVars
    BY <1>5 DEF Exit, Born, ProcTyped
  <2>. QED  BY <2>1 DEF TableTyped, tableVars
<1>6. ASSUME UNCHANGED <<used, proc>>, table' \subseteq table PROVE TableTyped' /\ Born \subseteq Born'
  BY <1>6 DEF TableTyped, Born
<1>7. ASSUME NEW c \in Callers,
             \/ Drain(c) \/ AdmitDrop(c) \/ Check(c) \/ Rest(c) \/ Select(c) \/ Finish(c)
             \/ Terminate(c) \/ Report(c) \/ Deadline(c) \/ CancelAgent(c)
      PROVE  UNCHANGED <<used, proc>> /\ table' \subseteq table
  BY <1>7 DEF Drain, AdmitDrop, Check, Rest, Select, Finish, Admit, Terminate, Report, Deadline,
              CancelAgent, tableVars, procVars
<1>8. ASSUME NEW s \in Ids, Emit(s) \/ RemoveCompleted(s) \/ Stop(s)
      PROVE  UNCHANGED <<used, proc>> /\ table' \subseteq table
  BY <1>8 DEF Emit, RemoveCompleted, Stop, tableVars, procVars
<1>. QED  BY <1>1, <1>2, <1>3, <1>4, <1>5, <1>6, <1>7, <1>8 DEF ExecNext, CallStep

LEMMA ProcKept ==
    ASSUME ExecShape, Conserved, ExecNext
    PROVE  ProcTyped'
<1>. USE DEF ExecShape
<1>1. proc' \in [Ids -> {"none", "starting", "running", "done"}]
  <2>1. ASSUME NEW c \in Callers, Launch(c) \/ Store(c) \/ Evict(c)
        PROVE  proc' \in [Ids -> {"none", "starting", "running", "done"}]
    <3>1. \/ proc' = proc
          \/ \E s : proc' = [proc EXCEPT ![s] = "starting"] \/ proc' = [proc EXCEPT ![s] = "running"]
      BY <2>1 DEF Launch, Store, Evict
    <3>. QED  BY <3>1 DEF ProcTyped
  <2>2. ASSUME NEW s \in Ids, Exit(s) PROVE proc' \in [Ids -> {"none", "starting", "running", "done"}]
    BY <2>2 DEF Exit, ProcTyped
  <2>3. ASSUME UNCHANGED proc PROVE proc' \in [Ids -> {"none", "starting", "running", "done"}]
    BY <2>3 DEF ProcTyped
  <2>4. ASSUME NEW c \in Callers,
               \/ Poll(c) \/ Drain(c) \/ AdmitDrop(c) \/ Check(c) \/ Rest(c) \/ Select(c) \/ Finish(c)
               \/ Terminate(c) \/ Report(c) \/ Deadline(c) \/ CancelAgent(c)
        PROVE  UNCHANGED proc
    BY <2>4 DEF Poll, Drain, AdmitDrop, Check, Rest, Select, Finish, Admit, Terminate, Report, Deadline,
                CancelAgent, procVars
  <2>5. ASSUME NEW s \in Ids, Emit(s) \/ RemoveCompleted(s) \/ Stop(s) PROVE UNCHANGED proc
    BY <2>5 DEF Emit, RemoveCompleted, Stop, procVars
  <2>. QED  BY <2>1, <2>2, <2>3, <2>4, <2>5 DEF ExecNext, CallStep
<1>2. Born \subseteq Born' /\ table \subseteq Born
  BY TableKept DEF TableTyped
<1>3. cancelled' \subseteq Born'
  <2>1. ASSUME NEW s \in Ids, Exit(s) \/ Stop(s) PROVE cancelled' \subseteq Born'
    BY <1>2, <2>1 DEF Exit, Stop, ProcTyped, Born
  <2>2. ASSUME NEW c \in Callers, Poll(c) PROVE cancelled' \subseteq Born'
    BY <1>2, <2>2 DEF Poll, ProcTyped
  <2>3. ASSUME NEW c \in Callers, Evict(c) \/ Terminate(c) PROVE cancelled' \subseteq Born'
    BY <1>2, <2>3, CallFields DEF Evict, At, Terminate, ProcTyped
  <2>4. ASSUME UNCHANGED cancelled PROVE cancelled' \subseteq Born'
    BY <1>2, <2>4 DEF ProcTyped
  <2>5. ASSUME NEW c \in Callers,
               \/ Launch(c) \/ Store(c) \/ Drain(c) \/ AdmitDrop(c) \/ Check(c) \/ Rest(c) \/ Select(c)
               \/ Finish(c) \/ Report(c) \/ Deadline(c) \/ CancelAgent(c)
        PROVE  UNCHANGED cancelled
    BY <2>5 DEF Launch, Store, Drain, AdmitDrop, Check, Rest, Select, Finish, Admit, Report, Deadline,
                CancelAgent, procVars
  <2>6. ASSUME NEW s \in Ids, Emit(s) \/ RemoveCompleted(s) PROVE UNCHANGED cancelled
    BY <2>6 DEF Emit, RemoveCompleted, procVars
  <2>. QED  BY <2>1, <2>2, <2>3, <2>4, <2>5, <2>6 DEF ExecNext, CallStep
<1>4. stopped' \subseteq Callers
  <2>1. ASSUME NEW c \in Callers, CancelAgent(c) PROVE stopped' \subseteq Callers
    BY <2>1 DEF CancelAgent, ProcTyped
  <2>2. ASSUME NEW c \in Callers,
               \/ Launch(c) \/ Poll(c) \/ Store(c) \/ Evict(c) \/ Drain(c) \/ AdmitDrop(c) \/ Check(c)
               \/ Rest(c) \/ Select(c) \/ Finish(c) \/ Terminate(c) \/ Report(c) \/ Deadline(c)
        PROVE  UNCHANGED stopped
    BY <2>2 DEF Launch, Poll, Store, Evict, Drain, AdmitDrop, Check, Rest, Select, Finish, Admit,
                Terminate, Report, Deadline
  <2>3. ASSUME NEW s \in Ids, Emit(s) \/ Exit(s) \/ RemoveCompleted(s) \/ Stop(s) PROVE UNCHANGED stopped
    BY <2>3 DEF Emit, Exit, RemoveCompleted, Stop
  <2>. QED  BY <2>1, <2>2, <2>3 DEF ExecNext, CallStep, ProcTyped
<1>5. \A s \in Ids : data'[s] # <<>> => s \in Born'
  <2>1. ASSUME NEW s \in Ids, Emit(s) PROVE \A t \in Ids : data'[t] # <<>> => t \in Born
    <3>1. s \in Born /\ \A t \in Ids \ {s} : data'[t] = data[t]
      BY <2>1 DEF Emit, Write, BufferTyped, Born
    <3>. QED  BY <3>1 DEF ProcTyped
  <2>2. ASSUME NEW c \in Callers, Evict(c) PROVE \A t \in Ids : data'[t] # <<>> => t \in Born
    <3>1. call[c].prune \in Born /\ call[c].prune \in Ids
      BY <2>2, CallFields DEF Evict, At
    <3>2. \A t \in Ids \ {call[c].prune} : data'[t] = data[t]
      BY <2>2 DEF Evict, Write, BufferTyped
    <3>. QED  BY <3>1, <3>2 DEF ProcTyped
  <2>3. ASSUME NEW c \in Callers, Drain(c) \/ Rest(c)
        PROVE  \A t \in Ids : data'[t] # <<>> => t \in Born
    <3>1. data' = [data EXCEPT ![call[c].on] = <<>>]
      BY <2>3 DEF Drain, Rest
    <3>. QED  BY <3>1 DEF BufferTyped, ProcTyped
  <2>4. ASSUME NEW c \in Callers,
               \/ Launch(c) \/ Poll(c) \/ Store(c) \/ AdmitDrop(c) \/ Check(c) \/ Select(c) \/ Finish(c)
               \/ Terminate(c) \/ Report(c) \/ Deadline(c) \/ CancelAgent(c)
        PROVE  UNCHANGED data
    BY <2>4 DEF Launch, Poll, Store, AdmitDrop, Check, Select, Finish, Admit, Terminate, Report, Deadline,
                CancelAgent, bufferVars
  <2>5. ASSUME NEW s \in Ids, Exit(s) \/ RemoveCompleted(s) \/ Stop(s) PROVE UNCHANGED data
    BY <2>5 DEF Exit, RemoveCompleted, Stop, bufferVars
  <2>6. (\A t \in Ids : data'[t] # <<>> => t \in Born) \/ UNCHANGED data
    BY <2>1, <2>2, <2>3, <2>4, <2>5 DEF ExecNext, CallStep
  <2>. QED  BY <1>2, <2>6 DEF ProcTyped
<1>. QED  BY <1>1, <1>3, <1>4, <1>5 DEF ProcTyped
\* A step of one call leaves the others where they are.
LEMMA OneCallMoves ==
    ASSUME ExecShape, NEW c \in Callers, NEW r \in Calls, call' = [call EXCEPT ![c] = r],
           Born \subseteq Born',
           r.at # "idle" => r.on \in Born',
           r.at \in {"store", "evict"} =>
               /\ proc'[r.on] = "starting"
               /\ \A d \in Callers \ {c} : call[d].at \in {"store", "evict"} => call[d].on # r.on,
           r.at = "evict" => r.prune \in Born',
           r.at = "idle" => r.got = {} /\ r.cut = {} /\ ~r.seen,
           \A d \in Callers \ {c} : call[d].at \in {"store", "evict"} => proc'[call[d].on] = "starting"
    PROVE  CallsTyped'
<1>1. call \in [Callers -> Calls] /\ CallsTyped
  BY DEF ExecShape, CallsTyped
<1>2. call' \in [Callers -> Calls] /\ call'[c] = r /\ \A d \in Callers \ {c} : call'[d] = call[d]
  BY <1>1
<1>3. ASSUME NEW d \in Callers
      PROVE  /\ call'[d].at # "idle" => call'[d].on \in Born'
             /\ call'[d].at \in {"store", "evict"} => proc'[call'[d].on] = "starting"
             /\ call'[d].at = "evict" => call'[d].prune \in Born'
             /\ call'[d].at = "idle" => call'[d].got = {} /\ call'[d].cut = {} /\ ~call'[d].seen
  BY <1>1, <1>2 DEF CallsTyped
<1>4. ASSUME NEW d \in Callers, NEW e \in Callers,
             call'[d].at \in {"store", "evict"}, call'[e].at \in {"store", "evict"},
             call'[d].on = call'[e].on
      PROVE  d = e
  BY <1>1, <1>2, <1>4 DEF CallsTyped
<1>. QED  BY <1>2, <1>3, <1>4 DEF CallsTyped

LEMMA CallsKept ==
    ASSUME ExecShape, Conserved, ExecNext
    PROVE  CallsTyped'
<1>0. /\ call \in [Callers -> Calls] /\ CallsTyped /\ proc \in [Ids -> {"none", "starting", "running", "done"}]
      /\ Born \subseteq Born'
  BY TableKept DEF ExecShape, CallsTyped, ProcTyped
<1>1. ASSUME NEW c \in Callers, Launch(c) PROVE CallsTyped'
  <2>. DEFINE s == Len(used) + 1
  <2>1. CASE UNCHANGED <<proc, call>>
    BY <1>0, <2>1 DEF CallsTyped, Born
  <2>2. CASE /\ proc' = [proc EXCEPT ![s] = "starting"]
             /\ call' = [call EXCEPT ![c] = [NoCall EXCEPT !.at = "store", !.on = s, !.tends = "first"]]
    <3>. DEFINE r == [NoCall EXCEPT !.at = "store", !.on = s, !.tends = "first"]
    <3>1. s \in Ids /\ s \in Nat /\ s \notin Born
      BY <1>1 DEF Launch, Ids, ExecShape, TableTyped
    <3>2. r \in Calls /\ r.at = "store" /\ r.on = s
      BY <3>1 DEF NoCall, Calls, CallPoints, Nobody
    <3>3. proc'[s] = "starting" /\ s \in Born' /\ \A t \in Ids \ {s} : proc'[t] = proc[t]
      BY <1>0, <2>2, <3>1 DEF Born
    <3>4. \A d \in Callers : call[d].at \in {"store", "evict"} =>
              call[d].on \in Ids /\ call[d].on # s /\ proc[call[d].on] = "starting"
      BY <1>0, <3>1 DEF CallsTyped, Born
    <3>5. call' = [call EXCEPT ![c] = r]
      BY <2>2
    <3>. HIDE DEF r, s
    <3>6. \A d \in Callers \ {c} : call[d].at \in {"store", "evict"} =>
              call[d].on # r.on /\ proc'[call[d].on] = "starting"
      BY <3>2, <3>3, <3>4
    <3>7. r.on \in Born' /\ proc'[r.on] = "starting"
      BY <3>2, <3>3
    <3>8. r \in Calls /\ r.at = "store"
      BY <3>2
    <3>. QED  BY <1>0, <3>5, <3>6, <3>7, <3>8, OneCallMoves
  <2>. QED  BY <1>1, <2>1, <2>2 DEF Launch
<1>2. ASSUME NEW c \in Callers, Poll(c) PROVE CallsTyped'
  <2>1. PICK s \in table : call' = [call EXCEPT ![c] = [NoCall EXCEPT !.at = "drain", !.on = s]]
    BY <1>2 DEF Poll
  <2>. DEFINE r == [NoCall EXCEPT !.at = "drain", !.on = s]
  <2>2. s \in Born /\ s \in Nat /\ UNCHANGED proc
    BY <1>2 DEF Poll, ExecShape, TableTyped, Born, Ids
  <2>3. r \in Calls /\ r.at = "drain" /\ r.on = s
    BY <2>2 DEF NoCall, Calls, CallPoints, Nobody
  <2>4. call' = [call EXCEPT ![c] = r]
    BY <2>1
  <2>. HIDE DEF r
  <2>. QED  BY <1>0, <2>2, <2>3, <2>4, OneCallMoves DEF CallsTyped
<1>3. ASSUME NEW c \in Callers, Store(c) PROVE CallsTyped'
  <2>1. /\ call[c].at = "store" /\ call[c].on \in Born /\ call[c].on \in Ids
        /\ proc[call[c].on] = "starting"
        /\ \A d \in Callers \ {c} : call[d].at \in {"store", "evict"} =>
               /\ call[d].on # call[c].on /\ call[d].on \in Ids /\ proc[call[d].on] = "starting"
    BY <1>0, <1>3 DEF Store, CallsTyped, Born
  <2>2. CASE \E pruned \in table : call' = [call EXCEPT ![c].at = "evict", ![c].prune = pruned] /\ UNCHANGED proc
    <3>1. PICK pruned \in table : call' = [call EXCEPT ![c].at = "evict", ![c].prune = pruned] /\ UNCHANGED proc
      BY <2>2
    <3>. DEFINE r == [call[c] EXCEPT !.at = "evict", !.prune = pruned]
    <3>2. pruned \in Born /\ pruned \in Nat
      BY DEF ExecShape, TableTyped, Born, Ids
    <3>3. r \in Calls /\ r.at = "evict" /\ r.on = call[c].on /\ r.prune = pruned
      BY <1>0, <3>2 DEF Calls, CallPoints
    <3>4. call' = [call EXCEPT ![c] = r]
      BY <3>1, <1>0
    <3>. HIDE DEF r
    <3>5. \A d \in Callers \ {c} : call[d].at \in {"store", "evict"} =>
              call[d].on # r.on /\ proc'[call[d].on] = "starting"
      BY <2>1, <3>1, <3>3
    <3>6. r.on \in Born' /\ r.prune \in Born' /\ proc'[r.on] = "starting"
      BY <1>0, <2>1, <3>1, <3>2, <3>3
    <3>7. r \in Calls /\ r.at = "evict"
      BY <3>3
    <3>. QED  BY <1>0, <3>4, <3>5, <3>6, <3>7, OneCallMoves
  <2>3. CASE call' = [call EXCEPT ![c].at = "drain"] /\ proc' = [proc EXCEPT ![call[c].on] = "running"]
    <3>. DEFINE r == [call[c] EXCEPT !.at = "drain"]
    <3>1. r \in Calls /\ r.at = "drain" /\ r.on = call[c].on
      BY <1>0 DEF Calls, CallPoints
    <3>2. call' = [call EXCEPT ![c] = r]
      BY <2>3, <1>0
    <3>3. \A t \in Ids : t # call[c].on => proc'[t] = proc[t]
      BY <1>0, <2>3
    <3>. HIDE DEF r
    <3>4. \A d \in Callers \ {c} : call[d].at \in {"store", "evict"} => proc'[call[d].on] = "starting"
      BY <2>1, <3>3
    <3>5. r.on \in Born'
      BY <1>0, <2>1, <3>1
    <3>6. r \in Calls /\ r.at = "drain"
      BY <3>1
    <3>. QED  BY <1>0, <3>2, <3>4, <3>5, <3>6, OneCallMoves
  <2>4. Cardinality(table) >= MaxTable => ToPrune \in table \union {Nobody}
    BY PruneIsFound
  <2>. QED  BY <1>3, <2>2, <2>3, <2>4 DEF Store
<1>4. ASSUME NEW c \in Callers, Evict(c) PROVE CallsTyped'
  <2>1. /\ call[c].at = "evict" /\ call[c].on \in Born /\ call[c].on \in Ids
        /\ \A d \in Callers \ {c} : call[d].at \in {"store", "evict"} =>
               /\ call[d].on # call[c].on /\ call[d].on \in Ids /\ proc[call[d].on] = "starting"
    BY <1>0, <1>4 DEF Evict, At, CallsTyped, Born
  <2>. DEFINE r == [call[c] EXCEPT !.at = "drain"]
  <2>2. r \in Calls /\ r.at = "drain" /\ r.on = call[c].on
    BY <1>0 DEF Calls, CallPoints
  <2>3. call' = [call EXCEPT ![c] = r]
    BY <1>4, <1>0 DEF Evict, At
  <2>4. \A t \in Ids : t # call[c].on => proc'[t] = proc[t]
    BY <1>0, <1>4 DEF Evict
  <2>. HIDE DEF r
  <2>5. \A d \in Callers \ {c} : call[d].at \in {"store", "evict"} => proc'[call[d].on] = "starting"
    BY <2>1, <2>4
  <2>6. r.on \in Born'
    BY <1>0, <2>1, <2>2
  <2>7. r \in Calls /\ r.at = "drain"
    BY <2>2
  <2>. QED  BY <1>0, <2>3, <2>5, <2>6, <2>7, OneCallMoves
<1>5. ASSUME NEW c \in Callers, NEW r \in Calls, call' = [call EXCEPT ![c] = r], UNCHANGED proc,
             r.on = call[c].on, r.at \notin {"idle", "store", "evict"}, call[c].at # "idle"
      PROVE  CallsTyped'
  <2>1. \A d \in Callers : call[d].at \in {"store", "evict"} => proc[call[d].on] = "starting"
    BY <1>0 DEF CallsTyped
  <2>2. r.on \in Born
    BY <1>0, <1>5 DEF CallsTyped
  <2>. QED  BY <1>0, <1>5, <2>1, <2>2, OneCallMoves
<1>6. ASSUME NEW c \in Callers, Drain(c) PROVE CallsTyped'
  <2>. DEFINE to == IF data[call[c].on] # <<>> THEN "admit" ELSE "check"
              taken == call[c].got \union Numbered(data[call[c].on])
              r == [call[c] EXCEPT !.got = taken, !.at = to]
  <2>1. call[c].at = "drain" /\ call[c].on \in Ids /\ UNCHANGED proc /\ call' = [call EXCEPT ![c] = r]
    BY <1>0, <1>6, CallFields DEF Drain, procVars
  <2>2. taken \subseteq Nat
    BY <2>1, CallFields, NumberedMeans DEF ExecShape, BufferTyped
  <2>. HIDE DEF taken
  <2>3. r \in Calls /\ r.on = call[c].on /\ r.at \in {"admit", "check"}
    BY <1>0, <2>2 DEF Calls, CallPoints
  <2>. HIDE DEF r
  <2>. QED  BY <1>5, <2>1, <2>3
<1>7. ASSUME NEW c \in Callers, Rest(c) PROVE CallsTyped'
  <2>. DEFINE taken == call[c].got \union Numbered(data[call[c].on])
              r == [call[c] EXCEPT !.got = taken, !.at = "finish"]
  <2>1. call[c].at = "rest" /\ call[c].on \in Ids /\ UNCHANGED proc /\ call' = [call EXCEPT ![c] = r]
    BY <1>0, <1>7, CallFields DEF Rest, procVars
  <2>2. taken \subseteq Nat
    BY <2>1, CallFields, NumberedMeans DEF ExecShape, BufferTyped
  <2>. HIDE DEF taken
  <2>3. r \in Calls /\ r.on = call[c].on /\ r.at = "finish"
    BY <1>0, <2>2 DEF Calls, CallPoints
  <2>. HIDE DEF r
  <2>. QED  BY <1>5, <2>1, <2>3
<1>8. ASSUME NEW c \in Callers, NEW to \in {"drain", "finish", "ended"}, Admit(c, to), call[c].at # "idle"
      PROVE CallsTyped'
  <2>. DEFINE cut == IF truncated[call[c].on] THEN call[c].cut \union dropped[call[c].on] ELSE call[c].cut
              r == [call[c] EXCEPT !.cut = cut, !.at = to]
  <2>1. call[c].on \in Ids /\ UNCHANGED proc /\ call' = [call EXCEPT ![c] = r]
    BY <1>0, <1>8, CallFields DEF Admit, procVars
  <2>2. cut \subseteq Nat
    BY <2>1, CallFields DEF ExecShape, BufferTyped
  <2>. HIDE DEF cut
  <2>3. r \in Calls /\ r.on = call[c].on /\ r.at = to
    BY <1>0, <2>2 DEF Calls, CallPoints
  <2>. HIDE DEF r
  <2>. QED  BY <1>5, <1>8, <2>1, <2>3
<1>9. ASSUME NEW c \in Callers, AdmitDrop(c) \/ Finish(c) PROVE CallsTyped'
  BY <1>8, <1>9 DEF AdmitDrop, Finish, Onward
<1>10. ASSUME NEW c \in Callers, Check(c) PROVE CallsTyped'
  <2>. DEFINE over == proc[call[c].on] = "done"
  <2>1. PICK to \in {"rest", "finish", "wait"} : call' = [call EXCEPT ![c].seen = over, ![c].at = to]
    <3>1. CASE over
      BY <1>10, <3>1 DEF Check
    <3>2. CASE ~over
      BY <1>10, <3>2 DEF Check
    <3>. QED  BY <3>1, <3>2
  <2>2. over \in BOOLEAN
    OBVIOUS
  <2>. HIDE DEF over
  <2>. DEFINE r == [call[c] EXCEPT !.seen = over, !.at = to]
  <2>3. r \in Calls /\ r.on = call[c].on /\ r.at = to
    BY <1>0, <2>2 DEF Calls, CallPoints
  <2>4. call' = [call EXCEPT ![c] = r]
    BY <1>0, <2>1
  <2>5. UNCHANGED proc /\ call[c].at = "check"
    BY <1>10 DEF Check, procVars
  <2>. HIDE DEF r
  <2>. QED  BY <1>5, <2>3, <2>4, <2>5
<1>11. ASSUME NEW c \in Callers, Select(c) PROVE CallsTyped'
  <2>1. PICK to \in {"drain", "finish"} : call' = [call EXCEPT ![c].at = to]
    BY <1>11 DEF Select, At
  <2>. DEFINE r == [call[c] EXCEPT !.at = to]
  <2>2. r \in Calls /\ r.on = call[c].on /\ r.at = to
    BY <1>0 DEF Calls, CallPoints
  <2>3. call' = [call EXCEPT ![c] = r] /\ UNCHANGED proc /\ call[c].at = "wait"
    BY <1>0, <1>11, <2>1 DEF Select, procVars
  <2>. HIDE DEF r
  <2>. QED  BY <1>5, <2>2, <2>3
<1>12. ASSUME NEW c \in Callers, Deadline(c) PROVE CallsTyped'
  <2>. DEFINE r == [call[c] EXCEPT !.late = TRUE]
  <2>1. r \in Calls /\ r.on = call[c].on /\ r.at = call[c].at
    BY <1>0 DEF Calls
  <2>2. /\ call' = [call EXCEPT ![c] = r] /\ UNCHANGED proc
        /\ call[c].at \in {"drain", "admit", "check", "rest", "wait", "finish"}
    BY <1>0, <1>12 DEF Deadline, procVars
  <2>. HIDE DEF r
  <2>. QED  BY <1>5, <2>1, <2>2
<1>13. ASSUME NEW c \in Callers, Terminate(c) PROVE CallsTyped'
  <2>. DEFINE r == [call[c] EXCEPT !.at = "drain", !.tends = "ending", !.late = FALSE]
  <2>1. r \in Calls /\ r.on = call[c].on /\ r.at = "drain"
    BY <1>0 DEF Calls, CallPoints
  <2>2. call' = [call EXCEPT ![c] = r] /\ UNCHANGED proc /\ call[c].at = "ended"
    BY <1>0, <1>13 DEF Terminate
  <2>. HIDE DEF r
  <2>. QED  BY <1>5, <2>1, <2>2
<1>14. ASSUME NEW c \in Callers, Report(c) PROVE CallsTyped'
  <2>1. NoCall \in Calls /\ NoCall.at = "idle" /\ NoCall.got = {} /\ NoCall.cut = {} /\ ~NoCall.seen
    BY DEF NoCall, Calls, CallPoints, Nobody
  <2>2. call' = [call EXCEPT ![c] = NoCall] /\ UNCHANGED proc
    BY <1>14 DEF Report, procVars
  <2>. QED  BY <1>0, <2>1, <2>2, OneCallMoves DEF CallsTyped
<1>15. ASSUME NEW c \in Callers, CancelAgent(c) PROVE CallsTyped'
  BY <1>0, <1>15 DEF CancelAgent, procVars, CallsTyped, Born
<1>16. ASSUME NEW s \in Ids, Exit(s) PROVE CallsTyped'
  <2>1. \A d \in Callers : call[d].at \in {"store", "evict"} => proc'[call[d].on] = "starting"
    BY <1>0, <1>16 DEF Exit, CallsTyped, Born
  <2>2. UNCHANGED call
    BY <1>16 DEF Exit
  <2>. QED  BY <1>0, <2>1, <2>2 DEF CallsTyped
<1>17. ASSUME NEW s \in Ids, Emit(s) \/ RemoveCompleted(s) \/ Stop(s) PROVE CallsTyped'
  BY <1>0, <1>17 DEF Emit, RemoveCompleted, Stop, procVars, CallsTyped, Born
<1>. QED  BY <1>1, <1>2, <1>3, <1>4, <1>6, <1>7, <1>9, <1>10, <1>11, <1>12, <1>13, <1>14, <1>15,
             <1>16, <1>17 DEF ExecNext, CallStep
-----------------------------------------------------------------------------
(* Where the chunks are *)

\* What a step of one call does to what the calls hold.
LEMMA HeldMoves ==
    ASSUME ExecShape, NEW c \in Callers, NEW r, call' = [call EXCEPT ![c] = r]
    PROVE  /\ \A d \in Callers \ {c}, t \in Ids : Held(d, t)' = Held(d, t)
           /\ \A t \in Ids : Held(c, t)' = IF r.on = t THEN r.got \union r.cut ELSE {}
           /\ \A t \in Ids : Held(c, t) = IF call[c].on = t THEN call[c].got \union call[c].cut ELSE {}
<1>1. call'[c] = r /\ \A d \in Callers \ {c} : call'[d] = call[d]
  BY CallFields
<1>2. \A t \in Ids : Held(c, t)' = IF r.on = t THEN r.got \union r.cut ELSE {}
  BY <1>1 DEF Held
<1>3. \A t \in Ids : Held(c, t) = IF call[c].on = t THEN call[c].got \union call[c].cut ELSE {}
  BY DEF Held
<1>. QED  BY <1>1, <1>2, <1>3 DEF Held

\* What it holds of the other sessions, or of none, stays.
LEMMA HeldStays ==
    ASSUME ExecShape, NEW c \in Callers, NEW r, call' = [call EXCEPT ![c] = r],
           \/ r.on = call[c].on /\ r.got = call[c].got /\ r.cut = call[c].cut
           \/ r.got = {} /\ r.cut = {} /\ call[c].got = {} /\ call[c].cut = {}
    PROVE  \A d \in Callers, t \in Ids : Held(d, t)' = Held(d, t)
<1>1. /\ \A d \in Callers \ {c}, t \in Ids : Held(d, t)' = Held(d, t)
      /\ \A t \in Ids : Held(c, t)' = IF r.on = t THEN r.got \union r.cut ELSE {}
      /\ \A t \in Ids : Held(c, t) = IF call[c].on = t THEN call[c].got \union call[c].cut ELSE {}
  BY HeldMoves
<1>2. ASSUME NEW t \in Ids PROVE Held(c, t)' = Held(c, t)
  BY <1>1
<1>. QED  BY <1>1, <1>2

\* A step that takes nothing from anywhere.
LEMMA NothingMoves ==
    ASSUME Conserved, UNCHANGED <<data, written, truncated, shown, dropped>>,
           \A c \in Callers, t \in Ids : Held(c, t)' = Held(c, t)
    PROVE  Conserved'
<1>. SUFFICES ASSUME NEW t \in Ids
              PROVE  (Apart(t) /\ Placed(t) /\ DropIsNoted(t) /\ InOrder(data[t]))'
  BY DEF Conserved
<1>1. Apart(t) /\ Placed(t) /\ DropIsNoted(t) /\ InOrder(data[t])
  BY DEF Conserved
<1>2. \A c \in Callers : Held(c, t)' = Held(c, t)
  OBVIOUS
<1>3. Apart(t)'
  BY <1>1, <1>2 DEF Apart, Numbered
<1>4. Placed(t)'
  BY <1>1, <1>2 DEF Placed, Numbered
<1>. QED  BY <1>1, <1>3, <1>4 DEF DropIsNoted, InOrder

\* A chunk is written: it goes to the buffer, which spills.
LEMMA WriteConserves ==
    ASSUME ExecShape, Conserved, NEW s \in Ids, NEW chunk \in Nat, Write(s, chunk),
           UNCHANGED shown, \A c \in Callers, t \in Ids : Held(c, t)' = Held(c, t),
           \/ chunk = More /\ UNCHANGED written
           \/ chunk = written[s] + 1 /\ written' = [written EXCEPT ![s] = chunk]
    PROVE  Conserved'
<1>1. /\ BufferTyped /\ written[s] \in Nat /\ data[s] \in Seq(Nat)
      /\ Apart(s) /\ Placed(s) /\ DropIsNoted(s) /\ InOrder(data[s])
  BY DEF ExecShape, BufferTyped, Conserved
<1>2. chunk = More \/ \A n \in Numbered(data[s]) : n < chunk
  BY NextIsGreater
<1>3. /\ data' \in [Ids -> Seq(Nat)]
      /\ \A t \in Ids \ {s} : data'[t] = data[t] /\ dropped'[t] = dropped[t] /\ truncated'[t] = truncated[t]
      /\ InOrder(data'[s])
  BY <1>1, <1>2, WriteKeeps
<1>4. PICK spilt \in SUBSET Nat :
          /\ Numbered(data'[s]) \union spilt = Numbered(data[s]) \union ({chunk} \ {More})
          /\ Numbered(data'[s]) \intersect spilt = {}
          /\ dropped'[s] = dropped[s] \union spilt
          /\ DropIsNoted(s) => DropIsNoted(s)'
  BY <1>1, <1>2, WriteKeeps
<1>5. \A c \in Callers, t \in Ids : Held(c, t)' = Held(c, t)
  OBVIOUS
<1>6. ASSUME NEW t \in Ids \ {s}
      PROVE  (Apart(t) /\ Placed(t) /\ DropIsNoted(t) /\ InOrder(data[t]))'
  <2>1. /\ data'[t] = data[t] /\ dropped'[t] = dropped[t] /\ truncated'[t] = truncated[t]
        /\ written'[t] = written[t] /\ shown'[t] = shown[t]
    BY <1>3 DEF ExecShape, BufferTyped
  <2>2. Apart(t) /\ Placed(t) /\ DropIsNoted(t) /\ InOrder(data[t])
    BY DEF Conserved
  <2>3. Apart(t)'
    BY <1>5, <2>1, <2>2 DEF Apart
  <2>4. Placed(t)'
    BY <1>5, <2>1, <2>2 DEF Placed
  <2>. QED  BY <2>1, <2>2, <2>3, <2>4 DEF DropIsNoted
<1>. DEFINE new == {chunk} \ {More}
<1>7. /\ new \subseteq Nat
      /\ \A n \in Nat : n \in 1..written'[s] <=> n \in 1..written[s] \/ n \in new
      /\ \A n \in new : n \notin 1..written[s]
  <2>1. CASE chunk = More /\ UNCHANGED written
    BY <2>1
  <2>2. CASE chunk = written[s] + 1 /\ written' = [written EXCEPT ![s] = chunk]
    <3>1. written'[s] = written[s] + 1
      BY <2>2 DEF ExecShape, BufferTyped
    <3>2. new = {written[s] + 1}
      BY <1>1, <2>2 DEF More
    <3>. HIDE DEF new
    <3>. QED  BY <1>1, <3>1, <3>2
  <2>. QED  BY <2>1, <2>2
<1>. HIDE DEF new
<1>8. shown'[s] = shown[s]
  OBVIOUS
<1>9. /\ Numbered(data'[s]) \union spilt = Numbered(data[s]) \union new
      /\ Numbered(data'[s]) \intersect spilt = {}
  BY <1>4 DEF new
<1>10. /\ shown[s] \subseteq Nat /\ dropped[s] \subseteq Nat /\ Numbered(data[s]) \subseteq Nat
       /\ \A c \in Callers : Held(c, s) \subseteq Nat
  BY <1>1, NumberedMeans, CallFields DEF BufferTyped, Held
<1>11. Placed(s)'
  <2>1. \A n \in Nat : n \in 1..written[s] <=>
            \/ n \in shown[s] \union Numbered(data[s]) \union dropped[s]
            \/ \E c \in Callers : n \in Held(c, s)
    BY <1>1 DEF Placed
  <2>2. \A n \in Nat : n \in 1..written'[s] <=>
            \/ n \in shown'[s] \union Numbered(data'[s]) \union dropped'[s]
            \/ \E c \in Callers : n \in Held(c, s)'
    BY <1>4, <1>5, <1>7, <1>8, <1>9, <2>1
  <2>. QED  BY <2>2 DEF Placed
<1>12. Apart(s)'
  <2>1. new \intersect (shown[s] \union Numbered(data[s]) \union dropped[s]) = {}
        /\ \A c \in Callers : new \intersect Held(c, s) = {}
    BY <1>1, <1>7, <1>10 DEF Placed
  <2>2. /\ shown'[s] \intersect Numbered(data'[s]) = {} /\ shown'[s] \intersect dropped'[s] = {}
        /\ Numbered(data'[s]) \intersect dropped'[s] = {}
    BY <1>1, <1>4, <1>8, <1>9, <2>1 DEF Apart
  <2>3. ASSUME NEW c \in Callers
        PROVE  Held(c, s)' \intersect (shown'[s] \union Numbered(data'[s]) \union dropped'[s]) = {}
    <3>1. Held(c, s) \intersect (shown[s] \union Numbered(data[s]) \union dropped[s]) = {}
          /\ new \intersect Held(c, s) = {} /\ Held(c, s)' = Held(c, s)
      BY <1>1, <1>5, <2>1 DEF Apart
    <3>. QED  BY <1>4, <1>8, <1>9, <3>1
  <2>4. \A c, d \in Callers : c # d => Held(c, s)' \intersect Held(d, s)' = {}
    BY <1>1, <1>5 DEF Apart
  <2>. QED  BY <2>2, <2>3, <2>4 DEF Apart
<1>13. (Apart(s) /\ Placed(s) /\ DropIsNoted(s) /\ InOrder(data[s]))'
  BY <1>1, <1>3, <1>4, <1>11, <1>12
<1>. QED  BY <1>6, <1>13 DEF Conserved

\* A call takes some of what is in the buffer, dropped or in its hands, and shows or keeps it.
LEMMA TakeConserves ==
    ASSUME ExecShape, Conserved, NEW c \in Callers, NEW s \in Ids, UNCHANGED written,
           \A t \in Ids \ {s} : /\ data'[t] = data[t] /\ dropped'[t] = dropped[t]
                                /\ truncated'[t] = truncated[t] /\ shown'[t] = shown[t],
           \A d \in Callers \ {c}, t \in Ids : Held(d, t)' = Held(d, t),
           \A t \in Ids \ {s} : Held(c, t)' = Held(c, t),
           Numbered(data'[s]) \subseteq Numbered(data[s]), dropped'[s] \subseteq dropped[s],
           shown'[s] \intersect Held(c, s)' = {},
           (shown'[s] \union Held(c, s)') \intersect (Numbered(data'[s]) \union dropped'[s]) = {},
           shown[s] \subseteq shown'[s], shown'[s] \subseteq shown[s] \union Held(c, s),
           shown'[s] \union Held(c, s)' \union Numbered(data'[s]) \union dropped'[s]
               = shown[s] \union Held(c, s) \union Numbered(data[s]) \union dropped[s],
           DropIsNoted(s)', InOrder(data'[s])
    PROVE  Conserved'
<1>1. Apart(s) /\ Placed(s)
  BY DEF Conserved
<1>2. ASSUME NEW t \in Ids \ {s}
      PROVE  (Apart(t) /\ Placed(t) /\ DropIsNoted(t) /\ InOrder(data[t]))'
  <2>1. Apart(t) /\ Placed(t) /\ DropIsNoted(t) /\ InOrder(data[t])
    BY DEF Conserved
  <2>2. \A d \in Callers : Held(d, t)' = Held(d, t)
    OBVIOUS
  <2>3. Apart(t)'
    BY <2>1, <2>2 DEF Apart
  <2>4. Placed(t)'
    BY <2>1, <2>2 DEF Placed
  <2>. QED  BY <2>1, <2>3, <2>4 DEF DropIsNoted
<1>3. Placed(s)'
  <2>1. \A n \in Nat : n \in 1..written[s] <=>
            \/ n \in shown[s] \union Held(c, s) \union Numbered(data[s]) \union dropped[s]
            \/ \E d \in Callers \ {c} : n \in Held(d, s)
    BY <1>1 DEF Placed
  <2>2. \A n \in Nat : n \in 1..written'[s] <=>
            \/ n \in shown'[s] \union Held(c, s)' \union Numbered(data'[s]) \union dropped'[s]
            \/ \E d \in Callers \ {c} : n \in Held(d, s)'
    BY <2>1
  <2>. QED  BY <2>2 DEF Placed
<1>4. Apart(s)'
  <2>. DEFINE all == shown[s] \union Held(c, s) \union Numbered(data[s]) \union dropped[s]
  <2>1. \A d \in Callers \ {c} : Held(d, s) \intersect all = {}
    BY <1>1 DEF Apart
  <2>2. /\ shown'[s] \subseteq all /\ Held(c, s)' \subseteq all
        /\ Numbered(data'[s]) \subseteq all /\ dropped'[s] \subseteq all
    OBVIOUS
  <2>. HIDE DEF all
  <2>3. Numbered(data'[s]) \intersect dropped'[s] = {}
    BY <1>1 DEF Apart
  <2>4. \A d \in Callers \ {c} : Held(d, s)' = Held(d, s)
    OBVIOUS
  <2>5. ASSUME NEW d \in Callers
        PROVE  Held(d, s)' \intersect (shown'[s] \union Numbered(data'[s]) \union dropped'[s]) = {}
    <3>1. CASE d = c
      BY <3>1
    <3>2. CASE d # c
      BY <2>1, <2>2, <2>4, <3>2
    <3>. QED  BY <3>1, <3>2
  <2>6. ASSUME NEW d \in Callers, NEW e \in Callers, d # e
        PROVE  Held(d, s)' \intersect Held(e, s)' = {}
    <3>1. CASE d = c
      BY <2>1, <2>2, <2>4, <2>6, <3>1
    <3>2. CASE e = c
      BY <2>1, <2>2, <2>4, <2>6, <3>2
    <3>3. CASE d # c /\ e # c
      BY <1>1, <2>4, <2>6, <3>3 DEF Apart
    <3>. QED  BY <3>1, <3>2, <3>3
  <2>7. shown'[s] \intersect Numbered(data'[s]) = {} /\ shown'[s] \intersect dropped'[s] = {}
    OBVIOUS
  <2>. QED  BY <2>3, <2>5, <2>6, <2>7 DEF Apart
<1>. QED  BY <1>2, <1>3, <1>4 DEF Conserved
LEMMA ConservedKept ==
    ASSUME ExecShape, Conserved, ExecNext
    PROVE  Conserved'
<1>0. call \in [Callers -> Calls] /\ CallsTyped /\ BufferTyped
  BY DEF ExecShape, CallsTyped
<1>1. ASSUME NEW s \in Ids, Emit(s) PROVE Conserved'
  <2>1. UNCHANGED <<call, shown>> /\ written[s] + 1 \in Nat /\ More \in Nat
    BY <1>0, <1>1 DEF Emit, BufferTyped, More
  <2>5. \A d \in Callers, t \in Ids : Held(d, t)' = Held(d, t)
    BY <2>1 DEF Held
  <2>2. \/ written' = [written EXCEPT ![s] = written[s] + 1] /\ Write(s, written'[s])
        \/ Write(s, More) /\ UNCHANGED written
    BY <1>1 DEF Emit
  <2>3. CASE written' = [written EXCEPT ![s] = written[s] + 1] /\ Write(s, written'[s])
    <3>1. written'[s] = written[s] + 1
      BY <1>0, <2>3 DEF BufferTyped
    <3>2. Write(s, written[s] + 1)
      BY <2>3, <3>1
    <3>. QED  BY <2>1, <2>3, <2>5, <3>2, WriteConserves
  <2>4. CASE Write(s, More) /\ UNCHANGED written
    BY <2>1, <2>4, <2>5, WriteConserves
  <2>. QED  BY <2>2, <2>3, <2>4
<1>2. ASSUME NEW c \in Callers, Evict(c) PROVE Conserved'
  <2>. DEFINE s == call[c].prune
              r == [call[c] EXCEPT !.at = "drain"]
  <2>1. s \in Ids /\ Write(s, More) /\ UNCHANGED <<written, shown>> /\ More \in Nat
    BY <1>2, CallFields DEF Evict, At, More
  <2>2. call' = [call EXCEPT ![c] = r]
    BY <1>0, <1>2 DEF Evict, At
  <2>3. r.on = call[c].on /\ r.got = call[c].got /\ r.cut = call[c].cut
    BY <1>0 DEF Calls
  <2>. HIDE DEF s, r
  <2>4. \A d \in Callers, t \in Ids : Held(d, t)' = Held(d, t)
    BY <2>2, <2>3, HeldStays
  <2>. QED  BY <2>1, <2>4, WriteConserves
<1>3. ASSUME NEW c \in Callers, NEW r \in Calls, r.on = call[c].on, r.cut = call[c].cut,
             r.got = call[c].got \union Numbered(data[call[c].on]), call[c].at # "idle",
             call' = [call EXCEPT ![c] = r], data' = [data EXCEPT ![call[c].on] = <<>>],
             UNCHANGED <<written, truncated, shown, dropped>>
      PROVE  Conserved'
  <2>1. PICK s \in Ids : s = call[c].on
    BY <1>3, CallFields
  <2>2. data'[s] = <<>> /\ \A t \in Ids \ {s} : data'[t] = data[t]
    BY <1>0, <1>3, <2>1 DEF BufferTyped
  <2>3. Numbered(data'[s]) = {} /\ InOrder(data'[s])
    BY <2>2 DEF Numbered, ToSet, InOrder
  <2>4. /\ \A d \in Callers \ {c}, t \in Ids : Held(d, t)' = Held(d, t)
        /\ \A t \in Ids \ {s} : Held(c, t)' = Held(c, t)
        /\ Held(c, s)' = Held(c, s) \union Numbered(data[s])
    <3>1. \A t \in Ids : Held(c, t)' = IF s = t THEN call[c].got \union Numbered(data[s]) \union call[c].cut ELSE {}
      <4>1. r.on = s /\ r.got = call[c].got \union Numbered(data[s]) /\ r.cut = call[c].cut
        BY <1>3, <2>1
      <4>2. \A t \in Ids : Held(c, t)' = IF r.on = t THEN r.got \union r.cut ELSE {}
        BY <1>3, HeldMoves
      <4>. QED  BY <4>1, <4>2
    <3>2. \A t \in Ids : Held(c, t) = IF s = t THEN call[c].got \union call[c].cut ELSE {}
      BY <1>3, <2>1, HeldMoves
    <3>3. \A d \in Callers \ {c}, t \in Ids : Held(d, t)' = Held(d, t)
      BY <1>3, HeldMoves
    <3>. QED  BY <3>1, <3>2, <3>3
  <2>5. Apart(s) /\ DropIsNoted(s)
    BY <2>1 DEF Conserved
  <2>6. /\ Held(c, s) \intersect shown[s] = {} /\ Held(c, s) \intersect dropped[s] = {}
        /\ shown[s] \intersect Numbered(data[s]) = {} /\ shown[s] \intersect dropped[s] = {}
        /\ Numbered(data[s]) \intersect dropped[s] = {}
    BY <2>5 DEF Apart
  <2>7. DropIsNoted(s)'
    BY <1>3, <2>5 DEF DropIsNoted
  <2>8. /\ written' = written /\ shown' = shown /\ dropped' = dropped /\ truncated' = truncated
    BY <1>3
  <2>. QED  BY <2>2, <2>3, <2>4, <2>6, <2>7, <2>8, TakeConserves
<1>4. ASSUME NEW c \in Callers, Drain(c) PROVE Conserved'
  <2>. DEFINE to == IF data[call[c].on] # <<>> THEN "admit" ELSE "check"
              taken == call[c].got \union Numbered(data[call[c].on])
              r == [call[c] EXCEPT !.got = taken, !.at = to]
  <2>1. /\ call[c].at = "drain" /\ call[c].on \in Ids /\ call' = [call EXCEPT ![c] = r]
        /\ data' = [data EXCEPT ![call[c].on] = <<>>] /\ UNCHANGED <<written, truncated, shown, dropped>>
    BY <1>0, <1>4, CallFields DEF Drain, historyVars
  <2>2. taken \subseteq Nat
    BY <1>0, <2>1, CallFields, NumberedMeans DEF BufferTyped
  <2>. HIDE DEF taken
  <2>3. r \in Calls /\ r.on = call[c].on /\ r.got = taken /\ r.cut = call[c].cut
    BY <1>0, <2>2 DEF Calls, CallPoints
  <2>. HIDE DEF r
  <2>. QED  BY <1>3, <2>1, <2>3 DEF taken
<1>5. ASSUME NEW c \in Callers, Rest(c) PROVE Conserved'
  <2>. DEFINE taken == call[c].got \union Numbered(data[call[c].on])
              r == [call[c] EXCEPT !.got = taken, !.at = "finish"]
  <2>1. /\ call[c].at = "rest" /\ call[c].on \in Ids /\ call' = [call EXCEPT ![c] = r]
        /\ data' = [data EXCEPT ![call[c].on] = <<>>] /\ UNCHANGED <<written, truncated, shown, dropped>>
    BY <1>0, <1>5, CallFields DEF Rest, historyVars
  <2>2. taken \subseteq Nat
    BY <1>0, <2>1, CallFields, NumberedMeans DEF BufferTyped
  <2>. HIDE DEF taken
  <2>3. r \in Calls /\ r.on = call[c].on /\ r.got = taken /\ r.cut = call[c].cut
    BY <1>0, <2>2 DEF Calls, CallPoints
  <2>. HIDE DEF r
  <2>. QED  BY <1>3, <2>1, <2>3 DEF taken
<1>6. ASSUME NEW c \in Callers, NEW to, Admit(c, to), call[c].at # "idle" PROVE Conserved'
  <2>0. PICK s \in Ids : s = call[c].on
    BY <1>6, CallFields
  <2>. DEFINE cut == IF truncated[s] THEN call[c].cut \union dropped[s] ELSE call[c].cut
              r == [call[c] EXCEPT !.cut = cut, !.at = to]
  <2>1. call' = [call EXCEPT ![c] = r] /\ UNCHANGED <<written, data, shown>>
    BY <1>0, <1>6, <2>0 DEF Admit
  <2>2. Apart(s) /\ DropIsNoted(s) /\ InOrder(data[s])
    BY <2>1 DEF Conserved
  <2>3. dropped'[s] = {} /\ \A t \in Ids \ {s} : dropped'[t] = dropped[t] /\ truncated'[t] = truncated[t]
    BY <1>0, <1>6, <2>0, <2>2 DEF Admit, BufferTyped, DropIsNoted
  <2>4. cut = call[c].cut \union dropped[s]
    BY <2>2 DEF DropIsNoted
  <2>. HIDE DEF cut
  <2>5. r.on = s /\ r.got = call[c].got /\ r.cut = cut
    BY <1>0, <2>0 DEF Calls
  <2>. HIDE DEF r
  <2>6. /\ \A d \in Callers \ {c}, t \in Ids : Held(d, t)' = Held(d, t)
        /\ \A t \in Ids \ {s} : Held(c, t)' = Held(c, t)
        /\ Held(c, s)' = Held(c, s) \union dropped[s]
    <3>1. \A t \in Ids : Held(c, t)' = IF s = t THEN call[c].got \union cut ELSE {}
      BY <2>1, <2>5, HeldMoves
    <3>2. \A t \in Ids : Held(c, t) = IF s = t THEN call[c].got \union call[c].cut ELSE {}
      BY <2>0, <2>1, HeldMoves
    <3>3. \A d \in Callers \ {c}, t \in Ids : Held(d, t)' = Held(d, t)
      BY <2>1, HeldMoves
    <3>. QED  BY <2>4, <3>1, <3>2, <3>3
  <2>7. /\ Held(c, s) \intersect shown[s] = {} /\ Held(c, s) \intersect Numbered(data[s]) = {}
        /\ shown[s] \intersect Numbered(data[s]) = {} /\ shown[s] \intersect dropped[s] = {}
        /\ Numbered(data[s]) \intersect dropped[s] = {}
    BY <2>2 DEF Apart
  <2>8. DropIsNoted(s)'
    BY <2>3 DEF DropIsNoted
  <2>9. data'[s] = data[s] /\ shown'[s] = shown[s] /\ Numbered(data'[s]) = Numbered(data[s])
    BY <2>1
  <2>. QED  BY <2>1, <2>2, <2>3, <2>6, <2>7, <2>8, <2>9, TakeConserves
<1>7. ASSUME NEW c \in Callers, AdmitDrop(c) \/ Finish(c) PROVE Conserved'
  BY <1>6, <1>7 DEF AdmitDrop, Finish
<1>8. ASSUME NEW c \in Callers, Report(c) PROVE Conserved'
  <2>0. PICK s \in Ids : s = call[c].on
    BY <1>8, CallFields DEF Report
  <2>1. /\ call' = [call EXCEPT ![c] = NoCall] /\ UNCHANGED <<written, data, truncated, dropped>>
        /\ shown' = [shown EXCEPT ![s] = @ \union call[c].got \union call[c].cut]
    BY <1>8, <2>0 DEF Report, bufferVars
  <2>2. NoCall.got \union NoCall.cut = {}
    BY DEF NoCall
  <2>3. /\ \A d \in Callers \ {c}, t \in Ids : Held(d, t)' = Held(d, t)
        /\ Held(c, s)' = {} /\ Held(c, s) = call[c].got \union call[c].cut
        /\ \A t \in Ids \ {s} : Held(c, t)' = Held(c, t)
    BY <2>0, <2>1, <2>2, HeldMoves
  <2>4. shown'[s] = shown[s] \union Held(c, s) /\ \A t \in Ids \ {s} : shown'[t] = shown[t]
    BY <1>0, <2>1, <2>3 DEF BufferTyped
  <2>5. Apart(s) /\ DropIsNoted(s) /\ InOrder(data[s])
    BY <2>1 DEF Conserved
  <2>6. /\ Held(c, s) \intersect shown[s] = {} /\ Held(c, s) \intersect Numbered(data[s]) = {}
        /\ Held(c, s) \intersect dropped[s] = {}
        /\ shown[s] \intersect Numbered(data[s]) = {} /\ shown[s] \intersect dropped[s] = {}
        /\ Numbered(data[s]) \intersect dropped[s] = {}
    BY <2>5 DEF Apart
  <2>7. DropIsNoted(s)' /\ data'[s] = data[s] /\ dropped'[s] = dropped[s]
        /\ Numbered(data'[s]) = Numbered(data[s])
    BY <2>1, <2>5 DEF DropIsNoted
  <2>8. written' = written /\ data' = data /\ truncated' = truncated /\ dropped' = dropped
    BY <2>1
  <2>. QED  BY <2>1, <2>3, <2>4, <2>5, <2>6, <2>7, <2>8, TakeConserves
<1>9. ASSUME NEW c \in Callers, Launch(c) \/ Poll(c) PROVE Conserved'
  <2>1. PICK r : call' = [call EXCEPT ![c] = r] /\ r.got = {} /\ r.cut = {}
    <3>1. CASE UNCHANGED call
      <4>1. call' = [call EXCEPT ![c] = call[c]] /\ call[c].at = "idle"
        BY <1>0, <1>9, <3>1 DEF Launch, Poll
      <4>. QED  BY <1>0, <4>1 DEF CallsTyped
    <3>2. CASE Launch(c) /\ ~UNCHANGED call
      <4>. DEFINE r == [NoCall EXCEPT !.at = "store", !.on = Len(used) + 1, !.tends = "first"]
      <4>1. call' = [call EXCEPT ![c] = r]
        BY <3>2 DEF Launch
      <4>2. r.got = {} /\ r.cut = {}
        BY DEF NoCall
      <4>. HIDE DEF r
      <4>. QED  BY <4>1, <4>2
    <3>3. CASE Poll(c)
      <4>1. PICK s \in table : call' = [call EXCEPT ![c] = [NoCall EXCEPT !.at = "drain", !.on = s]]
        BY <3>3 DEF Poll
      <4>. DEFINE r == [NoCall EXCEPT !.at = "drain", !.on = s]
      <4>2. r.got = {} /\ r.cut = {} /\ call' = [call EXCEPT ![c] = r]
        BY <4>1 DEF NoCall
      <4>. HIDE DEF r
      <4>. QED  BY <4>2
    <3>. QED  BY <1>9, <3>1, <3>2, <3>3
  <2>2. /\ call[c].at = "idle" /\ call[c].got = {} /\ call[c].cut = {}
        /\ UNCHANGED <<data, written, truncated, shown, dropped>>
    BY <1>0, <1>9 DEF Launch, Poll, CallsTyped, bufferVars, historyVars
  <2>3. \A d \in Callers, t \in Ids : Held(d, t)' = Held(d, t)
    BY <2>1, <2>2, HeldStays
  <2>. QED  BY <2>2, <2>3, NothingMoves
<1>10. ASSUME NEW c \in Callers, Store(c) \/ Check(c) \/ Select(c) \/ Terminate(c) \/ Deadline(c) \/ CancelAgent(c)
       PROVE  Conserved'
  <2>1. UNCHANGED <<data, written, truncated, shown, dropped>>
    BY <1>10 DEF Store, Check, Select, Terminate, Deadline, CancelAgent, bufferVars, historyVars
  <2>2. PICK r : call' = [call EXCEPT ![c] = r] /\ r.on = call[c].on /\ r.got = call[c].got /\ r.cut = call[c].cut
    <3>1. CASE UNCHANGED call
      <4>1. call' = [call EXCEPT ![c] = call[c]]
        BY <1>0, <3>1
      <4>. QED  BY <4>1
    <3>2. CASE \E to : call' = [call EXCEPT ![c].at = to]
      <4>1. PICK to : call' = [call EXCEPT ![c].at = to]
        BY <3>2
      <4>. DEFINE r == [call[c] EXCEPT !.at = to]
      <4>2. call' = [call EXCEPT ![c] = r]
        BY <1>0, <4>1
      <4>3. r.on = call[c].on /\ r.got = call[c].got /\ r.cut = call[c].cut
        BY <1>0 DEF Calls
      <4>. HIDE DEF r
      <4>. QED  BY <4>2, <4>3
    <3>3. CASE \E pruned : call' = [call EXCEPT ![c].at = "evict", ![c].prune = pruned]
      <4>1. PICK pruned : call' = [call EXCEPT ![c].at = "evict", ![c].prune = pruned]
        BY <3>3
      <4>. DEFINE r == [call[c] EXCEPT !.at = "evict", !.prune = pruned]
      <4>2. call' = [call EXCEPT ![c] = r]
        BY <1>0, <4>1
      <4>3. r.on = call[c].on /\ r.got = call[c].got /\ r.cut = call[c].cut
        BY <1>0 DEF Calls
      <4>. HIDE DEF r
      <4>. QED  BY <4>2, <4>3
    <3>4. CASE \E over, to : call' = [call EXCEPT ![c].seen = over, ![c].at = to]
      <4>1. PICK over, to : call' = [call EXCEPT ![c].seen = over, ![c].at = to]
        BY <3>4
      <4>. DEFINE r == [call[c] EXCEPT !.seen = over, !.at = to]
      <4>2. call' = [call EXCEPT ![c] = r]
        BY <1>0, <4>1
      <4>3. r.on = call[c].on /\ r.got = call[c].got /\ r.cut = call[c].cut
        BY <1>0 DEF Calls
      <4>. HIDE DEF r
      <4>. QED  BY <4>2, <4>3
    <3>5. CASE call' = [call EXCEPT ![c].at = "drain", ![c].tends = "ending", ![c].late = FALSE]
      <4>. DEFINE r == [call[c] EXCEPT !.at = "drain", !.tends = "ending", !.late = FALSE]
      <4>1. call' = [call EXCEPT ![c] = r]
        BY <1>0, <3>5
      <4>3. r.on = call[c].on /\ r.got = call[c].got /\ r.cut = call[c].cut
        BY <1>0 DEF Calls
      <4>. HIDE DEF r
      <4>. QED  BY <4>1, <4>3
    <3>6. CASE call' = [call EXCEPT ![c].late = TRUE]
      <4>. DEFINE r == [call[c] EXCEPT !.late = TRUE]
      <4>1. call' = [call EXCEPT ![c] = r]
        BY <1>0, <3>6
      <4>3. r.on = call[c].on /\ r.got = call[c].got /\ r.cut = call[c].cut
        BY <1>0 DEF Calls
      <4>. HIDE DEF r
      <4>. QED  BY <4>1, <4>3
    <3>7. CASE Store(c)
      BY <3>2, <3>3, <3>7 DEF Store
    <3>8. CASE Check(c)
      BY <3>4, <3>8 DEF Check
    <3>9. CASE Select(c)
      BY <3>2, <3>9 DEF Select, At
    <3>. QED  BY <1>10, <3>1, <3>5, <3>6, <3>7, <3>8, <3>9 DEF Terminate, Deadline, CancelAgent
  <2>3. \A d \in Callers, t \in Ids : Held(d, t)' = Held(d, t)
    BY <2>2, HeldStays
  <2>. QED  BY <2>1, <2>3, NothingMoves
<1>11. ASSUME NEW s \in Ids, Exit(s) \/ RemoveCompleted(s) \/ Stop(s) PROVE Conserved'
  <2>1. UNCHANGED <<data, written, truncated, shown, dropped, call>>
    BY <1>11 DEF Exit, RemoveCompleted, Stop, bufferVars, historyVars
  <2>2. \A d \in Callers, t \in Ids : Held(d, t)' = Held(d, t)
    BY <2>1 DEF Held
  <2>. QED  BY <2>1, <2>2, NothingMoves
<1>. QED  BY <1>1, <1>2, <1>4, <1>5, <1>7, <1>8, <1>9, <1>10, <1>11 DEF ExecNext, CallStep
-----------------------------------------------------------------------------
(* A session that is done *)

\* Nothing that is told apart comes to it any more.
Quiet(s) ==
    proc[s] = "done" =>
        /\ proc'[s] = "done"
        /\ Numbered(data[s]) = {} => Numbered(data'[s]) = {} /\ (dropped[s] = {} => dropped'[s] = {})

LEMMA DoneIsQuiet ==
    ASSUME ExecShape, Conserved, ExecNext, NEW s \in Ids
    PROVE  Quiet(s)
<1>0. /\ call \in [Callers -> Calls] /\ CallsTyped /\ BufferTyped
      /\ proc \in [Ids -> {"none", "starting", "running", "done"}]
  BY DEF ExecShape, CallsTyped, ProcTyped
<1>1. proc[s] = "done" => proc'[s] = "done"
  <2>1. ASSUME NEW c \in Callers, Launch(c), proc[s] = "done" PROVE proc'[s] = "done"
    <3>1. s # Len(used) + 1
      BY <2>1 DEF ExecShape, TableTyped, Born
    <3>. QED  BY <1>0, <2>1, <3>1 DEF Launch
  <2>2. ASSUME NEW c \in Callers, Store(c) \/ Evict(c), proc[s] = "done" PROVE proc'[s] = "done"
    <3>1. s # call[c].on
      BY <1>0, <2>2 DEF Store, Evict, At, CallsTyped
    <3>. QED  BY <1>0, <2>2, <3>1 DEF Store, Evict
  <2>3. ASSUME NEW t \in Ids, Exit(t), proc[s] = "done" PROVE proc'[s] = "done"
    BY <1>0, <2>3 DEF Exit
  <2>4. ASSUME NEW c \in Callers,
               \/ Poll(c) \/ Drain(c) \/ AdmitDrop(c) \/ Check(c) \/ Rest(c) \/ Select(c) \/ Finish(c)
               \/ Terminate(c) \/ Report(c) \/ Deadline(c) \/ CancelAgent(c)
        PROVE  UNCHANGED proc
    BY <2>4 DEF Poll, Drain, AdmitDrop, Check, Rest, Select, Finish, Admit, Terminate, Report, Deadline,
                CancelAgent, procVars
  <2>5. ASSUME NEW t \in Ids, Emit(t) \/ RemoveCompleted(t) \/ Stop(t) PROVE UNCHANGED proc
    BY <2>5 DEF Emit, RemoveCompleted, Stop, procVars
  <2>. QED  BY <2>1, <2>2, <2>3, <2>4, <2>5 DEF ExecNext, CallStep
<1>. DEFINE empties == Numbered(data[s]) = {} =>
                           Numbered(data'[s]) = {} /\ (dropped[s] = {} => dropped'[s] = {})
<1>2. ASSUME NEW t \in Ids, Emit(t), proc[s] = "done" PROVE empties
  <2>1. t # s
    BY <1>2 DEF Emit
  <2>2. data'[s] = data[s] /\ dropped'[s] = dropped[s]
    BY <1>0, <1>2, <2>1 DEF Emit, Write, BufferTyped
  <2>. QED  BY <2>2
<1>3. ASSUME NEW c \in Callers, Evict(c) PROVE empties
  <2>1. PICK t \in Ids : t = call[c].prune
    BY <1>3, CallFields DEF Evict, At
  <2>2. Write(t, More) /\ More \in Nat /\ InOrder(data[t])
    BY <1>3, <2>1 DEF Evict, More, Conserved
  <2>3. CASE t = s
    <3>1. PICK spilt \in SUBSET Nat :
              /\ Numbered(data'[s]) \union spilt = Numbered(data[s]) \union ({More} \ {More})
              /\ dropped'[s] = dropped[s] \union spilt
      BY <1>0, <2>2, <2>3, WriteKeeps
    <3>. QED  BY <3>1
  <2>4. CASE t # s
    <3>1. data'[s] = data[s] /\ dropped'[s] = dropped[s]
      BY <1>0, <2>2, <2>4 DEF Write, BufferTyped
    <3>. QED  BY <3>1
  <2>. QED  BY <2>3, <2>4
<1>4. ASSUME NEW c \in Callers, Drain(c) \/ Rest(c) PROVE empties
  <2>1. (data'[s] = data[s] \/ data'[s] = <<>>) /\ UNCHANGED dropped
    BY <1>0, <1>4 DEF Drain, Rest, BufferTyped, historyVars
  <2>2. Numbered(<<>>) = {}
    BY DEF Numbered, ToSet
  <2>. QED  BY <2>1, <2>2
<1>5. ASSUME NEW c \in Callers, AdmitDrop(c) \/ Finish(c) PROVE empties
  <2>1. data' = data /\ (dropped'[s] = dropped[s] \/ dropped'[s] = {})
    BY <1>0, <1>5 DEF AdmitDrop, Finish, Admit, BufferTyped
  <2>. QED  BY <2>1
<1>6. ASSUME NEW c \in Callers,
             \/ Launch(c) \/ Poll(c) \/ Store(c) \/ Check(c) \/ Select(c) \/ Terminate(c) \/ Report(c)
             \/ Deadline(c) \/ CancelAgent(c)
      PROVE  UNCHANGED <<data, dropped>>
  BY <1>6 DEF Launch, Poll, Store, Check, Select, Terminate, Report, Deadline, CancelAgent, bufferVars,
              historyVars
<1>7. ASSUME NEW t \in Ids, Exit(t) \/ RemoveCompleted(t) \/ Stop(t) PROVE UNCHANGED <<data, dropped>>
  BY <1>7 DEF Exit, RemoveCompleted, Stop, bufferVars, historyVars
<1>8. proc[s] = "done" => empties
  BY <1>2, <1>3, <1>4, <1>5, <1>6, <1>7 DEF ExecNext, CallStep
<1>. QED  BY <1>1, <1>8 DEF Quiet

LEMMA SeenKept ==
    ASSUME ExecInv, ExecNext
    PROVE  SeenIsOver'
<1>0. /\ ExecShape /\ Conserved /\ SeenIsOver /\ call \in [Callers -> Calls] /\ CallsTyped /\ BufferTyped
  BY DEF ExecInv, ExecShape, CallsTyped
<1>1. \A s \in Ids : Quiet(s)
  BY <1>0, DoneIsQuiet
<1>2. ASSUME NEW c \in Callers PROVE Settled(call[c])
  BY <1>0 DEF SeenIsOver
<1>3. ASSUME NEW r, Settled(r) PROVE (Settled(r))'
  BY <1>1, <1>3 DEF Settled, Quiet
<1>4. ASSUME NEW c \in Callers, NEW r, call' = [call EXCEPT ![c] = r], (Settled(r))' PROVE SeenIsOver'
  <2>1. call'[c] = r /\ \A d \in Callers \ {c} : call'[d] = call[d]
    BY <1>0, <1>4
  <2>2. ASSUME NEW d \in Callers PROVE (Settled(call[d]))'
    <3>1. CASE d = c
      BY <1>4, <2>1, <3>1 DEF Settled
    <3>2. CASE d # c
      <4>1. PICK q : q = call[d] /\ q = call'[d]
        BY <2>1, <3>2
      <4>2. (Settled(q))'
        BY <1>2, <1>3, <4>1
      <4>. QED  BY <4>1, <4>2 DEF Settled
    <3>. QED  BY <3>1, <3>2
  <2>. QED  BY <2>2 DEF SeenIsOver
<1>5. ASSUME NEW c \in Callers, NEW r, call' = [call EXCEPT ![c] = r], ~r.seen PROVE SeenIsOver'
  BY <1>4, <1>5 DEF Settled
<1>6. ASSUME UNCHANGED call PROVE SeenIsOver'
  <2>1. ASSUME NEW d \in Callers PROVE (Settled(call[d]))'
    <3>1. PICK q : q = call[d] /\ q = call'[d]
      BY <1>6
    <3>2. (Settled(q))'
      BY <1>2, <1>3, <3>1
    <3>. QED  BY <3>1, <3>2 DEF Settled
  <2>. QED  BY <2>1 DEF SeenIsOver
\* Calls that have not seen their session done.
<1>7. ASSUME NEW c \in Callers, call[c].at \notin {"rest", "finish", "ended"} PROVE ~call[c].seen
  BY <1>2, <1>7 DEF Settled
<1>8. ASSUME NEW c \in Callers, Launch(c) PROVE SeenIsOver'
  <2>1. CASE call' = [call EXCEPT ![c] = [NoCall EXCEPT !.at = "store", !.on = Len(used) + 1, !.tends = "first"]]
    <3>. DEFINE r == [NoCall EXCEPT !.at = "store", !.on = Len(used) + 1, !.tends = "first"]
    <3>1. ~r.seen /\ call' = [call EXCEPT ![c] = r]
      BY <2>1 DEF NoCall
    <3>. HIDE DEF r
    <3>. QED  BY <1>5, <3>1
  <2>. QED  BY <1>6, <1>8, <2>1 DEF Launch
<1>9. ASSUME NEW c \in Callers, Poll(c) PROVE SeenIsOver'
  <2>1. PICK s \in table : call' = [call EXCEPT ![c] = [NoCall EXCEPT !.at = "drain", !.on = s]]
    BY <1>9 DEF Poll
  <2>. DEFINE r == [NoCall EXCEPT !.at = "drain", !.on = s]
  <2>2. ~r.seen /\ call' = [call EXCEPT ![c] = r]
    BY <2>1 DEF NoCall
  <2>. HIDE DEF r
  <2>. QED  BY <1>5, <2>2
<1>10. ASSUME NEW c \in Callers, Store(c) PROVE SeenIsOver'
  <2>1. ~call[c].seen
    BY <1>7, <1>10 DEF Store
  <2>2. CASE \E pruned : call' = [call EXCEPT ![c].at = "evict", ![c].prune = pruned]
    <3>1. PICK pruned : call' = [call EXCEPT ![c].at = "evict", ![c].prune = pruned]
      BY <2>2
    <3>. DEFINE r == [call[c] EXCEPT !.at = "evict", !.prune = pruned]
    <3>2. call' = [call EXCEPT ![c] = r] /\ r.seen = call[c].seen
      BY <1>0, <3>1 DEF Calls
    <3>. HIDE DEF r
    <3>. QED  BY <1>5, <2>1, <3>2
  <2>3. CASE call' = [call EXCEPT ![c].at = "drain"]
    <3>. DEFINE r == [call[c] EXCEPT !.at = "drain"]
    <3>1. call' = [call EXCEPT ![c] = r] /\ r.seen = call[c].seen
      BY <1>0, <2>3 DEF Calls
    <3>. HIDE DEF r
    <3>. QED  BY <1>5, <2>1, <3>1
  <2>. QED  BY <1>10, <2>2, <2>3 DEF Store
<1>11. ASSUME NEW c \in Callers, Evict(c) PROVE SeenIsOver'
  <2>. DEFINE r == [call[c] EXCEPT !.at = "drain"]
  <2>1. ~call[c].seen
    BY <1>7, <1>11 DEF Evict, At
  <2>2. call' = [call EXCEPT ![c] = r] /\ r.seen = call[c].seen
    BY <1>0, <1>11 DEF Evict, At, Calls
  <2>. HIDE DEF r
  <2>. QED  BY <1>5, <2>1, <2>2
<1>12. ASSUME NEW c \in Callers, Drain(c) PROVE SeenIsOver'
  <2>. DEFINE to == IF data[call[c].on] # <<>> THEN "admit" ELSE "check"
              taken == call[c].got \union Numbered(data[call[c].on])
              r == [call[c] EXCEPT !.got = taken, !.at = to]
  <2>1. ~call[c].seen
    BY <1>7, <1>12 DEF Drain
  <2>2. call' = [call EXCEPT ![c] = r]
    BY <1>0, <1>12 DEF Drain
  <2>. HIDE DEF to, taken
  <2>3. r.seen = call[c].seen
    BY <1>0 DEF Calls
  <2>. HIDE DEF r
  <2>. QED  BY <1>5, <2>1, <2>2, <2>3
<1>13. ASSUME NEW c \in Callers, NEW to, Admit(c, to),
              \/ call[c].at = "admit"
              \/ call[c].at = "finish" /\ to = "ended"
       PROVE  SeenIsOver'
  <2>. DEFINE s == call[c].on
              cut == IF truncated[s] THEN call[c].cut \union dropped[s] ELSE call[c].cut
  <2>0. PICK r : r = [call[c] EXCEPT !.cut = cut, !.at = to]
    OBVIOUS
  <2>1. call' = [call EXCEPT ![c] = r]
    BY <1>0, <1>13, <2>0 DEF Admit
  <2>. HIDE DEF cut
  <2>2. r.on = call[c].on /\ r.seen = call[c].seen /\ r.at = to
    BY <1>0, <2>0 DEF Calls
  <2>3. CASE call[c].at = "admit"
    <3>1. ~r.seen
      BY <1>7, <2>2, <2>3
    <3>. QED  BY <1>5, <2>1, <3>1
  <2>4. CASE call[c].at = "finish" /\ to = "ended"
    <3>. HIDE DEF s
    <3>1. ASSUME r.seen
          PROVE  r.on \in Ids /\ proc[r.on] = "done" /\ Numbered(data[r.on]) = {} /\ DropIsNoted(r.on)
      BY <1>0, <1>2, <2>2, <2>4, <3>1 DEF Settled, Conserved
    <3>2. r.seen => dropped'[r.on] = {}
      BY <1>0, <1>13, <2>2, <3>1 DEF Admit, DropIsNoted, BufferTyped
    <3>3. proc' = proc /\ data' = data
      BY <1>13 DEF Admit, procVars
    <3>4. (Settled(r))'
      BY <2>2, <2>4, <3>1, <3>2, <3>3 DEF Settled
    <3>. QED  BY <1>4, <2>1, <3>4
  <2>. QED  BY <1>13, <2>3, <2>4
<1>14. ASSUME NEW c \in Callers, AdmitDrop(c) \/ Finish(c) PROVE SeenIsOver'
  <2>1. CASE AdmitDrop(c)
    <3>1. PICK to : Admit(c, to)
      BY <2>1 DEF AdmitDrop, Onward
    <3>2. call[c].at = "admit"
      BY <2>1 DEF AdmitDrop
    <3>. HIDE <2>1
    <3>. QED  BY <1>13, <3>1, <3>2
  <2>2. CASE Finish(c)
    BY <1>13, <2>2 DEF Finish
  <2>. QED  BY <1>14, <2>1, <2>2
<1>15. ASSUME NEW c \in Callers, Check(c) PROVE SeenIsOver'
  <2>. DEFINE over == proc[call[c].on] = "done"
  <2>1. over \in BOOLEAN
    OBVIOUS
  <2>2. PICK to : call' = [call EXCEPT ![c].seen = over, ![c].at = to] /\ (over => to = "rest")
    <3>1. CASE over
      BY <1>15, <3>1 DEF Check
    <3>2. CASE ~over
      BY <1>15, <3>2 DEF Check
    <3>. QED  BY <3>1, <3>2
  <2>3. UNCHANGED proc /\ call[c].on \in Ids
    BY <1>0, <1>15, CallFields DEF Check, procVars
  <2>4. over => proc[call[c].on] = "done"
    OBVIOUS
  <2>. HIDE DEF over
  <2>0. PICK r : r = [call[c] EXCEPT !.seen = over, !.at = to]
    OBVIOUS
  <2>5. call' = [call EXCEPT ![c] = r] /\ r.seen = over /\ r.at = to /\ r.on = call[c].on
    BY <1>0, <2>0, <2>1, <2>2 DEF Calls
  <2>6. (Settled(r))'
    BY <2>2, <2>3, <2>4, <2>5 DEF Settled
  <2>. QED  BY <1>4, <2>5, <2>6
<1>16. ASSUME NEW c \in Callers, Rest(c) PROVE SeenIsOver'
  <2>. DEFINE taken == call[c].got \union Numbered(data[call[c].on])
  <2>0. PICK r : r = [call[c] EXCEPT !.got = taken, !.at = "finish"]
    OBVIOUS
  <2>1. call' = [call EXCEPT ![c] = r]
    BY <1>0, <1>16, <2>0 DEF Rest
  <2>. HIDE DEF taken
  <2>2. r.on = call[c].on /\ r.seen = call[c].seen /\ r.at = "finish"
    BY <1>0, <2>0 DEF Calls
  <2>3. r.seen => r.on \in Ids /\ proc[r.on] = "done" /\ UNCHANGED proc
    BY <1>2, <1>16, <2>2 DEF Settled, Rest, procVars
  <2>4. r.seen => data'[r.on] = <<>>
    BY <1>0, <1>16, <2>2, <2>3 DEF Rest, BufferTyped
  <2>5. Numbered(<<>>) = {}
    BY DEF Numbered, ToSet
  <2>6. (Settled(r))'
    BY <2>2, <2>3, <2>4, <2>5 DEF Settled
  <2>. QED  BY <1>4, <2>1, <2>6
<1>17. ASSUME NEW c \in Callers, Select(c) PROVE SeenIsOver'
  <2>1. PICK to : call' = [call EXCEPT ![c].at = to]
    BY <1>17 DEF Select, At
  <2>. DEFINE r == [call[c] EXCEPT !.at = to]
  <2>2. call' = [call EXCEPT ![c] = r] /\ r.seen = call[c].seen
    BY <1>0, <2>1 DEF Calls
  <2>3. ~call[c].seen
    BY <1>7, <1>17 DEF Select
  <2>. HIDE DEF r
  <2>. QED  BY <1>5, <2>2, <2>3
<1>18. ASSUME NEW c \in Callers, Deadline(c) PROVE SeenIsOver'
  <2>. DEFINE r == [call[c] EXCEPT !.late = TRUE]
  <2>1. call' = [call EXCEPT ![c] = r]
    BY <1>0, <1>18 DEF Deadline
  <2>2. r.seen = call[c].seen /\ r.at = call[c].at /\ r.on = call[c].on
    BY <1>0 DEF Calls
  <2>. HIDE DEF r
  <2>3. Settled(r)
    BY <1>2, <2>2 DEF Settled
  <2>. QED  BY <1>3, <1>4, <2>1, <2>3
<1>19. ASSUME NEW c \in Callers, Terminate(c) PROVE SeenIsOver'
  <2>. DEFINE r == [call[c] EXCEPT !.at = "drain", !.tends = "ending", !.late = FALSE]
  <2>1. call' = [call EXCEPT ![c] = r] /\ r.seen = call[c].seen
    BY <1>0, <1>19 DEF Terminate, Calls
  <2>2. ~call[c].seen
    BY <1>2, <1>19 DEF Terminate, Settled
  <2>. HIDE DEF r
  <2>. QED  BY <1>5, <2>1, <2>2
<1>20. ASSUME NEW c \in Callers, Report(c) PROVE SeenIsOver'
  <2>1. call' = [call EXCEPT ![c] = NoCall] /\ ~NoCall.seen
    BY <1>20 DEF Report, NoCall
  <2>. QED  BY <1>5, <2>1
<1>21. ASSUME NEW c \in Callers, CancelAgent(c) PROVE SeenIsOver'
  BY <1>6, <1>21 DEF CancelAgent
<1>22. ASSUME NEW s \in Ids, Emit(s) \/ Exit(s) \/ RemoveCompleted(s) \/ Stop(s) PROVE SeenIsOver'
  BY <1>6, <1>22 DEF Emit, Exit, RemoveCompleted, Stop
<1>. QED  BY <1>8, <1>9, <1>10, <1>11, <1>12, <1>14, <1>15, <1>16, <1>17, <1>18, <1>19, <1>20, <1>21,
             <1>22 DEF ExecNext, CallStep
-----------------------------------------------------------------------------
(* The invariant *)

LEMMA ExecStarts == ExecInit => ExecInv
<1>. SUFFICES ASSUME ExecInit PROVE ExecInv
  OBVIOUS
<1>1. Born = {}
  BY DEF ExecInit, Born
<1>2. BufferTyped
  BY BoundsTyped DEF ExecInit, BufferTyped
<1>3. ProcTyped
  BY <1>1 DEF ExecInit, ProcTyped
<1>4. TableTyped
  BY <1>1 DEF ExecInit, TableTyped, IsInjective, ToSet
<1>5. NoCall \in Calls
  BY DEF NoCall, Calls, CallPoints, Nobody
<1>6. /\ \A c \in Callers : call[c] = NoCall
      /\ NoCall.at = "idle" /\ NoCall.got = {} /\ NoCall.cut = {} /\ ~NoCall.seen
  BY DEF ExecInit, NoCall
<1>7. CallsTyped
  BY <1>5, <1>6 DEF ExecInit, CallsTyped
<1>8. \A c \in Callers, s \in Ids : Held(c, s) = {}
  BY <1>6 DEF Held
<1>9. Numbered(<<>>) = {} /\ InOrder(<<>>)
  BY DEF Numbered, ToSet, InOrder
<1>10. Conserved
  <2>. SUFFICES ASSUME NEW s \in Ids PROVE Apart(s) /\ Placed(s) /\ DropIsNoted(s) /\ InOrder(data[s])
    BY DEF Conserved
  <2>1. data[s] = <<>> /\ written[s] = 0 /\ shown[s] = {} /\ dropped[s] = {}
    BY DEF ExecInit
  <2>. QED  BY <1>8, <1>9, <2>1 DEF Apart, Placed, DropIsNoted
<1>11. SeenIsOver
  BY <1>6 DEF SeenIsOver, Settled
<1>. QED  BY <1>2, <1>3, <1>4, <1>7, <1>10, <1>11 DEF ExecInv, ExecShape

LEMMA ExecStays == ExecInv /\ UNCHANGED execVars => ExecInv'
<1>. SUFFICES ASSUME ExecInv, UNCHANGED execVars PROVE ExecInv'
  OBVIOUS
<1>1. UNCHANGED <<table, used, proc, cancelled, data, written, truncated, notify, call, stopped, shown, dropped>>
  BY DEF execVars, tableVars, procVars, bufferVars, historyVars
<1>2. ExecShape'
  BY <1>1 DEF ExecInv, ExecShape, BufferTyped, ProcTyped, TableTyped, CallsTyped, Born
<1>3. \A c \in Callers, t \in Ids : Held(c, t)' = Held(c, t)
  BY <1>1 DEF Held
<1>4. Conserved'
  BY <1>1, <1>3, NothingMoves DEF ExecInv
<1>5. SeenIsOver'
  BY <1>1 DEF ExecInv, SeenIsOver, Settled, Numbered
<1>. QED  BY <1>2, <1>4, <1>5 DEF ExecInv

\* In every state of any number of agents and sessions each chunk is in one place.
THEOREM ExecInvariant == ExecSpec => []ExecInv
<1>1. ExecInit => ExecInv
  BY ExecStarts
<1>2. ExecInv /\ [ExecNext]_execVars => ExecInv'
  <2>1. ExecInv /\ ExecNext => ExecInv'
    BY BufferKept, ProcKept, TableKept, CallsKept, ConservedKept, SeenKept DEF ExecInv, ExecShape
  <2>. QED  BY <2>1, ExecStays
<1>. QED  BY <1>1, <1>2, PTL DEF ExecSpec

-----------------------------------------------------------------------------
(* The properties *)

LEMMA ExecIsTyped ==
    ASSUME ExecInv
    PROVE  ExecTypeOK
<1>. USE DEF ExecInv, ExecShape
<1>1. table \subseteq {s \in Ids : proc[s] # "none"}
  BY DEF TableTyped, Born
<1>2. IsInjective(used) /\ ToSet(used) = 1..Len(used) /\ Len(used) <= MaxStarts
  <2>1. used \in Seq(Ids) /\ IsInjective(used) /\ ToSet(used) = 1..Len(used)
    BY DEF TableTyped
  <2>2. CASE Len(used) = 0
    BY <2>1, <2>2, BoundsTyped
  <2>3. CASE Len(used) # 0
    <3>1. Len(used) \in ToSet(used)
      BY <2>1, <2>3
    <3>2. Len(used) \in Ids
      BY <2>1, <3>1 DEF ToSet
    <3>. QED  BY <2>1, <3>2, BoundsTyped DEF Ids
  <2>. QED  BY <2>1, <2>2, <2>3
<1>3. proc \in [Ids -> {"none", "starting", "running", "done"}]
      /\ cancelled \subseteq {s \in Ids : proc[s] # "none"} /\ stopped \subseteq Callers
  BY DEF ProcTyped, Born
<1>4. \A s \in Ids : Len(data[s]) <= BufferCap /\ (data[s] # <<>> => proc[s] # "none")
  BY DEF BufferTyped, ProcTyped, Born
<1>5. \A s \in Ids : written[s] \in 0..Chunks[s]
  BY BoundsTyped DEF BufferTyped
<1>6. truncated \in [Ids -> BOOLEAN] /\ notify \in [Ids -> BOOLEAN]
  BY DEF BufferTyped
<1>7. \A c \in Callers : call[c].at # "idle" => proc[call[c].on] # "none"
  BY DEF CallsTyped, Born
<1>. QED  BY <1>1, <1>2, <1>3, <1>4, <1>5, <1>6, <1>7 DEF ExecTypeOK

\* Each chunk that a child printed is shown, in the hands of one call, in the buffer or
\* dropped with the drop to be admitted, never twice and never nowhere, and the buffer is in
\* order (ChunksConserved), for any agents, children, buffer and table.
THEOREM ChunksAreConserved == ExecSpec => []ChunksConserved
<1>1. ExecInv => ChunksConserved
  <2>. SUFFICES ASSUME ExecInv PROVE ChunksConserved
    OBVIOUS
  <2>1. ExecTypeOK
    BY ExecIsTyped
  <2>2. ASSUME NEW s \in Ids
        PROVE  LET held(c) == IF call[c].on = s THEN call[c].got \union call[c].cut ELSE {}
                   parts == <<shown[s], Numbered(data[s]), dropped[s]>>
               IN  /\ 1..written[s] = UNION (ToSet(parts) \union {held(c) : c \in Callers})
                   /\ \A i \in DOMAIN parts : \A j \in DOMAIN parts :
                          i # j => parts[i] \intersect parts[j] = {}
                   /\ \A c \in Callers, i \in DOMAIN parts : held(c) \intersect parts[i] = {}
                   /\ dropped[s] # {} => truncated[s]
                   /\ \A i, j \in DOMAIN data[s] :
                          i < j => data[s][i] < data[s][j] \/ data[s][j] = More
    <3>. DEFINE held(c) == IF call[c].on = s THEN call[c].got \union call[c].cut ELSE {}
                A == shown[s]
                B == Numbered(data[s])
                D == dropped[s]
                parts == <<A, B, D>>
    <3>1. Apart(s) /\ Placed(s) /\ DropIsNoted(s) /\ InOrder(data[s])
      BY DEF ExecInv, Conserved
    <3>2. \A c \in Callers : held(c) = Held(c, s)
      BY DEF Held
    <3>3. /\ A \intersect B = {} /\ A \intersect D = {} /\ B \intersect D = {}
          /\ \A c \in Callers : held(c) \intersect (A \union B \union D) = {}
      BY <3>1, <3>2 DEF Apart
    <3>4. \A n \in Nat : n \in 1..written[s] <=> n \in A \union B \union D \/ \E c \in Callers : n \in held(c)
      BY <3>1, <3>2 DEF Placed
    <3>5. /\ A \subseteq Nat /\ B \subseteq Nat /\ D \subseteq Nat /\ \A c \in Callers : held(c) \subseteq Nat
          /\ 1..written[s] \subseteq Nat
      <4>1. A \subseteq Nat /\ D \subseteq Nat /\ data[s] \in Seq(Nat) /\ written[s] \in Nat
        BY DEF ExecInv, ExecShape, BufferTyped
      <4>2. \A c \in Callers : held(c) \subseteq Nat
        BY CallFields DEF ExecInv
      <4>. QED  BY <4>1, <4>2, NumberedMeans
    <3>. HIDE DEF A, B, D, held
    <3>6. DOMAIN parts = 1..3 /\ parts[1] = A /\ parts[2] = B /\ parts[3] = D /\ ToSet(parts) = {A, B, D}
      BY DEF ToSet
    <3>. HIDE DEF parts
    <3>7. \A i \in DOMAIN parts : i \in {1, 2, 3}
      BY <3>6
    <3>8. 1..written[s] = UNION (ToSet(parts) \union {held(c) : c \in Callers})
      <4>1. ASSUME NEW n PROVE n \in UNION (ToSet(parts) \union {held(c) : c \in Callers})
                                <=> n \in A \union B \union D \/ \E c \in Callers : n \in held(c)
        <5>1. n \in UNION ToSet(parts) <=> n \in A \union B \union D
          <6>1. ToSet(parts) = {A, B, D}
            BY <3>6
          <6>. QED  BY <6>1
        <5>2. n \in UNION {held(c) : c \in Callers} <=> \E c \in Callers : n \in held(c)
          OBVIOUS
        <5>. QED  BY <5>1, <5>2
      <4>. QED  BY <3>4, <3>5, <4>1
    <3>9. \A i \in DOMAIN parts : \A j \in DOMAIN parts : i # j => parts[i] \intersect parts[j] = {}
      BY <3>3, <3>6, <3>7
    <3>10. \A c \in Callers, i \in DOMAIN parts : held(c) \intersect parts[i] = {}
      BY <3>3, <3>6, <3>7
    <3>. QED  BY <3>1, <3>8, <3>9, <3>10 DEF DropIsNoted, InOrder, held, parts, A, B, D
  <2>. QED  BY <2>1, <2>2 DEF ChunksConserved
<1>. QED  BY <1>1, ExecInvariant, PTL
\* A call that has seen its session done ends with its report.
LEMMA OnlyReportEnds ==
    ASSUME ExecShape, [ExecNext]_execVars, NEW c \in Callers,
           call[c].at \in {"rest", "finish", "ended"}, call'[c].at = "idle"
    PROVE  Report(c)
<1>0. call \in [Callers -> Calls] /\ call'[c] # call[c] /\ call[c].at # "idle"
  BY DEF ExecShape, CallsTyped
\* The steps of others, and those that calls not so far take.
<1>1. ASSUME NEW d \in Callers, Launch(d) \/ Poll(d) \/ Store(d) \/ Evict(d) \/ Drain(d) PROVE FALSE
  <2>1. call[d].at \notin {"rest", "finish", "ended"}
    BY <1>1 DEF Launch, Poll, Store, Evict, At, Drain
  <2>2. d # c
    BY <2>1
  <2>3. call'[c] = call[c]
    BY <1>0, <1>1, <2>2 DEF Launch, Poll, Store, Evict, At, Drain
  <2>. QED  BY <1>0, <2>3
<1>2. ASSUME NEW d \in Callers, AdmitDrop(d) \/ Check(d) \/ Select(d) PROVE FALSE
  <2>1. d # c
    BY <1>2 DEF AdmitDrop, Check, Select
  <2>2. call'[c] = call[c]
    BY <1>0, <1>2, <2>1 DEF AdmitDrop, Admit, Check, Select, At
  <2>. QED  BY <1>0, <2>2
<1>3. ASSUME NEW d \in Callers, Rest(d) \/ Finish(d) \/ Terminate(d) \/ Deadline(d) \/ CancelAgent(d) PROVE FALSE
  <2>1. CASE d = c /\ Rest(c)
    BY <1>0, <2>1 DEF Rest, Calls
  <2>2. CASE d = c /\ Finish(c)
    BY <1>0, <2>2 DEF Finish, Admit, Calls
  <2>3. CASE d = c /\ Terminate(c)
    BY <1>0, <2>3 DEF Terminate, Calls
  <2>4. CASE d = c /\ Deadline(c)
    BY <1>0, <2>4 DEF Deadline, Calls
  <2>5. CASE CancelAgent(d)
    BY <1>0, <2>5 DEF CancelAgent
  <2>6. CASE d # c
    <3>1. call'[c] = call[c]
      BY <1>0, <1>3, <2>6 DEF Rest, Finish, Admit, Terminate, Deadline, CancelAgent
    <3>. QED  BY <1>0, <3>1
  <2>. QED  BY <1>3, <2>1, <2>2, <2>3, <2>4, <2>5, <2>6
<1>4. ASSUME NEW d \in Callers, Report(d) PROVE d = c
  <2>1. d # c => call'[c] = call[c]
    BY <1>0, <1>4 DEF Report
  <2>. QED  BY <1>0, <2>1
<1>5. ASSUME NEW s \in Ids, Emit(s) \/ Exit(s) \/ RemoveCompleted(s) \/ Stop(s) PROVE FALSE
  BY <1>0, <1>5 DEF Emit, Exit, RemoveCompleted, Stop
<1>6. ASSUME UNCHANGED execVars PROVE FALSE
  BY <1>0, <1>6 DEF execVars
<1>. QED  BY <1>1, <1>2, <1>3, <1>4, <1>5, <1>6 DEF ExecNext, CallStep
\* What a call that has seen its session done shows, with what other calls on it will show, is
\* all that the session wrote (FinalResultComplete): the result in which it ends is complete.
THEOREM FinalResultIsComplete == ExecSpec => FinalResultComplete
<1>. DEFINE Complete ==
         \A c \in Callers :
             LET s == call[c].on
                 others == {d \in Callers \ {c} : call[d].on = s}
             IN  call[c].seen /\ call'[c].at = "idle" =>
                     1..written[s] \subseteq
                         shown'[s] \union UNION {call[d].got \union call[d].cut : d \in others}
<1>1. ExecInv /\ [ExecNext]_execVars => Complete
  <2>. SUFFICES ASSUME ExecInv, [ExecNext]_execVars, NEW c \in Callers,
                       call[c].seen, call'[c].at = "idle"
                PROVE  LET s == call[c].on
                           others == {d \in Callers \ {c} : call[d].on = s}
                       IN  1..written[s] \subseteq
                               shown'[s] \union UNION {call[d].got \union call[d].cut : d \in others}
    OBVIOUS
  <2>0. ExecShape /\ Conserved /\ SeenIsOver /\ call \in [Callers -> Calls] /\ BufferTyped
    BY DEF ExecInv, ExecShape, CallsTyped
  <2>. DEFINE s == call[c].on
              others == {d \in Callers \ {c} : call[d].on = s}
  <2>1. s \in Ids /\ call[c].at \in {"rest", "finish", "ended"}
    BY <2>0 DEF SeenIsOver, Settled
  <2>2. Report(c)
    BY <2>0, <2>1, OnlyReportEnds
  <2>3. Numbered(data[s]) = {} /\ dropped[s] = {}
    BY <2>0, <2>2 DEF SeenIsOver, Settled, Report
  <2>4. shown'[s] = shown[s] \union call[c].got \union call[c].cut
    BY <2>0, <2>1, <2>2 DEF Report, BufferTyped
  <2>5. Held(c, s) = call[c].got \union call[c].cut
        /\ \A d \in Callers : d # c => Held(d, s) = {} \/ (d \in others /\ Held(d, s) = call[d].got \union call[d].cut)
    BY DEF Held
  <2>6. Placed(s) /\ written[s] \in Nat
    BY <2>0, <2>1 DEF Conserved, BufferTyped
  <2>. HIDE DEF s, others
  <2>7. ASSUME NEW n \in 1..written[s]
        PROVE  n \in shown'[s] \union UNION {call[d].got \union call[d].cut : d \in others}
    <3>1. n \in Nat
      BY <2>6
    <3>2. n \in shown[s] \/ \E d \in Callers : n \in Held(d, s)
      BY <2>3, <2>6, <3>1 DEF Placed
    <3>3. n \in shown[s] \/ n \in Held(c, s) \/ \E d \in others : n \in call[d].got \union call[d].cut
      BY <2>5, <3>2
    <3>. QED  BY <2>4, <2>5, <3>3
  <2>. QED  BY <2>7 DEF s, others
<1>. QED  BY <1>1, ExecInvariant, PTL DEF ExecSpec, FinalResultComplete

-----------------------------------------------------------------------------
(* SessionStore: the loop of a truncation *)

\* Of lines in order, those up to t are the first ones.
LEMMA KeptIsPrefix ==
    ASSUME NEW S, NEW lines \in Seq(S), NEW t, NEW k \in 0..Len(lines),
           \A i \in 1..Len(lines) : Kept(t, lines[i]) <=> i <= k
    PROVE  KeptOf(t, lines) = SubSeq(lines, 1, k)
<1>. DEFINE N == Len(lines)
            Step(f) == [n \in 0..N |->
                           IF n = 0 THEN <<>>
                           ELSE IF Kept(t, lines[n]) THEN Append(f[n - 1], lines[n]) ELSE f[n - 1]]
            f == CHOOSE g : g = Step(g)
            first(n) == SubSeq(lines, 1, IF n <= k THEN n ELSE k)
            g == [n \in 0..N |-> first(n)]
<1>0. N \in Nat /\ k \in Nat /\ k <= N
  OBVIOUS
<1>1. KeptOf(t, lines) = f[N]
  BY DEF KeptOf
<1>2. first(0) = <<>>
  BY <1>0
<1>3. ASSUME NEW n \in 1..N, n <= k PROVE first(n) = Append(first(n - 1), lines[n])
  BY <1>0, <1>3
<1>4. ASSUME NEW n \in 1..N, ~(n <= k) PROVE first(n) = first(n - 1)
  BY <1>0, <1>4
<1>. HIDE DEF N, first
<1>5. ASSUME NEW n \in 0..N
      PROVE  g[n] = IF n = 0 THEN <<>>
                    ELSE IF Kept(t, lines[n]) THEN Append(g[n - 1], lines[n]) ELSE g[n - 1]
  <2>1. CASE n = 0
    BY <1>0, <1>2, <2>1
  <2>2. CASE n # 0
    <3>1. n \in 1..N /\ n - 1 \in 0..N
      BY <1>0, <2>2
    <3>2. g[n] = first(n) /\ g[n - 1] = first(n - 1)
      BY <3>1
    <3>3. Kept(t, lines[n]) <=> n <= k
      BY <3>1 DEF N
    <3>. QED  BY <1>3, <1>4, <2>2, <3>1, <3>2, <3>3
  <2>. QED  BY <2>1, <2>2
<1>6. g = Step(g)
  BY <1>5
<1>7. f = Step(f)
  BY <1>6
<1>. HIDE DEF f
<1>8. ASSUME NEW n \in 0..N PROVE f[n] = first(n)
  <2>. DEFINE T == {m \in 0..N : f[m] # first(m)}
  <2>1. CASE T = {}
    BY <2>1
  <2>2. CASE T # {}
    <3>1. T \subseteq Nat
      BY <1>0
    <3>2. PICK m \in T : \A i \in T : m <= i
      BY <2>2, <3>1, LeastNatural
    <3>3. m # 0
      BY <1>0, <1>2, <1>7, <3>2
    <3>4. m \in 1..N /\ m - 1 \in 0..N /\ ~(m <= m - 1)
      BY <1>0, <3>2, <3>3
    <3>5. f[m - 1] = first(m - 1)
      BY <3>2, <3>4
    <3>6. f[m] = IF Kept(t, lines[m]) THEN Append(f[m - 1], lines[m]) ELSE f[m - 1]
      <4>1. m \in 0..N /\ f[m] = Step(f)[m]
        BY <1>7
      <4>. HIDE <1>7
      <4>. QED  BY <3>3, <4>1
    <3>7. Kept(t, lines[m]) <=> m <= k
      BY <3>4 DEF N
    <3>8. f[m] = first(m)
      BY <1>3, <1>4, <3>4, <3>5, <3>6, <3>7
    <3>. QED  BY <3>2, <3>8
  <2>. QED  BY <2>1, <2>2
<1>9. f[N] = first(N) /\ first(N) = SubSeq(lines, 1, k)
  BY <1>0, <1>8 DEF first
<1>. QED  BY <1>1, <1>9

-----------------------------------------------------------------------------
(* SessionStore: what is known of the state *)

Jots == [kind : Kinds, target : Int, blob : Versions \union {Skipped}, seq : Nat, covered : BOOLEAN]

Points == Locked \union {"idle", "lock", "edit"}

LockTyped ==
    /\ lock \in Processes \union {NoProcess}
    /\ pc \in [Processes -> Points]
    /\ \A p \in Processes : lock = p <=> pc[p] \in Locked

Lines == Events \union {Corrupt}

StoreTyped ==
    /\ log \in Seq(Lines) /\ torn \in BOOLEAN
    /\ durable \in 0..Len(log) /\ count \in Nat
    /\ blobs \subseteq Versions /\ file \in Versions /\ made \in Versions
    /\ loose \in BOOLEAN /\ faults \in 0..MaxFaults
    /\ job \in [Processes -> Jots]

Unread(e) == e.kind = "corrupt"
BothOnce(d, e) == {d.kind, e.kind} = {"once"}

\* The first n lines can be read.
Clean(n) == \A i \in 1..n : ~Unread(log[i])

\* Even if the log cannot be read, a power failure may leave the part of it that can.
LogOrdered ==
    \A j \in 1..Len(log) : Clean(j) =>
        log[j].seq > 0 /\ \A i \in 1..(j - 1) : log[i].seq < log[j].seq /\ ~BothOnce(log[i], log[j])

Contents == blobs \union {0, Skipped}

\* A checkpoint that names a content has it.
Backed(e) == e.kind = "checkpoint" => e.seq > 0 /\ e.blob \in Contents

BlobsThere == \A i \in 1..Len(log) : Backed(log[i])

\* An acknowledged event is synced, unless a synced line cannot be read.
AckedSynced == \A e \in acked : \E i \in 1..durable : log[i] = e \/ Unread(log[i])

OnceAbsent == \A i \in 1..Len(log) : log[i].kind # "once"

EventOf(p) == [seq |-> job[p].seq, kind |-> job[p].kind, blob |-> job[p].blob]

LastIs(e) == log # <<>> /\ log[Len(log)] \in {e, Corrupt}

\* What a process has found or done so far, as the lock keeps the others away.
JobFits(p) ==
    /\ pc[p] \in {"lock", "check", "blob", "restore", "truncate", "recount", "prune"} => job[p].blob = Skipped
    /\ pc[p] = "blob" => job[p].kind = "checkpoint"
    /\ pc[p] \in {"restore", "truncate", "recount", "prune"} => job[p].kind = "rewind"
    /\ pc[p] = "line" => job[p].blob \in Contents /\ (job[p].kind = "once" => OnceAbsent)
    /\ pc[p] = "truncate" => Readable
    /\ pc[p] \in {"sync", "count"} => LastIs(EventOf(p))
    /\ pc[p] = "count" => durable = Len(log)

StoreInv ==
    /\ LockTyped /\ StoreTyped
    /\ LogOrdered /\ BlobsThere /\ AckedSynced
    /\ \A p \in Processes : JobFits(p)

LEMMA StoreBounds ==
    /\ MaxLog \in Nat /\ MaxEdits \in Nat /\ MaxFaults \in Nat /\ NoProcess \notin Processes
    /\ Versions \subseteq Nat /\ 0 \in Versions /\ Skipped \in Int
  BY SessionAssumption DEF SessionAssumption, Versions, Skipped

LEMMA LinesTyped ==
    /\ \A e \in Lines : e.seq \in Nat
    /\ \A e \in Lines : Unread(e) <=> e = Corrupt
    /\ \A e \in Events : ~Unread(e)
    /\ Corrupt \in Lines /\ Unread(Corrupt) /\ Corrupt.kind # "checkpoint"
  BY DEF Lines, Events, Corrupt, Unread, Kinds

-----------------------------------------------------------------------------
(* The lock *)

\* A step of a process moves no other.
LEMMA OneProcessSteps ==
    ASSUME LockTyped, NEW p \in Processes, SessionStep(p)
    PROVE  /\ pc' \in [Processes -> Points]
           /\ \A q \in Processes \ {p} : pc'[q] = pc[q]
           /\ lock' = lock \/ (lock = NoProcess /\ lock' = p) \/ (lock = p /\ lock' = NoProcess)
           /\ lock' = p <=> pc'[p] \in Locked
<1>0. pc \in [Processes -> Points] /\ (lock = p <=> pc[p] \in Locked) /\ NoProcess # p
  BY StoreBounds DEF LockTyped
<1>1. ASSUME NEW from, NEW to \in Points, Goto(p, from, to), UNCHANGED lock, from \in Locked <=> to \in Locked
      PROVE  /\ pc' \in [Processes -> Points]
             /\ \A q \in Processes \ {p} : pc'[q] = pc[q]
             /\ lock' = lock
             /\ lock' = p <=> pc'[p] \in Locked
  BY <1>0, <1>1 DEF Goto
<1>2. ASSUME NEW from \in Locked, Return(p, from)
      PROVE  /\ pc' \in [Processes -> Points]
             /\ \A q \in Processes \ {p} : pc'[q] = pc[q]
             /\ lock = p /\ lock' = NoProcess
             /\ lock' = p <=> pc'[p] \in Locked
  BY <1>0, <1>2 DEF Return, Goto, Points, Locked
<1>3. CASE \E kind \in Kinds : Begin(p, kind)
  <2>1. Goto(p, "idle", "lock") /\ UNCHANGED lock
    BY <1>3 DEF Begin
  <2>. QED  BY <1>1, <2>1 DEF Points, Locked
<1>4. CASE BeginRewind(p)
  <2>1. Goto(p, "idle", "lock") /\ UNCHANGED lock
    BY <1>4 DEF BeginRewind
  <2>. QED  BY <1>1, <2>1 DEF Points, Locked
<1>5. CASE Lock(p)
  <2>1. FirstStep(p) \in Locked /\ Locked \subseteq Points
    BY DEF FirstStep, Locked, Points
  <2>. QED  BY <1>0, <1>5, <2>1 DEF Lock, Goto
<1>6. CASE Absent(p) \/ WriteBlob(p) \/ WriteLine(p) \/ Sync(p) \/ Restore(p) \/ Truncate(p) \/ Recount(p) \/ Prune(p)
  <2>1. UNCHANGED lock /\ \E from, to \in Locked : Goto(p, from, to)
    BY <1>6 DEF Absent, WriteBlob, WriteLine, Sync, Restore, Truncate, Recount, Prune, Locked
  <2>. QED  BY <1>1, <2>1 DEF Points
<1>7. CASE Present(p) \/ WriteFails(p) \/ WriteCount(p) \/ AppendFails(p) \/ RestoreFails(p) \/ TruncateFails(p) \/ RecountFails(p)
  <2>1. \E from \in Locked : Return(p, from)
    BY <1>7 DEF Present, WriteFails, WriteCount, AppendFails, RestoreFails, TruncateFails, RecountFails, Locked
  <2>. QED  BY <1>2, <2>1
<1>8. CASE Edit(p) \/ EditRefused(p)
  <2>1. UNCHANGED lock /\ Goto(p, "edit", "idle")
    BY <1>8 DEF Edit, EditRefused
  <2>. QED  BY <1>1, <2>1 DEF Points, Locked
<1>9. CASE Crash(p)
  <2>1. "idle" \in Points /\ "idle" \notin Locked
    BY DEF Points, Locked
  <2>. QED  BY <1>0, <1>9, <2>1 DEF Crash
<1>. QED  BY <1>3, <1>4, <1>5, <1>6, <1>7, <1>8, <1>9 DEF SessionStep

LEMMA LockKept ==
    ASSUME LockTyped, SessionNext
    PROVE  LockTyped'
<1>1. ASSUME NEW p \in Processes, SessionStep(p) PROVE LockTyped'
  <2>1. /\ pc' \in [Processes -> Points]
        /\ \A q \in Processes \ {p} : pc'[q] = pc[q]
        /\ lock' = lock \/ (lock = NoProcess /\ lock' = p) \/ (lock = p /\ lock' = NoProcess)
        /\ lock' = p <=> pc'[p] \in Locked
    BY <1>1, OneProcessSteps
  <2>. QED  BY <2>1, StoreBounds DEF LockTyped
<1>2. CASE PowerFailure
  <2>1. "idle" \in Points /\ "idle" \notin Locked
    BY DEF Points, Locked
  <2>. QED  BY <1>2, <2>1, StoreBounds DEF PowerFailure, LockTyped
<1>. QED  BY <1>1, <1>2 DEF SessionNext
-----------------------------------------------------------------------------
(* The shape of the state *)

\* The number of the next event is after that of the last line.
LEMMA NextIsAfter ==
    ASSUME StoreTyped
    PROVE  NextSeq \in Nat /\ NextSeq > 0 /\ (log # <<>> => NextSeq > log[Len(log)].seq)
<1>1. count \in Nat /\ log \in Seq(Lines)
  BY DEF StoreTyped
<1>2. CASE log = <<>>
  BY <1>1, <1>2 DEF NextSeq
<1>3. CASE log # <<>>
  <2>1. Len(log) \in 1..Len(log)
    BY <1>1, <1>3
  <2>2. log[Len(log)].seq \in Nat
    BY <1>1, <2>1, LinesTyped
  <2>. QED  BY <1>1, <1>3, <2>2 DEF NextSeq
<1>. QED  BY <1>2, <1>3

\* A job without what only the history of an edit looks at.
SameJob(a, b) == a.kind = b.kind /\ a.blob = b.blob /\ a.seq = b.seq

LEMMA JobKept ==
    ASSUME StoreTyped, NEW p \in Processes, SessionStep(p)
    PROVE  /\ job' \in [Processes -> Jots]
           /\ \A q \in Processes \ {p} : SameJob(job'[q], job[q])
<1>0. job \in [Processes -> Jots] /\ job[p] \in Jots /\ NoJob \in Jots
      /\ Kinds = {"message", "once", "checkpoint", "rewind"}
  BY StoreBounds DEF StoreTyped, NoJob, Jots, Kinds
<1>1. ASSUME NEW j \in Jots, job' = [job EXCEPT ![p] = j]
      PROVE  /\ job' \in [Processes -> Jots]
             /\ \A q \in Processes \ {p} : SameJob(job'[q], job[q])
  BY <1>0, <1>1 DEF SameJob
<1>2. ASSUME UNCHANGED job
      PROVE  /\ job' \in [Processes -> Jots]
             /\ \A q \in Processes \ {p} : SameJob(job'[q], job[q])
  BY <1>0, <1>2 DEF SameJob
<1>3. ASSUME NEW from, Return(p, from)
      PROVE  /\ job' \in [Processes -> Jots]
             /\ \A q \in Processes \ {p} : SameJob(job'[q], job[q])
  <2>1. job' = [job EXCEPT ![p] = job[p]] \/ job' = [job EXCEPT ![p] = NoJob]
    BY <1>3 DEF Return
  <2>. QED  BY <1>0, <1>1, <2>1
<1>4. ASSUME NEW kind \in Kinds, Begin(p, kind)
      PROVE  /\ job' \in [Processes -> Jots]
             /\ \A q \in Processes \ {p} : SameJob(job'[q], job[q])
  <2>1. [NoJob EXCEPT !.kind = kind] \in Jots /\ job' = [job EXCEPT ![p] = [NoJob EXCEPT !.kind = kind]]
    BY <1>0, <1>4 DEF Begin, Jots
  <2>. QED  BY <1>1, <2>1
<1>5. ASSUME BeginRewind(p)
      PROVE  /\ job' \in [Processes -> Jots]
             /\ \A q \in Processes \ {p} : SameJob(job'[q], job[q])
  <2>1. PICK i \in 1..Len(log), excluded \in {0, 1} :
            job' = [job EXCEPT ![p] = [NoJob EXCEPT !.kind = "rewind", !.target = log[i].seq - excluded]]
    BY <1>5 DEF BeginRewind
  <2>2. log[i].seq \in Nat
    BY LinesTyped DEF StoreTyped
  <2>3. log[i].seq - excluded \in Int
    BY <2>2
  <2>. DEFINE target == log[i].seq - excluded
  <2>. HIDE DEF target
  <2>4. [NoJob EXCEPT !.kind = "rewind", !.target = target] \in Jots
    BY <1>0, <2>3 DEF Jots, target
  <2>. QED  BY <1>1, <2>1, <2>4 DEF target
<1>6. CASE WriteBlob(p)
  <2>1. CASE job' = [job EXCEPT ![p].blob = file]
    <3>. DEFINE j == [job[p] EXCEPT !.blob = file]
    <3>1. j \in Jots /\ job' = [job EXCEPT ![p] = j]
      BY <1>0, <2>1 DEF Jots, StoreTyped
    <3>. HIDE DEF j
    <3>. QED  BY <1>1, <3>1
  <2>. QED  BY <1>2, <1>6, <2>1 DEF WriteBlob
<1>7. CASE WriteLine(p)
  <2>1. NextSeq \in Nat
    BY NextIsAfter
  <2>. DEFINE j == [job[p] EXCEPT !.seq = NextSeq]
  <2>2. j \in Jots /\ job' = [job EXCEPT ![p] = j]
    BY <1>0, <1>7, <2>1 DEF Jots, WriteLine
  <2>. HIDE DEF j
  <2>. QED  BY <1>1, <2>2
<1>8. CASE Sync(p)
  <2>. DEFINE j == [job[p] EXCEPT !.covered = TRUE]
  <2>1. j \in Jots /\ job' = [job EXCEPT ![p] = j]
    BY <1>0, <1>8 DEF Jots, Sync
  <2>. HIDE DEF j
  <2>. QED  BY <1>1, <2>1
<1>9. CASE Edit(p) \/ EditRefused(p) \/ Crash(p)
  <2>1. job' = [job EXCEPT ![p] = NoJob]
    BY <1>9 DEF Edit, EditRefused, Crash
  <2>. QED  BY <1>0, <1>1, <2>1
<1>10. CASE Truncate(p)
  <2>. DEFINE covered(q) == job[q].covered /\ Kept(job[p].target, job[q])
  <2>1. job' = [q \in Processes |-> [job[q] EXCEPT !.covered = covered(q)]]
    BY <1>10 DEF Truncate
  <2>2. \A q \in Processes : covered(q) \in BOOLEAN
    OBVIOUS
  <2>. HIDE DEF covered
  <2>3. \A q \in Processes : [job[q] EXCEPT !.covered = covered(q)] \in Jots
                             /\ SameJob([job[q] EXCEPT !.covered = covered(q)], job[q])
    BY <1>0, <2>2 DEF Jots, SameJob
  <2>. QED  BY <2>1, <2>3
<1>11. CASE Lock(p) \/ Absent(p) \/ Restore(p) \/ Recount(p) \/ Prune(p)
  BY <1>2, <1>11 DEF Lock, Absent, Restore, Recount, Prune
<1>12. CASE Present(p) \/ WriteFails(p) \/ WriteCount(p) \/ AppendFails(p) \/ RestoreFails(p) \/ TruncateFails(p) \/ RecountFails(p)
  BY <1>3, <1>12 DEF Present, WriteFails, WriteCount, AppendFails, RestoreFails, TruncateFails, RecountFails
<1>. QED  BY <1>4, <1>5, <1>6, <1>7, <1>8, <1>9, <1>10, <1>11, <1>12 DEF SessionStep
-----------------------------------------------------------------------------
(* The log *)

LEMMA CutIsPrefix ==
    ASSUME StoreTyped, NEW k \in 0..Len(log), log' = SubSeq(log, 1, k)
    PROVE  /\ log' \in Seq(Lines) /\ Len(log') = k /\ k \in Nat /\ k <= Len(log) /\ Len(log) \in Nat
           /\ \A i \in 1..k : log'[i] = log[i]
  BY DEF StoreTyped

\* What is cut at the end leaves the rest in order.
LEMMA CutKeepsOrder ==
    ASSUME StoreTyped, LogOrdered, BlobsThere, NEW k \in 0..Len(log), log' = SubSeq(log, 1, k),
           UNCHANGED blobs
    PROVE  LogOrdered' /\ BlobsThere'
<1>1. /\ Len(log') = k /\ k \in Nat /\ k <= Len(log) /\ Len(log) \in Nat
      /\ \A i \in 1..k : log'[i] = log[i]
  BY CutIsPrefix
<1>2. ASSUME NEW j \in 1..k PROVE (Clean(j))' <=> Clean(j)
  BY <1>1 DEF Clean
<1>3. ASSUME NEW j \in 1..k, Clean(j)
      PROVE  log'[j].seq > 0 /\ \A i \in 1..(j - 1) : log'[i].seq < log'[j].seq /\ ~BothOnce(log'[i], log'[j])
  <2>1. j \in 1..Len(log) /\ log'[j] = log[j] /\ \A i \in 1..(j - 1) : log'[i] = log[i]
    BY <1>1
  <2>. QED  BY <1>3, <2>1 DEF LogOrdered
<1>4. LogOrdered'
  <2>. SUFFICES ASSUME NEW j \in 1..k, (Clean(j))'
                PROVE  log'[j].seq > 0
                       /\ \A i \in 1..(j - 1) : log'[i].seq < log'[j].seq /\ ~BothOnce(log'[i], log'[j])
    BY <1>1 DEF LogOrdered, BothOnce
  <2>. QED  BY <1>2, <1>3
<1>5. BlobsThere'
  <2>. SUFFICES ASSUME NEW i \in 1..k PROVE (Backed(log[i]))'
    BY <1>1 DEF BlobsThere, Backed, Contents
  <2>1. i \in 1..Len(log) /\ log'[i] = log[i]
    BY <1>1
  <2>. QED  BY <2>1 DEF BlobsThere, Backed, Contents
<1>. QED  BY <1>4, <1>5

\* A log that can be read is in order.
LEMMA ReadableIsOrdered ==
    ASSUME StoreTyped, LogOrdered, Readable
    PROVE  /\ \A i \in 1..Len(log) : ~Unread(log[i]) /\ log[i].seq \in Nat
           /\ \A i, j \in 1..Len(log) : i < j => log[i].seq < log[j].seq /\ ~BothOnce(log[i], log[j])
<1>1. log \in Seq(Lines) /\ Len(log) \in Nat
  BY DEF StoreTyped
<1>2. \A i \in 1..Len(log) : ~Unread(log[i]) /\ log[i].seq \in Nat
  BY <1>1, LinesTyped DEF Readable, Unread
<1>3. ASSUME NEW j \in 1..Len(log) PROVE Clean(j)
  <2>1. \A i \in 1..j : i \in 1..Len(log)
    BY <1>1
  <2>. QED  BY <1>2, <2>1 DEF Clean
<1>4. ASSUME NEW i \in 1..Len(log), NEW j \in 1..Len(log), i < j
      PROVE  log[i].seq < log[j].seq /\ ~BothOnce(log[i], log[j])
  <2>1. i \in 1..(j - 1)
    BY <1>1, <1>4
  <2>. QED  BY <1>3, <2>1 DEF LogOrdered
<1>. QED  BY <1>2, <1>4

\* A rewind cuts the log at its end.
LEMMA TruncateCuts ==
    ASSUME StoreInv, NEW p \in Processes, Truncate(p)
    PROVE  \E k \in 0..Len(log) :
               /\ log' = SubSeq(log, 1, k)
               /\ \A i \in 1..Len(log) : Kept(job[p].target, log[i]) <=> i <= k
<1>. DEFINE t == job[p].target
            N == Len(log)
            Late == {i \in 1..N : ~Kept(t, log[i])}
<1>1. pc[p] = "truncate" /\ log' = KeptOf(t, log)
  BY DEF Truncate, Goto
<1>2. /\ \A i \in 1..N : log[i].seq \in Nat
      /\ \A i, j \in 1..N : i < j => log[i].seq < log[j].seq
      /\ log \in Seq(Lines) /\ N \in Nat /\ t \in Int
  <2>1. Readable
    BY <1>1 DEF StoreInv, JobFits
  <2>2. log \in Seq(Lines) /\ t \in Int
    BY DEF StoreInv, StoreTyped, Jots
  <2>3. StoreTyped /\ LogOrdered
    BY DEF StoreInv
  <2>4. /\ \A i \in 1..N : log[i].seq \in Nat
        /\ \A i, j \in 1..N : i < j => log[i].seq < log[j].seq
    BY <2>1, <2>3, ReadableIsOrdered
  <2>5. N \in Nat
    BY <2>2
  <2>. QED  BY <2>2, <2>4, <2>5
<1>3. PICK k \in 0..N : \A i \in 1..N : Kept(t, log[i]) <=> i <= k
  <2>1. CASE Late = {}
    <3>1. \A i \in 1..N : Kept(t, log[i]) <=> i <= N
      BY <2>1
    <3>. QED  BY <1>2, <3>1
  <2>2. CASE Late # {}
    <3>1. Late \subseteq Nat
      BY <1>2
    <3>2. PICK m \in Late : \A i \in Late : m <= i
      BY <2>2, <3>1, LeastNatural
    <3>3. m \in 1..N /\ m - 1 \in 0..N /\ ~(log[m].seq <= t)
      BY <1>2, <3>2 DEF Kept
    <3>. HIDE DEF t
    <3>4. ASSUME NEW i \in 1..N PROVE log[i].seq <= t <=> i <= m - 1
      <4>1. CASE i <= m - 1
        <5>1. ~(m <= i)
          BY <1>2, <3>3, <4>1
        <5>. QED  BY <3>2, <4>1, <5>1 DEF Kept
      <4>2. CASE i = m
        BY <3>3, <4>2
      <4>3. CASE i > m
        BY <1>2, <3>3, <4>3
      <4>. QED  BY <1>2, <3>3, <4>1, <4>2, <4>3
    <3>. QED  BY <3>3, <3>4 DEF Kept
  <2>. QED  BY <2>1, <2>2
<1>. HIDE DEF t
<1>4. KeptOf(t, log) = SubSeq(log, 1, k)
  BY <1>2, <1>3, KeptIsPrefix
<1>. QED  BY <1>1, <1>3, <1>4 DEF t
\* A line that comes after the others leaves them in order.
LEMMA AppendKeepsOrder ==
    ASSUME StoreTyped, LogOrdered, BlobsThere, NEW e \in Lines, log' = Append(log, e), UNCHANGED blobs,
           ~Unread(e) => /\ e.seq > 0 /\ (log # <<>> => e.seq > log[Len(log)].seq)
                         /\ \A i \in 1..Len(log) : ~BothOnce(log[i], e),
           Backed(e)
    PROVE  LogOrdered' /\ BlobsThere'
<1>0. PICK N \in Nat : N = Len(log)
  BY DEF StoreTyped
<1>1. /\ log \in Seq(Lines) /\ Len(log') = N + 1 /\ N \in Nat
      /\ \A i \in 1..N : log'[i] = log[i]
      /\ log'[N + 1] = e
  BY <1>0 DEF StoreTyped
<1>2. ASSUME NEW j \in 1..N PROVE (Clean(j))' <=> Clean(j)
  BY <1>1 DEF Clean
<1>3. ASSUME NEW j \in 1..N, Clean(j)
      PROVE  log'[j].seq > 0 /\ \A i \in 1..(j - 1) : log'[i].seq < log'[j].seq /\ ~BothOnce(log'[i], log'[j])
  <2>1. log'[j] = log[j] /\ \A i \in 1..(j - 1) : log'[i] = log[i]
    BY <1>1
  <2>. QED  BY <1>0, <1>3, <2>1 DEF LogOrdered
<1>4. ASSUME (Clean(N + 1))'
      PROVE  e.seq > 0 /\ \A i \in 1..N : log[i].seq < e.seq /\ ~BothOnce(log[i], e)
  <2>1. ~Unread(e) /\ \A i \in 1..N : ~Unread(log[i])
    <3>1. \A i \in 1..(N + 1) : ~Unread(log'[i])
      BY <1>4 DEF Clean, Unread
    <3>. QED  BY <1>1, <3>1
  <2>2. ASSUME NEW i \in 1..N PROVE log[i].seq < e.seq
    <3>1. log[i].seq \in Nat /\ log[N].seq \in Nat /\ e.seq \in Nat /\ N \in 1..N
      BY <1>1, LinesTyped
    <3>2. e.seq > log[N].seq
      BY <1>0, <1>1, <2>1, <3>1
    <3>3. i = N \/ i \in 1..(N - 1)
      BY <1>1
    <3>4. Clean(N)
      BY <2>1 DEF Clean
    <3>5. i = N \/ log[i].seq < log[N].seq
      BY <1>0, <3>1, <3>3, <3>4 DEF LogOrdered
    <3>. QED  BY <3>1, <3>2, <3>5
  <2>3. e.seq > 0 /\ \A i \in 1..N : ~BothOnce(log[i], e)
    BY <1>0, <2>1
  <2>. QED  BY <2>2, <2>3
<1>5. LogOrdered'
  <2>. SUFFICES ASSUME NEW j \in 1..(N + 1), (Clean(j))'
                PROVE  log'[j].seq > 0
                       /\ \A i \in 1..(j - 1) : log'[i].seq < log'[j].seq /\ ~BothOnce(log'[i], log'[j])
    BY <1>1 DEF LogOrdered, BothOnce
  <2>1. CASE j \in 1..N
    BY <1>2, <1>3, <2>1
  <2>2. CASE j = N + 1
    <3>1. \A i \in 1..(j - 1) : i \in 1..N
      BY <1>1, <2>2
    <3>. QED  BY <1>1, <1>4, <2>2, <3>1
  <2>. QED  BY <1>1, <2>1, <2>2
<1>6. BlobsThere'
  <2>. SUFFICES ASSUME NEW i \in 1..(N + 1) PROVE (Backed(log[i]))'
    BY <1>1 DEF BlobsThere, Backed, Contents
  <2>1. CASE i \in 1..N
    BY <1>0, <1>1, <2>1 DEF BlobsThere, Backed, Contents
  <2>2. CASE i = N + 1
    BY <1>1, <2>2 DEF Backed, Contents
  <2>. QED  BY <1>1, <2>1, <2>2
<1>. QED  BY <1>5, <1>6

\* The line a process writes.
LEMMA WrittenLine ==
    ASSUME StoreInv, NEW p \in Processes, WriteLine(p)
    PROVE  \E e \in Lines :
               /\ log' = Append(log, e)
               /\ e = Corrupt \/ e = [seq |-> NextSeq, kind |-> job[p].kind, blob |-> job[p].blob]
               /\ ~Unread(e) => /\ e.seq > 0 /\ (log # <<>> => e.seq > log[Len(log)].seq)
                                /\ \A i \in 1..Len(log) : ~BothOnce(log[i], e)
               /\ Backed(e)
<1>0. StoreTyped /\ JobFits(p) /\ pc[p] = "line" /\ job[p] \in Jots
  BY DEF StoreInv, StoreTyped, WriteLine, Goto
<1>1. NextSeq \in Nat /\ NextSeq > 0 /\ (log # <<>> => NextSeq > log[Len(log)].seq)
  BY <1>0, NextIsAfter
<1>2. CASE torn
  <2>1. log' = Append(log, Corrupt) /\ Backed(Corrupt)
    BY <1>2, LinesTyped DEF WriteLine, Backed
  <2>. QED  BY <2>1, LinesTyped
<1>3. CASE ~torn
  <2>. DEFINE e == [seq |-> NextSeq, kind |-> job[p].kind, blob |-> job[p].blob]
  <2>1. e \in Lines /\ e.seq = NextSeq /\ e.kind = job[p].kind /\ e.blob = job[p].blob
    BY <1>0, <1>1 DEF Lines, Events, Jots
  <2>2. log' = Append(log, e)
    BY <1>3 DEF WriteLine, Event
  <2>3. Backed(e)
    BY <1>0, <1>1, <2>1 DEF Backed, JobFits
  <2>4. ASSUME NEW i \in 1..Len(log) PROVE ~BothOnce(log[i], e)
    <3>1. e.kind = "once" => log[i].kind # "once"
      BY <1>0, <2>1 DEF JobFits, OnceAbsent
    <3>. QED  BY <3>1 DEF BothOnce
  <2>. HIDE DEF e
  <2>5. e.seq > 0 /\ (log # <<>> => e.seq > log[Len(log)].seq)
    BY <1>1, <2>1
  <2>. QED  BY <2>1, <2>2, <2>3, <2>4, <2>5 DEF e
<1>. QED  BY <1>2, <1>3

LEMMA StoreKept ==
    ASSUME StoreInv, SessionNext
    PROVE  StoreTyped'
<1>0. StoreTyped /\ file \in Nat /\ made \in Nat /\ faults \in Nat
  BY StoreBounds DEF StoreInv, StoreTyped
<1>1. job' \in [Processes -> Jots]
  <2>1. CASE PowerFailure
    <3>1. NoJob \in Jots
      BY StoreBounds DEF NoJob, Jots, Kinds
    <3>. QED  BY <2>1, <3>1 DEF PowerFailure
  <2>. QED  BY <1>0, <2>1, JobKept DEF SessionNext
<1>2. faults' \in 0..MaxFaults
  <2>1. ASSUME Fault PROVE faults' \in 0..MaxFaults
    BY <1>0, <2>1, StoreBounds DEF Fault, StoreTyped
  <2>2. ASSUME UNCHANGED faults PROVE faults' \in 0..MaxFaults
    BY <1>0, <2>2 DEF StoreTyped
  <2>. QED  BY <2>1, <2>2 DEF SessionNext, SessionStep, Begin, BeginRewind, Lock, Absent, Present, WriteBlob,
                WriteLine, WriteFails, Sync, WriteCount, AppendFails, Edit, EditRefused, Restore,
                RestoreFails, Truncate, TruncateFails, Recount, RecountFails, Prune, Crash, PowerFailure
<1>3. log' \in Seq(Lines) /\ durable' \in 0..Len(log')
  <2>0. log \in Seq(Lines) /\ Len(log) \in Nat /\ durable \in 0..Len(log)
    BY <1>0 DEF StoreTyped
  <2>1. ASSUME NEW p \in Processes, WriteLine(p) PROVE log' \in Seq(Lines) /\ durable' \in 0..Len(log')
    <3>1. PICK e \in Lines : log' = Append(log, e)
      BY <2>1, WrittenLine
    <3>2. UNCHANGED durable
      BY <2>1 DEF WriteLine
    <3>. QED  BY <2>0, <3>1, <3>2
  <2>2. ASSUME NEW p \in Processes, Truncate(p) PROVE log' \in Seq(Lines) /\ durable' \in 0..Len(log')
    <3>1. PICK k \in 0..Len(log) : log' = SubSeq(log, 1, k)
      BY <2>2, TruncateCuts
    <3>2. durable' = Len(log')
      BY <2>2 DEF Truncate
    <3>. QED  BY <1>0, <3>1, <3>2, CutIsPrefix
  <2>3. CASE PowerFailure
    <3>1. PICK k \in durable..Len(log) : log' = SubSeq(log, 1, k) /\ durable' = k
      BY <2>3 DEF PowerFailure
    <3>2. k \in 0..Len(log)
      BY <2>0
    <3>. QED  BY <1>0, <3>1, <3>2, CutIsPrefix
  <2>4. ASSUME NEW p \in Processes, Sync(p) PROVE log' \in Seq(Lines) /\ durable' \in 0..Len(log')
    BY <2>0, <2>4 DEF Sync
  <2>5. ASSUME UNCHANGED <<log, durable>> PROVE log' \in Seq(Lines) /\ durable' \in 0..Len(log')
    BY <2>0, <2>5
  <2>. QED  BY <2>1, <2>2, <2>3, <2>4, <2>5 DEF SessionNext, SessionStep, Begin, BeginRewind, Lock, Absent,
                Present, WriteBlob, WriteFails, WriteCount, AppendFails, Edit, EditRefused, Restore,
                RestoreFails, TruncateFails, Recount, RecountFails, Prune, Crash
<1>4. torn' \in BOOLEAN /\ loose' \in BOOLEAN
  <2>1. torn' \in BOOLEAN
    BY <1>0 DEF StoreTyped, SessionNext, SessionStep, Begin, BeginRewind, Lock, Absent, Present, WriteBlob,
                WriteLine, WriteFails, Sync, WriteCount, AppendFails, Edit, EditRefused, Restore,
                RestoreFails, Truncate, TruncateFails, Recount, RecountFails, Prune, Crash, PowerFailure
  <2>2. loose' \in BOOLEAN
    BY <1>0 DEF StoreTyped, SessionNext, SessionStep, Begin, BeginRewind, Lock, Absent, Present, WriteBlob,
                WriteLine, WriteFails, Sync, WriteCount, AppendFails, Edit, EditRefused, Restore,
                RestoreFails, Truncate, TruncateFails, Recount, RecountFails, Prune, Crash, PowerFailure
  <2>. QED  BY <2>1, <2>2
<1>5. made' \in Versions /\ file' \in Versions
  <2>1. ASSUME NEW p \in Processes, Edit(p) PROVE made' \in Versions /\ file' \in Versions
    BY <1>0, <2>1, StoreBounds DEF Edit, Versions
  <2>2. ASSUME NEW p \in Processes, Restore(p) PROVE made' \in Versions /\ file' \in Versions
    <3>1. Snapshot(job[p].target) \in Versions \union {Skipped}
      BY <1>0, StoreBounds DEF Snapshot, StoreTyped
    <3>. QED  BY <1>0, <2>2, <3>1 DEF Restore, StoreTyped
  <2>3. ASSUME UNCHANGED <<made, file>> PROVE made' \in Versions /\ file' \in Versions
    BY <1>0, <2>3 DEF StoreTyped
  <2>. QED  BY <2>1, <2>2, <2>3 DEF SessionNext, SessionStep, Begin, BeginRewind, Lock, Absent, Present, WriteBlob,
                WriteLine, WriteFails, Sync, WriteCount, AppendFails, EditRefused,
                RestoreFails, Truncate, TruncateFails, Recount, RecountFails, Prune, Crash, PowerFailure
<1>6. blobs' \subseteq Versions /\ count' \in Nat
  <2>1. ASSUME NEW p \in Processes, WriteBlob(p) \/ Prune(p) PROVE blobs' \subseteq Versions /\ count' \in Nat
    BY <1>0, <2>1 DEF WriteBlob, Prune, StoreTyped
  <2>2. ASSUME NEW p \in Processes, WriteCount(p) \/ Recount(p) PROVE blobs' \subseteq Versions /\ count' \in Nat
    <3>1. job[p].seq \in Nat /\ Len(log) \in Nat /\ blobs \subseteq Versions
      BY <1>0 DEF StoreTyped, Jots
    <3>. QED  BY <2>2, <3>1 DEF WriteCount, Recount
  <2>3. ASSUME UNCHANGED <<blobs, count>> PROVE blobs' \subseteq Versions /\ count' \in Nat
    BY <1>0, <2>3 DEF StoreTyped
  <2>. QED  BY <2>1, <2>2, <2>3 DEF SessionNext, SessionStep, Begin, BeginRewind, Lock, Absent, Present,
                WriteLine, WriteFails, Sync, AppendFails, Edit, EditRefused, Restore,
                RestoreFails, Truncate, TruncateFails, RecountFails, Crash, PowerFailure
<1>. QED  BY <1>1, <1>2, <1>3, <1>4, <1>5, <1>6 DEF StoreTyped
LEMMA OrderKept ==
    ASSUME StoreInv, SessionNext
    PROVE  LogOrdered' /\ BlobsThere'
<1>0. StoreTyped /\ LogOrdered /\ BlobsThere
  BY DEF StoreInv
<1>1. ASSUME UNCHANGED log, \A i \in 1..Len(log) : (Backed(log[i]))' PROVE LogOrdered' /\ BlobsThere'
  <2>1. LogOrdered'
    BY <1>0, <1>1 DEF LogOrdered, Clean, Unread, BothOnce
  <2>. QED  BY <1>1, <2>1 DEF BlobsThere
<1>2. ASSUME UNCHANGED <<log, blobs>> PROVE LogOrdered' /\ BlobsThere'
  <2>1. \A i \in 1..Len(log) : (Backed(log[i]))'
    BY <1>0, <1>2 DEF BlobsThere, Backed, Contents
  <2>. QED  BY <1>1, <1>2, <2>1
<1>3. ASSUME NEW p \in Processes, WriteBlob(p) PROVE LogOrdered' /\ BlobsThere'
  <2>1. UNCHANGED log /\ blobs \subseteq blobs'
    BY <1>3 DEF WriteBlob
  <2>2. \A i \in 1..Len(log) : (Backed(log[i]))'
    BY <1>0, <2>1 DEF BlobsThere, Backed, Contents
  <2>. QED  BY <1>1, <2>1, <2>2
<1>4. ASSUME NEW p \in Processes, Prune(p) PROVE LogOrdered' /\ BlobsThere'
  <2>1. UNCHANGED log /\ blobs' = blobs \intersect Referenced
    BY <1>4 DEF Prune
  <2>2. ASSUME NEW i \in 1..Len(log), log[i].kind = "checkpoint"
        PROVE  log[i].seq > 0 /\ log[i].blob \in blobs' \union {0, Skipped}
    <3>1. log[i].seq > 0 /\ log[i].blob \in Contents
      BY <1>0, <2>2 DEF BlobsThere, Backed
    <3>2. log[i].blob \in Referenced
      BY <2>2, <3>1 DEF Referenced, CheckpointsAfter
    <3>. QED  BY <2>1, <3>1, <3>2 DEF Contents
  <2>3. \A i \in 1..Len(log) : (Backed(log[i]))'
    BY <2>1, <2>2 DEF Backed, Contents
  <2>. QED  BY <1>1, <2>1, <2>3
<1>5. ASSUME NEW p \in Processes, WriteLine(p) PROVE LogOrdered' /\ BlobsThere'
  <2>1. UNCHANGED blobs
    BY <1>5 DEF WriteLine
  <2>2. PICK e \in Lines :
            /\ log' = Append(log, e)
            /\ ~Unread(e) => /\ e.seq > 0 /\ (log # <<>> => e.seq > log[Len(log)].seq)
                             /\ \A i \in 1..Len(log) : ~BothOnce(log[i], e)
            /\ Backed(e)
    BY <1>5, WrittenLine
  <2>. QED  BY <1>0, <2>1, <2>2, AppendKeepsOrder
<1>6. ASSUME NEW p \in Processes, Truncate(p) PROVE LogOrdered' /\ BlobsThere'
  <2>1. PICK k \in 0..Len(log) : log' = SubSeq(log, 1, k)
    BY <1>6, TruncateCuts
  <2>2. UNCHANGED blobs
    BY <1>6 DEF Truncate
  <2>. QED  BY <1>0, <2>1, <2>2, CutKeepsOrder
<1>7. CASE PowerFailure
  <2>1. PICK k \in durable..Len(log) : log' = SubSeq(log, 1, k)
    BY <1>7 DEF PowerFailure
  <2>2. UNCHANGED blobs /\ k \in 0..Len(log)
    BY <1>0, <1>7 DEF PowerFailure, StoreTyped
  <2>. QED  BY <1>0, <2>1, <2>2, CutKeepsOrder
<1>8. ASSUME NEW p \in Processes,
             \/ \E kind \in Kinds : Begin(p, kind)
             \/ BeginRewind(p) \/ Lock(p) \/ Absent(p) \/ Present(p) \/ WriteFails(p) \/ Sync(p)
             \/ WriteCount(p) \/ AppendFails(p) \/ Edit(p) \/ EditRefused(p) \/ Restore(p)
             \/ RestoreFails(p) \/ TruncateFails(p) \/ Recount(p) \/ RecountFails(p) \/ Crash(p)
      PROVE  UNCHANGED <<log, blobs>>
  BY <1>8 DEF Begin, BeginRewind, Lock, Absent, Present, WriteFails, Sync, WriteCount, AppendFails, Edit,
              EditRefused, Restore, RestoreFails, TruncateFails, Recount, RecountFails, Crash
<1>. QED  BY <1>2, <1>3, <1>4, <1>5, <1>6, <1>7, <1>8 DEF SessionNext, SessionStep

\* What is acknowledged is synced, and what is synced stays.
LEMMA AckedKept ==
    ASSUME StoreInv, SessionNext
    PROVE  AckedSynced'
<1>0. /\ StoreTyped /\ LogOrdered /\ AckedSynced
      /\ log \in Seq(Lines) /\ Len(log) \in Nat /\ durable \in 0..Len(log) /\ durable \in Nat
  BY DEF StoreInv, StoreTyped
<1>1. ASSUME acked' \subseteq acked, durable' \in Nat, durable <= durable',
             \A i \in 1..durable : log'[i] = log[i]
      PROVE  AckedSynced'
  <2>. SUFFICES ASSUME NEW e \in acked'
                PROVE  \E i \in 1..durable' : log'[i] = e \/ Unread(log'[i])
    BY DEF AckedSynced, Unread
  <2>1. PICK i \in 1..durable : log[i] = e \/ Unread(log[i])
    BY <1>0, <1>1 DEF AckedSynced
  <2>2. i \in 1..durable' /\ log'[i] = log[i]
    BY <1>0, <1>1
  <2>. QED  BY <2>1, <2>2
<1>2. ASSUME NEW p \in Processes, WriteLine(p) PROVE AckedSynced'
  <2>1. PICK e \in Lines : log' = Append(log, e)
    BY <1>2, WrittenLine
  <2>2. \A i \in 1..durable : i \in 1..Len(log) /\ log'[i] = log[i]
    BY <1>0, <2>1
  <2>3. UNCHANGED <<acked, durable>>
    BY <1>2 DEF WriteLine
  <2>. QED  BY <1>0, <1>1, <2>2, <2>3
<1>3. ASSUME NEW p \in Processes, Sync(p) PROVE AckedSynced'
  BY <1>0, <1>1, <1>3 DEF Sync
<1>4. ASSUME NEW p \in Processes, WriteCount(p) PROVE AckedSynced'
  <2>1. pc[p] = "count" /\ acked' = acked \union {EventOf(p)} /\ UNCHANGED <<log, durable>>
    BY <1>4 DEF WriteCount, Return, Goto, EventOf
  <2>2. LastIs(EventOf(p)) /\ durable = Len(log)
    BY <2>1 DEF StoreInv, JobFits
  <2>3. durable \in 1..durable /\ log[durable] \in {EventOf(p), Corrupt}
    BY <1>0, <2>2 DEF LastIs
  <2>. SUFFICES ASSUME NEW e \in acked'
                PROVE  \E i \in 1..durable : log[i] = e \/ Unread(log[i])
    BY <2>1 DEF AckedSynced, Unread
  <2>4. CASE e \in acked
    BY <1>0, <2>4 DEF AckedSynced
  <2>5. CASE e = EventOf(p)
    BY <2>3, <2>5, LinesTyped
  <2>. QED  BY <2>1, <2>4, <2>5
<1>5. ASSUME NEW p \in Processes, Truncate(p) PROVE AckedSynced'
  <2>. DEFINE t == job[p].target
  <2>1. PICK k \in 0..Len(log) :
            /\ log' = SubSeq(log, 1, k)
            /\ \A i \in 1..Len(log) : Kept(t, log[i]) <=> i <= k
    BY <1>5, TruncateCuts
  <2>2. durable' = Len(log') /\ acked' = {e \in acked : Kept(t, e)} /\ pc[p] = "truncate"
    BY <1>5 DEF Truncate, Goto
  <2>3. Readable
    BY <2>2 DEF StoreInv, JobFits
  <2>4. Len(log') = k /\ \A i \in 1..k : log'[i] = log[i]
    BY <1>0, <2>1, CutIsPrefix
  <2>. HIDE DEF t
  <2>. SUFFICES ASSUME NEW e \in acked, Kept(t, e)
                PROVE  \E i \in 1..k : log'[i] = e
    BY <2>2, <2>4 DEF AckedSynced
  <2>5. PICK i \in 1..durable : log[i] = e
    <3>1. PICK i \in 1..durable : log[i] = e \/ Unread(log[i])
      BY <1>0 DEF AckedSynced
    <3>2. i \in 1..Len(log)
      BY <1>0
    <3>. QED  BY <2>3, <3>1, <3>2 DEF Readable, Unread
  <2>6. i \in 1..Len(log)
    BY <1>0
  <2>7. i <= k
    BY <2>1, <2>5, <2>6
  <2>8. i \in 1..k
    BY <1>0, <2>6, <2>7
  <2>. QED  BY <2>4, <2>5, <2>8
<1>6. CASE PowerFailure
  <2>1. PICK k \in durable..Len(log) : log' = SubSeq(log, 1, k) /\ durable' = k
    BY <1>6 DEF PowerFailure
  <2>2. k \in 0..Len(log) /\ durable <= k /\ k \in Nat
    BY <1>0
  <2>3. \A i \in 1..durable : log'[i] = log[i]
    <3>1. \A i \in 1..k : log'[i] = log[i]
      BY <1>0, <2>1, <2>2, CutIsPrefix
    <3>. QED  BY <1>0, <2>2, <3>1
  <2>4. UNCHANGED acked
    BY <1>6 DEF PowerFailure
  <2>. QED  BY <1>1, <2>1, <2>2, <2>3, <2>4
<1>7. ASSUME NEW p \in Processes,
             \/ \E kind \in Kinds : Begin(p, kind)
             \/ BeginRewind(p) \/ Lock(p) \/ Absent(p) \/ Present(p) \/ WriteBlob(p) \/ WriteFails(p)
             \/ AppendFails(p) \/ Edit(p) \/ EditRefused(p) \/ Restore(p) \/ RestoreFails(p)
             \/ TruncateFails(p) \/ Recount(p) \/ RecountFails(p) \/ Prune(p) \/ Crash(p)
      PROVE  UNCHANGED <<log, durable, acked>>
  BY <1>7 DEF Begin, BeginRewind, Lock, Absent, Present, WriteBlob, WriteFails, AppendFails, Edit, EditRefused,
              Restore, RestoreFails, TruncateFails, Recount, RecountFails, Prune, Crash
<1>8. ASSUME UNCHANGED <<log, durable, acked>> PROVE AckedSynced'
  BY <1>0, <1>8 DEF AckedSynced, Unread
<1>. QED  BY <1>2, <1>3, <1>4, <1>5, <1>6, <1>7, <1>8 DEF SessionNext, SessionStep
-----------------------------------------------------------------------------
(* What the processes have found *)

\* Outside the lock nothing of the session changes that a holder of the lock relies on.
LEMMA OutsiderChangesNothing ==
    ASSUME LockTyped, NEW p \in Processes, SessionStep(p), lock \notin {p, NoProcess}
    PROVE  UNCHANGED <<log, blobs, durable>>
<1>1. pc[p] \notin Locked /\ pc[p] \notin {"check", "blob", "line", "sync", "count", "restore", "truncate",
                                           "recount", "prune"}
  BY DEF LockTyped, Locked
<1>. QED  BY <1>1 DEF SessionStep, Begin, BeginRewind, Lock, Absent, Present, WriteBlob, WriteLine, WriteFails,
               Sync, WriteCount, AppendFails, Return, Goto, Edit, EditRefused, Restore, RestoreFails,
               Truncate, TruncateFails, Recount, RecountFails, Prune, Crash

LEMMA OthersFit ==
    ASSUME StoreInv, NEW p \in Processes, SessionStep(p), NEW q \in Processes \ {p}
    PROVE  (JobFits(q))'
<1>1. LockTyped /\ JobFits(q) /\ StoreTyped
  BY DEF StoreInv
<1>2. pc'[q] = pc[q]
  BY <1>1, OneProcessSteps
<1>3. job'[q].kind = job[q].kind /\ job'[q].blob = job[q].blob /\ job'[q].seq = job[q].seq
  BY <1>1, JobKept DEF SameJob
<1>4. CASE pc[q] \in Locked
  <2>1. lock \notin {p, NoProcess}
    BY <1>1, <1>4, StoreBounds DEF LockTyped
  <2>2. UNCHANGED <<log, blobs, durable>>
    BY <1>1, <2>1, OutsiderChangesNothing
  <2>. QED  BY <1>1, <1>2, <1>3, <2>2 DEF JobFits, Contents, OnceAbsent, Readable, LastIs, EventOf
<1>5. CASE pc[q] \notin Locked
  <2>1. pc[q] = "lock" => job[q].blob = Skipped
    BY <1>1 DEF JobFits
  <2>. QED  BY <1>2, <1>3, <1>5, <2>1 DEF JobFits, Locked
<1>. QED  BY <1>4, <1>5

LEMMA OwnFits ==
    ASSUME StoreInv, NEW p \in Processes, SessionStep(p)
    PROVE  (JobFits(p))'
<1>0. /\ LockTyped /\ StoreTyped /\ JobFits(p) /\ pc \in [Processes -> Points]
      /\ job \in [Processes -> Jots] /\ job[p] \in Jots
      /\ log \in Seq(Lines) /\ Len(log) \in Nat
  BY DEF StoreInv, LockTyped, StoreTyped
<1>1. ASSUME NEW from, Return(p, from) PROVE (JobFits(p))'
  <2>1. pc'[p] \in {"edit", "idle"}
    BY <1>0, <1>1 DEF Return, Goto
  <2>. QED  BY <2>1 DEF JobFits
<1>2. ASSUME NEW kind \in Kinds, Begin(p, kind) PROVE (JobFits(p))'
  <2>1. pc'[p] = "lock" /\ job'[p].blob = Skipped
    BY <1>0, <1>2 DEF Begin, Goto, NoJob
  <2>. QED  BY <2>1 DEF JobFits
<1>3. CASE BeginRewind(p)
  <2>1. pc'[p] = "lock" /\ job'[p].blob = Skipped
    BY <1>0, <1>3 DEF BeginRewind, Goto, NoJob
  <2>. QED  BY <2>1 DEF JobFits
<1>4. CASE Lock(p)
  <2>1. /\ pc[p] = "lock" /\ job[p].blob = Skipped /\ pc'[p] = FirstStep(p)
        /\ UNCHANGED <<log, job, blobs>>
    BY <1>0, <1>4 DEF Lock, Goto, JobFits
  <2>2. job[p].kind \in {"message", "once", "checkpoint", "rewind"}
    BY <1>0 DEF Jots, Kinds
  <2>3. pc'[p] = CASE job[p].kind = "once"       -> "check"
                   [] job[p].kind = "checkpoint" -> "blob"
                   [] job[p].kind = "rewind"     -> "restore"
                   [] OTHER                      -> "line"
    BY <2>1 DEF FirstStep
  <2>4. \/ job[p].kind = "once" /\ pc'[p] = "check"
        \/ job[p].kind = "checkpoint" /\ pc'[p] = "blob"
        \/ job[p].kind = "rewind" /\ pc'[p] = "restore"
        \/ job[p].kind = "message" /\ pc'[p] = "line"
    BY <2>2, <2>3
  <2>. QED  BY <2>1, <2>4 DEF JobFits, Contents
<1>5. CASE Absent(p)
  <2>1. /\ pc[p] = "check" /\ job[p].blob = Skipped /\ pc'[p] = "line" /\ OnceAbsent
        /\ UNCHANGED <<log, job, blobs>>
    BY <1>0, <1>5 DEF Absent, Goto, JobFits, OnceAbsent
  <2>. QED  BY <2>1 DEF JobFits, Contents, OnceAbsent
<1>6. CASE WriteBlob(p)
  <2>1. pc[p] = "blob" /\ job[p].blob = Skipped /\ job[p].kind = "checkpoint" /\ pc'[p] = "line"
    BY <1>0, <1>6 DEF WriteBlob, Goto, JobFits
  <2>2. job'[p].kind = "checkpoint" /\ job'[p].blob \in blobs' \union {0, Skipped}
    <3>1. CASE job' = [job EXCEPT ![p].blob = file] /\ blobs' = blobs \union ({file} \ {0})
      BY <1>0, <2>1, <3>1 DEF Jots
    <3>2. CASE UNCHANGED <<blobs, job>>
      BY <2>1, <3>2
    <3>. QED  BY <1>6, <3>1, <3>2 DEF WriteBlob
  <2>. QED  BY <2>1, <2>2 DEF JobFits, Contents
<1>7. CASE WriteLine(p)
  <2>1. pc'[p] = "sync" /\ job'[p].seq = NextSeq /\ job'[p].kind = job[p].kind /\ job'[p].blob = job[p].blob
    BY <1>0, <1>7 DEF WriteLine, Goto, Jots
  <2>2. PICK e \in Lines :
            /\ log' = Append(log, e)
            /\ e = Corrupt \/ e = [seq |-> NextSeq, kind |-> job[p].kind, blob |-> job[p].blob]
    BY <1>7, WrittenLine
  <2>3. log' # <<>> /\ log'[Len(log')] = e
    BY <1>0, <2>2
  <2>4. (LastIs(EventOf(p)))'
    BY <2>1, <2>2, <2>3 DEF LastIs, EventOf
  <2>. QED  BY <2>1, <2>4 DEF JobFits
<1>8. CASE Sync(p)
  <2>1. /\ pc[p] = "sync" /\ pc'[p] = "count" /\ durable' = Len(log) /\ UNCHANGED log
        /\ job'[p].seq = job[p].seq /\ job'[p].kind = job[p].kind /\ job'[p].blob = job[p].blob
    BY <1>0, <1>8 DEF Sync, Goto, Jots
  <2>2. LastIs(EventOf(p))
    BY <1>0, <2>1 DEF JobFits
  <2>3. (LastIs(EventOf(p)))'
    BY <2>1, <2>2 DEF LastIs, EventOf
  <2>. QED  BY <2>1, <2>3 DEF JobFits
<1>9. CASE Edit(p) \/ EditRefused(p)
  <2>1. pc'[p] = "idle"
    BY <1>0, <1>9 DEF Edit, EditRefused, Goto
  <2>. QED  BY <2>1 DEF JobFits
<1>10. CASE Restore(p)
  <2>1. /\ pc[p] = "restore" /\ job[p].blob = Skipped /\ job[p].kind = "rewind" /\ pc'[p] = "truncate"
        /\ Readable /\ UNCHANGED <<log, job>>
    BY <1>0, <1>10 DEF Restore, Goto, JobFits
  <2>. QED  BY <2>1 DEF JobFits, Readable
<1>11. CASE Truncate(p)
  <2>1. pc[p] = "truncate" /\ job[p].blob = Skipped /\ job[p].kind = "rewind" /\ pc'[p] = "recount"
    BY <1>0, <1>11 DEF Truncate, Goto, JobFits
  <2>2. job'[p].blob = job[p].blob /\ job'[p].kind = job[p].kind
    BY <1>0, <1>11 DEF Truncate, Jots
  <2>. QED  BY <2>1, <2>2 DEF JobFits
<1>12. CASE Recount(p)
  <2>1. /\ pc[p] = "recount" /\ job[p].blob = Skipped /\ job[p].kind = "rewind" /\ pc'[p] = "prune"
        /\ UNCHANGED job
    BY <1>0, <1>12 DEF Recount, Goto, JobFits
  <2>. QED  BY <2>1 DEF JobFits
<1>13. CASE Prune(p)
  <2>1. /\ pc[p] = "prune" /\ job[p].blob = Skipped /\ job[p].kind = "rewind" /\ pc'[p] = "line"
        /\ UNCHANGED job
    BY <1>0, <1>13 DEF Prune, Goto, JobFits
  <2>. QED  BY <2>1 DEF JobFits, Contents
<1>14. CASE Present(p) \/ WriteFails(p) \/ WriteCount(p) \/ AppendFails(p) \/ RestoreFails(p) \/ TruncateFails(p) \/ RecountFails(p)
  BY <1>1, <1>14 DEF Present, WriteFails, WriteCount, AppendFails, RestoreFails, TruncateFails, RecountFails
<1>15. CASE Crash(p)
  <2>1. pc'[p] = "idle"
    BY <1>0, <1>15 DEF Crash
  <2>. QED  BY <2>1 DEF JobFits
<1>. QED  BY <1>2, <1>3, <1>4, <1>5, <1>6, <1>7, <1>8, <1>9, <1>10, <1>11, <1>12, <1>13, <1>14, <1>15
          DEF SessionStep

-----------------------------------------------------------------------------
(* The invariant and the properties *)

LEMMA StoreStarts == SessionInit => StoreInv
<1>. SUFFICES ASSUME SessionInit PROVE StoreInv
  OBVIOUS
<1>1. LockTyped
  BY StoreBounds DEF SessionInit, LockTyped, Points, Locked
<1>2. StoreTyped
  <2>1. 0 \in Versions /\ 0 \in 0..MaxFaults
    BY SessionAssumption DEF Versions
  <2>2. NoJob \in Jots
    BY DEF NoJob, Jots, Kinds
  <2>3. job \in [Processes -> Jots]
    BY <2>2 DEF SessionInit
  <2>4. log = <<>> /\ log \in Seq(Lines) /\ Len(log) = 0
    BY DEF SessionInit
  <2>5. durable \in 0..Len(log) /\ count \in Nat
    BY <2>4 DEF SessionInit
  <2>. QED  BY <2>1, <2>3, <2>4, <2>5 DEF SessionInit, StoreTyped
<1>3. Len(log) = 0 /\ acked = {} /\ \A p \in Processes : pc[p] = "idle"
  BY DEF SessionInit
<1>4. \A i \in 1..Len(log) : FALSE
  BY <1>3
<1>5. LogOrdered /\ BlobsThere /\ AckedSynced
  BY <1>3, <1>4 DEF LogOrdered, BlobsThere, AckedSynced
<1>6. \A p \in Processes : JobFits(p)
  BY <1>3 DEF JobFits
<1>. QED  BY <1>1, <1>2, <1>5, <1>6 DEF StoreInv

LEMMA StoreStays == StoreInv /\ UNCHANGED sessionVars => StoreInv'
<1>. SUFFICES ASSUME StoreInv, UNCHANGED sessionVars PROVE StoreInv'
  OBVIOUS
<1>0. UNCHANGED <<log, torn, durable, count, blobs, file, lock, pc, job, made, acked, loose, faults>>
  BY DEF sessionVars
<1>1. LockTyped'
  BY <1>0 DEF StoreInv, LockTyped
<1>2. StoreTyped'
  BY <1>0 DEF StoreInv, StoreTyped
<1>3. LogOrdered'
  BY <1>0 DEF StoreInv, LogOrdered, Clean
<1>4. BlobsThere'
  BY <1>0 DEF StoreInv, BlobsThere, Backed, Contents
<1>5. AckedSynced'
  BY <1>0 DEF StoreInv, AckedSynced
<1>6. ASSUME NEW p \in Processes PROVE (JobFits(p))'
  <2>1. JobFits(p)
    BY DEF StoreInv
  <2>2. (EventOf(p))' = EventOf(p) /\ Readable' = Readable /\ OnceAbsent' = OnceAbsent /\ Contents' = Contents
    BY <1>0 DEF EventOf, Readable, OnceAbsent, Contents
  <2>. QED  BY <1>0, <2>1, <2>2 DEF JobFits, LastIs
<1>. QED  BY <1>1, <1>2, <1>3, <1>4, <1>5, <1>6 DEF StoreInv

\* Whatever fails, dies or loses power, what the lines of the log say is there.
THEOREM StoreInvariant == SessionSpec => []StoreInv
<1>1. SessionInit => StoreInv
  BY StoreStarts
<1>2. StoreInv /\ [SessionNext]_sessionVars => StoreInv'
  <2>. SUFFICES ASSUME StoreInv, SessionNext PROVE StoreInv'
    BY StoreStays
  <2>1. LockTyped' /\ StoreTyped' /\ LogOrdered' /\ BlobsThere' /\ AckedSynced'
    BY LockKept, StoreKept, OrderKept, AckedKept DEF StoreInv
  <2>2. ASSUME NEW q \in Processes PROVE (JobFits(q))'
    <3>1. ASSUME NEW p \in Processes, SessionStep(p) PROVE (JobFits(q))'
      <4>1. CASE q = p
        BY <3>1, <4>1, OwnFits
      <4>2. CASE q # p
        BY <3>1, <4>2, OthersFit
      <4>. QED  BY <4>1, <4>2
    <3>2. CASE PowerFailure
      <4>1. pc'[q] = "idle"
        BY <3>2 DEF PowerFailure
      <4>. QED  BY <4>1 DEF JobFits
    <3>. QED  BY <3>1, <3>2 DEF SessionNext
  <2>. QED  BY <2>1, <2>2 DEF StoreInv
<1>. QED  BY <1>1, <1>2, PTL DEF SessionSpec

\* As long as the log can be read its events are numbered in order, it has at most one
\* record-once event, and the content of each checkpoint is there (LogWellFormed), for any
\* processes and jobs, any number of edits, crashes and power failures.
THEOREM LogIsWellFormed == SessionSpec => []LogWellFormed
<1>1. StoreInv => LogWellFormed
  <2>. SUFFICES ASSUME StoreInv PROVE LogWellFormed
    OBVIOUS
  <2>1. SessionStoreTypeOK
    BY DEF StoreInv, LockTyped, StoreTyped, SessionStoreTypeOK, Lines, Points
  <2>2. ASSUME Readable
        PROVE  /\ \A i, j \in 1..Len(log) :
                      i < j => log[i].seq < log[j].seq /\ {log[i].kind, log[j].kind} # {"once"}
               /\ Referenced \subseteq blobs \union {0, Skipped}
    <3>1. \A i, j \in 1..Len(log) : i < j => log[i].seq < log[j].seq /\ ~BothOnce(log[i], log[j])
      BY <2>2, ReadableIsOrdered DEF StoreInv
    <3>2. Referenced \subseteq blobs \union {0, Skipped}
      BY DEF StoreInv, BlobsThere, Backed, Contents, Referenced, CheckpointsAfter
    <3>. QED  BY <3>1, <3>2 DEF BothOnce
  <2>. QED  BY <2>1, <2>2 DEF LogWellFormed
<1>. QED  BY <1>1, StoreInvariant, PTL

\* As long as the log can be read it has every event whose append returned, less those a rewind
\* dropped (AckedIsDurable), for any processes and any crashes of them and of the machine.
THEOREM AcknowledgedIsDurable == SessionSpec => []AckedIsDurable
<1>1. StoreInv => AckedIsDurable
  <2>. SUFFICES ASSUME StoreInv, Readable, NEW e \in acked PROVE e \in {log[i] : i \in 1..Len(log)}
    BY DEF AckedIsDurable
  <2>1. PICK i \in 1..durable : log[i] = e \/ Unread(log[i])
    BY DEF StoreInv, AckedSynced
  <2>2. i \in 1..Len(log)
    BY DEF StoreInv, StoreTyped
  <2>. QED  BY <2>1, <2>2 DEF Readable, Unread
<1>. QED  BY <1>1, StoreInvariant, PTL

-----------------------------------------------------------------------------
(* SessionStore: the loop of a truncation, on the history of the edits *)

\* A sequence that is not empty is one with an element appended.
LEMMA LastOne ==
    ASSUME NEW S, NEW xs \in Seq(S), xs # <<>>
    PROVE  \E front \in Seq(S), e \in S : xs = Append(front, e) /\ Len(front) = Len(xs) - 1
<1>. DEFINE n == Len(xs)
            front == SubSeq(xs, 1, n - 1)
            e == xs[n]
            whole == Append(front, e)
<1>1. n \in Nat /\ n # 0
  OBVIOUS
<1>2. e \in S
  BY <1>1
<1>3. front \in Seq(S) /\ Len(front) = n - 1 /\ \A i \in 1..(n - 1) : front[i] = xs[i]
  <2>. HIDE DEF n
  <2>1. n = Len(xs) /\ n - 1 \in 0..Len(xs)
    BY <1>1 DEF n
  <2>2. Len(front) = n - 1 /\ \A i \in 1..(n - 1) : front[i] = xs[i]
    BY <1>1, <2>1
  <2>3. front \in Seq(S)
    BY <1>1, <2>1
  <2>. QED  BY <2>2, <2>3
<1>. HIDE DEF front, e
<1>4. whole \in Seq(S) /\ Len(whole) = n /\ whole[n] = e /\ \A i \in 1..(n - 1) : whole[i] = front[i]
  BY <1>1, <1>2, <1>3
<1>. HIDE DEF whole
<1>5. ASSUME NEW i \in 1..n PROVE whole[i] = xs[i]
  <2>1. i = n \/ i \in 1..(n - 1)
    BY <1>1
  <2>. QED  BY <1>3, <1>4, <2>1 DEF e
<1>6. whole = xs
  BY <1>4, <1>5, SeqEqual
<1>. QED  BY <1>2, <1>3, <1>6 DEF whole

\* A set of sequences that has the empty one and, with a sequence, all that append one element
\* to it, has every sequence.
LEMMA AllSequences ==
    ASSUME NEW S, NEW T \in SUBSET Seq(S), <<>> \in T,
           \A xs \in T : \A e \in S : Append(xs, e) \in T
    PROVE  T = Seq(S)
<1>. DEFINE Lengths == {Len(xs) : xs \in Seq(S) \ T}
<1>1. SUFFICES ASSUME Seq(S) \ T # {} PROVE FALSE
  OBVIOUS
<1>2. Lengths \in SUBSET Nat /\ Lengths # {}
  <2>1. \A xs \in Seq(S) : Len(xs) \in Nat
    OBVIOUS
  <2>2. PICK xs \in Seq(S) \ T : TRUE
    BY <1>1
  <2>3. Len(xs) \in Lengths
    BY <2>2
  <2>. QED  BY <2>1, <2>3
<1>3. \A xs \in Seq(S) \ T : Len(xs) \in Lengths
  OBVIOUS
<1>4. \A m \in Lengths : \E xs \in Seq(S) \ T : Len(xs) = m
  OBVIOUS
<1>. HIDE DEF Lengths
<1>5. PICK n \in Lengths : \A m \in Lengths : n <= m
  BY <1>2, LeastNatural
<1>6. PICK xs \in Seq(S) \ T : Len(xs) = n
  BY <1>4, <1>5
<1>7. PICK front \in Seq(S), e \in S : xs = Append(front, e) /\ Len(front) = n - 1
  <2>1. xs # <<>>
    BY <1>6
  <2>2. xs \in Seq(S)
    OBVIOUS
  <2>3. \E front \in Seq(S), e \in S : xs = Append(front, e) /\ Len(front) = Len(xs) - 1
    BY <2>1, <2>2, LastOne
  <2>. QED  BY <1>6, <2>3
<1>8. front \notin T
  BY <1>6, <1>7
<1>9. n \in Nat /\ n <= n - 1
  BY <1>2, <1>3, <1>5, <1>7, <1>8
<1>. QED  BY <1>9

\* What the loop has kept of each prefix of the events.
KeepsOf(t, events, keep) ==
    keep = [n \in 0..Len(events) |->
               IF n = 0 THEN <<>>
               ELSE IF Kept(t, events[n]) THEN Append(keep[n - 1], events[n]) ELSE keep[n - 1]]

Keeps(t, events) == CHOOSE keep : KeepsOf(t, events, keep)

\* What KeptOf returns is the last of them.
LEMMA KeptIsLast ==
    ASSUME NEW t, NEW events
    PROVE  KeptOf(t, events) = Keeps(t, events)[Len(events)]
  BY DEF KeptOf, Keeps, KeepsOf

Longer(t, events, keep, e) ==
    [n \in 0..(Len(events) + 1) |->
        IF n <= Len(events) THEN keep[n]
        ELSE IF Kept(t, e) THEN Append(keep[n - 1], e) ELSE keep[n - 1]]

\* They can be told for one event more.
LEMMA KeepsExtend ==
    ASSUME NEW S, NEW t, NEW events \in Seq(S), NEW e \in S, NEW keep, KeepsOf(t, events, keep)
    PROVE  KeepsOf(t, Append(events, e), Longer(t, events, keep, e))
<1>. DEFINE N == Len(events)
            more == Append(events, e)
            ext == Longer(t, events, keep, e)
<1>1. /\ N \in Nat /\ Len(more) = N + 1 /\ more[N + 1] = e
      /\ \A i \in 1..N : more[i] = events[i]
  OBVIOUS
<1>2. /\ \A n \in 0..N : ext[n] = keep[n]
      /\ ext[N + 1] = IF Kept(t, e) THEN Append(keep[N], e) ELSE keep[N]
  BY <1>1 DEF Longer
<1>3. ASSUME NEW n \in 0..N
      PROVE  keep[n] = IF n = 0 THEN <<>>
                       ELSE IF Kept(t, events[n]) THEN Append(keep[n - 1], events[n]) ELSE keep[n - 1]
  BY <1>1 DEF KeepsOf
<1>. HIDE DEF more
<1>4. ext = [n \in 0..(N + 1) |-> ext[n]]
  BY DEF Longer
<1>. HIDE DEF ext
<1>5. ASSUME NEW n \in 0..(N + 1)
      PROVE  ext[n] = IF n = 0 THEN <<>>
                      ELSE IF Kept(t, more[n]) THEN Append(ext[n - 1], more[n]) ELSE ext[n - 1]
  <2>1. CASE n = 0
    BY <1>1, <1>2, <1>3, <2>1
  <2>2. CASE n \in 1..N
    <3>1. n \in 0..N /\ n - 1 \in 0..N /\ n # 0
      BY <1>1, <2>2
    <3>2. ext[n] = keep[n] /\ ext[n - 1] = keep[n - 1] /\ more[n] = events[n]
      BY <1>1, <1>2, <2>2, <3>1
    <3>. QED  BY <1>3, <3>1, <3>2
  <2>3. CASE n = N + 1
    <3>1. n - 1 = N /\ n # 0 /\ N \in 0..N
      BY <1>1, <2>3
    <3>2. ext[n - 1] = keep[N] /\ more[n] = e
      BY <1>1, <1>2, <2>3, <3>1
    <3>. QED  BY <1>2, <2>3, <3>1, <3>2
  <2>. QED  BY <1>1, <2>1, <2>2, <2>3
<1>6. ext = [n \in 0..Len(more) |->
               IF n = 0 THEN <<>>
               ELSE IF Kept(t, more[n]) THEN Append(ext[n - 1], more[n]) ELSE ext[n - 1]]
  BY <1>1, <1>4, <1>5
<1>. QED  BY <1>6 DEF KeepsOf, ext, more

\* There is one way to tell them.
LEMMA KeepsAreOne ==
    ASSUME NEW S, NEW t, NEW events \in Seq(S), NEW f, NEW g,
           KeepsOf(t, events, f), KeepsOf(t, events, g)
    PROVE  f = g
<1>. DEFINE N == Len(events)
            T == {n \in 0..N : f[n] # g[n]}
<1>1. N \in Nat
  OBVIOUS
<1>2. ASSUME NEW h, KeepsOf(t, events, h), NEW n \in 0..N
      PROVE  h[n] = IF n = 0 THEN <<>>
                    ELSE IF Kept(t, events[n]) THEN Append(h[n - 1], events[n]) ELSE h[n - 1]
  BY <1>2 DEF KeepsOf
<1>3. f = [n \in 0..N |-> f[n]] /\ g = [n \in 0..N |-> g[n]]
  BY DEF KeepsOf
<1>4. CASE T = {}
  <2>1. \A n \in 0..N : f[n] = g[n]
    BY <1>4
  <2>. QED  BY <1>3, <2>1
<1>5. CASE T # {}
  <2>1. T \subseteq Nat
    BY <1>1
  <2>2. PICK m \in T : \A i \in T : m <= i
    BY <1>5, <2>1, LeastNatural
  <2>3. m \in 0..N /\ m # 0
    BY <1>2, <2>2
  <2>4. m - 1 \in 0..N /\ ~(m <= m - 1)
    BY <1>1, <2>3
  <2>5. f[m - 1] = g[m - 1]
    BY <2>2, <2>4
  <2>. QED  BY <1>2, <2>2, <2>3, <2>5
<1>. QED  BY <1>4, <1>5

\* And there is a way.
LEMMA KeepsExist ==
    ASSUME NEW S, NEW t, NEW events \in Seq(S)
    PROVE  \E keep : KeepsOf(t, events, keep)
<1>. DEFINE T == {xs \in Seq(S) : \E keep : KeepsOf(t, xs, keep)}
<1>1. <<>> \in T
  <2>1. KeepsOf(t, <<>>, [n \in 0..0 |-> <<>>])
    BY DEF KeepsOf
  <2>. QED  BY <2>1
<1>2. ASSUME NEW xs \in T, NEW e \in S PROVE Append(xs, e) \in T
  <2>1. PICK keep : KeepsOf(t, xs, keep)
    OBVIOUS
  <2>2. KeepsOf(t, Append(xs, e), Longer(t, xs, keep, e))
    BY <2>1, KeepsExtend
  <2>. QED  BY <2>2
<1>3. T = Seq(S)
  <2>. HIDE DEF T
  <2>0. T \in SUBSET Seq(S)
    BY DEF T
  <2>. QED  BY <1>1, <1>2, <2>0, AllSequences
<1>. QED  BY <1>3

\* So the CHOOSE finds it.
LEMMA KeepsFound ==
    ASSUME NEW S, NEW t, NEW events \in Seq(S)
    PROVE  KeepsOf(t, events, Keeps(t, events))
  BY KeepsExist DEF Keeps

\* Of nothing, nothing is kept.
LEMMA NothingKept == \A t : KeptOf(t, <<>>) = <<>>
<1>. TAKE t
<1>1. <<>> \in Seq({}) /\ Len(<<>>) = 0 /\ 0 \in 0..0
  OBVIOUS
<1>2. KeepsOf(t, <<>>, Keeps(t, <<>>))
  BY <1>1, KeepsFound
<1>3. Keeps(t, <<>>)[0] = <<>>
  BY <1>1, <1>2 DEF KeepsOf
<1>. QED  BY <1>1, <1>3, KeptIsLast

\* One event more.
LEMMA KeptAppends ==
    ASSUME NEW S, NEW t, NEW events \in Seq(S), NEW e \in S
    PROVE  KeptOf(t, Append(events, e)) =
                IF Kept(t, e) THEN Append(KeptOf(t, events), e) ELSE KeptOf(t, events)
<1>. DEFINE N == Len(events)
            more == Append(events, e)
            keep == Keeps(t, events)
<1>1. N \in Nat /\ more \in Seq(S) /\ Len(more) = N + 1
  OBVIOUS
<1>2. Keeps(t, more) = Longer(t, events, keep, e)
  <2>1. KeepsOf(t, more, Longer(t, events, keep, e))
    BY KeepsFound, KeepsExtend
  <2>2. KeepsOf(t, more, Keeps(t, more))
    BY <1>1, KeepsFound
  <2>. HIDE DEF more, keep
  <2>. QED  BY <1>1, <2>1, <2>2, KeepsAreOne
<1>3. Longer(t, events, keep, e)[N + 1] = IF Kept(t, e) THEN Append(keep[N], e) ELSE keep[N]
  <2>. HIDE DEF keep
  <2>. QED  BY <1>1 DEF Longer
<1>. QED  BY <1>1, <1>2, <1>3, KeptIsLast

\* The edits of the history.
Changes == [seq : Nat, to : Versions]

\* The loop, on the edits.
LEMMA ChangesKept ==
    \A t : /\ KeptOf(t, <<>>) = <<>>
           /\ \A xs \in Seq(Changes), e \in Changes :
                 KeptOf(t, Append(xs, e)) = IF Kept(t, e) THEN Append(KeptOf(t, xs), e) ELSE KeptOf(t, xs)
  BY NothingKept, KeptAppends

\* What is kept of edits are edits.
LEMMA KeptTyped ==
    ASSUME NEW t, NEW xs \in Seq(Changes)
    PROVE  KeptOf(t, xs) \in Seq(Changes)
<1>. DEFINE T == {ys \in Seq(Changes) : KeptOf(t, ys) \in Seq(Changes)}
<1>1. <<>> \in T
  <2>1. KeptOf(t, <<>>) = <<>> /\ <<>> \in Seq(Changes)
    BY ChangesKept
  <2>. QED  BY <2>1
<1>2. ASSUME NEW ys \in T, NEW e \in Changes PROVE Append(ys, e) \in T
  <2>1. KeptOf(t, Append(ys, e)) = IF Kept(t, e) THEN Append(KeptOf(t, ys), e) ELSE KeptOf(t, ys)
    BY ChangesKept
  <2>2. Append(ys, e) \in Seq(Changes) /\ Append(KeptOf(t, ys), e) \in Seq(Changes)
    OBVIOUS
  <2>. QED  BY <2>1, <2>2
<1>3. T = Seq(Changes)
  <2>0. T \in SUBSET Seq(Changes)
    OBVIOUS
  <2>. HIDE DEF T
  <2>. QED  BY <1>1, <1>2, <2>0, AllSequences
<1>. QED  BY <1>3

\* An element of what is kept is one of all, and was to be kept.
LEMMA KeptAreOf ==
    ASSUME NEW t, NEW xs \in Seq(Changes)
    PROVE  \A n \in 1..Len(KeptOf(t, xs)) :
               Kept(t, KeptOf(t, xs)[n]) /\ \E m \in 1..Len(xs) : KeptOf(t, xs)[n] = xs[m]
<1>. DEFINE Fine(ys) == \A n \in 1..Len(KeptOf(t, ys)) :
                            Kept(t, KeptOf(t, ys)[n]) /\ \E m \in 1..Len(ys) : KeptOf(t, ys)[n] = ys[m]
            T == {ys \in Seq(Changes) : Fine(ys)}
<1>1. <<>> \in T
  <2>1. KeptOf(t, <<>>) = <<>> /\ Len(<<>>) = 0 /\ <<>> \in Seq(Changes)
    BY ChangesKept
  <2>. QED  BY <2>1
<1>2. ASSUME NEW ys \in Seq(Changes), Fine(ys), NEW e \in Changes PROVE Append(ys, e) \in T
  <2>. DEFINE more == Append(ys, e)
              kept == KeptOf(t, ys)
              all == Append(kept, e)
  <2>1. KeptOf(t, more) = IF Kept(t, e) THEN all ELSE kept
    BY ChangesKept
  <2>2. kept \in Seq(Changes)
    BY KeptTyped
  <2>3. /\ more \in Seq(Changes) /\ Len(more) = Len(ys) + 1 /\ more[Len(ys) + 1] = e /\ Len(ys) \in Nat
        /\ \A m \in 1..Len(ys) : more[m] = ys[m]
    OBVIOUS
  <2>. HIDE DEF more
  <2>4. ASSUME NEW n \in 1..Len(kept) PROVE Kept(t, kept[n]) /\ \E m \in 1..Len(more) : kept[n] = more[m]
    <3>1. PICK m \in 1..Len(ys) : kept[n] = ys[m]
      BY <1>2
    <3>2. m \in 1..Len(more) /\ more[m] = ys[m]
      BY <2>3
    <3>3. Kept(t, kept[n])
      BY <1>2
    <3>. HIDE DEF kept
    <3>. QED  BY <3>1, <3>2, <3>3
  <2>5. CASE ~Kept(t, e)
    <3>1. KeptOf(t, more) = kept
      BY <2>1, <2>5
    <3>. HIDE DEF kept
    <3>2. Fine(more)
      BY <2>4, <3>1
    <3>. QED  BY <2>3, <3>2 DEF more
  <2>6. CASE Kept(t, e)
    <3>1. KeptOf(t, more) = all
      BY <2>1, <2>6
    <3>. HIDE DEF kept
    <3>2. Len(all) = Len(kept) + 1 /\ all[Len(kept) + 1] = e /\ Len(kept) \in Nat
          /\ \A n \in 1..Len(kept) : all[n] = kept[n]
      BY <2>2
    <3>. HIDE DEF all
    <3>3. ASSUME NEW n \in 1..Len(all) PROVE Kept(t, all[n]) /\ \E m \in 1..Len(more) : all[n] = more[m]
      <4>1. CASE n \in 1..Len(kept)
        BY <2>4, <3>2, <4>1
      <4>2. CASE n = Len(kept) + 1
        <5>1. Len(ys) + 1 \in 1..Len(more)
          BY <2>3
        <5>. QED  BY <2>3, <2>6, <3>2, <4>2, <5>1
      <4>. QED  BY <3>2, <4>1, <4>2
    <3>4. Fine(more)
      BY <3>1, <3>3
    <3>. QED  BY <2>3, <3>4 DEF more
  <2>. QED  BY <2>5, <2>6
<1>3. T = Seq(Changes)
  <2>0. T \in SUBSET Seq(Changes)
    OBVIOUS
  <2>1. ASSUME NEW ys \in T, NEW e \in Changes PROVE Append(ys, e) \in T
    BY <1>2
  <2>. HIDE DEF T
  <2>. QED  BY <1>1, <2>0, <2>1, AllSequences
<1>. QED  BY <1>3

\* Two targets between which no edit is keep the same.
LEMMA SameAreKept ==
    ASSUME NEW s, NEW t, NEW xs \in Seq(Changes),
           \A n \in 1..Len(xs) : Kept(s, xs[n]) <=> Kept(t, xs[n])
    PROVE  KeptOf(s, xs) = KeptOf(t, xs)
<1>. DEFINE Alike(ys) == \A n \in 1..Len(ys) : Kept(s, ys[n]) <=> Kept(t, ys[n])
            T == {ys \in Seq(Changes) : Alike(ys) => KeptOf(s, ys) = KeptOf(t, ys)}
<1>1. <<>> \in T
  BY ChangesKept
<1>2. ASSUME NEW ys \in T, NEW e \in Changes PROVE Append(ys, e) \in T
  <2>. DEFINE more == Append(ys, e)
  <2>1. /\ more \in Seq(Changes) /\ Len(more) = Len(ys) + 1 /\ more[Len(ys) + 1] = e /\ Len(ys) \in Nat
        /\ \A m \in 1..Len(ys) : more[m] = ys[m]
    OBVIOUS
  <2>2. /\ KeptOf(s, more) = IF Kept(s, e) THEN Append(KeptOf(s, ys), e) ELSE KeptOf(s, ys)
        /\ KeptOf(t, more) = IF Kept(t, e) THEN Append(KeptOf(t, ys), e) ELSE KeptOf(t, ys)
    BY ChangesKept
  <2>. HIDE DEF more
  <2>3. ASSUME Alike(more) PROVE KeptOf(s, more) = KeptOf(t, more)
    <3>1. Alike(ys)
      <4>1. ASSUME NEW n \in 1..Len(ys) PROVE Kept(s, ys[n]) <=> Kept(t, ys[n])
        <5>1. n \in 1..Len(more) /\ more[n] = ys[n]
          BY <2>1
        <5>. QED  BY <2>3, <5>1
      <4>. QED  BY <4>1
    <3>2. Kept(s, e) <=> Kept(t, e)
      <4>1. Len(ys) + 1 \in 1..Len(more)
        BY <2>1
      <4>. QED  BY <2>1, <2>3, <4>1
    <3>. QED  BY <2>2, <3>1, <3>2
  <2>. QED  BY <2>1, <2>3 DEF more
<1>3. T = Seq(Changes)
  <2>0. T \in SUBSET Seq(Changes)
    OBVIOUS
  <2>. HIDE DEF T
  <2>. QED  BY <1>1, <1>2, <2>0, AllSequences
<1>. QED  BY <1>3

\* All are kept if none is to be dropped.
LEMMA AllAreKept ==
    ASSUME NEW t, NEW xs \in Seq(Changes), \A n \in 1..Len(xs) : Kept(t, xs[n])
    PROVE  KeptOf(t, xs) = xs
<1>1. Len(xs) \in 0..Len(xs) /\ \A n \in 1..Len(xs) : n <= Len(xs)
  OBVIOUS
<1>2. KeptOf(t, xs) = SubSeq(xs, 1, Len(xs))
  BY <1>1, KeptIsPrefix
<1>. QED  BY <1>2

\* Dropping down to s can be done in two steps.
LEMMA KeptTwice ==
    ASSUME NEW s \in Int, NEW t \in Int, s <= t, NEW xs \in Seq(Changes)
    PROVE  KeptOf(s, KeptOf(t, xs)) = KeptOf(s, xs)
<1>. DEFINE T == {ys \in Seq(Changes) : KeptOf(s, KeptOf(t, ys)) = KeptOf(s, ys)}
<1>1. <<>> \in T
  BY ChangesKept
<1>2. ASSUME NEW ys \in T, NEW e \in Changes PROVE Append(ys, e) \in T
  <2>. DEFINE more == Append(ys, e)
              some == KeptOf(t, ys)
  <2>1. more \in Seq(Changes) /\ some \in Seq(Changes)
    BY KeptTyped
  <2>2. /\ KeptOf(s, more) = IF Kept(s, e) THEN Append(KeptOf(s, ys), e) ELSE KeptOf(s, ys)
        /\ KeptOf(t, more) = IF Kept(t, e) THEN Append(some, e) ELSE some
        /\ KeptOf(s, Append(some, e)) = IF Kept(s, e) THEN Append(KeptOf(s, some), e) ELSE KeptOf(s, some)
    BY <2>1, ChangesKept
  <2>3. Kept(s, e) => Kept(t, e)
    <3>1. e.seq \in Nat
      BY DEF Changes
    <3>. QED  BY <3>1 DEF Kept
  <2>4. KeptOf(s, some) = KeptOf(s, ys)
    OBVIOUS
  <2>. HIDE DEF more, some
  <2>5. KeptOf(s, KeptOf(t, more)) = KeptOf(s, more)
    BY <2>2, <2>3, <2>4
  <2>. QED  BY <2>1, <2>5 DEF more
<1>3. T = Seq(Changes)
  <2>0. T \in SUBSET Seq(Changes)
    OBVIOUS
  <2>. HIDE DEF T
  <2>. QED  BY <1>1, <1>2, <2>0, AllSequences
<1>. QED  BY <1>3

-----------------------------------------------------------------------------
(* SessionStore: what the log tells of the workspace *)

\* One process at most edits under checkpoints.
OneEditor == \A p, q \in Processes : "checkpoint" \in Jobs[p] \intersect Jobs[q] => p = q

\* The content that the last of some edits wrote.
LastTo(xs) == IF xs = <<>> THEN 0 ELSE xs[Len(xs)].to

\* The content of the file before the edits after t.
Before(t) == LastTo(KeptOf(t, edits))

IsCheckpoint(e) == e.kind = "checkpoint"
Rewinding(p) == pc[p] = "truncate"
Captures(p) == job[p].kind = "checkpoint"

\* A checkpoint is taken by who may edit, and is covered by a sync only.
JobsTaken ==
    \A p \in Processes :
        /\ Captures(p) => "checkpoint" \in Jobs[p]
        /\ pc[p] = "edit" => Captures(p)
        /\ pc[p] = "check" => ~Captures(p)
        /\ job[p].covered => pc[p] \in {"count", "edit"}

\* A synced checkpoint has the number s.
Synced(s) == \E i \in 1..durable : IsCheckpoint(log[i]) /\ log[i].seq = s

\* No checkpoint that can be read comes after s.
NoneLater(s) == \A i \in 1..Len(log) : Clean(i) /\ IsCheckpoint(log[i]) => log[i].seq <= s

\* But for a rewind between its two writes, the file is what the last edit made it; and
\* then it is what the last edit did that the rewind will keep.
FileTold ==
    /\ (\A p \in Processes : ~Rewinding(p)) => file = LastTo(edits)
    /\ \A p \in Processes : Rewinding(p) => file = Before(job[p].target)

\* A snapshot has what the edits before it had made.
SnapshotsTold ==
    \A i \in 1..Len(log) :
        Clean(i) /\ IsCheckpoint(log[i]) /\ log[i].blob # Skipped => log[i].blob = Before(log[i].seq - 1)

\* Every edit has its checkpoint, synced.
EditsLogged == \A n \in 1..Len(edits) : Synced(edits[n].seq)

\* What is about to be written as a snapshot is still what the file is.
SnapshotFresh ==
    \A p \in Processes : pc[p] = "line" /\ Captures(p) => job[p].blob \in {file, Skipped}

\* A synced checkpoint whose edit is to come is the last one.
EditorIsLast ==
    \A p \in Processes : Captures(p) /\ job[p].covered => Synced(job[p].seq) /\ NoneLater(job[p].seq)

\* The log is to be trusted: no synced line of it is lost, and the workspace has not left it.
Trusted == ~loose /\ Clean(durable)

LogTells == FileTold /\ SnapshotsTold /\ EditsLogged /\ SnapshotFresh /\ EditorIsLast

RewindInv == edits \in Seq(Changes) /\ JobsTaken /\ (Trusted => LogTells)

\* JobsTaken is kept by every step.
LEMMA TakenKept ==
    ASSUME StoreInv, JobsTaken, SessionNext
    PROVE  JobsTaken'
<1>0. pc \in [Processes -> Points] /\ job \in [Processes -> Jots] /\ \A q \in Processes : JobFits(q)
  BY DEF StoreInv, LockTyped, StoreTyped
<1>. DEFINE Taken(point, j, q) ==
              /\ j.kind = "checkpoint" => "checkpoint" \in Jobs[q]
              /\ point = "edit" => j.kind = "checkpoint"
              /\ point = "check" => j.kind # "checkpoint"
              /\ j.covered => point \in {"count", "edit"}
<1>1. \A q \in Processes : Taken(pc[q], job[q], q)
  BY DEF JobsTaken, Captures
<1>2. SUFFICES \A q \in Processes : Taken(pc'[q], job'[q], q)
  BY DEF JobsTaken, Captures
<1>3. \A q \in Processes : Taken("idle", NoJob, q)
  BY DEF NoJob
<1>4. CASE PowerFailure
  BY <1>3, <1>4 DEF PowerFailure
<1>5. ASSUME NEW p \in Processes, SessionStep(p) PROVE \A q \in Processes : Taken(pc'[q], job'[q], q)
  <2>0. Taken(pc[p], job[p], p) /\ job[p] \in Jots /\ JobFits(p)
    BY <1>0, <1>1
  <2>1. ASSUME NEW point, NEW j, pc' = [pc EXCEPT ![p] = point], job' = [job EXCEPT ![p] = j], Taken(point, j, p)
        PROVE  \A q \in Processes : Taken(pc'[q], job'[q], q)
    <3>1. \A q \in Processes \ {p} : pc'[q] = pc[q] /\ job'[q] = job[q]
      BY <1>0, <2>1
    <3>2. pc'[p] = point /\ job'[p] = j
      BY <1>0, <2>1
    <3>. HIDE DEF Taken
    <3>. QED  BY <1>1, <2>1, <3>1, <3>2
  <2>2. ASSUME NEW point, pc' = [pc EXCEPT ![p] = point], job' = job, Taken(point, job[p], p)
        PROVE  \A q \in Processes : Taken(pc'[q], job'[q], q)
    <3>1. job' = [job EXCEPT ![p] = job[p]]
      BY <1>0, <2>2
    <3>. HIDE DEF Taken
    <3>. QED  BY <2>1, <2>2, <3>1
  <2>3. ASSUME NEW from \in Locked, Return(p, from)
        PROVE  \A q \in Processes : Taken(pc'[q], job'[q], q)
    <3>1. CASE Captures(p)
      <4>1. pc' = [pc EXCEPT ![p] = "edit"] /\ job' = job
        <5>1. job' = [job EXCEPT ![p] = job[p]] /\ pc' = [pc EXCEPT ![p] = "edit"]
          BY <2>3, <3>1 DEF Return, Goto, Captures
        <5>. QED  BY <1>0, <5>1
      <4>2. Taken("edit", job[p], p)
        BY <2>0, <3>1 DEF Captures
      <4>. HIDE DEF Taken
      <4>. QED  BY <2>2, <4>1, <4>2
    <3>2. CASE ~Captures(p)
      <4>1. pc' = [pc EXCEPT ![p] = "idle"] /\ job' = [job EXCEPT ![p] = NoJob]
        BY <2>3, <3>2 DEF Return, Goto, Captures
      <4>. HIDE DEF Taken
      <4>. QED  BY <1>3, <2>1, <4>1
    <3>. QED  BY <3>1, <3>2
  <2>4. CASE \E kind \in Kinds : Begin(p, kind)
    <3>1. PICK kind \in Kinds : Begin(p, kind)
      BY <2>4
    <3>. DEFINE j == [NoJob EXCEPT !.kind = kind]
    <3>2. kind \in Jobs[p] /\ pc' = [pc EXCEPT ![p] = "lock"] /\ job' = [job EXCEPT ![p] = j]
      BY <3>1 DEF Begin, Goto
    <3>3. Taken("lock", j, p)
      BY <3>2 DEF NoJob
    <3>. HIDE DEF Taken, j
    <3>. QED  BY <2>1, <3>2, <3>3
  <2>5. CASE BeginRewind(p)
    <3>1. PICK i \in 1..Len(log), excluded \in {0, 1} :
              job' = [job EXCEPT ![p] = [NoJob EXCEPT !.kind = "rewind", !.target = log[i].seq - excluded]]
      BY <2>5 DEF BeginRewind
    <3>. DEFINE j == [NoJob EXCEPT !.kind = "rewind", !.target = log[i].seq - excluded]
    <3>2. pc' = [pc EXCEPT ![p] = "lock"] /\ job' = [job EXCEPT ![p] = j]
      BY <2>5, <3>1 DEF BeginRewind, Goto
    <3>3. Taken("lock", j, p)
      BY DEF NoJob
    <3>. HIDE DEF Taken, j
    <3>. QED  BY <2>1, <3>2, <3>3
  <2>6. CASE Lock(p)
    <3>1. pc' = [pc EXCEPT ![p] = FirstStep(p)] /\ job' = job /\ pc[p] = "lock"
      BY <2>6 DEF Lock, Goto
    <3>2. Taken(FirstStep(p), job[p], p)
      BY <2>0, <3>1 DEF FirstStep
    <3>. HIDE DEF Taken
    <3>. QED  BY <2>2, <3>1, <3>2
  <2>7. CASE Absent(p) \/ Restore(p) \/ Recount(p) \/ Prune(p)
    <3>1. PICK point \in {"line", "truncate", "prune"} : pc' = [pc EXCEPT ![p] = point]
      BY <2>7 DEF Absent, Restore, Recount, Prune, Goto
    <3>2. job' = job /\ pc[p] \notin {"count", "edit"}
      BY <2>7 DEF Absent, Restore, Recount, Prune, Goto
    <3>3. Taken(point, job[p], p)
      BY <2>0, <3>1, <3>2
    <3>. HIDE DEF Taken
    <3>. QED  BY <2>2, <3>1, <3>2, <3>3
  <2>8. CASE WriteBlob(p)
    <3>1. pc' = [pc EXCEPT ![p] = "line"] /\ ~job[p].covered
      BY <2>0, <2>8 DEF WriteBlob, Goto
    <3>2. CASE job' = job
      <4>1. Taken("line", job[p], p)
        BY <2>0, <3>1
      <4>. HIDE DEF Taken
      <4>. QED  BY <2>2, <3>1, <3>2, <4>1
    <3>3. CASE job' = [job EXCEPT ![p].blob = file]
      <4>. DEFINE j == [job[p] EXCEPT !.blob = file]
      <4>1. job' = [job EXCEPT ![p] = j]
        BY <3>3
      <4>2. Taken("line", j, p)
        BY <2>0, <3>1 DEF Jots
      <4>. HIDE DEF Taken, j
      <4>. QED  BY <2>1, <3>1, <4>1, <4>2
    <3>. QED  BY <2>8, <3>2, <3>3 DEF WriteBlob
  <2>9. CASE WriteLine(p)
    <3>. DEFINE j == [job[p] EXCEPT !.seq = NextSeq]
    <3>1. pc' = [pc EXCEPT ![p] = "sync"] /\ ~job[p].covered /\ job' = [job EXCEPT ![p] = j]
      BY <2>0, <2>9 DEF WriteLine, Goto
    <3>2. Taken("sync", j, p)
      BY <2>0, <3>1 DEF Jots
    <3>. HIDE DEF Taken, j
    <3>. QED  BY <2>1, <3>1, <3>2
  <2>10. CASE Sync(p)
    <3>. DEFINE j == [job[p] EXCEPT !.covered = TRUE]
    <3>1. pc' = [pc EXCEPT ![p] = "count"] /\ job' = [job EXCEPT ![p] = j]
      BY <2>10 DEF Sync, Goto
    <3>2. Taken("count", j, p)
      BY <2>0 DEF Jots
    <3>. HIDE DEF Taken, j
    <3>. QED  BY <2>1, <3>1, <3>2
  <2>11. CASE Edit(p) \/ EditRefused(p) \/ Crash(p)
    <3>1. pc' = [pc EXCEPT ![p] = "idle"] /\ job' = [job EXCEPT ![p] = NoJob]
      BY <2>11 DEF Edit, EditRefused, Crash, Goto
    <3>. HIDE DEF Taken
    <3>. QED  BY <1>3, <2>1, <3>1
  <2>12. CASE Truncate(p)
    <3>1. pc' = [pc EXCEPT ![p] = "recount"] /\ pc[p] = "truncate"
      BY <2>12 DEF Truncate, Goto
    <3>2. \A q \in Processes : job'[q].kind = job[q].kind /\ (job'[q].covered => job[q].covered)
      BY <1>0, <2>12 DEF Truncate, Jots
    <3>3. Taken("recount", job'[p], p)
      BY <2>0, <3>1, <3>2
    <3>4. ASSUME NEW q \in Processes \ {p} PROVE Taken(pc'[q], job'[q], q)
      <4>1. pc'[q] = pc[q] /\ Taken(pc[q], job[q], q)
        BY <1>0, <1>1, <3>1
      <4>. QED  BY <3>2, <4>1
    <3>5. pc'[p] = "recount"
      BY <1>0, <3>1
    <3>. HIDE DEF Taken
    <3>. QED  BY <3>3, <3>4, <3>5
  <2>13. CASE Present(p) \/ WriteFails(p) \/ WriteCount(p) \/ AppendFails(p) \/ RestoreFails(p) \/ TruncateFails(p) \/ RecountFails(p)
    <3>1. \E from \in Locked : Return(p, from)
      BY <2>13 DEF Present, WriteFails, WriteCount, AppendFails, RestoreFails, TruncateFails, RecountFails, Locked
    <3>. QED  BY <2>3, <3>1
  <2>. QED  BY <1>5, <2>4, <2>5, <2>6, <2>7, <2>8, <2>9, <2>10, <2>11, <2>12, <2>13 DEF SessionStep
<1>. QED  BY <1>4, <1>5 DEF SessionNext

\* The steps that leave the log, the edits and the workspace alone.
QuietStep(p) ==
    \/ \E kind \in Kinds : Begin(p, kind)
    \/ BeginRewind(p) \/ Lock(p) \/ Absent(p) \/ Present(p) \/ WriteBlob(p) \/ WriteFails(p)
    \/ WriteCount(p) \/ AppendFails(p) \/ EditRefused(p) \/ RestoreFails(p) \/ TruncateFails(p)
    \/ Recount(p) \/ RecountFails(p) \/ Prune(p) \/ Crash(p)

\* What a quiet step may do to a job.
JobCalm(q) ==
    /\ (Rewinding(q))' => Rewinding(q) /\ job'[q] = job[q]
    /\ ~loose' => ~loose /\ (Rewinding(q) => (Rewinding(q))')
    /\ (Captures(q))' /\ job'[q].covered => Captures(q) /\ job[q].covered /\ job'[q].seq = job[q].seq
    /\ pc'[q] = "line" /\ (Captures(q))' => job'[q].blob \in {file, Skipped} \/ (pc[q] = "line" /\ job'[q] = job[q])

\* Each quiet step is one.
LEMMA QuietIsCalm ==
    ASSUME StoreInv, JobsTaken, NEW p \in Processes, QuietStep(p)
    PROVE  UNCHANGED <<log, durable, file, edits>> /\ \A q \in Processes : JobCalm(q)
<1>0. /\ pc \in [Processes -> Points] /\ job \in [Processes -> Jots] /\ job[p] \in Jots
      /\ JobFits(p) /\ loose \in BOOLEAN
  BY DEF StoreInv, LockTyped, StoreTyped
<1>1. UNCHANGED <<log, durable, file, edits>>
  BY DEF QuietStep, Begin, BeginRewind, Lock, Absent, Present, WriteBlob, WriteFails, WriteCount, AppendFails,
         EditRefused, RestoreFails, TruncateFails, Recount, RecountFails, Prune, Crash
<1>2. SUFFICES \A q \in Processes : JobCalm(q)
  BY <1>1
<1>3. ASSUME NEW q \in Processes, pc'[q] = pc[q], job'[q] = job[q], ~loose' => ~loose PROVE JobCalm(q)
  BY <1>3 DEF JobCalm, Rewinding, Captures
<1>4. ASSUME pc' = [pc EXCEPT ![p] = "idle"], job' = [job EXCEPT ![p] = NoJob], ~loose' => ~loose /\ ~Rewinding(p)
      PROVE  \A q \in Processes : JobCalm(q)
  <2>1. JobCalm(p)
    BY <1>0, <1>4 DEF JobCalm, Rewinding, Captures, NoJob
  <2>. QED  BY <1>0, <1>3, <1>4, <2>1
<1>5. ASSUME NEW from \in Locked, Return(p, from), ~loose' => ~loose /\ ~Rewinding(p)
      PROVE  \A q \in Processes : JobCalm(q)
  <2>1. CASE Captures(p)
    <3>1. pc' = [pc EXCEPT ![p] = "edit"] /\ job' = [job EXCEPT ![p] = job[p]]
      BY <1>5, <2>1 DEF Return, Goto, Captures
    <3>2. pc'[p] = "edit" /\ job'[p] = job[p]
      BY <1>0, <3>1
    <3>3. JobCalm(p)
      BY <1>5, <2>1, <3>2 DEF JobCalm, Rewinding, Captures
    <3>. QED  BY <1>0, <1>3, <1>5, <3>1, <3>3
  <2>2. CASE ~Captures(p)
    <3>1. pc' = [pc EXCEPT ![p] = "idle"] /\ job' = [job EXCEPT ![p] = NoJob]
      BY <1>5, <2>2 DEF Return, Goto, Captures
    <3>. QED  BY <1>4, <1>5, <3>1
  <2>. QED  BY <2>1, <2>2
<1>6. ASSUME NEW from, NEW to, Goto(p, from, to), from # "truncate", to \notin {"truncate", "line"},
             UNCHANGED <<job, loose>>
      PROVE  \A q \in Processes : JobCalm(q)
  <2>1. pc'[p] = to /\ pc[p] = from /\ job'[p] = job[p] /\ loose' = loose
    BY <1>0, <1>6 DEF Goto
  <2>2. JobCalm(p)
    BY <1>6, <2>1 DEF JobCalm, Rewinding, Captures
  <2>. QED  BY <1>0, <1>3, <1>6, <2>2 DEF Goto
<1>7. ASSUME Goto(p, "idle", "lock"), NEW j, job' = [job EXCEPT ![p] = j], ~j.covered, UNCHANGED loose
      PROVE  \A q \in Processes : JobCalm(q)
  <2>1. pc'[p] = "lock" /\ pc[p] = "idle" /\ job'[p] = j
    BY <1>0, <1>7 DEF Goto
  <2>2. JobCalm(p)
    BY <1>7, <2>1 DEF JobCalm, Rewinding, Captures
  <2>. QED  BY <1>0, <1>3, <1>7, <2>2 DEF Goto
<1>8. CASE \E kind \in Kinds : Begin(p, kind)
  <2>1. PICK kind \in Kinds : Begin(p, kind)
    BY <1>8
  <2>. DEFINE j == [NoJob EXCEPT !.kind = kind]
  <2>2. Goto(p, "idle", "lock") /\ job' = [job EXCEPT ![p] = j] /\ UNCHANGED loose
    BY <2>1 DEF Begin
  <2>3. ~j.covered
    BY DEF NoJob
  <2>. HIDE DEF j
  <2>. QED  BY <1>7, <2>2, <2>3
<1>9. CASE BeginRewind(p)
  <2>1. PICK i \in 1..Len(log), excluded \in {0, 1} :
            job' = [job EXCEPT ![p] = [NoJob EXCEPT !.kind = "rewind", !.target = log[i].seq - excluded]]
    BY <1>9 DEF BeginRewind
  <2>. DEFINE j == [NoJob EXCEPT !.kind = "rewind", !.target = log[i].seq - excluded]
  <2>2. Goto(p, "idle", "lock") /\ job' = [job EXCEPT ![p] = j] /\ UNCHANGED loose
    BY <1>9, <2>1 DEF BeginRewind
  <2>3. ~j.covered
    BY DEF NoJob
  <2>. HIDE DEF j
  <2>. QED  BY <1>7, <2>2, <2>3
<1>10. CASE Lock(p)
  <2>1. pc[p] = "lock" /\ pc'[p] = FirstStep(p) /\ job' = job /\ loose' = loose
        /\ \A q \in Processes \ {p} : pc'[q] = pc[q]
    BY <1>0, <1>10 DEF Lock, Goto
  <2>2. pc'[p] # "truncate" /\ (pc'[p] = "line" => ~Captures(p))
    BY <2>1 DEF FirstStep, Captures
  <2>3. JobCalm(p)
    BY <2>1, <2>2 DEF JobCalm, Rewinding, Captures
  <2>. QED  BY <1>3, <2>1, <2>3
<1>11. CASE Absent(p) \/ Prune(p)
  <2>1. pc[p] \in {"check", "prune"} /\ pc'[p] = "line" /\ job' = job /\ loose' = loose
        /\ \A q \in Processes \ {p} : pc'[q] = pc[q]
    BY <1>0, <1>11 DEF Absent, Prune, Goto
  <2>2. ~Captures(p)
    BY <1>0, <2>1 DEF JobsTaken, JobFits, Captures
  <2>3. JobCalm(p)
    BY <2>1, <2>2 DEF JobCalm, Rewinding, Captures
  <2>. QED  BY <1>3, <2>1, <2>3
<1>12. CASE WriteBlob(p)
  <2>1. pc[p] = "blob" /\ pc'[p] = "line" /\ loose' = loose /\ job[p].blob = Skipped /\ ~job[p].covered
        /\ \A q \in Processes \ {p} : pc'[q] = pc[q] /\ job'[q] = job[q]
    BY <1>0, <1>12 DEF WriteBlob, Goto, JobFits, JobsTaken
  <2>2. job'[p].blob \in {file, Skipped} /\ ~job'[p].covered
    <3>1. CASE job' = [job EXCEPT ![p].blob = file]
      BY <1>0, <2>1, <3>1 DEF Jots
    <3>2. CASE UNCHANGED job
      BY <2>1, <3>2
    <3>. QED  BY <1>12, <3>1, <3>2 DEF WriteBlob
  <2>3. JobCalm(p)
    BY <2>1, <2>2 DEF JobCalm, Rewinding
  <2>. QED  BY <1>3, <2>1, <2>3
<1>13. CASE Recount(p)
  <2>1. Goto(p, "recount", "prune") /\ UNCHANGED <<job, loose>>
    BY <1>13 DEF Recount
  <2>. QED  BY <1>6, <2>1
<1>14. CASE TruncateFails(p)
  <2>1. Return(p, "truncate") /\ loose'
    BY <1>14 DEF TruncateFails
  <2>. QED  BY <1>5, <2>1 DEF Locked
<1>15. CASE Present(p) \/ WriteFails(p) \/ WriteCount(p) \/ AppendFails(p) \/ RestoreFails(p) \/ RecountFails(p)
  <2>1. UNCHANGED loose /\ \E from \in Locked \ {"truncate"} : Return(p, from)
    BY <1>15 DEF Present, WriteFails, WriteCount, AppendFails, RestoreFails, RecountFails, Locked
  <2>2. ~Rewinding(p)
    BY <2>1 DEF Return, Goto, Rewinding
  <2>. QED  BY <1>5, <2>1, <2>2
<1>16. CASE EditRefused(p) \/ Crash(p)
  <2>1. pc' = [pc EXCEPT ![p] = "idle"] /\ job' = [job EXCEPT ![p] = NoJob]
    BY <1>16 DEF EditRefused, Crash, Goto
  <2>2. ~loose' => ~loose /\ ~Rewinding(p)
    BY <1>16 DEF EditRefused, Crash, Goto, Rewinding
  <2>. QED  BY <1>4, <2>1, <2>2
<1>. QED  BY <1>8, <1>9, <1>10, <1>11, <1>12, <1>13, <1>14, <1>15, <1>16 DEF QuietStep

\* Quiet steps change nothing of what the log tells.
LEMMA QuietTells ==
    ASSUME StoreInv, RewindInv, NEW p \in Processes, QuietStep(p), Trusted'
    PROVE  LogTells'
<1>0. UNCHANGED <<log, durable, file, edits>> /\ \A q \in Processes : JobCalm(q)
  BY QuietIsCalm DEF RewindInv
<1>1. ~loose' /\ (Clean(durable))' /\ Processes # {}
  BY DEF Trusted
<1>2. ~loose /\ \A q \in Processes : Rewinding(q) <=> (Rewinding(q))'
  BY <1>0, <1>1 DEF JobCalm
<1>3. (Clean(durable))' => Clean(durable)
  BY <1>0 DEF Clean, Unread
<1>4. LogTells
  BY <1>1, <1>2, <1>3 DEF RewindInv, Trusted
<1>5. \A i : (Clean(i))' <=> Clean(i)
  BY <1>0 DEF Clean, Unread
<1>6. \A s : /\ (Synced(s))' <=> Synced(s)
             /\ (NoneLater(s))' <=> NoneLater(s)
             /\ (Before(s))' = Before(s)
  BY <1>0, <1>5 DEF Synced, NoneLater, Before, IsCheckpoint
<1>7. FileTold'
  <2>1. (\A q \in Processes : ~(Rewinding(q))') => file' = LastTo(edits')
    BY <1>0, <1>2, <1>4 DEF LogTells, FileTold
  <2>2. ASSUME NEW q \in Processes, (Rewinding(q))' PROVE file' = (Before(job[q].target))'
    <3>1. job'[q] = job[q] /\ file = Before(job[q].target)
      BY <1>0, <1>2, <1>4, <2>2 DEF LogTells, FileTold, JobCalm
    <3>. QED  BY <1>0, <3>1 DEF Before
  <2>. QED  BY <2>1, <2>2 DEF FileTold, LastTo
<1>8. SnapshotsTold'
  BY <1>0, <1>4, <1>5 DEF LogTells, SnapshotsTold, Before, IsCheckpoint
<1>9. EditsLogged'
  BY <1>0, <1>4 DEF LogTells, EditsLogged, Synced, IsCheckpoint
<1>10. SnapshotFresh'
  <2>. SUFFICES ASSUME NEW q \in Processes, pc'[q] = "line", (Captures(q))' PROVE job'[q].blob \in {file', Skipped}
    BY DEF SnapshotFresh
  <2>1. CASE job'[q].blob \in {file, Skipped}
    BY <1>0, <2>1
  <2>2. CASE pc[q] = "line" /\ job'[q] = job[q]
    BY <1>0, <1>4, <2>2 DEF LogTells, SnapshotFresh, Captures
  <2>. QED  BY <1>0, <2>1, <2>2 DEF JobCalm
<1>11. EditorIsLast'
  <2>. SUFFICES ASSUME NEW q \in Processes, (Captures(q))', job'[q].covered
                PROVE  (Synced(job[q].seq))' /\ (NoneLater(job[q].seq))'
    BY DEF EditorIsLast
  <2>1. Captures(q) /\ job[q].covered /\ job'[q].seq = job[q].seq
    BY <1>0 DEF JobCalm
  <2>2. Synced(job[q].seq) /\ NoneLater(job[q].seq)
    BY <1>4, <2>1 DEF LogTells, EditorIsLast
  <2>3. PICK s : s = job[q].seq
    OBVIOUS
  <2>4. (Synced(s))' /\ (NoneLater(s))'
    BY <1>6, <2>2, <2>3
  <2>. QED  BY <2>1, <2>3, <2>4 DEF Synced, NoneLater
<1>. QED  BY <1>7, <1>8, <1>9, <1>10, <1>11 DEF LogTells

\* What appending does.
LEMMA Appended ==
    ASSUME NEW S, NEW xs \in Seq(S), NEW e \in S, NEW ys, ys = Append(xs, e)
    PROVE  /\ ys \in Seq(S) /\ Len(ys) = Len(xs) + 1 /\ ys[Len(xs) + 1] = e /\ Len(xs) \in Nat /\ ys # <<>>
           /\ \A n \in 1..Len(xs) : ys[n] = xs[n]
  OBVIOUS

\* Who holds the lock is the only one to write a line or to rewind.
LEMMA AloneInLock ==
    ASSUME StoreInv, NEW p \in Processes, pc[p] \in Locked, NEW q \in Processes \ {p}
    PROVE  pc[q] # "line" /\ ~Rewinding(q)
  BY DEF StoreInv, LockTyped, Locked, Rewinding

\* A snapshot taken before edits of greater number is none of them.
LEMMA BeforeNewer ==
    ASSUME NEW xs \in Seq(Changes), NEW e \in Changes, NEW s \in Int, s < e.seq
    PROVE  KeptOf(s, Append(xs, e)) = KeptOf(s, xs)
<1>1. ~Kept(s, e)
  <2>1. e.seq \in Nat
    BY DEF Changes
  <2>. QED  BY <2>1 DEF Kept
<1>. QED  BY <1>1, ChangesKept

\* An edit follows its checkpoint, the last one, so that the snapshots stay what they were.
LEMMA EditTells ==
    ASSUME StoreInv, RewindInv, OneEditor, NEW p \in Processes, Edit(p)
    PROVE  edits' \in Seq(Changes) /\ (Trusted' => LogTells')
<1>0. /\ pc \in [Processes -> Points] /\ job \in [Processes -> Jots] /\ job[p] \in Jots
      /\ log \in Seq(Lines) /\ durable \in 0..Len(log) /\ Len(log) \in Nat /\ edits \in Seq(Changes)
      /\ made \in Versions /\ loose \in BOOLEAN
  BY DEF StoreInv, LockTyped, StoreTyped, RewindInv
<1>. DEFINE new == [seq |-> job[p].seq, to |-> made']
<1>1. /\ pc[p] = "edit" /\ Captures(p) /\ UNCHANGED <<log, durable>>
      /\ edits' = Append(edits, new) /\ file' = made' /\ made' \in Versions
      /\ \A q \in Processes \ {p} : pc'[q] = pc[q] /\ job'[q] = job[q]
      /\ pc'[p] = "idle" /\ job'[p] = NoJob
  <2>1. pc[p] = "edit" /\ UNCHANGED <<log, durable>> /\ edits' = Append(edits, new) /\ file' = made'
    BY DEF Edit, Goto
  <2>2. Captures(p)
    BY <2>1 DEF RewindInv, JobsTaken
  <2>3. made' \in Versions
    BY StoreKept DEF SessionNext, SessionStep, StoreTyped
  <2>4. pc'[p] = "idle" /\ job'[p] = NoJob /\ \A q \in Processes \ {p} : pc'[q] = pc[q] /\ job'[q] = job[q]
    BY <1>0 DEF Edit, Goto
  <2>. QED  BY <2>1, <2>2, <2>3, <2>4
<1>2. new \in Changes /\ new.to = made' /\ new.seq = job[p].seq /\ job[p].seq \in Nat
  BY <1>0, <1>1 DEF Changes, Jots
<1>. HIDE DEF new
<1>3. edits' \in Seq(Changes) /\ Len(edits') = Len(edits) + 1 /\ edits'[Len(edits) + 1] = new /\ Len(edits) \in Nat
      /\ edits' # <<>> /\ \A n \in 1..Len(edits) : edits'[n] = edits[n]
  <2>1. edits' = Append(edits, new) /\ new \in Changes /\ edits \in Seq(Changes)
    BY <1>0, <1>1, <1>2
  <2>. QED  BY <2>1, Appended
<1>4. SUFFICES ASSUME Trusted' PROVE LogTells'
  BY <1>3
<1>5. ~loose /\ job[p].covered /\ \A q \in Processes : ~Rewinding(q)
  BY <1>4 DEF Trusted, Edit, Rewinding
<1>6. \A i : (Clean(i))' <=> Clean(i)
  BY <1>1 DEF Clean, Unread
<1>7. LogTells
  BY <1>1, <1>4, <1>5, <1>6 DEF RewindInv, Trusted, Clean, Unread
<1>8. Synced(new.seq) /\ NoneLater(new.seq)
  BY <1>1, <1>2, <1>5, <1>7 DEF LogTells, EditorIsLast
<1>9. FileTold'
  <2>1. LastTo(edits') = file'
    BY <1>1, <1>2, <1>3 DEF LastTo
  <2>2. \A q \in Processes : pc'[q] # "truncate"
    BY <1>1, <1>5 DEF Rewinding
  <2>. QED  BY <2>1, <2>2 DEF FileTold, Rewinding
<1>10. SnapshotsTold'
  <2>. SUFFICES ASSUME NEW i \in 1..Len(log), (Clean(i))', IsCheckpoint(log[i]), log[i].blob # Skipped
                PROVE  log[i].blob = LastTo(KeptOf(log[i].seq - 1, edits'))
    BY <1>1 DEF SnapshotsTold, IsCheckpoint, Before, LastTo
  <2>1. log[i].seq <= new.seq /\ log[i].seq \in Nat
    BY <1>0, <1>6, <1>8, LinesTyped DEF NoneLater
  <2>2. PICK s \in Int : s = log[i].seq - 1
    BY <2>1
  <2>3. KeptOf(s, edits') = KeptOf(s, edits)
    <3>1. s < new.seq
      BY <1>2, <2>1, <2>2
    <3>. QED  BY <1>0, <1>1, <1>2, <3>1, BeforeNewer
  <2>4. log[i].blob = LastTo(KeptOf(s, edits))
    BY <1>6, <1>7, <2>2 DEF LogTells, SnapshotsTold, Before
  <2>. QED  BY <2>2, <2>3, <2>4
<1>11. EditsLogged'
  <2>. SUFFICES ASSUME NEW n \in 1..Len(edits') PROVE (Synced(edits[n].seq))'
    BY DEF EditsLogged
  <2>1. PICK s : s = edits'[n].seq
    OBVIOUS
  <2>2. Synced(s)
    <3>1. CASE n \in 1..Len(edits)
      BY <1>3, <1>7, <2>1, <3>1 DEF LogTells, EditsLogged
    <3>2. CASE n = Len(edits) + 1
      BY <1>3, <1>8, <2>1, <3>2
    <3>. QED  BY <1>3, <3>1, <3>2
  <2>. QED  BY <1>1, <2>1, <2>2 DEF Synced, IsCheckpoint
<1>12. \A q \in Processes \ {p} : ~Captures(q)
  BY <1>1 DEF RewindInv, JobsTaken, OneEditor
<1>13. \A q \in Processes : ~(Captures(q))'
  BY <1>1, <1>12 DEF Captures, NoJob
<1>14. SnapshotFresh' /\ EditorIsLast'
  BY <1>13 DEF SnapshotFresh, EditorIsLast
<1>. QED  BY <1>9, <1>10, <1>11, <1>14 DEF LogTells

\* A power failure takes lines that no edit rests on.
LEMMA PowerFailureTells ==
    ASSUME StoreInv, RewindInv, PowerFailure, Trusted'
    PROVE  LogTells'
<1>0. StoreTyped /\ log \in Seq(Lines) /\ durable \in 0..Len(log) /\ Len(log) \in Nat /\ loose \in BOOLEAN
  BY DEF StoreInv, StoreTyped
<1>1. PICK k \in durable..Len(log) : log' = SubSeq(log, 1, k) /\ durable' = k
  BY DEF PowerFailure
<1>2. k \in 0..Len(log) /\ k \in Nat /\ durable <= k /\ durable \in Nat
  BY <1>0
<1>3. Len(log') = k /\ \A i \in 1..k : log'[i] = log[i]
  BY <1>0, <1>1, <1>2, CutIsPrefix
<1>4. \A i \in 0..k : (Clean(i))' <=> Clean(i)
  BY <1>2, <1>3 DEF Clean, Unread
<1>5. ~loose /\ Clean(k) /\ \A q \in Processes : ~Rewinding(q)
  <2>1. ~loose' /\ (Clean(durable))'
    BY DEF Trusted
  <2>2. ~loose /\ \A q \in Processes : ~Rewinding(q)
    BY <1>0, <2>1 DEF PowerFailure, Rewinding
  <2>3. (Clean(k))'
    BY <1>1, <2>1 DEF Clean, Unread
  <2>4. Clean(k)
    BY <1>2, <1>4, <2>3
  <2>. QED  BY <2>2, <2>4
<1>6. LogTells
  BY <1>2, <1>5 DEF RewindInv, Trusted, Clean
<1>7. UNCHANGED <<file, edits>> /\ \A q \in Processes : pc'[q] = "idle" /\ job'[q] = NoJob
  BY DEF PowerFailure
<1>8. FileTold'
  BY <1>5, <1>6, <1>7 DEF LogTells, FileTold, Rewinding, LastTo
<1>9. SnapshotsTold'
  <2>. SUFFICES ASSUME NEW i \in 1..k, (Clean(i))', IsCheckpoint(log'[i]), log'[i].blob # Skipped
                PROVE  log'[i].blob = LastTo(KeptOf(log'[i].seq - 1, edits'))
    BY <1>3 DEF SnapshotsTold, IsCheckpoint, Before, LastTo
  <2>1. i \in 1..Len(log) /\ i \in 0..k
    BY <1>2
  <2>. QED  BY <1>3, <1>4, <1>6, <1>7, <2>1 DEF LogTells, SnapshotsTold, Before
<1>10. EditsLogged'
  <2>. SUFFICES ASSUME NEW n \in 1..Len(edits) PROVE \E i \in 1..k : IsCheckpoint(log'[i]) /\ log'[i].seq = edits[n].seq
    BY <1>1, <1>7 DEF EditsLogged, Synced, IsCheckpoint
  <2>1. PICK i \in 1..durable : IsCheckpoint(log[i]) /\ log[i].seq = edits[n].seq
    BY <1>6 DEF LogTells, EditsLogged, Synced
  <2>2. i \in 1..k
    BY <1>2
  <2>. QED  BY <1>3, <2>1, <2>2
<1>11. SnapshotFresh' /\ EditorIsLast'
  BY <1>7 DEF SnapshotFresh, EditorIsLast, Captures, NoJob
<1>. QED  BY <1>8, <1>9, <1>10, <1>11 DEF LogTells

\* A truncation drops the edits with their checkpoints, and leaves the file as restored.
LEMMA TruncateTells ==
    ASSUME StoreInv, RewindInv, NEW p \in Processes, Truncate(p)
    PROVE  edits' \in Seq(Changes) /\ (Trusted' => LogTells' /\ file' = LastTo(edits'))
<1>0. /\ StoreTyped /\ log \in Seq(Lines) /\ durable \in 0..Len(log) /\ Len(log) \in Nat /\ edits \in Seq(Changes)
      /\ job \in [Processes -> Jots] /\ JobFits(p) /\ pc \in [Processes -> Points]
  BY DEF StoreInv, StoreTyped, RewindInv, LockTyped
<1>. DEFINE t == job[p].target
<1>1. PICK k \in 0..Len(log) : /\ log' = SubSeq(log, 1, k)
                               /\ \A i \in 1..Len(log) : Kept(t, log[i]) <=> i <= k
  BY TruncateCuts
<1>2. /\ pc[p] = "truncate" /\ pc'[p] = "recount" /\ Rewinding(p) /\ pc[p] \in Locked
      /\ durable' = Len(log') /\ edits' = KeptOf(t, edits) /\ UNCHANGED <<file, loose>>
      /\ \A q \in Processes \ {p} : pc'[q] = pc[q]
  BY <1>0 DEF Truncate, Goto, Locked, Rewinding
<1>3. \A q \in Processes : /\ job'[q].kind = job[q].kind /\ job'[q].seq = job[q].seq /\ job'[q].blob = job[q].blob
                           /\ job'[q].covered => job[q].covered /\ Kept(t, job[q])
  BY <1>0 DEF Truncate, Jots
<1>4. t \in Int
  BY <1>0 DEF Jots
<1>. HIDE DEF t
<1>5. edits' \in Seq(Changes)
  BY <1>0, <1>2, KeptTyped
<1>6. SUFFICES ASSUME Trusted' PROVE LogTells' /\ file' = LastTo(edits')
  BY <1>5
<1>7. Len(log') = k /\ k \in Nat /\ k <= Len(log) /\ \A i \in 1..k : log'[i] = log[i]
  BY <1>0, <1>1, CutIsPrefix
<1>8. \A i \in 1..k : i \in 1..Len(log) /\ Kept(t, log[i])
  BY <1>0, <1>1, <1>7
<1>9. ~loose /\ Clean(durable)
  <2>1. Readable
    BY <1>0, <1>2 DEF JobFits
  <2>. QED  BY <1>0, <1>2, <1>6, <2>1 DEF Trusted, Readable, Clean, Unread
<1>10. LogTells
  BY <1>9 DEF RewindInv, Trusted
<1>11. ASSUME NEW s, Synced(s), s <= t PROVE (Synced(s))'
  <2>1. PICK i \in 1..durable : IsCheckpoint(log[i]) /\ log[i].seq = s
    BY <1>11 DEF Synced
  <2>2. i \in 1..Len(log) /\ Kept(t, log[i])
    BY <1>0, <1>11, <2>1 DEF Kept
  <2>3. i \in 1..k
    BY <1>0, <1>1, <1>7, <2>2
  <2>. QED  BY <1>2, <1>7, <2>1, <2>3 DEF Synced, IsCheckpoint
<1>12. \A q \in Processes : pc'[q] # "line" /\ ~(Rewinding(q))'
  BY <1>2, AloneInLock DEF Rewinding
<1>13. file' = LastTo(edits')
  BY <1>2, <1>10 DEF LogTells, FileTold, Before, t
<1>14. FileTold'
  BY <1>12, <1>13 DEF FileTold, LastTo
<1>15. SnapshotsTold'
  <2>. SUFFICES ASSUME NEW i \in 1..k, (Clean(i))', IsCheckpoint(log'[i]), log'[i].blob # Skipped
                PROVE  log'[i].blob = LastTo(KeptOf(log'[i].seq - 1, edits'))
    BY <1>7 DEF SnapshotsTold, IsCheckpoint, Before, LastTo
  <2>1. Clean(i)
    BY <1>7 DEF Clean, Unread
  <2>2. log'[i] = log[i] /\ log[i].seq \in Nat /\ log[i].seq <= t
    BY <1>0, <1>7, <1>8, LinesTyped DEF Kept
  <2>3. PICK s \in Int : s = log[i].seq - 1 /\ s <= t
    BY <1>4, <2>2
  <2>4. log[i].blob = LastTo(KeptOf(s, edits))
    BY <1>8, <1>10, <2>1, <2>2, <2>3 DEF LogTells, SnapshotsTold, Before
  <2>5. KeptOf(s, edits') = KeptOf(s, edits)
    BY <1>0, <1>2, <1>4, <2>3, KeptTwice
  <2>. QED  BY <2>2, <2>3, <2>4, <2>5
<1>16. EditsLogged'
  <2>. SUFFICES ASSUME NEW n \in 1..Len(edits') PROVE (Synced(edits[n].seq))'
    BY DEF EditsLogged
  <2>1. PICK m \in 1..Len(edits) : edits'[n] = edits[m]
    BY <1>0, <1>2, KeptAreOf
  <2>2. Kept(t, edits'[n])
    BY <1>0, <1>2, KeptAreOf
  <2>3. PICK s : s = edits[m].seq
    OBVIOUS
  <2>4. Synced(s) /\ s <= t
    BY <1>10, <2>1, <2>2, <2>3 DEF LogTells, EditsLogged, Kept
  <2>5. (Synced(s))'
    BY <1>11, <2>4
  <2>. QED  BY <2>1, <2>3, <2>5 DEF Synced
<1>17. SnapshotFresh'
  BY <1>12 DEF SnapshotFresh
<1>18. EditorIsLast'
  <2>. SUFFICES ASSUME NEW q \in Processes, (Captures(q))', job'[q].covered
                PROVE  (Synced(job[q].seq))' /\ (NoneLater(job[q].seq))'
    BY DEF EditorIsLast
  <2>1. Captures(q) /\ job[q].covered /\ job'[q].seq = job[q].seq /\ Kept(t, job[q])
    BY <1>3 DEF Captures
  <2>2. PICK s : s = job[q].seq
    OBVIOUS
  <2>3. Synced(s) /\ NoneLater(s) /\ s <= t
    BY <1>10, <2>1, <2>2 DEF LogTells, EditorIsLast, Kept
  <2>4. (Synced(s))'
    BY <1>11, <2>3
  <2>5. ASSUME NEW i \in 1..k, (Clean(i))', IsCheckpoint(log'[i]) PROVE log'[i].seq <= s
    <3>1. Clean(i)
      BY <1>7, <2>5 DEF Clean, Unread
    <3>. QED  BY <1>7, <1>8, <2>3, <2>5, <3>1 DEF NoneLater
  <2>6. (NoneLater(s))'
    BY <1>7, <2>5 DEF NoneLater, IsCheckpoint
  <2>. QED  BY <2>1, <2>2, <2>4, <2>6 DEF Synced, NoneLater
<1>. QED  BY <1>13, <1>14, <1>15, <1>16, <1>17, <1>18 DEF LogTells


\* A new checkpoint is after all the edits, and has what they made of the file.
LEMMA WriteLineTells ==
    ASSUME StoreInv, RewindInv, OneEditor, NEW p \in Processes, WriteLine(p), Trusted'
    PROVE  LogTells'
<1>0. /\ pc \in [Processes -> Points] /\ job \in [Processes -> Jots] /\ job[p] \in Jots
      /\ log \in Seq(Lines) /\ durable \in 0..Len(log) /\ Len(log) \in Nat /\ edits \in Seq(Changes)
  BY DEF StoreInv, LockTyped, StoreTyped, RewindInv
<1>n. PICK N \in Nat : N = Len(log)
  BY <1>0
<1>1. PICK e \in Lines : /\ log' = Append(log, e)
                         /\ e = Corrupt \/ e = [seq |-> NextSeq, kind |-> job[p].kind, blob |-> job[p].blob]
  BY WrittenLine
<1>2. /\ log' \in Seq(Lines) /\ Len(log') = N + 1 /\ log'[N + 1] = e
      /\ \A i \in 1..N : log'[i] = log[i]
  <2>1. log' = Append(log, e) /\ log \in Seq(Lines)
    BY <1>0, <1>n, <1>1
  <2>. QED  BY <1>n, <2>1, Appended
<1>3. /\ UNCHANGED <<durable, file, edits, loose>>
      /\ pc[p] = "line" /\ pc'[p] = "sync" /\ pc[p] \in Locked
      /\ job'[p].kind = job[p].kind /\ job'[p].covered = job[p].covered
      /\ \A q \in Processes \ {p} : pc'[q] = pc[q] /\ job'[q] = job[q]
  <2>1. UNCHANGED <<durable, file, edits, loose>> /\ pc[p] = "line" /\ pc[p] \in Locked
    BY DEF WriteLine, Goto, Locked
  <2>2. pc'[p] = "sync" /\ \A q \in Processes \ {p} : pc'[q] = pc[q] /\ job'[q] = job[q]
    BY <1>0, <1>n DEF WriteLine, Goto
  <2>3. job'[p].kind = job[p].kind /\ job'[p].covered = job[p].covered
    BY <1>0, <1>n DEF WriteLine, Jots
  <2>. QED  BY <2>1, <2>2, <2>3
<1>4. ASSUME NEW i \in 0..N PROVE (Clean(i))' <=> Clean(i)
  <2>1. \A j \in 1..i : j \in 1..N
    BY <1>n
  <2>. QED  BY <1>2, <2>1 DEF Clean, Unread
<1>5. LogTells
  <2>1. (Clean(durable))' <=> Clean(durable)
    <3>1. PICK d \in 0..N : d = durable
      BY <1>0, <1>n
    <3>2. (Clean(d))' <=> Clean(d)
      BY <1>4
    <3>. QED  BY <1>3, <3>1, <3>2 DEF Clean
  <2>. QED  BY <1>3, <2>1 DEF Trusted, RewindInv
<1>6. \A q \in Processes : ~Rewinding(q) /\ ~(Rewinding(q))' /\ pc'[q] # "line"
  BY <1>3, AloneInLock DEF Rewinding
<1>7. file = LastTo(edits)
  BY <1>5, <1>6 DEF LogTells, FileTold
<1>8. ASSUME NEW s, Synced(s) PROVE (Synced(s))'
  <2>1. PICK i \in 1..durable : IsCheckpoint(log[i]) /\ log[i].seq = s
    BY <1>8 DEF Synced
  <2>2. i \in 1..N
    BY <1>0, <1>n
  <2>. QED  BY <1>2, <1>3, <2>1, <2>2 DEF Synced, IsCheckpoint
<1>9. FileTold'
  BY <1>3, <1>6, <1>7 DEF FileTold, LastTo
<1>10. EditsLogged'
  <2>. SUFFICES ASSUME NEW n \in 1..Len(edits') PROVE (Synced(edits[n].seq))'
    BY DEF EditsLogged
  <2>1. PICK s : s = edits[n].seq
    OBVIOUS
  <2>2. (Synced(s))'
    BY <1>3, <1>5, <1>8, <2>1 DEF LogTells, EditsLogged
  <2>. QED  BY <1>3, <2>1, <2>2 DEF Synced
<1>11. SnapshotFresh'
  BY <1>6 DEF SnapshotFresh
<1>12. ASSUME (Clean(N + 1))', IsCheckpoint(e)
       PROVE  /\ Captures(p) /\ e.blob \in {file, Skipped} /\ e.seq \in Nat
              /\ \A i \in 1..N : log[i].seq < e.seq
  <2>1. e.seq \in Nat /\ e # Corrupt
    BY <1>12, LinesTyped DEF IsCheckpoint
  <2>2. e.kind = job[p].kind /\ e.blob = job[p].blob
    BY <1>1, <2>1
  <2>3. Captures(p) /\ e.blob \in {file, Skipped}
    BY <1>3, <1>5, <1>12, <2>2 DEF Captures, IsCheckpoint, LogTells, SnapshotFresh
  <2>4. LogOrdered'
    BY OrderKept DEF SessionNext, SessionStep
  <2>5. PICK j : j = N + 1
    OBVIOUS
  <2>6. (Clean(j))' /\ j \in 1..Len(log')
    BY <1>2, <1>12, <2>5
  <2>7. \A i \in 1..(j - 1) : log'[i].seq < log'[j].seq
    BY <2>4, <2>6 DEF LogOrdered, Clean
  <2>8. ASSUME NEW i \in 1..N PROVE log[i].seq < e.seq
    <3>1. i \in 1..(j - 1) /\ log'[i] = log[i] /\ log'[j] = e
      BY <1>n, <1>2, <2>5
    <3>. QED  BY <2>7, <3>1
  <2>. QED  BY <2>1, <2>3, <2>8
<1>13. SnapshotsTold'
  <2>. SUFFICES ASSUME NEW i \in 1..(N + 1), (Clean(i))', IsCheckpoint(log'[i]), log'[i].blob # Skipped
                PROVE  log'[i].blob = LastTo(KeptOf(log'[i].seq - 1, edits))
    BY <1>2, <1>3 DEF SnapshotsTold, IsCheckpoint, Before, LastTo
  <2>1. CASE i \in 1..N
    <3>1. Clean(i) /\ log'[i] = log[i]
      <4>1. i \in 0..N
        BY <2>1
      <4>. QED  BY <1>2, <1>4, <2>1, <4>1
    <3>. QED  BY <1>n, <1>5, <2>1, <3>1 DEF LogTells, SnapshotsTold, Before
  <2>2. CASE i = N + 1
    <3>1. log'[i] = e
      BY <1>2, <2>2
    <3>2. (Clean(N + 1))' /\ IsCheckpoint(e)
      BY <2>2, <3>1 DEF Clean
    <3>3. e.blob = file /\ e.seq \in Nat /\ \A k \in 1..N : log[k].seq < e.seq
      BY <1>12, <3>1, <3>2
    <3>4. PICK s \in Int : s = e.seq - 1
      BY <3>3
    <3>5. ASSUME NEW n \in 1..Len(edits) PROVE Kept(s, edits[n])
      <4>1. PICK k \in 1..durable : log[k].seq = edits[n].seq
        BY <1>5 DEF LogTells, EditsLogged, Synced
      <4>2. k \in 1..N
        BY <1>0, <1>n
      <4>3. log[k].seq \in Nat /\ log[k].seq < e.seq
        BY <1>0, <1>n, <3>3, <4>2, LinesTyped
      <4>. QED  BY <3>3, <3>4, <4>1, <4>3 DEF Kept
    <3>6. KeptOf(s, edits) = edits
      BY <1>0, <1>n, <3>5, AllAreKept
    <3>. QED  BY <1>7, <3>1, <3>3, <3>4, <3>6
  <2>. QED  BY <1>0, <1>n, <2>1, <2>2
<1>14. EditorIsLast'
  <2>. SUFFICES ASSUME NEW q \in Processes, (Captures(q))', job'[q].covered
                PROVE  (Synced(job[q].seq))' /\ (NoneLater(job[q].seq))'
    BY DEF EditorIsLast
  <2>1. ~job[p].covered
    BY <1>3 DEF RewindInv, JobsTaken
  <2>2. q # p /\ job'[q] = job[q] /\ Captures(q) /\ job[q].covered
    BY <1>3, <2>1 DEF Captures
  <2>3. PICK s : s = job[q].seq
    OBVIOUS
  <2>4. Synced(s) /\ NoneLater(s)
    BY <1>5, <2>2, <2>3 DEF LogTells, EditorIsLast
  <2>5. ~Captures(p)
    BY <2>2 DEF RewindInv, JobsTaken, OneEditor
  <2>6. ASSUME NEW i \in 1..(N + 1), (Clean(i))', IsCheckpoint(log'[i]) PROVE log'[i].seq <= s
    <3>1. CASE i \in 1..N
      <4>1. Clean(i) /\ log'[i] = log[i]
        <5>1. i \in 0..N
          BY <3>1
        <5>. QED  BY <1>2, <1>4, <2>6, <3>1, <5>1
      <4>. QED  BY <1>n, <2>4, <2>6, <3>1, <4>1 DEF NoneLater
    <3>2. CASE i = N + 1
      <4>1. (Clean(N + 1))' /\ IsCheckpoint(e)
        BY <1>2, <2>6, <3>2 DEF Clean
      <4>. QED  BY <1>12, <2>5, <4>1
    <3>. QED  BY <1>0, <1>n, <3>1, <3>2
  <2>7. (NoneLater(s))'
    BY <1>2, <2>6 DEF NoneLater, IsCheckpoint
  <2>8. (Synced(s))'
    BY <1>8, <2>4
  <2>. QED  BY <2>2, <2>3, <2>7, <2>8 DEF Synced, NoneLater
<1>. QED  BY <1>9, <1>10, <1>11, <1>13, <1>14 DEF LogTells

\* Once synced, a new checkpoint is the last one.
LEMMA SyncTells ==
    ASSUME StoreInv, RewindInv, NEW p \in Processes, Sync(p), Trusted'
    PROVE  LogTells'
<1>0. /\ pc \in [Processes -> Points] /\ job \in [Processes -> Jots] /\ job[p] \in Jots /\ JobFits(p)
      /\ log \in Seq(Lines) /\ durable \in 0..Len(log) /\ Len(log) \in Nat /\ edits \in Seq(Changes)
      /\ LogOrdered
  BY DEF StoreInv, LockTyped, StoreTyped, RewindInv
<1>. DEFINE N == Len(log)
<1>1. /\ UNCHANGED <<log, file, edits, loose>> /\ durable' = N
      /\ pc[p] = "sync" /\ pc'[p] = "count" /\ pc[p] \in Locked
      /\ job'[p].kind = job[p].kind /\ job'[p].seq = job[p].seq
      /\ \A q \in Processes \ {p} : pc'[q] = pc[q] /\ job'[q] = job[q]
  <2>1. UNCHANGED <<log, file, edits, loose>> /\ durable' = N /\ pc[p] = "sync" /\ pc[p] \in Locked
    BY DEF Sync, Goto, Locked
  <2>2. pc'[p] = "count" /\ \A q \in Processes \ {p} : pc'[q] = pc[q] /\ job'[q] = job[q]
    BY <1>0 DEF Sync, Goto
  <2>3. job'[p].kind = job[p].kind /\ job'[p].seq = job[p].seq
    BY <1>0 DEF Sync, Jots
  <2>. QED  BY <2>1, <2>2, <2>3
<1>2. \A i : (Clean(i))' <=> Clean(i)
  BY <1>1 DEF Clean, Unread
<1>3. ~loose /\ Clean(N)
  <2>1. ~loose' /\ (Clean(durable))'
    BY DEF Trusted
  <2>2. PICK d : d = N
    OBVIOUS
  <2>3. (Clean(d))'
    BY <1>1, <2>1, <2>2 DEF Clean
  <2>. QED  BY <1>1, <1>2, <2>1, <2>2, <2>3
<1>4. LogTells
  BY <1>0, <1>3 DEF RewindInv, Trusted, Clean
<1>5. ASSUME NEW s, Synced(s) PROVE (Synced(s))'
  <2>1. PICK i \in 1..durable : IsCheckpoint(log[i]) /\ log[i].seq = s
    BY <1>5 DEF Synced
  <2>2. i \in 1..N
    BY <1>0
  <2>. QED  BY <1>1, <2>1, <2>2 DEF Synced, IsCheckpoint
<1>6. \A q \in Processes : ~Rewinding(q) /\ ~(Rewinding(q))' /\ pc'[q] # "line"
  BY <1>1, AloneInLock DEF Rewinding
<1>7. FileTold'
  BY <1>1, <1>4, <1>6 DEF LogTells, FileTold, LastTo
<1>8. SnapshotsTold'
  BY <1>1, <1>2, <1>4 DEF LogTells, SnapshotsTold, Before, IsCheckpoint
<1>9. EditsLogged'
  <2>. SUFFICES ASSUME NEW n \in 1..Len(edits') PROVE (Synced(edits[n].seq))'
    BY DEF EditsLogged
  <2>1. PICK s : s = edits[n].seq
    OBVIOUS
  <2>2. (Synced(s))'
    BY <1>1, <1>4, <1>5, <2>1 DEF LogTells, EditsLogged
  <2>. QED  BY <1>1, <2>1, <2>2 DEF Synced
<1>10. SnapshotFresh'
  BY <1>6 DEF SnapshotFresh
<1>11. ASSUME Captures(p), NEW s, s = job[p].seq PROVE (Synced(s))' /\ NoneLater(s)
  <2>1. log # <<>> /\ log[N] \in {EventOf(p), Corrupt}
    BY <1>0, <1>1 DEF JobFits, LastIs
  <2>2. N \in 1..N
    BY <1>0, <2>1
  <2>3. log[N] # Corrupt
    BY <1>3, <2>2, LinesTyped DEF Clean
  <2>4. log[N].kind = "checkpoint" /\ log[N].seq = s
    BY <1>11, <2>1, <2>3 DEF EventOf, Captures
  <2>5. (Synced(s))'
    BY <1>1, <2>2, <2>4 DEF Synced, IsCheckpoint
  <2>6. ASSUME NEW i \in 1..N PROVE log[i].seq <= s
    <3>1. log[i].seq \in Nat /\ log[N].seq \in Nat
      BY <1>0, <2>2, LinesTyped
    <3>2. CASE i = N
      BY <2>4, <3>1, <3>2
    <3>3. CASE i # N
      <4>1. i \in 1..(N - 1)
        BY <1>0, <3>3
      <4>2. log[i].seq < log[N].seq
        BY <1>0, <1>3, <2>2, <4>1 DEF LogOrdered
      <4>. QED  BY <2>4, <3>1, <4>2
    <3>. QED  BY <3>2, <3>3
  <2>. QED  BY <2>5, <2>6 DEF NoneLater
<1>12. EditorIsLast'
  <2>. SUFFICES ASSUME NEW q \in Processes, (Captures(q))', job'[q].covered
                PROVE  (Synced(job[q].seq))' /\ (NoneLater(job[q].seq))'
    BY DEF EditorIsLast
  <2>1. PICK s : s = job[q].seq
    OBVIOUS
  <2>2. job'[q].seq = s /\ Captures(q)
    BY <1>1, <2>1 DEF Captures
  <2>3. (Synced(s))' /\ NoneLater(s)
    <3>1. CASE q = p
      BY <1>11, <2>1, <2>2, <3>1
    <3>2. CASE q # p
      <4>1. Synced(s) /\ NoneLater(s)
        BY <1>1, <1>4, <2>1, <2>2, <3>2 DEF LogTells, EditorIsLast
      <4>. QED  BY <1>5, <4>1
    <3>. QED  BY <3>1, <3>2
  <2>4. (NoneLater(s))'
    BY <1>1, <1>2, <2>3 DEF NoneLater, IsCheckpoint
  <2>. QED  BY <2>2, <2>3, <2>4 DEF Synced, NoneLater
<1>. QED  BY <1>7, <1>8, <1>9, <1>10, <1>12 DEF LogTells


\* The oldest checkpoint after the target has what the rewind is to bring back, and without one
\* nothing was edited after it.
LEMMA RestoreTells ==
    ASSUME StoreInv, RewindInv, NEW p \in Processes, Restore(p), Trusted'
    PROVE  LogTells'
<1>0. /\ pc \in [Processes -> Points] /\ job \in [Processes -> Jots] /\ job[p] \in Jots
      /\ StoreTyped /\ LogOrdered
      /\ log \in Seq(Lines) /\ durable \in 0..Len(log) /\ Len(log) \in Nat /\ edits \in Seq(Changes)
  BY DEF StoreInv, LockTyped, StoreTyped, RewindInv
<1>1. PICK t \in Int : t = job[p].target
  BY <1>0 DEF Jots
<1>2. /\ UNCHANGED <<log, durable, edits, job>> /\ Readable
      /\ pc[p] = "restore" /\ pc'[p] = "truncate" /\ pc[p] \in Locked
      /\ \A q \in Processes \ {p} : pc'[q] = pc[q]
  <2>1. UNCHANGED <<log, durable, edits, job>> /\ Readable /\ pc[p] = "restore" /\ pc[p] \in Locked
    BY DEF Restore, Goto, Locked
  <2>2. pc'[p] = "truncate" /\ \A q \in Processes \ {p} : pc'[q] = pc[q]
    BY <1>0 DEF Restore, Goto
  <2>. QED  BY <2>1, <2>2
<1>3. ~loose /\ Snapshot(t) # Skipped /\ file' = Snapshot(t)
  <2>1. ~loose'
    BY DEF Trusted
  <2>. QED  BY <1>1, <2>1 DEF Restore
<1>4. \A i : (Clean(i))' <=> Clean(i)
  BY <1>2 DEF Clean, Unread
<1>5. LogTells
  BY <1>0, <1>2, <1>3 DEF RewindInv, Trusted, Readable, Clean, Unread
<1>6. \A q \in Processes \ {p} : ~Rewinding(q) /\ ~(Rewinding(q))' /\ pc'[q] # "line"
  BY <1>2, AloneInLock DEF Rewinding
<1>7. file = LastTo(edits)
  BY <1>2, <1>5, <1>6 DEF LogTells, FileTold, Rewinding
<1>8. /\ \A i \in 1..Len(log) : log[i].seq \in Nat
      /\ \A i, j \in 1..Len(log) : i < j => log[i].seq < log[j].seq
  BY <1>0, <1>2, ReadableIsOrdered
<1>9. ASSUME NEW n \in 1..Len(edits)
      PROVE  \E i \in 1..Len(log) : IsCheckpoint(log[i]) /\ log[i].seq = edits[n].seq
  <2>1. PICK i \in 1..durable : IsCheckpoint(log[i]) /\ log[i].seq = edits[n].seq
    BY <1>5 DEF LogTells, EditsLogged, Synced
  <2>. QED  BY <1>0, <2>1
<1>. DEFINE after == CheckpointsAfter(t)
<1>10. \A i : i \in after <=> i \in 1..Len(log) /\ IsCheckpoint(log[i]) /\ log[i].seq > t
  BY DEF CheckpointsAfter, IsCheckpoint
<1>11. Snapshot(t) = LastTo(KeptOf(t, edits))
  <2>1. CASE after = {}
    <3>1. ASSUME NEW n \in 1..Len(edits) PROVE Kept(t, edits[n])
      <4>1. PICK i \in 1..Len(log) : IsCheckpoint(log[i]) /\ log[i].seq = edits[n].seq
        BY <1>9
      <4>2. ~(log[i].seq > t)
        BY <1>10, <2>1, <4>1
      <4>3. log[i].seq \in Nat
        BY <1>8
      <4>. QED  BY <1>1, <4>1, <4>2, <4>3 DEF Kept
    <3>2. KeptOf(t, edits) = edits
      BY <1>0, <3>1, AllAreKept
    <3>. QED  BY <1>7, <2>1, <3>2 DEF Snapshot
  <2>2. CASE after # {}
    <3>1. PICK i : i = Oldest(after)
      OBVIOUS
    <3>2. i \in after /\ \A j \in after : i <= j
      <4>1. after \subseteq Nat
        BY <1>10
      <4>2. \E m \in after : \A j \in after : m <= j
        BY <2>2, <4>1, LeastNatural
      <4>. QED  BY <3>1, <4>2 DEF Oldest
    <3>3. i \in 1..Len(log) /\ IsCheckpoint(log[i]) /\ log[i].seq > t /\ log[i].seq \in Nat
      BY <1>8, <1>10, <3>2
    <3>4. Snapshot(t) = log[i].blob
      BY <1>3, <2>2, <3>1 DEF Snapshot
    <3>5. Clean(i)
      BY <1>0, <1>2, <3>3 DEF Readable, Clean, Unread
    <3>6. PICK s \in Int : s = log[i].seq - 1
      BY <3>3
    <3>7. log[i].blob = LastTo(KeptOf(s, edits))
      BY <1>3, <1>5, <3>3, <3>4, <3>5, <3>6 DEF LogTells, SnapshotsTold, Before
    <3>8. ASSUME NEW n \in 1..Len(edits) PROVE Kept(s, edits[n]) <=> Kept(t, edits[n])
      <4>1. PICK m \in 1..Len(log) : IsCheckpoint(log[m]) /\ log[m].seq = edits[n].seq
        BY <1>9
      <4>2. log[m].seq \in Nat
        BY <1>8
      <4>3. CASE log[m].seq > t
        <5>1. i <= m
          BY <1>10, <3>2, <4>1, <4>3
        <5>2. ~(log[m].seq < log[i].seq)
          <6>1. CASE i = m
            BY <4>2, <6>1
          <6>2. CASE i < m
            <7>1. log[i].seq < log[m].seq
              BY <1>8, <3>3, <6>2
            <7>. QED  BY <3>3, <4>2, <7>1
          <6>. QED  BY <3>3, <5>1, <6>1, <6>2
        <5>. QED  BY <1>1, <3>3, <3>6, <4>1, <4>2, <4>3, <5>2 DEF Kept
      <4>4. CASE ~(log[m].seq > t)
        BY <1>1, <3>3, <3>6, <4>1, <4>2, <4>4 DEF Kept
      <4>. QED  BY <4>3, <4>4
    <3>9. KeptOf(s, edits) = KeptOf(t, edits)
      BY <1>0, <3>8, SameAreKept
    <3>. QED  BY <3>4, <3>7, <3>9
  <2>. QED  BY <2>1, <2>2
<1>12. FileTold'
  <2>1. (Rewinding(p))'
    BY <1>2 DEF Rewinding
  <2>2. ASSUME NEW q \in Processes, (Rewinding(q))' PROVE file' = (Before(job[q].target))'
    <3>1. job'[q].target = t
      BY <1>1, <1>2, <1>6, <2>2
    <3>. QED  BY <1>2, <1>3, <1>11, <3>1 DEF Before, LastTo
  <2>. QED  BY <2>1, <2>2 DEF FileTold
<1>13. SnapshotsTold'
  BY <1>2, <1>4, <1>5 DEF LogTells, SnapshotsTold, Before, IsCheckpoint
<1>14. EditsLogged'
  BY <1>2, <1>5 DEF LogTells, EditsLogged, Synced, IsCheckpoint
<1>15. SnapshotFresh'
  BY <1>2, <1>6 DEF SnapshotFresh
<1>16. EditorIsLast'
  BY <1>2, <1>4, <1>5 DEF LogTells, EditorIsLast, Synced, NoneLater, IsCheckpoint, Captures
<1>. QED  BY <1>12, <1>13, <1>14, <1>15, <1>16 DEF LogTells

\* The invariant holds at first.
LEMMA RewindStarts == SessionInit => RewindInv
<1>. SUFFICES ASSUME SessionInit PROVE RewindInv
  OBVIOUS
<1>1. /\ log = <<>> /\ edits = <<>> /\ file = 0 /\ Len(log) = 0 /\ Len(edits) = 0
      /\ \A p \in Processes : pc[p] = "idle" /\ job[p] = NoJob
  BY DEF SessionInit
<1>2. edits \in Seq(Changes)
  BY <1>1
<1>3. JobsTaken
  BY <1>1 DEF JobsTaken, Captures, NoJob
<1>4. FileTold
  BY <1>1 DEF FileTold, Rewinding, LastTo
<1>5. SnapshotsTold /\ EditsLogged
  <2>1. \A i \in 1..0 : FALSE
    OBVIOUS
  <2>. QED  BY <1>1, <2>1 DEF SnapshotsTold, EditsLogged
<1>6. SnapshotFresh /\ EditorIsLast
  BY <1>1 DEF SnapshotFresh, EditorIsLast, Captures, NoJob
<1>. QED  BY <1>2, <1>3, <1>4, <1>5, <1>6 DEF RewindInv, LogTells

\* And while nothing happens.
LEMMA RewindStays == RewindInv /\ UNCHANGED sessionVars => RewindInv'
<1>. SUFFICES ASSUME RewindInv, UNCHANGED sessionVars PROVE RewindInv'
  OBVIOUS
<1>1. UNCHANGED <<log, durable, file, pc, job, edits, loose>>
  BY DEF sessionVars
<1>2. edits' \in Seq(Changes) /\ JobsTaken' /\ (Trusted' => Trusted)
  BY <1>1 DEF RewindInv, JobsTaken, Captures, Trusted, Clean, Unread
<1>3. ASSUME LogTells PROVE LogTells'
  <2>1. FileTold'
    BY <1>1, <1>3 DEF LogTells, FileTold, Rewinding, Before, LastTo
  <2>2. SnapshotsTold' /\ EditsLogged'
    BY <1>1, <1>3 DEF LogTells, SnapshotsTold, EditsLogged, Clean, Unread, Synced, Before, IsCheckpoint
  <2>3. SnapshotFresh' /\ EditorIsLast'
    BY <1>1, <1>3 DEF LogTells, SnapshotFresh, EditorIsLast, Synced, NoneLater, Clean, Unread, Captures, IsCheckpoint
  <2>. QED  BY <2>1, <2>2, <2>3 DEF LogTells
<1>. QED  BY <1>2, <1>3 DEF RewindInv

\* As long as the workspace has not left what the log tells and no synced line is lost, the file
\* is what the last edit made it, each snapshot has what the edits before it had made, and every
\* edit has its synced checkpoint, through crashes and power failures.
THEOREM RewindInvariant == OneEditor => (SessionSpec => []RewindInv)
<1>. SUFFICES ASSUME OneEditor PROVE SessionSpec => []RewindInv
  OBVIOUS
<1>1. SessionInit => RewindInv
  BY RewindStarts
<1>2. StoreInv /\ RewindInv /\ [SessionNext]_sessionVars => RewindInv'
  <2>. SUFFICES ASSUME StoreInv, RewindInv, SessionNext PROVE RewindInv'
    BY RewindStays
  <2>1. JobsTaken'
    BY TakenKept DEF RewindInv
  <2>2. edits' \in Seq(Changes) /\ (Trusted' => LogTells')
    <3>0. edits \in Seq(Changes)
      BY DEF RewindInv
    <3>1. CASE PowerFailure
      BY <3>0, <3>1, PowerFailureTells DEF PowerFailure
    <3>2. ASSUME NEW p \in Processes, SessionStep(p) PROVE edits' \in Seq(Changes) /\ (Trusted' => LogTells')
      <4>1. CASE QuietStep(p)
        BY <3>0, <4>1, QuietTells, QuietIsCalm DEF RewindInv
      <4>2. CASE Edit(p)
        BY <4>2, EditTells
      <4>3. CASE Truncate(p)
        BY <4>3, TruncateTells
      <4>4. CASE WriteLine(p)
        BY <3>0, <4>4, WriteLineTells DEF WriteLine
      <4>5. CASE Sync(p)
        BY <3>0, <4>5, SyncTells DEF Sync
      <4>6. CASE Restore(p)
        BY <3>0, <4>6, RestoreTells DEF Restore
      <4>. QED  BY <3>2, <4>1, <4>2, <4>3, <4>4, <4>5, <4>6 DEF SessionStep, QuietStep
    <3>. QED  BY <3>1, <3>2 DEF SessionNext
  <2>. QED  BY <2>1, <2>2 DEF RewindInv
<1>. QED  BY <1>1, <1>2, StoreInvariant, PTL DEF SessionSpec

\* Of the steps that take a process from "truncate", the one to "recount" truncates.
LEMMA OnlyTruncateRecounts ==
    ASSUME StoreInv, SessionNext, NEW p \in Processes, pc[p] = "truncate", pc'[p] = "recount"
    PROVE  Truncate(p)
<1>0. pc \in [Processes -> Points]
  BY DEF StoreInv, LockTyped
<1>1. PICK q \in Processes : SessionStep(q)
  BY DEF SessionNext, PowerFailure
<1>2. q = p
  BY <1>1, OneProcessSteps DEF StoreInv
<1>3. ~(\E kind \in Kinds : Begin(p, kind)) /\ ~BeginRewind(p) /\ ~Lock(p) /\ ~Absent(p) /\ ~WriteBlob(p)
      /\ ~WriteLine(p) /\ ~Sync(p) /\ ~Edit(p) /\ ~EditRefused(p) /\ ~Restore(p) /\ ~Recount(p) /\ ~Prune(p)
  BY DEF Begin, BeginRewind, Lock, Absent, WriteBlob, WriteLine, Sync, Edit, EditRefused, Restore, Recount,
         Prune, Goto
<1>4. ~Crash(p)
  BY <1>0 DEF Crash
<1>5. \A from : ~Return(p, from)
  BY <1>0 DEF Return, Goto
<1>6. ~Present(p) /\ ~WriteFails(p) /\ ~WriteCount(p) /\ ~AppendFails(p) /\ ~RestoreFails(p) /\ ~TruncateFails(p)
      /\ ~RecountFails(p)
  BY <1>5 DEF Present, WriteFails, WriteCount, AppendFails, RestoreFails, TruncateFails, RecountFails
<1>. QED  BY <1>1, <1>2, <1>3, <1>4, <1>6 DEF SessionStep

\* A rewind that has truncated the log has brought back what the last edit before its target wrote
\* (RewindRestores), if one process edits, for any number of others that append and rewind, any
\* number of edits, and whatever crashed before.
THEOREM RewindsRestore == OneEditor => (SessionSpec => RewindRestores)
<1>. SUFFICES ASSUME OneEditor PROVE SessionSpec => RewindRestores
  OBVIOUS
<1>. DEFINE Restores == \A p \in Processes : pc[p] = "truncate" /\ pc'[p] = "recount" /\ ~loose =>
                            file = IF edits' = <<>> THEN 0 ELSE edits'[Len(edits')].to
<1>1. StoreInv /\ RewindInv /\ [SessionNext]_sessionVars => [Restores]_sessionVars
  <2>. SUFFICES ASSUME StoreInv, RewindInv, SessionNext PROVE Restores
    OBVIOUS
  <2>. SUFFICES ASSUME NEW p \in Processes, pc[p] = "truncate", pc'[p] = "recount", ~loose
                PROVE  file = LastTo(edits')
    BY DEF LastTo
  <2>1. Truncate(p)
    BY OnlyTruncateRecounts
  <2>2. Trusted'
    <3>1. Readable /\ StoreTyped
      BY DEF StoreInv, JobFits
    <3>2. PICK k \in 0..Len(log) : log' = SubSeq(log, 1, k)
      BY <2>1, TruncateCuts
    <3>3. Len(log') = k /\ k \in Nat /\ k <= Len(log) /\ Len(log) \in Nat /\ \A i \in 1..k : log'[i] = log[i]
      BY <3>1, <3>2, CutIsPrefix
    <3>4. durable' = k /\ ~loose'
      BY <2>1, <3>3 DEF Truncate
    <3>5. \A i \in 1..k : i \in 1..Len(log) /\ ~Unread(log'[i])
      BY <3>1, <3>3 DEF Readable, Unread
    <3>. QED  BY <3>4, <3>5 DEF Trusted, Clean, Unread
  <2>3. file' = LastTo(edits') /\ file' = file
    BY <2>1, <2>2, TruncateTells DEF Truncate
  <2>. QED  BY <2>3
<1>2. SessionSpec => []RewindInv
  BY RewindInvariant
<1>. QED  BY <1>1, <1>2, StoreInvariant, PTL DEF SessionSpec, RewindRestores
=============================================================================
