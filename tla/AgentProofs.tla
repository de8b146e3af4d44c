----------------------------- MODULE AgentProofs -----------------------------
(***************************************************************************)
(* Proofs about the agent loop (AgentLoop), for any bounds: the history    *)
(* sent and returned is one a strict provider accepts, the user sees the   *)
(* prose of a turn once, and the completion gate holds.  And about the     *)
(* tasks an agent leaves in the background (BackgroundTask).               *)
(***************************************************************************)
EXTENDS AgentLoop, BackgroundTask, SequenceTheorems, WellFoundedInduction, TLAPS

LEMMA BoundsTyped ==
    /\ MaxTurns \in Nat \ {0} /\ MaxCalls \in Nat /\ MaxNotes \in Nat /\ PreserveLast \in Nat \ {0}
    /\ MaxStallRetries \in Nat /\ MaxEmptyTurns \in Nat \ {0} /\ MaxNudges \in Nat
    /\ HintAt \in Nat \ {0} /\ StopAt \in Nat /\ HintAt < StopAt
  BY AgentAssumption DEF AgentAssumption

-----------------------------------------------------------------------------
(* Histories *)

LEMMA LeastNatural ==
    ASSUME NEW T \in SUBSET Nat, T # {}
    PROVE  \E n \in T : \A m \in T : n <= m
<1>1. PICK n \in T : \A m \in T : ~(<<m, n>> \in OpToRel(<, Nat))
  BY NatLessThanWellFounded, WFMin
<1>2. ASSUME NEW m \in T PROVE <<m, n>> \in OpToRel(<, Nat) <=> m < n
  BY DEF OpToRel
<1>3. ASSUME NEW m \in T PROVE n <= m
  <2>1. m \in Nat /\ n \in Nat /\ ~(m < n)
    BY <1>1, <1>2
  <2>. QED  BY <2>1
<1>. QED  BY <1>3

LEMMA MaxOfBounded ==
    ASSUME NEW S \in SUBSET Nat, S # {}, NEW b \in Nat, \A x \in S : x <= b
    PROVE  Max(S) \in S /\ \A x \in S : x <= Max(S)
<1>. DEFINE T == {b - x : x \in S}
<1>1. T \in SUBSET Nat /\ T # {}
  <2>1. \A x \in S : b - x \in Nat
    OBVIOUS
  <2>. QED  BY <2>1
<1>2. PICK n \in T : \A m \in T : n <= m
  BY <1>1, LeastNatural
<1>3. PICK x \in S : n = b - x
  BY <1>2
<1>4. ASSUME NEW y \in S PROVE x >= y
  <2>1. b - y \in T
    OBVIOUS
  <2>. QED  BY <1>2, <1>3, <2>1
<1>5. \E z \in S : \A y \in S : z >= y
  BY <1>4
<1>. QED  BY <1>5 DEF Max

IsReply(m) == m.role = "assistant"
IsResult(m) == m.role = "tool"

LEMMA MessageShapes ==
    /\ ~IsReply(System) /\ ~IsResult(System) /\ ~IsReply(User) /\ ~IsResult(User)
    /\ ~IsReply(Summary) /\ ~IsResult(Summary) /\ Summary # User /\ Summary # System
    /\ \A t, n : /\ IsReply(Reply(t, n)) /\ ~IsResult(Reply(t, n)) /\ Reply(t, n) # Summary
                 /\ Reply(t, n).id = t /\ Reply(t, n).n = n
                 /\ IsResult(ToolResult(t, n)) /\ ~IsReply(ToolResult(t, n)) /\ ToolResult(t, n) # Summary
                 /\ ToolResult(t, n).id = t /\ ToolResult(t, n).n = n
  BY DEF System, User, Summary, Reply, ToolResult, IsReply, IsResult

LEMMA MessagesTyped ==
    /\ System \in Message /\ User \in Message /\ Summary \in Message
    /\ \A m \in Message : m.n \in Nat
    /\ \A t \in 0..(MaxTurns + 1), n \in 0..MaxCalls : Reply(t, n) \in Message
    /\ \A t \in 0..MaxTurns, i \in 1..MaxCalls : ToolResult(t, i) \in Message
  BY BoundsTyped DEF Message, System, User, Summary, Reply, ToolResult

RepliesAnswered(ms) ==
    \A k \in 1..Len(ms) : IsReply(ms[k]) =>
        /\ k + ms[k].n <= Len(ms)
        /\ \A i \in 1..ms[k].n : ms[k + i] = ToolResult(ms[k].id, i)

ResultsCalled(ms) ==
    \A k \in 1..Len(ms) : IsResult(ms[k]) =>
        /\ k > ms[k].n
        /\ IsReply(ms[k - ms[k].n]) /\ ms[k - ms[k].n].id = ms[k].id /\ ms[k].n <= ms[k - ms[k].n].n

LEMMA AnsweredMeans ==
    ASSUME NEW ms \in Seq(Message)
    PROVE  Answered(ms) <=> RepliesAnswered(ms) /\ ResultsCalled(ms)
<1>1. DOMAIN ms = 1..Len(ms)
  OBVIOUS
<1>. QED  BY <1>1 DEF Answered, RepliesAnswered, ResultsCalled, IsReply, IsResult

\* One answered history after another is answered.
LEMMA AnsweredConcat ==
    ASSUME NEW ms \in Seq(Message), NEW more \in Seq(Message), Answered(ms), Answered(more)
    PROVE  ms \o more \in Seq(Message) /\ Answered(ms \o more)
<1>. DEFINE all == ms \o more
<1>1. /\ all \in Seq(Message) /\ Len(all) = Len(ms) + Len(more)
      /\ \A k \in 1..Len(ms) : all[k] = ms[k]
      /\ \A k \in 1..Len(more) : all[Len(ms) + k] = more[k]
  OBVIOUS
<1>2. /\ Len(ms) \in Nat /\ Len(more) \in Nat
      /\ \A k \in 1..Len(ms) : ms[k].n \in Nat
      /\ \A k \in 1..Len(more) : more[k].n \in Nat
  BY MessagesTyped
<1>3. RepliesAnswered(ms) /\ ResultsCalled(ms) /\ RepliesAnswered(more) /\ ResultsCalled(more)
  BY AnsweredMeans
<1>. HIDE DEF all
<1>4. ASSUME NEW k \in 1..Len(all), k > Len(ms)
      PROVE  k - Len(ms) \in 1..Len(more) /\ all[k] = more[k - Len(ms)]
  <2>1. k - Len(ms) \in 1..Len(more) /\ k = Len(ms) + (k - Len(ms))
    BY <1>1, <1>2, <1>4
  <2>. QED  BY <1>1, <2>1
<1>5. RepliesAnswered(all)
  <2>. SUFFICES ASSUME NEW k \in 1..Len(all), IsReply(all[k])
                PROVE  /\ k + all[k].n <= Len(all)
                       /\ \A i \in 1..all[k].n : all[k + i] = ToolResult(all[k].id, i)
    BY DEF RepliesAnswered
  <2>1. CASE k <= Len(ms)
    <3>1. k \in 1..Len(ms) /\ all[k] = ms[k]
      BY <1>1, <1>2, <2>1
    <3>2. k + ms[k].n <= Len(ms) /\ \A i \in 1..ms[k].n : ms[k + i] = ToolResult(ms[k].id, i)
      BY <1>3, <3>1 DEF RepliesAnswered
    <3>3. \A i \in 1..ms[k].n : k + i \in 1..Len(ms)
      BY <1>2, <3>1, <3>2
    <3>4. \A i \in 1..ms[k].n : all[k + i] = ms[k + i]
      BY <1>1, <3>3
    <3>5. k + all[k].n <= Len(all)
      BY <1>1, <1>2, <3>1, <3>2
    <3>. QED  BY <3>1, <3>2, <3>4, <3>5
  <2>2. CASE k > Len(ms)
    <3>. DEFINE j == k - Len(ms)
    <3>1. j \in 1..Len(more) /\ all[k] = more[j]
      BY <1>4, <2>2
    <3>2. j + more[j].n <= Len(more) /\ \A i \in 1..more[j].n : more[j + i] = ToolResult(more[j].id, i)
      BY <1>3, <3>1 DEF RepliesAnswered
    <3>3. ASSUME NEW i \in 1..more[j].n
          PROVE  j + i \in 1..Len(more) /\ Len(ms) + (j + i) = k + i
      <4>. DEFINE n == more[j].n
                  m == Len(more)
      <4>1. j \in Nat /\ n \in Nat /\ Len(ms) + j = k /\ j > 0
        BY <1>2, <3>1
      <4>2. m \in Nat /\ Len(ms) \in Nat /\ j + n <= m /\ i \in 1..n
        BY <1>2, <3>2
      <4>. HIDE DEF j, n, m
      <4>3. j + i \in 1..m /\ Len(ms) + (j + i) = k + i
        BY <4>1, <4>2
      <4>. QED  BY <4>3 DEF m
    <3>4. k + more[j].n <= Len(all)
      BY <1>1, <1>2, <3>1, <3>2
    <3>5. \A i \in 1..more[j].n : all[k + i] = more[j + i]
      BY <1>1, <3>3
    <3>. QED  BY <3>1, <3>2, <3>4, <3>5
  <2>. QED  BY <1>1, <1>2, <2>1, <2>2
<1>6. ResultsCalled(all)
  <2>. SUFFICES ASSUME NEW k \in 1..Len(all), IsResult(all[k])
                PROVE  /\ k > all[k].n
                       /\ IsReply(all[k - all[k].n]) /\ all[k - all[k].n].id = all[k].id
                       /\ all[k].n <= all[k - all[k].n].n
    BY DEF ResultsCalled
  <2>1. CASE k <= Len(ms)
    <3>1. k \in 1..Len(ms) /\ all[k] = ms[k]
      BY <1>1, <1>2, <2>1
    <3>2. k - ms[k].n \in 1..Len(ms)
      BY <1>2, <1>3, <3>1 DEF ResultsCalled
    <3>. QED  BY <1>1, <1>3, <3>1, <3>2 DEF ResultsCalled
  <2>2. CASE k > Len(ms)
    <3>. DEFINE j == k - Len(ms)
    <3>1. j \in 1..Len(more) /\ all[k] = more[j]
      BY <1>4, <2>2
    <3>2. /\ j > more[j].n
          /\ IsReply(more[j - more[j].n]) /\ more[j - more[j].n].id = more[j].id
          /\ more[j].n <= more[j - more[j].n].n
      BY <1>3, <3>1 DEF ResultsCalled
    <3>3. j - more[j].n \in 1..Len(more) /\ Len(ms) + (j - more[j].n) = k - more[j].n /\ k > more[j].n
      <4>. DEFINE n == more[j].n
                  m == Len(more)
      <4>1. j \in Nat /\ n \in Nat /\ Len(ms) + j = k
        BY <1>2, <3>1
      <4>2. m \in Nat /\ Len(ms) \in Nat /\ j <= m /\ j > n
        BY <1>2, <3>1, <3>2
      <4>. HIDE DEF j, n, m
      <4>3. j - n \in 1..m /\ Len(ms) + (j - n) = k - n /\ k > n
        BY <4>1, <4>2
      <4>. QED  BY <4>3 DEF n, m
    <3>4. all[k - more[j].n] = more[j - more[j].n]
      BY <1>1, <3>3
    <3>. QED  BY <3>1, <3>2, <3>3, <3>4
  <2>. QED  BY <1>1, <1>2, <2>1, <2>2
<1>. QED  BY <1>1, <1>5, <1>6, AnsweredMeans DEF all

LEMMA UsersAnswered ==
    ASSUME NEW k \in Nat
    PROVE  Users(k) \in Seq(Message) /\ Answered(Users(k))
<1>1. Users(k) \in Seq(Message) /\ Len(Users(k)) = k /\ \A i \in 1..k : Users(k)[i] = User
  BY MessagesTyped DEF Users
<1>. QED  BY <1>1, AnsweredMeans, MessageShapes DEF RepliesAnswered, ResultsCalled

\* A reply with the results of all its calls.
Exchange(t, n) == <<Reply(t, n)>> \o Results(t, 1, n)

LEMMA ResultsTyped ==
    \A t \in 0..MaxTurns, n \in 0..MaxCalls : \A from \in 1..(n + 1) :
        /\ Results(t, from, n) \in Seq(Message) /\ Len(Results(t, from, n)) = n - from + 1
        /\ \A i \in 1..(n - from + 1) : Results(t, from, n)[i] = ToolResult(t, from + i - 1)
<1>. TAKE t \in 0..MaxTurns, n \in 0..MaxCalls
<1>. TAKE from \in 1..(n + 1)
<1>1. n - from + 1 \in Nat
  BY BoundsTyped
<1>2. ASSUME NEW i \in 1..(n - from + 1) PROVE ToolResult(t, from + i - 1) \in Message
  <2>1. from + i - 1 \in 1..MaxCalls
    BY BoundsTyped
  <2>. QED  BY <2>1, MessagesTyped
<1>. QED  BY <1>1, <1>2 DEF Results

LEMMA ExchangeAnswered ==
    ASSUME NEW t \in 0..MaxTurns, NEW n \in 0..MaxCalls
    PROVE  Exchange(t, n) \in Seq(Message) /\ Answered(Exchange(t, n))
<1>. DEFINE ex == Exchange(t, n)
<1>0. n \in Nat /\ 1 \in 1..(n + 1) /\ Reply(t, n) \in Message
  BY BoundsTyped, MessagesTyped
<1>1. /\ Results(t, 1, n) \in Seq(Message) /\ Len(Results(t, 1, n)) = n
      /\ \A i \in 1..n : Results(t, 1, n)[i] = ToolResult(t, i)
  <2>. DEFINE rs == Results(t, 1, n)
  <2>1. /\ rs \in Seq(Message) /\ Len(rs) = n - 1 + 1
        /\ \A i \in 1..(n - 1 + 1) : rs[i] = ToolResult(t, 1 + i - 1)
    BY <1>0, ResultsTyped
  <2>2. n - 1 + 1 = n
    BY <1>0
  <2>3. ASSUME NEW i \in 1..n PROVE rs[i] = ToolResult(t, i)
    <3>1. i \in 1..(n - 1 + 1) /\ 1 + i - 1 = i
      BY <1>0
    <3>2. rs[i] = ToolResult(t, 1 + i - 1)
      BY <2>1, <3>1
    <3>. HIDE DEF rs
    <3>. QED  BY <3>1, <3>2
  <2>. QED  BY <2>1, <2>2, <2>3
<1>2. /\ ex \in Seq(Message) /\ Len(ex) = n + 1 /\ ex[1] = Reply(t, n)
      /\ \A i \in 1..n : ex[i + 1] = ToolResult(t, i)
  BY <1>0, <1>1 DEF Exchange
<1>. HIDE DEF ex
<1>3. ASSUME NEW k \in 1..Len(ex), k # 1
      PROVE  k - 1 \in 1..n /\ ex[k] = ToolResult(t, k - 1)
  <2>1. k - 1 \in 1..n /\ (k - 1) + 1 = k
    BY <1>0, <1>2, <1>3
  <2>. QED  BY <1>2, <2>1
<1>4. RepliesAnswered(ex)
  <2>1. \A k \in 1..Len(ex) : IsReply(ex[k]) => k = 1
    BY <1>3, MessageShapes
  <2>2. ex[1].n = n /\ ex[1].id = t /\ \A i \in 1..n : ex[1 + i] = ToolResult(t, i)
    BY <1>0, <1>2, MessageShapes
  <2>. QED  BY <1>0, <1>2, <2>1, <2>2 DEF RepliesAnswered
<1>5. ResultsCalled(ex)
  <2>1. \A k \in 1..Len(ex) : IsResult(ex[k]) => k # 1
    BY <1>2, MessageShapes
  <2>2. ASSUME NEW k \in 1..Len(ex), k # 1
        PROVE  /\ k > ex[k].n
               /\ IsReply(ex[k - ex[k].n]) /\ ex[k - ex[k].n].id = ex[k].id
               /\ ex[k].n <= ex[k - ex[k].n].n
    <3>1. ex[k].n = k - 1 /\ ex[k].id = t /\ k - 1 <= n
      BY <1>0, <1>3, <2>2, MessageShapes
    <3>2. k - ex[k].n = 1
      BY <3>1
    <3>. QED  BY <1>0, <1>2, <3>1, <3>2, MessageShapes
  <2>. QED  BY <2>1, <2>2 DEF ResultsCalled
<1>. QED  BY <1>2, <1>4, <1>5, AnsweredMeans DEF ex

\* The result of call i joins the history: what is left are those of the calls after it.
LEMMA ResultTaken ==
    ASSUME NEW ms \in Seq(Message), NEW t \in 0..MaxTurns, NEW n \in 0..MaxCalls, NEW i \in 1..n
    PROVE  /\ Append(ms, ToolResult(t, i)) \in Seq(Message)
           /\ Append(ms, ToolResult(t, i)) \o Results(t, i + 1, n) = ms \o Results(t, i, n)
<1>0. n \in Nat /\ i \in 1..(n + 1) /\ i + 1 \in 1..(n + 1) /\ i \in 1..MaxCalls
  BY BoundsTyped
<1>. DEFINE r == ToolResult(t, i)
            left == Results(t, i + 1, n)
            all == Results(t, i, n)
<1>1. r \in Message
  BY <1>0, MessagesTyped
<1>2. /\ left \in Seq(Message) /\ Len(left) = n - i
      /\ \A j \in 1..(n - i) : left[j] = ToolResult(t, i + j)
  <2>1. /\ left \in Seq(Message) /\ Len(left) = n - (i + 1) + 1
        /\ \A j \in 1..(n - (i + 1) + 1) : left[j] = ToolResult(t, (i + 1) + j - 1)
    BY <1>0, ResultsTyped
  <2>2. n - (i + 1) + 1 = n - i
    BY <1>0
  <2>3. ASSUME NEW j \in 1..(n - i) PROVE left[j] = ToolResult(t, i + j)
    <3>1. j \in 1..(n - (i + 1) + 1) /\ (i + 1) + j - 1 = i + j
      BY <1>0
    <3>2. left[j] = ToolResult(t, (i + 1) + j - 1)
      BY <2>1, <3>1
    <3>. HIDE DEF left
    <3>. QED  BY <3>1, <3>2
  <2>. QED  BY <2>1, <2>2, <2>3
<1>3. /\ all \in Seq(Message) /\ Len(all) = n - i + 1
      /\ \A j \in 1..(n - i + 1) : all[j] = ToolResult(t, i + j - 1)
  BY <1>0, ResultsTyped
<1>. HIDE DEF r, left, all
<1>4. <<r>> \o left = all
  <2>1. /\ <<r>> \o left \in Seq(Message) /\ Len(<<r>> \o left) = n - i + 1
        /\ (<<r>> \o left)[1] = r
        /\ \A j \in 2..(n - i + 1) : (<<r>> \o left)[j] = left[j - 1]
    <3>. DEFINE one == <<r>>
    <3>1. one \in Seq(Message) /\ Len(one) = 1 /\ one[1] = r
      BY <1>1
    <3>. HIDE DEF one
    <3>2. /\ one \o left \in Seq(Message) /\ Len(one \o left) = 1 + (n - i)
          /\ \A j \in 1..(1 + (n - i)) : (one \o left)[j] = IF j <= 1 THEN one[j] ELSE left[j - 1]
      <4>1. /\ one \o left \in Seq(Message) /\ Len(one \o left) = Len(one) + Len(left)
            /\ \A j \in 1..(Len(one) + Len(left)) :
                  (one \o left)[j] = IF j <= Len(one) THEN one[j] ELSE left[j - Len(one)]
        BY <1>2, <3>1, ConcatProperties
      <4>. QED  BY <1>2, <3>1, <4>1
    <3>3. 1 + (n - i) = n - i + 1 /\ 1 \in 1..(1 + (n - i))
      BY <1>0
    <3>4. \A j \in 2..(n - i + 1) : j \in 1..(1 + (n - i)) /\ ~(j <= 1)
      BY <1>0
    <3>. QED  BY <3>1, <3>2, <3>3, <3>4 DEF one
  <2>2. all[1] = r
    <3>1. 1 \in 1..(n - i + 1) /\ i + 1 - 1 = i
      BY <1>0
    <3>. QED  BY <1>3, <3>1 DEF r
  <2>3. ASSUME NEW j \in 2..(n - i + 1) PROVE all[j] = left[j - 1]
    <3>1. j - 1 \in 1..(n - i) /\ j \in 1..(n - i + 1) /\ i + (j - 1) = i + j - 1
      BY <1>0
    <3>. QED  BY <1>2, <1>3, <3>1
  <2>4. ASSUME NEW j \in 1..Len(all) PROVE (<<r>> \o left)[j] = all[j]
    <3>1. j = 1 \/ j \in 2..(n - i + 1)
      BY <1>0, <1>3
    <3>. QED  BY <2>1, <2>2, <2>3, <3>1
  <2>. QED  BY <1>3, <2>1, <2>4, SeqEqual
<1>5. Append(ms, r) = ms \o <<r>>
  BY <1>1
<1>6. (ms \o <<r>>) \o left = ms \o (<<r>> \o left)
  BY <1>1, <1>2, ConcatAssociative
<1>7. Append(ms, r) \in Seq(Message)
  BY <1>1
<1>8. Append(ms, r) \o left = ms \o all
  BY <1>4, <1>5, <1>6
<1>. QED  BY <1>7, <1>8 DEF r, left, all

\* What follows a reply's place is answered by itself, from that reply on.
LEMMA SuffixAnswered ==
    ASSUME NEW ms \in Seq(Message), Answered(ms), NEW b \in 1..Len(ms), b < Len(ms), IsReply(ms[b + 1])
    PROVE  /\ SubSeq(ms, b + 1, Len(ms)) \in Seq(Message)
           /\ Answered(SubSeq(ms, b + 1, Len(ms)))
<1>. DEFINE suffix == SubSeq(ms, b + 1, Len(ms))
<1>1. /\ suffix \in Seq(Message) /\ Len(suffix) = Len(ms) - b
      /\ \A k \in 1..(Len(ms) - b) : suffix[k] = ms[b + k]
  OBVIOUS
<1>2. Len(ms) \in Nat /\ \A k \in 1..Len(ms) : ms[k].n \in Nat
  BY MessagesTyped
<1>3. RepliesAnswered(ms) /\ ResultsCalled(ms)
  BY AnsweredMeans
<1>. HIDE DEF suffix
<1>4. RepliesAnswered(suffix)
  <2>. SUFFICES ASSUME NEW k \in 1..Len(suffix), IsReply(suffix[k])
                PROVE  /\ k + suffix[k].n <= Len(suffix)
                       /\ \A i \in 1..suffix[k].n : suffix[k + i] = ToolResult(suffix[k].id, i)
    BY DEF RepliesAnswered
  <2>1. b + k \in 1..Len(ms) /\ suffix[k] = ms[b + k]
    BY <1>1, <1>2
  <2>2. /\ (b + k) + ms[b + k].n <= Len(ms)
        /\ \A i \in 1..ms[b + k].n : ms[(b + k) + i] = ToolResult(ms[b + k].id, i)
    BY <1>3, <2>1 DEF RepliesAnswered
  <2>3. k + ms[b + k].n <= Len(ms) - b
    BY <1>1, <1>2, <2>1, <2>2
  <2>4. ASSUME NEW i \in 1..ms[b + k].n PROVE suffix[k + i] = ms[(b + k) + i]
    <3>1. k + i \in 1..(Len(ms) - b) /\ b + (k + i) = (b + k) + i
      BY <1>1, <1>2, <2>1, <2>3
    <3>. QED  BY <1>1, <3>1
  <2>. QED  BY <1>1, <2>1, <2>2, <2>3, <2>4
<1>5. ResultsCalled(suffix)
  <2>. SUFFICES ASSUME NEW k \in 1..Len(suffix), IsResult(suffix[k])
                PROVE  /\ k > suffix[k].n
                       /\ IsReply(suffix[k - suffix[k].n]) /\ suffix[k - suffix[k].n].id = suffix[k].id
                       /\ suffix[k].n <= suffix[k - suffix[k].n].n
    BY DEF ResultsCalled
  <2>. DEFINE at == b + k
              n == ms[at].n
              p == at - n
  <2>1. at \in 1..Len(ms) /\ suffix[k] = ms[at] /\ n \in Nat /\ at = b + k
    BY <1>1, <1>2
  <2>. HIDE DEF at
  <2>2. /\ at > n /\ IsReply(ms[p]) /\ ms[p].id = ms[at].id /\ n <= ms[p].n
    BY <1>3, <2>1 DEF ResultsCalled
  <2>3. p \in 1..Len(ms) /\ ms[p].n \in Nat
    BY <1>2, <2>1, <2>2
  <2>. HIDE DEF n
  <2>4. CASE p > b
    <3>1. k > n /\ k - n \in 1..(Len(ms) - b) /\ b + (k - n) = p
      BY <1>1, <1>2, <2>1, <2>4
    <3>2. suffix[k - n] = ms[p]
      BY <1>1, <3>1
    <3>. QED  BY <2>1, <2>2, <3>1, <3>2 DEF n
  <2>5. CASE p <= b
    <3>. DEFINE i == (b + 1) - p
    <3>1. i \in 1..ms[p].n /\ p + i = b + 1
      BY <1>1, <1>2, <2>1, <2>2, <2>3, <2>5
    <3>2. ms[b + 1] = ToolResult(ms[p].id, i)
      BY <1>3, <2>2, <2>3, <3>1 DEF RepliesAnswered
    <3>. QED  BY <3>2, MessageShapes
  <2>. QED  BY <2>1, <2>3, <2>4, <2>5
<1>. QED  BY <1>1, <1>4, <1>5, AnsweredMeans DEF suffix

NoSummary(ms) == \A k \in 1..Len(ms) : ms[k] # Summary

\* A summary is the second message, and a reply follows it.
SummaryPlaced(ms) ==
    \A k \in 1..Len(ms) : ms[k] = Summary => k = 2 /\ 2 < Len(ms) /\ IsReply(ms[3])

\* A history that grows keeps the place of its summary.
LEMMA SummaryStays ==
    ASSUME NEW ms \in Seq(Message), NEW more \in Seq(Message), SummaryPlaced(ms), NoSummary(more)
    PROVE  SummaryPlaced(ms \o more)
<1>. DEFINE all == ms \o more
<1>1. /\ Len(ms) \in Nat /\ Len(more) \in Nat /\ Len(all) = Len(ms) + Len(more)
      /\ \A k \in 1..Len(ms) : all[k] = ms[k]
      /\ \A k \in 1..Len(more) : all[Len(ms) + k] = more[k]
  OBVIOUS
<1>. HIDE DEF all
<1>. SUFFICES ASSUME NEW k \in 1..Len(all), all[k] = Summary
              PROVE  k = 2 /\ 2 < Len(all) /\ IsReply(all[3])
  BY DEF SummaryPlaced, all
<1>2. k <= Len(ms)
  <2>1. ASSUME k > Len(ms) PROVE FALSE
    <3>1. k - Len(ms) \in 1..Len(more) /\ Len(ms) + (k - Len(ms)) = k
      BY <1>1, <2>1
    <3>. QED  BY <1>1, <3>1 DEF NoSummary
  <2>. QED  BY <1>1, <2>1
<1>3. k = 2 /\ 2 < Len(ms) /\ IsReply(ms[3])
  BY <1>1, <1>2 DEF SummaryPlaced
<1>. QED  BY <1>1, <1>3

\* The boundary is the system message's, or that of a reply.
LEMMA BoundaryAtReply ==
    ASSUME NEW ms \in Seq(Message), HasMiddle(ms)
    PROVE  /\ SafeBoundary(ms) \in 2..Len(ms) /\ SafeBoundary(ms) < Len(ms)
           /\ IsReply(ms[SafeBoundary(ms) + 1])
<1>. DEFINE Starts == {b \in 1..(Len(ms) - PreserveLast) : ms[b + 1].role = "assistant"}
            B == {1} \union Starts
<1>1. Len(ms) \in Nat /\ PreserveLast \in Nat \ {0}
  BY BoundsTyped
<1>2. B \in SUBSET Nat /\ B # {}
  BY <1>1
<1>. DEFINE top == Len(ms) + 1
<1>3. top \in Nat /\ \A x \in B : x <= top
  BY <1>1
<1>4. Max(B) \in B
  <2>. HIDE DEF B, top
  <2>. QED  BY <1>2, <1>3, MaxOfBounded
<1>5. SafeBoundary(ms) = Max(B) /\ SafeBoundary(ms) > 1
  BY DEF SafeBoundary, HasMiddle
<1>6. SafeBoundary(ms) \in Starts
  BY <1>4, <1>5
<1>. QED  BY <1>1, <1>5, <1>6 DEF IsReply

\* A compaction leaves a history that is answered, with its one summary in place.
LEMMA CompactAnswered ==
    ASSUME NEW ms \in Seq(Message), HasMiddle(ms), Answered(ms), SummaryPlaced(ms)
    PROVE  Compact(ms) \in Seq(Message) /\ Answered(Compact(ms)) /\ SummaryPlaced(Compact(ms))
<1>. DEFINE b == SafeBoundary(ms)
            head == <<System, Summary>>
            suffix == SubSeq(ms, b + 1, Len(ms))
<1>1. Len(ms) \in Nat /\ b \in 1..Len(ms) /\ b > 1 /\ b < Len(ms) /\ IsReply(ms[b + 1])
  BY BoundaryAtReply
<1>. HIDE DEF b
<1>2. suffix \in Seq(Message) /\ Answered(suffix)
  BY <1>1, SuffixAnswered
<1>3. /\ Len(suffix) = Len(ms) - b
      /\ \A k \in 1..(Len(ms) - b) : suffix[k] = ms[b + k]
  BY <1>1
<1>4. head \in Seq(Message) /\ Len(head) = 2 /\ head[1] = System /\ head[2] = Summary
  BY MessagesTyped
<1>5. Answered(head)
  <2>1. \A k \in 1..Len(head) : ~IsReply(head[k]) /\ ~IsResult(head[k])
    BY <1>4, MessageShapes
  <2>. QED  BY <1>4, <2>1, AnsweredMeans DEF RepliesAnswered, ResultsCalled
<1>. HIDE DEF head, suffix
<1>6. head \o suffix \in Seq(Message) /\ Answered(head \o suffix)
  BY <1>2, <1>4, <1>5, AnsweredConcat
<1>7. NoSummary(suffix)
  <2>1. ASSUME NEW k \in 1..Len(suffix) PROVE b + k \in 1..Len(ms) /\ b + k # 2 /\ suffix[k] = ms[b + k]
    BY <1>1, <1>3
  <2>. QED  BY <2>1 DEF NoSummary, SummaryPlaced
<1>8. SummaryPlaced(head \o suffix)
  <2>. DEFINE all == head \o suffix
  <2>1. /\ Len(all) = 2 + Len(suffix) /\ Len(suffix) \in Nat /\ Len(suffix) > 0
        /\ all[1] = System /\ all[3] = suffix[1]
        /\ \A k \in 1..Len(suffix) : all[2 + k] = suffix[k]
    <3>1. /\ Len(all) = Len(head) + Len(suffix)
          /\ \A k \in 1..(Len(head) + Len(suffix)) :
                all[k] = IF k <= Len(head) THEN head[k] ELSE suffix[k - Len(head)]
      BY <1>2, <1>4, ConcatProperties
    <3>2. Len(suffix) \in Nat /\ Len(suffix) > 0
      BY <1>1, <1>3
    <3>. HIDE DEF all
    <3>3. all[1] = System
      BY <1>4, <3>1, <3>2
    <3>4. ASSUME NEW k \in 1..Len(suffix) PROVE all[2 + k] = suffix[k]
      <4>1. 2 + k \in 1..(Len(head) + Len(suffix)) /\ ~(2 + k <= Len(head)) /\ (2 + k) - Len(head) = k
        BY <1>4, <3>2
      <4>. QED  BY <3>1, <4>1
    <3>5. all[3] = suffix[1]
      BY <3>2, <3>4
    <3>. QED  BY <1>4, <3>1, <3>2, <3>3, <3>4, <3>5
  <2>2. IsReply(suffix[1])
    BY <1>1, <1>3
  <2>. HIDE DEF all
  <2>3. ASSUME NEW k \in 1..Len(all), all[k] = Summary PROVE k = 2
    <3>1. k = 1 \/ k = 2 \/ (k - 2 \in 1..Len(suffix) /\ 2 + (k - 2) = k)
      BY <2>1
    <3>2. k # 1
      BY <2>1, <2>3, MessageShapes
    <3>3. CASE k - 2 \in 1..Len(suffix) /\ 2 + (k - 2) = k
      BY <1>7, <2>1, <2>3, <3>3 DEF NoSummary
    <3>. QED  BY <3>1, <3>2, <3>3
  <2>. QED  BY <2>1, <2>2, <2>3 DEF SummaryPlaced, all
<1>. QED  BY <1>6, <1>8 DEF Compact, head, suffix, b

\* What the loop adds between a compaction and the next.
LEMMA AnsweredSaid ==
    \A ms \in Seq(Message), t \in 0..(MaxTurns + 1) :
        Answered(ms) => /\ Append(ms, Reply(t, 0)) \in Seq(Message)
                        /\ Answered(Append(ms, Reply(t, 0)))
<1>. TAKE ms \in Seq(Message), t \in 0..(MaxTurns + 1)
<1>. HAVE Answered(ms)
<1>. DEFINE one == <<Reply(t, 0)>>
<1>1. Reply(t, 0) \in Message
  BY BoundsTyped, MessagesTyped
<1>2. one \in Seq(Message) /\ Len(one) = 1 /\ one[1] = Reply(t, 0)
  BY <1>1
<1>3. one[1].n = 0 /\ ~IsResult(one[1])
  BY <1>2, MessageShapes
<1>. HIDE DEF one
<1>4. Answered(one)
  BY <1>2, <1>3, AnsweredMeans DEF RepliesAnswered, ResultsCalled
<1>5. ms \o one \in Seq(Message) /\ Answered(ms \o one)
  BY <1>2, <1>4, AnsweredConcat
<1>6. Append(ms, Reply(t, 0)) = ms \o one
  BY <1>1 DEF one
<1>. QED  BY <1>5, <1>6

LEMMA AnsweredTold ==
    \A ms \in Seq(Message), k \in Nat :
        Answered(ms) => ms \o Users(k) \in Seq(Message) /\ Answered(ms \o Users(k))
  BY UsersAnswered, AnsweredConcat

LEMMA SummaryStaysSaid ==
    \A ms \in Seq(Message), t \in 0..(MaxTurns + 1), n \in 0..MaxCalls :
        SummaryPlaced(ms) => SummaryPlaced(Append(ms, Reply(t, n)))
<1>. TAKE ms \in Seq(Message), t \in 0..(MaxTurns + 1), n \in 0..MaxCalls
<1>. HAVE SummaryPlaced(ms)
<1>1. Reply(t, n) \in Message /\ Reply(t, n) # Summary
  BY MessagesTyped, MessageShapes
<1>2. <<Reply(t, n)>> \in Seq(Message) /\ NoSummary(<<Reply(t, n)>>)
  BY <1>1 DEF NoSummary
<1>3. Append(ms, Reply(t, n)) = ms \o <<Reply(t, n)>>
  BY <1>1
<1>. QED  BY <1>2, <1>3, SummaryStays

LEMMA SummaryStaysTold ==
    \A ms \in Seq(Message), k \in Nat : SummaryPlaced(ms) => SummaryPlaced(ms \o Users(k))
<1>. TAKE ms \in Seq(Message), k \in Nat
<1>1. Users(k) \in Seq(Message) /\ Len(Users(k)) = k /\ \A i \in 1..k : Users(k)[i] = User
  BY MessagesTyped DEF Users
<1>2. NoSummary(Users(k))
  BY <1>1, MessageShapes DEF NoSummary
<1>. QED  BY <1>1, <1>2, SummaryStays

LEMMA SummaryStaysResults ==
    \A ms \in Seq(Message), t \in 0..MaxTurns, n \in 0..MaxCalls : \A from \in 1..(n + 1) :
        SummaryPlaced(ms) => SummaryPlaced(ms \o Results(t, from, n))
<1>. TAKE ms \in Seq(Message), t \in 0..MaxTurns, n \in 0..MaxCalls
<1>. TAKE from \in 1..(n + 1)
<1>1. /\ Results(t, from, n) \in Seq(Message) /\ Len(Results(t, from, n)) = n - from + 1
      /\ \A i \in 1..(n - from + 1) : Results(t, from, n)[i] = ToolResult(t, from + i - 1)
  BY ResultsTyped
<1>2. NoSummary(Results(t, from, n))
  BY <1>1, MessageShapes DEF NoSummary
<1>. QED  BY <1>1, <1>2, SummaryStays

LEMMA SummaryStaysResult ==
    \A ms \in Seq(Message), t \in 0..MaxTurns, i \in 1..MaxCalls :
        SummaryPlaced(ms) => SummaryPlaced(Append(ms, ToolResult(t, i)))
<1>. TAKE ms \in Seq(Message), t \in 0..MaxTurns, i \in 1..MaxCalls
<1>1. ToolResult(t, i) \in Message /\ ToolResult(t, i) # Summary
  BY MessagesTyped, MessageShapes
<1>2. <<ToolResult(t, i)>> \in Seq(Message) /\ NoSummary(<<ToolResult(t, i)>>)
  BY <1>1 DEF NoSummary
<1>3. Append(ms, ToolResult(t, i)) = ms \o <<ToolResult(t, i)>>
  BY <1>1
<1>. QED  BY <1>2, <1>3, SummaryStays

-----------------------------------------------------------------------------
(* Types and counters *)

\* What the counters are while the loop runs.
AgentCounters ==
    /\ late <= 1
    /\ pc # "done" => late = 0 /\ failures < StopAt /\ emptyTurns < MaxEmptyTurns

\* The calls of a batch are executed in order, from the first.
AgentIndex ==
    /\ pc = "call" => index <= collected.calls
    /\ pc \in {"connect", "reconnect", "collect", "reissue", "check", "settle", "commit"} => index = 1

AgentShape == AgentTypeOK /\ AgentCounters /\ AgentIndex

\* The history: answered but for the calls of the batch that is executed.
AgentHistory ==
    /\ SummaryPlaced(messages)
    /\ pc # "call" /\ pc # "done" => Answered(messages)
    /\ pc = "call" => Answered(messages \o Results(turn, index, collected.calls))
    /\ pc = "done" => Answered(result.messages)

\* A stream is collected under the callbacks only while nothing was shown.
AgentProse ==
    /\ prose <= 1 /\ (~visible => prose = 0)
    /\ pc \in {"connect", "reconnect", "collect"} => ~visible

LEMMA StreamsTyped ==
    /\ NoStream \in Streams
    /\ \A s \in Streams : s.calls \in 0..MaxCalls /\ s.text \in Texts
<1>1. NoStream \in [text : Texts, calls : {0}, dropped : BOOLEAN, err : {"none"}]
  BY DEF NoStream, Texts
<1>2. \A s \in Streams : s.text \in Texts
  BY DEF Streams, Texts
<1>3. \A s \in Streams : s.calls \in {0} \union 1..MaxCalls
  BY DEF Streams
<1>4. {0} \union 1..MaxCalls \subseteq 0..MaxCalls
  BY BoundsTyped
<1>. QED  BY <1>1, <1>2, <1>3, <1>4 DEF Streams

\* A tool call either ends the run, with the rest of the batch answered, or is
\* followed by the next call or the end of the batch.
ToolEnds ==
    /\ messages' = Aborted(Append(messages, ToolResult(turn, index)))
    /\ pc' = "done" /\ result'.messages = messages'
    /\ failures' \in Streaks /\ UNCHANGED <<index, hint>>
    /\ ~result'.incomplete /\ result'.kind # "answer"

ToolGoesOn ==
    /\ ~cancelled
    /\ messages' = Append(messages, ToolResult(turn, index))
    /\ pc' = IF index = collected.calls THEN "after" ELSE "call"
    /\ failures' \in Streaks /\ (failures' > failures => ~(failures' >= StopAt))
    /\ hint' \in BOOLEAN /\ index' = index + 1 /\ UNCHANGED result

LEMMA ToolCallOutcome ==
    ToolCall => /\ pc = "call" /\ late' = late + (IF cancelled THEN 1 ELSE 0)
                /\ ToolEnds \/ ToolGoesOn
                /\ UNCHANGED <<options, cancelled, turn, requestVars, reactive, emptyTurns,
                               planPending, nudges, accepted>>
<1>. SUFFICES ASSUME ToolCall PROVE ToolEnds \/ ToolGoesOn
  BY DEF ToolCall
<1>. DEFINE ms == Append(messages, ToolResult(turn, index))
<1>1. PICK aborts \in BOOLEAN, stops \in BOOLEAN, streak \in Streaks :
          IF MustAbort(aborts)
          THEN /\ messages' = Aborted(ms)
               /\ ReturnError(IF aborts THEN "tool" ELSE "ctx", messages')
               /\ UNCHANGED <<failures, index, hint>>
          ELSE IF stops
          THEN /\ messages' = Aborted(ms)
               /\ Return("review", "none", FALSE, messages')
               /\ UNCHANGED <<failures, index, hint>>
          ELSE /\ failures' = streak
               /\ IF streak > failures /\ streak >= StopAt
                  THEN /\ messages' = Aborted(ms)
                       /\ Return("failures", "none", FALSE, messages')
                       /\ UNCHANGED <<index, hint>>
                  ELSE /\ messages' = ms
                       /\ hint' = (hint \/ (streak = HintAt /\ streak > failures))
                       /\ index' = index + 1
                       /\ pc' = IF index = collected.calls THEN "after" ELSE "call"
                       /\ UNCHANGED result
  BY DEF ToolCall
<1>2. failures \in Streaks
  BY DEF Streaks
<1>3. CASE MustAbort(aborts)
  BY <1>1, <1>2, <1>3 DEF ToolEnds, ReturnError, Return
<1>4. CASE ~MustAbort(aborts) /\ stops
  BY <1>1, <1>2, <1>4 DEF ToolEnds, Return
<1>5. CASE ~MustAbort(aborts) /\ ~stops /\ streak > failures /\ streak >= StopAt
  BY <1>1, <1>5 DEF ToolEnds, Return
<1>6. CASE ~MustAbort(aborts) /\ ~stops /\ ~(streak > failures /\ streak >= StopAt)
  <2>1. /\ failures' = streak /\ messages' = ms
        /\ hint' = (hint \/ (streak = HintAt /\ streak > failures))
        /\ index' = index + 1
        /\ pc' = IF index = collected.calls THEN "after" ELSE "call"
        /\ UNCHANGED result
    BY <1>1, <1>6
  <2>2. hint' \in BOOLEAN
    BY <2>1
  <2>3. ~cancelled
    BY <1>6 DEF MustAbort
  <2>. QED  BY <1>6, <2>1, <2>2, <2>3 DEF ToolGoesOn
<1>. QED  BY <1>3, <1>4, <1>5, <1>6

ControlTyped ==
    /\ pc \in {"turn", "connect", "reconnect", "collect", "reissue", "check", "settle",
               "commit", "call", "after", "ceiling", "done"}
    /\ options \in [gate : BOOLEAN, selfCorrect : BOOLEAN]
    /\ cancelled \in BOOLEAN /\ collected \in Streams
    /\ visible \in BOOLEAN /\ site \in {"before", "after"} /\ reactive \in BOOLEAN
    /\ planPending \in BOOLEAN /\ accepted \in BOOLEAN /\ hint \in BOOLEAN

NumbersTyped ==
    /\ turn \in 0..MaxTurns /\ retries \in 0..MaxStallRetries
    /\ emptyTurns \in 0..MaxEmptyTurns /\ nudges \in 0..MaxNudges
    /\ index \in 1..(MaxCalls + 1) /\ failures \in 0..StopAt
    /\ prose \in Nat /\ late \in Nat

HistoryTyped == messages \in Seq(Message) /\ result.messages \in Seq(Message)

LEMMA ShapeParts ==
    /\ AgentTypeOK <=> ControlTyped /\ NumbersTyped /\ HistoryTyped
    /\ AgentTypeOK' <=> ControlTyped' /\ NumbersTyped' /\ HistoryTyped'
  BY DEF AgentTypeOK, ControlTyped, NumbersTyped, HistoryTyped

LEMMA ControlStep == ControlTyped /\ [AgentNext]_agentVars => ControlTyped'
<1>. SUFFICES ASSUME ControlTyped, [AgentNext]_agentVars PROVE ControlTyped'
  OBVIOUS
<1>. USE DEF ControlTyped
<1>1. CASE StartTurn
  <2>1. collected' \in Streams /\ visible' \in BOOLEAN /\ site' \in {"before", "after"} /\ hint' \in BOOLEAN
    BY <1>1, StreamsTyped DEF StartTurn
  <2>2. pc' = "ceiling" \/ pc' = "connect"
    BY <1>1 DEF StartTurn
  <2>3. UNCHANGED <<options, cancelled, reactive, planPending, accepted>>
    BY <1>1 DEF StartTurn, guardVars
  <2>. QED  BY <2>1, <2>2, <2>3
<1>2. CASE Connect
  <2>1. UNCHANGED <<options, cancelled, collected, visible, site, planPending, accepted, hint>>
    BY <1>2 DEF Connect, requestVars, guardVars, batchVars
  <2>2. pc' \in {"collect", "reconnect", "done"} /\ reactive' \in BOOLEAN
    BY <1>2 DEF Connect, Recover, ReturnError, Return
  <2>. QED  BY <2>1, <2>2
<1>3. CASE Reconnect
  BY <1>3 DEF Reconnect, ReturnError, Return, requestVars, guardVars, batchVars
<1>4. CASE Collect
  <2>1. UNCHANGED <<options, cancelled, planPending, accepted, hint>>
    BY <1>4 DEF Collect, guardVars, batchVars
  <2>. QED  BY <1>4, <2>1 DEF Collect, Forwarded, Recover, ReturnError, Return
<1>5. CASE Reissue
  BY <1>5 DEF Reissue, StreamOf, ReturnError, Return, guardVars, batchVars
<1>6. CASE CheckContext
  BY <1>6 DEF CheckContext, ReturnError, Return, requestVars, guardVars, batchVars
<1>7. CASE StallRetry
  BY <1>7 DEF StallRetry, StreamOf, Forwarded, ReturnError, Return, guardVars, batchVars
<1>8. CASE Settle
  BY <1>8 DEF Settle, Recover, ReturnError, Return, guardVars, batchVars
<1>9. CASE ReplyDropped
  BY <1>9 DEF ReplyDropped, NextTurn, requestVars, guardVars, batchVars
<1>10. CASE ReplyEmpty
  BY <1>10 DEF ReplyEmpty, NextTurn, Answer, Return, requestVars, batchVars
<1>11. CASE GateNudges
  BY <1>11 DEF GateNudges, Answering, NextTurn, requestVars, batchVars
<1>12. CASE GateIncomplete
  BY <1>12 DEF GateIncomplete, Answering, Answer, Return, requestVars, batchVars
<1>13. CASE GateDemandsCheck
  BY <1>13 DEF GateDemandsCheck, Answering, NextTurn, requestVars, batchVars
<1>14. CASE FinalAnswer
  BY <1>14 DEF FinalAnswer, Answering, Answer, Return, requestVars, batchVars
<1>15. CASE BeginBatch
  BY <1>15 DEF BeginBatch, requestVars, batchVars
<1>16. CASE ToolCall
  BY <1>16, ToolCallOutcome DEF ToolEnds, ToolGoesOn, requestVars
<1>17. CASE EndBatch
  BY <1>17 DEF EndBatch, NextTurn, requestVars, guardVars, batchVars
<1>18. CASE Ceiling
  BY <1>18 DEF Ceiling, ReturnError, Return, requestVars, guardVars, batchVars
<1>19. CASE Cancel
  BY <1>19 DEF Cancel, requestVars, guardVars, batchVars
<1>20. CASE UNCHANGED agentVars
  BY <1>20 DEF agentVars, requestVars, guardVars, batchVars
<1>. QED  BY <1>1, <1>2, <1>3, <1>4, <1>5, <1>6, <1>7, <1>8, <1>9, <1>10, <1>11, <1>12,
             <1>13, <1>14, <1>15, <1>16, <1>17, <1>18, <1>19, <1>20 DEF AgentNext, LoopStep

\* Whether the loop went on, and that no other action counts.
LEMMA NumbersStep ==
    AgentShape /\ [AgentNext]_agentVars => NumbersTyped' /\ AgentCounters'
<1>. SUFFICES ASSUME ControlTyped, NumbersTyped, AgentCounters, AgentIndex, [AgentNext]_agentVars
              PROVE  NumbersTyped' /\ AgentCounters'
  BY ShapeParts DEF AgentShape
<1>. USE DEF NumbersTyped, AgentCounters
<1>. USE BoundsTyped
<1>1. CASE StartTurn
  BY <1>1 DEF StartTurn, guardVars
<1>2. CASE Connect
  BY <1>2 DEF Connect, Recover, ReturnError, Return, requestVars, guardVars, batchVars
<1>3. CASE Reconnect
  BY <1>3 DEF Reconnect, ReturnError, Return, requestVars, guardVars, batchVars
<1>4. CASE Collect
  BY <1>4 DEF Collect, Forwarded, Recover, ReturnError, Return, guardVars, batchVars
<1>5. CASE Reissue
  BY <1>5 DEF Reissue, ReturnError, Return, guardVars, batchVars
<1>6. CASE CheckContext
  BY <1>6 DEF CheckContext, ReturnError, Return, requestVars, guardVars, batchVars
<1>7. CASE StallRetry
  BY <1>7 DEF StallRetry, MayRetry, Forwarded, ReturnError, Return, guardVars, batchVars
<1>8. CASE Settle
  BY <1>8 DEF Settle, Recover, ReturnError, Return, guardVars, batchVars
<1>9. CASE ReplyDropped
  BY <1>9 DEF ReplyDropped, NextTurn, requestVars, guardVars, batchVars
<1>10. CASE ReplyEmpty
  BY <1>10 DEF ReplyEmpty, NextTurn, Answer, Return, requestVars, batchVars
<1>11. CASE GateNudges
  BY <1>11 DEF GateNudges, MayNudge, Answering, NextTurn, requestVars, batchVars
<1>12. CASE GateIncomplete
  BY <1>12 DEF GateIncomplete, Answering, Answer, Return, requestVars, batchVars
<1>13. CASE GateDemandsCheck
  BY <1>13 DEF GateDemandsCheck, Answering, NextTurn, requestVars, batchVars
<1>14. CASE FinalAnswer
  BY <1>14 DEF FinalAnswer, Answering, Answer, Return, requestVars, batchVars
<1>15. CASE BeginBatch
  BY <1>15 DEF BeginBatch, requestVars, batchVars
<1>16. CASE ToolCall
  <2>1. /\ pc = "call" /\ late' = late + (IF cancelled THEN 1 ELSE 0)
        /\ UNCHANGED <<turn, retries, emptyTurns, nudges, prose>>
    BY <1>16, ToolCallOutcome DEF requestVars
  <2>2. late' \in 0..1 /\ (~cancelled => late' = 0)
    BY <2>1
  <2>3. failures < StopAt /\ failures + 1 <= StopAt /\ failures \in Nat /\ StopAt > 1
    BY <2>1
  <2>4. failures' \in Streaks => failures' \in 0..StopAt
    BY <2>3 DEF Streaks
  <2>5. CASE ToolEnds
    BY <2>1, <2>2, <2>4, <2>5 DEF ToolEnds
  <2>6. CASE ToolGoesOn
    <3>1. failures' \in Streaks /\ (failures' > failures => ~(failures' >= StopAt)) /\ index' = index + 1 /\ ~cancelled
      BY <2>6 DEF ToolGoesOn
    <3>2. failures' < StopAt
      BY <2>3, <2>4, <3>1 DEF Streaks
    <3>3. index <= collected.calls /\ collected.calls \in 0..MaxCalls
      BY <2>1, StreamsTyped DEF ControlTyped, AgentIndex
    <3>4. index' \in 1..(MaxCalls + 1)
      BY <3>1, <3>3
    <3>. QED  BY <2>1, <2>2, <2>4, <3>1, <3>2, <3>4
  <2>. QED  BY <1>16, <2>5, <2>6, ToolCallOutcome
<1>17. CASE EndBatch
  BY <1>17 DEF EndBatch, NextTurn, requestVars, guardVars, batchVars
<1>18. CASE Ceiling
  BY <1>18 DEF Ceiling, ReturnError, Return, requestVars, guardVars, batchVars
<1>19. CASE Cancel
  BY <1>19 DEF Cancel, requestVars, guardVars, batchVars
<1>20. CASE UNCHANGED agentVars
  BY <1>20 DEF agentVars, requestVars, guardVars, batchVars
<1>. QED  BY <1>1, <1>2, <1>3, <1>4, <1>5, <1>6, <1>7, <1>8, <1>9, <1>10, <1>11, <1>12,
             <1>13, <1>14, <1>15, <1>16, <1>17, <1>18, <1>19, <1>20 DEF AgentNext, LoopStep

LEMMA IndexStep ==
    AgentShape /\ [AgentNext]_agentVars => AgentIndex'
<1>. SUFFICES ASSUME ControlTyped, NumbersTyped, AgentIndex, [AgentNext]_agentVars
              PROVE  AgentIndex'
  BY ShapeParts DEF AgentShape
<1>. USE DEF AgentIndex
<1>1. CASE StartTurn
  BY <1>1 DEF StartTurn
<1>2. CASE Connect
  BY <1>2 DEF Connect, Recover, ReturnError, Return, requestVars, batchVars
<1>3. CASE Reconnect
  BY <1>3 DEF Reconnect, ReturnError, Return, requestVars, batchVars
<1>4. CASE Collect
  BY <1>4 DEF Collect, Recover, ReturnError, Return, batchVars
<1>5. CASE Reissue
  BY <1>5 DEF Reissue, ReturnError, Return, batchVars
<1>6. CASE CheckContext
  BY <1>6 DEF CheckContext, ReturnError, Return, requestVars, batchVars
<1>7. CASE StallRetry
  BY <1>7 DEF StallRetry, ReturnError, Return, batchVars
<1>8. CASE Settle
  BY <1>8 DEF Settle, Recover, ReturnError, Return, batchVars
<1>9. CASE ReplyDropped
  BY <1>9 DEF ReplyDropped, NextTurn
<1>10. CASE ReplyEmpty
  BY <1>10 DEF ReplyEmpty, NextTurn, Answer, Return
<1>11. CASE GateNudges
  BY <1>11 DEF GateNudges, NextTurn
<1>12. CASE GateIncomplete
  BY <1>12 DEF GateIncomplete, Answer, Return
<1>13. CASE GateDemandsCheck
  BY <1>13 DEF GateDemandsCheck, NextTurn
<1>14. CASE FinalAnswer
  BY <1>14 DEF FinalAnswer, Answer, Return
<1>15. CASE BeginBatch
  <2>1. pc = "commit" /\ pc' = "call" /\ collected.calls > 0 /\ UNCHANGED <<index, collected>>
    BY <1>15 DEF BeginBatch, requestVars, batchVars
  <2>2. index = 1 /\ collected.calls \in 0..MaxCalls
    BY <2>1, StreamsTyped DEF ControlTyped
  <2>. QED  BY <2>1, <2>2
<1>16. CASE ToolCall
  <2>1. pc = "call" /\ UNCHANGED collected
    BY <1>16, ToolCallOutcome DEF requestVars
  <2>2. CASE ToolEnds
    BY <2>2 DEF ToolEnds
  <2>3. CASE ToolGoesOn
    <3>1. index <= collected.calls /\ collected.calls \in 0..MaxCalls /\ index \in Nat
      BY <2>1, StreamsTyped DEF ControlTyped, NumbersTyped
    <3>2. index' = index + 1 /\ pc' = IF index = collected.calls THEN "after" ELSE "call"
      BY <2>3 DEF ToolGoesOn
    <3>. QED  BY <2>1, <3>1, <3>2, BoundsTyped
  <2>. QED  BY <1>16, <2>2, <2>3, ToolCallOutcome
<1>17. CASE EndBatch
  BY <1>17 DEF EndBatch, NextTurn
<1>18. CASE Ceiling
  BY <1>18 DEF Ceiling, ReturnError, Return
<1>19. CASE Cancel
  BY <1>19 DEF Cancel, requestVars, batchVars
<1>20. CASE UNCHANGED agentVars
  BY <1>20 DEF agentVars, requestVars, batchVars
<1>. QED  BY <1>1, <1>2, <1>3, <1>4, <1>5, <1>6, <1>7, <1>8, <1>9, <1>10, <1>11, <1>12,
             <1>13, <1>14, <1>15, <1>16, <1>17, <1>18, <1>19, <1>20 DEF AgentNext, LoopStep

-----------------------------------------------------------------------------
(* The history *)

\* An action that leaves the history as it is, or compacts it.
Kept ==
    /\ messages' = messages /\ pc' # "call"
    /\ result'.messages = result.messages \/ result'.messages = messages
    /\ pc' = "done" => result'.messages = messages

Compacted ==
    /\ HasMiddle(messages) /\ messages' = Compact(messages)
    /\ pc' # "call" /\ pc' # "done" /\ UNCHANGED result

\* An action that adds a reply without calls, or the user's messages after it.
Replied ==
    \/ messages' = Said /\ pc' = "done" /\ result'.messages = Said
    \/ messages' = SaidAndTold /\ pc' = "turn" /\ UNCHANGED result

HistoryNext == HistoryTyped' /\ AgentHistory'

LEMMA HistoryMoves ==
    ASSUME AgentTypeOK, AgentHistory, pc # "call", pc # "done", Kept \/ Compacted \/ Replied
    PROVE  HistoryNext
<1>1. /\ messages \in Seq(Message) /\ result.messages \in Seq(Message) /\ turn \in 0..(MaxTurns + 1)
      /\ Answered(messages) /\ SummaryPlaced(messages) /\ 0 \in 0..MaxCalls
  BY BoundsTyped DEF AgentTypeOK, AgentHistory
<1>2. CASE Kept
  BY <1>1, <1>2 DEF Kept, HistoryNext, HistoryTyped, AgentHistory
<1>3. CASE Compacted
  <2>1. messages' \in Seq(Message) /\ Answered(messages') /\ SummaryPlaced(messages')
    <3>1. messages' = Compact(messages) /\ HasMiddle(messages)
      BY <1>3 DEF Compacted
    <3>2. /\ Compact(messages) \in Seq(Message) /\ Answered(Compact(messages))
          /\ SummaryPlaced(Compact(messages))
      BY <1>1, <3>1, CompactAnswered
    <3>. QED  BY <3>1, <3>2
  <2>. QED  BY <1>1, <1>3, <2>1 DEF Compacted, HistoryNext, HistoryTyped, AgentHistory
<1>4. CASE Replied
  <2>1. Said \in Seq(Message) /\ Answered(Said) /\ SummaryPlaced(Said)
    BY <1>1, AnsweredSaid, SummaryStaysSaid DEF Said
  <2>2. SaidAndTold \in Seq(Message) /\ Answered(SaidAndTold) /\ SummaryPlaced(SaidAndTold)
    BY <2>1, AnsweredTold, SummaryStaysTold DEF SaidAndTold
  <2>. HIDE DEF Said, SaidAndTold
  <2>3. CASE messages' = Said /\ pc' = "done" /\ result'.messages = Said
    BY <2>1, <2>3 DEF HistoryNext, HistoryTyped, AgentHistory
  <2>4. CASE messages' = SaidAndTold /\ pc' = "turn" /\ UNCHANGED result
    BY <1>1, <2>2, <2>4 DEF HistoryNext, HistoryTyped, AgentHistory
  <2>. QED  BY <1>4, <2>3, <2>4 DEF Replied
<1>. QED  BY <1>2, <1>3, <1>4

\* The reply is recorded: the results of all its calls are to come.
LEMMA BatchBegins ==
    ASSUME AgentTypeOK, AgentIndex, AgentHistory, BeginBatch
    PROVE  HistoryNext
<1>. DEFINE n == collected.calls
            said == Append(messages, Reply(turn, n))
<1>1. /\ messages \in Seq(Message) /\ result.messages \in Seq(Message)
      /\ turn \in 0..MaxTurns /\ n \in 0..MaxCalls /\ turn \in 0..(MaxTurns + 1)
  BY BoundsTyped, StreamsTyped DEF AgentTypeOK
<1>2. /\ pc = "commit" /\ pc' = "call" /\ messages' = said
      /\ UNCHANGED <<turn, collected, index, result>>
  BY DEF BeginBatch, requestVars, batchVars
<1>3. Answered(messages) /\ SummaryPlaced(messages) /\ index = 1
  BY <1>2 DEF AgentHistory, AgentIndex
<1>. HIDE DEF n
<1>4. Reply(turn, n) \in Message /\ 1 \in 1..(n + 1)
  BY <1>1, BoundsTyped, MessagesTyped
<1>5. said \in Seq(Message) /\ SummaryPlaced(said)
  BY <1>1, <1>3, <1>4, SummaryStaysSaid
<1>6. said \o Results(turn, 1, n) = messages \o Exchange(turn, n)
  <2>. DEFINE one == <<Reply(turn, n)>>
              rest == Results(turn, 1, n)
  <2>1. one \in Seq(Message) /\ said = messages \o one
    BY <1>1, <1>4
  <2>2. rest \in Seq(Message)
    BY <1>1, <1>4, ResultsTyped
  <2>. HIDE DEF one, rest, said
  <2>3. (messages \o one) \o rest = messages \o (one \o rest)
    <3>1. messages \in Seq(Message)
      BY <1>1
    <3>. QED  BY <2>1, <2>2, <3>1, ConcatAssociative
  <2>. QED  BY <2>1, <2>3 DEF Exchange, one, rest
<1>7. Answered(messages \o Exchange(turn, n))
  <2>1. Exchange(turn, n) \in Seq(Message) /\ Answered(Exchange(turn, n))
    BY <1>1, ExchangeAnswered
  <2>. QED  BY <1>1, <1>3, <2>1, AnsweredConcat
<1>8. Answered(messages' \o Results(turn', index', collected'.calls))
  BY <1>2, <1>3, <1>6, <1>7 DEF n
<1>. QED  BY <1>1, <1>2, <1>5, <1>8 DEF HistoryNext, HistoryTyped, AgentHistory

\* A result takes its place: at once the last one, or the others are answered too.
LEMMA BatchGoesOn ==
    ASSUME AgentTypeOK, AgentIndex, AgentHistory, ToolCall
    PROVE  HistoryNext
<1>. DEFINE n == collected.calls
            ms == Append(messages, ToolResult(turn, index))
            rest == Results(turn, index + 1, n)
<1>1. /\ messages \in Seq(Message) /\ result.messages \in Seq(Message)
      /\ turn \in 0..MaxTurns /\ n \in 0..MaxCalls
  BY StreamsTyped DEF AgentTypeOK
<1>2. /\ pc = "call" /\ UNCHANGED <<turn, collected>>
      /\ ToolEnds \/ ToolGoesOn
  BY ToolCallOutcome DEF requestVars
<1>3. /\ index <= n /\ Answered(messages \o Results(turn, index, n)) /\ SummaryPlaced(messages)
  BY <1>2 DEF AgentHistory, AgentIndex, n
<1>. HIDE DEF n
<1>4. index \in 1..n /\ index + 1 \in 1..(n + 1) /\ index \in 1..MaxCalls
  BY <1>1, <1>3, BoundsTyped DEF AgentTypeOK
<1>5. ms \in Seq(Message) /\ ms \o rest = messages \o Results(turn, index, n)
  BY <1>1, <1>4, ResultTaken
<1>6. SummaryPlaced(ms)
  BY <1>1, <1>3, <1>4, SummaryStaysResult
<1>7. rest \in Seq(Message) /\ SummaryPlaced(ms \o rest)
  BY <1>1, <1>4, <1>5, <1>6, ResultsTyped, SummaryStaysResults
<1>8. Answered(ms \o rest)
  BY <1>3, <1>5
<1>9. ms \o rest \in Seq(Message)
  BY <1>5, <1>7, ConcatProperties
<1>10. CASE ToolEnds
  <2>1. messages' = ms \o rest /\ pc' = "done" /\ result'.messages = messages'
    BY <1>10 DEF ToolEnds, Aborted, n
  <2>. QED  BY <1>7, <1>8, <1>9, <2>1 DEF HistoryNext, HistoryTyped, AgentHistory
<1>11. CASE ToolGoesOn
  <2>1. /\ messages' = ms /\ index' = index + 1 /\ UNCHANGED result
        /\ pc' = IF index = n THEN "after" ELSE "call"
    BY <1>11 DEF ToolGoesOn, n
  <2>2. Answered(messages' \o Results(turn', index', collected'.calls))
    <3>1. turn' = turn /\ collected'.calls = n
      BY <1>2 DEF n
    <3>. HIDE DEF ms
    <3>2. messages' \o Results(turn', index', collected'.calls) = ms \o rest
      BY <2>1, <3>1
    <3>. QED  BY <1>8, <3>2
  <2>3. CASE index = n
    <3>1. rest = <<>>
      <4>1. Len(rest) = n - (index + 1) + 1
        BY <1>1, <1>4, ResultsTyped
      <4>2. n - (index + 1) + 1 = 0
        BY <1>4, <2>3
      <4>. HIDE DEF rest
      <4>. QED  BY <1>7, <4>1, <4>2, EmptySeq
    <3>2. ms \o rest = ms
      BY <1>5, <3>1
    <3>. QED  BY <1>1, <1>5, <1>6, <1>8, <2>1, <2>3, <3>2 DEF HistoryNext, HistoryTyped, AgentHistory
  <2>4. CASE index # n
    BY <1>1, <1>5, <1>6, <2>1, <2>2, <2>4 DEF HistoryNext, HistoryTyped, AgentHistory
  <2>. QED  BY <2>3, <2>4
<1>. QED  BY <1>2, <1>10, <1>11

LEMMA HistoryStep ==
    AgentShape /\ AgentHistory /\ [AgentNext]_agentVars => HistoryNext
<1>. SUFFICES ASSUME AgentTypeOK, AgentIndex, AgentHistory, [AgentNext]_agentVars
              PROVE  HistoryNext
  BY DEF AgentShape
<1>1. CASE StartTurn
  <2>1. pc = "turn" /\ (Kept \/ Compacted)
    BY <1>1 DEF StartTurn, Kept, Compacted
  <2>. QED  BY <2>1, HistoryMoves
<1>2. CASE Connect
  <2>1. pc = "connect" /\ (Kept \/ Compacted)
    BY <1>2 DEF Connect, Recover, ReturnError, Return, Kept, Compacted
  <2>. QED  BY <2>1, HistoryMoves
<1>3. CASE Reconnect
  <2>1. pc = "reconnect" /\ Kept
    BY <1>3 DEF Reconnect, ReturnError, Return, Kept
  <2>. QED  BY <2>1, HistoryMoves
<1>4. CASE Collect
  <2>1. pc = "collect" /\ (Kept \/ Compacted)
    BY <1>4 DEF Collect, Recover, ReturnError, Return, Kept, Compacted
  <2>. QED  BY <2>1, HistoryMoves
<1>5. CASE Reissue
  <2>1. pc = "reissue" /\ Kept
    BY <1>5 DEF Reissue, ReturnError, Return, Kept
  <2>. QED  BY <2>1, HistoryMoves
<1>6. CASE CheckContext
  <2>1. pc = "check" /\ Kept
    BY <1>6 DEF CheckContext, ReturnError, Return, Kept
  <2>. QED  BY <2>1, HistoryMoves
<1>7. CASE StallRetry
  <2>1. pc = "settle" /\ Kept
    BY <1>7 DEF StallRetry, ReturnError, Return, Kept
  <2>. QED  BY <2>1, HistoryMoves
<1>8. CASE Settle
  <2>1. pc = "settle" /\ (Kept \/ Compacted)
    BY <1>8 DEF Settle, Recover, ReturnError, Return, Kept, Compacted
  <2>. QED  BY <2>1, HistoryMoves
<1>9. CASE ReplyDropped
  <2>1. pc = "commit" /\ Replied
    BY <1>9 DEF ReplyDropped, NextTurn, Replied
  <2>. QED  BY <2>1, HistoryMoves
<1>10. CASE ReplyEmpty
  <2>1. pc = "commit" /\ Replied
    BY <1>10 DEF ReplyEmpty, NextTurn, Answer, Return, Replied
  <2>. QED  BY <2>1, HistoryMoves
<1>11. CASE GateNudges
  <2>1. pc = "commit" /\ Replied
    BY <1>11 DEF GateNudges, Answering, NextTurn, Replied
  <2>. QED  BY <2>1, HistoryMoves
<1>12. CASE GateIncomplete
  <2>1. pc = "commit" /\ Replied
    BY <1>12 DEF GateIncomplete, Answering, Answer, Return, Replied
  <2>. QED  BY <2>1, HistoryMoves
<1>13. CASE GateDemandsCheck
  <2>1. pc = "commit" /\ Replied
    BY <1>13 DEF GateDemandsCheck, Answering, NextTurn, Replied
  <2>. QED  BY <2>1, HistoryMoves
<1>14. CASE FinalAnswer
  <2>1. pc = "commit" /\ Replied
    BY <1>14 DEF FinalAnswer, Answering, Answer, Return, Replied
  <2>. QED  BY <2>1, HistoryMoves
<1>15. CASE BeginBatch
  BY <1>15, BatchBegins
<1>16. CASE ToolCall
  BY <1>16, BatchGoesOn
<1>17. CASE EndBatch
  <2>1. PICK k \in Due..Max({Due, MaxNotes}) : NextTurn(messages \o Users(k))
    BY <1>17 DEF EndBatch
  <2>2. k \in Nat
    <3>1. Due \in Nat
      BY DEF Due
    <3>. HIDE DEF Due
    <3>. QED  BY <3>1
  <2>3. pc = "after" /\ pc' = "turn" /\ messages' = messages \o Users(k) /\ UNCHANGED result
    BY <1>17, <2>1 DEF EndBatch, NextTurn
  <2>4. messages \in Seq(Message) /\ Answered(messages) /\ SummaryPlaced(messages)
    BY <2>3 DEF AgentTypeOK, AgentHistory
  <2>5. messages' \in Seq(Message) /\ Answered(messages') /\ SummaryPlaced(messages')
    BY <2>2, <2>3, <2>4, AnsweredTold, SummaryStaysTold
  <2>. QED  BY <2>3, <2>5 DEF AgentTypeOK, HistoryNext, HistoryTyped, AgentHistory
<1>18. CASE Ceiling
  <2>. DEFINE asked == messages \o Users(1)
              final == Append(asked, Reply(turn + 1, 0))
  <2>1. pc = "ceiling" /\ pc' = "done" /\ UNCHANGED messages
        /\ (result'.messages = messages \/ result'.messages = final)
    BY <1>18 DEF Ceiling, ReturnError, Return
  <2>2. messages \in Seq(Message) /\ Answered(messages) /\ SummaryPlaced(messages)
    BY <2>1 DEF AgentTypeOK, AgentHistory
  <2>3. asked \in Seq(Message) /\ Answered(asked)
    BY <2>2, AnsweredTold
  <2>4. turn + 1 \in 0..(MaxTurns + 1)
    BY BoundsTyped DEF AgentTypeOK
  <2>. HIDE DEF asked
  <2>5. final \in Seq(Message) /\ Answered(final)
    BY <2>3, <2>4, AnsweredSaid
  <2>. QED  BY <2>1, <2>2, <2>5 DEF HistoryNext, HistoryTyped, AgentHistory
<1>19. CASE Cancel
  BY <1>19 DEF Cancel, requestVars, batchVars, AgentTypeOK, HistoryNext, HistoryTyped, AgentHistory
<1>20. CASE UNCHANGED agentVars
  BY <1>20 DEF agentVars, requestVars, batchVars, AgentTypeOK, HistoryNext, HistoryTyped, AgentHistory
<1>. QED  BY <1>1, <1>2, <1>3, <1>4, <1>5, <1>6, <1>7, <1>8, <1>9, <1>10, <1>11, <1>12,
             <1>13, <1>14, <1>15, <1>16, <1>17, <1>18, <1>19, <1>20 DEF AgentNext, LoopStep

-----------------------------------------------------------------------------
(* The prose of a turn, and the gate *)

\* The first prose of a turn, or none yet.
LEMMA FirstProse ==
    ASSUME NEW s, Forwarded(s), prose = 0, ~visible
    PROVE  prose' <= 1 /\ (~visible' => prose' = 0)
<1>1. CASE s.text = "none"
  <2>1. prose' = 0 + 0
    BY <1>1 DEF Forwarded
  <2>. QED  BY <2>1
<1>2. CASE s.text # "none"
  <2>1. prose' = 0 + 1 /\ visible'
    BY <1>2 DEF Forwarded
  <2>. QED  BY <2>1
<1>. QED  BY <1>1, <1>2

LEMMA ProseStep ==
    AgentTypeOK /\ AgentProse /\ [AgentNext]_agentVars => AgentProse'
<1>. SUFFICES ASSUME visible \in BOOLEAN, prose \in Nat, AgentProse, [AgentNext]_agentVars
              PROVE  AgentProse'
  BY DEF AgentTypeOK
<1>. USE DEF AgentProse
<1>1. CASE StartTurn
  BY <1>1 DEF StartTurn
<1>2. CASE Connect
  BY <1>2 DEF Connect, Recover, ReturnError, Return, requestVars
<1>3. CASE Reconnect
  BY <1>3 DEF Reconnect, ReturnError, Return, requestVars
<1>4. CASE Collect
  <2>1. pc' # "connect" /\ pc' # "reconnect" /\ pc' # "collect"
    BY <1>4 DEF Collect, Recover, ReturnError, Return
  <2>2. prose = 0 /\ ~visible
    BY <1>4 DEF Collect
  <2>3. PICK s \in Streams : Forwarded(s)
    BY <1>4 DEF Collect
  <2>. QED  BY <2>1, <2>2, <2>3, FirstProse
<1>5. CASE Reissue
  BY <1>5 DEF Reissue, ReturnError, Return
<1>6. CASE CheckContext
  BY <1>6 DEF CheckContext, ReturnError, Return, requestVars
<1>7. CASE StallRetry
  <2>1. prose = 0 /\ ~visible
    BY <1>7 DEF StallRetry, MayRetry
  <2>2. pc' # "connect" /\ pc' # "reconnect" /\ pc' # "collect"
    BY <1>7 DEF StallRetry, ReturnError, Return
  <2>3. (\E s \in Streams : Forwarded(s)) \/ UNCHANGED <<visible, prose>>
    BY <1>7 DEF StallRetry
  <2>4. CASE UNCHANGED <<visible, prose>>
    BY <2>1, <2>2, <2>4
  <2>5. CASE \E s \in Streams : Forwarded(s)
    BY <2>1, <2>2, <2>5, FirstProse
  <2>. QED  BY <2>3, <2>4, <2>5
<1>8. CASE Settle
  BY <1>8 DEF Settle, Recover, ReturnError, Return
<1>9. CASE ReplyDropped
  BY <1>9 DEF ReplyDropped, NextTurn, requestVars
<1>10. CASE ReplyEmpty
  BY <1>10 DEF ReplyEmpty, NextTurn, Answer, Return, requestVars
<1>11. CASE GateNudges
  BY <1>11 DEF GateNudges, Answering, NextTurn, requestVars
<1>12. CASE GateIncomplete
  BY <1>12 DEF GateIncomplete, Answering, Answer, Return, requestVars
<1>13. CASE GateDemandsCheck
  BY <1>13 DEF GateDemandsCheck, Answering, NextTurn, requestVars
<1>14. CASE FinalAnswer
  BY <1>14 DEF FinalAnswer, Answering, Answer, Return, requestVars
<1>15. CASE BeginBatch
  BY <1>15 DEF BeginBatch, requestVars
<1>16. CASE ToolCall
  <2>1. UNCHANGED <<visible, prose>>
    BY <1>16, ToolCallOutcome DEF requestVars
  <2>2. pc' = "done" \/ pc' = "after" \/ pc' = "call"
    BY <1>16, ToolCallOutcome DEF ToolEnds, ToolGoesOn
  <2>. QED  BY <2>1, <2>2
<1>17. CASE EndBatch
  BY <1>17 DEF EndBatch, NextTurn, requestVars
<1>18. CASE Ceiling
  BY <1>18 DEF Ceiling, ReturnError, Return, requestVars
<1>19. CASE Cancel
  BY <1>19 DEF Cancel, requestVars
<1>20. CASE UNCHANGED agentVars
  BY <1>20 DEF agentVars, requestVars
<1>. QED  BY <1>1, <1>2, <1>3, <1>4, <1>5, <1>6, <1>7, <1>8, <1>9, <1>10, <1>11, <1>12,
             <1>13, <1>14, <1>15, <1>16, <1>17, <1>18, <1>19, <1>20 DEF AgentNext, LoopStep

\* Most actions end no run with an answer, and mark none incomplete.
NoVerdict == pc' = "done" => result'.kind # "answer" /\ ~result'.incomplete

LEMMA GateStep ==
    AgentTypeOK /\ GateHolds /\ [AgentNext]_agentVars => GateHolds'
<1>. SUFFICES ASSUME AgentTypeOK, GateHolds, [AgentNext]_agentVars PROVE GateHolds'
  OBVIOUS
<1>0. ASSUME NoVerdict PROVE GateHolds'
  BY <1>0 DEF NoVerdict, GateHolds
<1>1. CASE StartTurn
  BY <1>0, <1>1 DEF StartTurn, NoVerdict
<1>2. CASE Connect
  BY <1>0, <1>2 DEF Connect, Recover, ReturnError, Return, NoVerdict
<1>3. CASE Reconnect
  BY <1>0, <1>3 DEF Reconnect, ReturnError, Return, NoVerdict
<1>4. CASE Collect
  BY <1>0, <1>4 DEF Collect, Recover, ReturnError, Return, NoVerdict
<1>5. CASE Reissue
  BY <1>0, <1>5 DEF Reissue, ReturnError, Return, NoVerdict
<1>6. CASE CheckContext
  BY <1>0, <1>6 DEF CheckContext, ReturnError, Return, NoVerdict
<1>7. CASE StallRetry
  BY <1>0, <1>7 DEF StallRetry, ReturnError, Return, NoVerdict
<1>8. CASE Settle
  BY <1>0, <1>8 DEF Settle, Recover, ReturnError, Return, NoVerdict
<1>9. CASE ReplyDropped
  BY <1>0, <1>9 DEF ReplyDropped, NextTurn, NoVerdict
<1>10. CASE ReplyEmpty
  BY <1>0, <1>10 DEF ReplyEmpty, NextTurn, Answer, Return, NoVerdict
<1>11. CASE GateNudges
  BY <1>0, <1>11 DEF GateNudges, Answering, NextTurn, NoVerdict
<1>12. CASE GateIncomplete
  <2>1. /\ result'.kind = "answer" /\ result'.incomplete
        /\ UNCHANGED <<options, collected, nudges, planPending>>
        /\ GateFails
    BY <1>12 DEF GateIncomplete, Answering, Answer, Return, requestVars
  <2>2. options.gate
    BY <2>1 DEF GateFails
  <2>3. CASE collected.text = "cue"
    <3>1. ~MayNudge
      BY <2>1, <2>3 DEF GateFails, Admits
    <3>2. ~(nudges < MaxNudges)
      BY <2>2, <2>3, <3>1 DEF MayNudge, Admits, Unfinished
    <3>3. nudges = MaxNudges
      <4>1. nudges \in 0..MaxNudges
        BY DEF AgentTypeOK
      <4>. QED  BY <3>2, <4>1, BoundsTyped
    <3>. QED  BY <2>1, <2>2, <2>3, <3>3 DEF GateHolds
  <2>4. CASE collected.text = "admit"
    BY <2>1, <2>2, <2>4 DEF GateHolds
  <2>. QED  BY <2>1, <2>3, <2>4 DEF GateFails, Admits
<1>13. CASE GateDemandsCheck
  BY <1>0, <1>13 DEF GateDemandsCheck, Answering, NextTurn, NoVerdict
<1>14. CASE FinalAnswer
  <2>1. /\ result'.kind = "answer" /\ ~result'.incomplete
        /\ UNCHANGED <<options, collected, accepted>>
        /\ collected.text \notin Blank /\ ~MayNudge /\ ~GateFails /\ ~MayAccept
    BY <1>14 DEF FinalAnswer, Answering, Answer, Return, requestVars
  <2>2. collected.text \in Texts
    BY StreamsTyped DEF AgentTypeOK
  <2>3. options.gate => collected.text # "admit" /\ collected.text # "cue"
    BY <2>1 DEF GateFails, Admits
  <2>4. options.gate => collected.text = "plain"
    BY <2>1, <2>2, <2>3 DEF Texts, Blank
  <2>5. options.gate /\ options.selfCorrect => accepted
    BY <2>1 DEF MayAccept
  <2>. QED  BY <2>1, <2>4, <2>5 DEF GateHolds
<1>15. CASE BeginBatch
  BY <1>0, <1>15 DEF BeginBatch, NoVerdict
<1>16. CASE ToolCall
  BY <1>0, <1>16, ToolCallOutcome DEF ToolEnds, ToolGoesOn, NoVerdict
<1>17. CASE EndBatch
  BY <1>0, <1>17 DEF EndBatch, NextTurn, NoVerdict
<1>18. CASE Ceiling
  BY <1>18 DEF Ceiling, ReturnError, Return, GateHolds
<1>19. CASE Cancel
  BY <1>19 DEF Cancel, requestVars, guardVars, GateHolds
<1>20. CASE UNCHANGED agentVars
  BY <1>20 DEF agentVars, requestVars, guardVars, GateHolds
<1>. QED  BY <1>1, <1>2, <1>3, <1>4, <1>5, <1>6, <1>7, <1>8, <1>9, <1>10, <1>11, <1>12,
             <1>13, <1>14, <1>15, <1>16, <1>17, <1>18, <1>19, <1>20 DEF AgentNext, LoopStep

-----------------------------------------------------------------------------
(* The theorems *)

AgentInv == AgentShape /\ AgentHistory /\ AgentProse

LEMMA AgentInitEstablishes == AgentInit => AgentInv /\ GateHolds
<1>. SUFFICES ASSUME AgentInit PROVE AgentInv /\ GateHolds
  OBVIOUS
<1>1. messages = <<System, User>> /\ result.messages = <<>> /\ pc = "turn"
  BY DEF AgentInit
<1>2. /\ messages \in Seq(Message) /\ result.messages \in Seq(Message)
      /\ Len(messages) = 2 /\ messages[1] = System /\ messages[2] = User
  BY <1>1, MessagesTyped
<1>3. \A k \in 1..Len(messages) : ~IsReply(messages[k]) /\ ~IsResult(messages[k]) /\ messages[k] # Summary
  <2>1. System # Summary
    BY MessageShapes
  <2>2. \A k \in 1..Len(messages) : messages[k] = System \/ messages[k] = User
    BY <1>2
  <2>. QED  BY <2>1, <2>2, MessageShapes
<1>4. Answered(messages) /\ SummaryPlaced(messages)
  BY <1>2, <1>3, AnsweredMeans DEF RepliesAnswered, ResultsCalled, SummaryPlaced
<1>5. AgentHistory
  BY <1>1, <1>4 DEF AgentHistory
<1>6. ControlTyped
  BY StreamsTyped DEF AgentInit, ControlTyped
<1>7. NumbersTyped /\ AgentCounters /\ AgentIndex /\ AgentProse
  BY BoundsTyped DEF AgentInit, NumbersTyped, AgentCounters, AgentIndex, AgentProse
<1>8. GateHolds
  BY <1>1 DEF GateHolds
<1>. QED  BY <1>2, <1>5, <1>6, <1>7, <1>8, ShapeParts DEF HistoryTyped, AgentShape, AgentInv

LEMMA AgentStepPreserves == AgentInv /\ [AgentNext]_agentVars => AgentInv'
<1>. SUFFICES ASSUME AgentInv, [AgentNext]_agentVars PROVE AgentInv'
  OBVIOUS
<1>1. ControlTyped' /\ NumbersTyped' /\ AgentCounters' /\ AgentIndex'
  BY ShapeParts, ControlStep, NumbersStep, IndexStep DEF AgentInv, AgentShape
<1>2. HistoryTyped' /\ AgentHistory'
  BY HistoryStep DEF AgentInv, HistoryNext
<1>3. AgentProse'
  BY ProseStep DEF AgentInv, AgentShape
<1>. QED  BY <1>1, <1>2, <1>3, ShapeParts DEF AgentInv, AgentShape

\* The loop's variables have their types, and the counters stay below the limits
\* that end the run.
THEOREM AgentInvariant == AgentSpec => []AgentInv
<1>1. AgentInit => AgentInv
  BY AgentInitEstablishes
<1>. QED  BY <1>1, AgentStepPreserves, PTL DEF AgentSpec

\* Every history the loop sends or returns can be replayed to a strict provider:
\* each call of a reply is followed by its result, whatever aborted, stopped or
\* compacted in between, and a summary is followed by a reply.
THEOREM HistoryIsValid == AgentSpec => []TranscriptValid
<1>1. AgentInv => TranscriptValid
  <2>. SUFFICES ASSUME AgentInv PROVE TranscriptValid
    OBVIOUS
  <2>1. AgentTypeOK /\ late <= 1
    BY DEF AgentInv, AgentShape, AgentCounters
  <2>2. DOMAIN messages = 1..Len(messages)
    BY <2>1 DEF AgentTypeOK
  <2>3. SummaryAlternates
    BY <2>2 DEF AgentInv, AgentHistory, SummaryPlaced, SummaryAlternates, IsReply
  <2>4. /\ pc \in {"connect", "reconnect", "collect", "reissue", "settle"} => Answered(messages)
        /\ pc = "done" => Answered(result.messages)
    BY DEF AgentInv, AgentHistory
  <2>. QED  BY <2>1, <2>3, <2>4 DEF TranscriptValid
<1>. QED  BY <1>1, AgentInvariant, PTL

\* Of all the streams of a turn, one at most shows its prose to the user.
THEOREM ProseIsShownOnce == AgentSpec => []ProseOnce
<1>1. AgentInv => ProseOnce
  BY DEF AgentInv, AgentProse, ProseOnce
<1>. QED  BY <1>1, AgentInvariant, PTL

\* Under the completion gate an answer counts as a success only if it is plain
\* and the acceptance check came first, and as incomplete only for its reasons.
THEOREM GateIsKept == AgentSpec => []GateHolds
<1>1. AgentInit => GateHolds
  BY AgentInitEstablishes
<1>2. AgentInv /\ GateHolds /\ [AgentNext]_agentVars => GateHolds'
  BY GateStep DEF AgentInv, AgentShape
<1>. QED  BY <1>1, <1>2, AgentInvariant, PTL DEF AgentSpec

-----------------------------------------------------------------------------
(***************************************************************************)
(* The background tasks, for any number of calls of Kill: the mark         *)
(* of a kill belongs to one call, which signals the child alone, and a     *)
(* stop is never taken back.  A call gets past killTarget only once the    *)
(* pid is recorded, which ends the launch: the launch cannot overwrite a   *)
(* mark, the child's exit does not, and no second call can make one.       *)
(***************************************************************************)

\* The calls whose mark the entry bears.
Claims == {k \in Killers : kpc[k] \in {"signal", "restore", "stopped"}}

\* The launch is over once a pid is recorded, and before a call goes on.
LaunchIsOver ==
    /\ mem.pid => launch = "end"
    /\ \A k \in Killers : kpc[k] \notin {"idle", "refused"} => launch = "end"

\* At most one call has the mark, and the entry bears it.
OneClaim ==
    /\ Claims # {} => mem.status = "killed"
    /\ \A j, k \in Claims : j = k

BackgroundInv == BackgroundTypeOK /\ LaunchIsOver /\ OneClaim /\ FailedKillUndone

\* What an update may make of an entry.
Sane(t) == t \in Tasks /\ (t.exit = "none" <=> t.status \in {"none", "running"})

LEMMA EndedTask ==
  ASSUME NEW t \in Tasks,
         NEW s \in {"none", "running", "completed", "error", "killed"},
         NEW e \in {"none", "0", "1", "-1"},
         e = "none" <=> s \in {"none", "running"}
  PROVE  Sane(Ended(t, s, e)) /\ Ended(t, s, e).status = s /\ Ended(t, s, e).pid = t.pid
  BY DEF Sane, Ended, Tasks

LEMMA NewTasks ==
  /\ Sane(Running) /\ Running.status = "running" /\ ~Running.pid
  /\ Sane(Unregistered) /\ Unregistered.status = "none" /\ ~Unregistered.pid
  BY DEF Sane, Running, Unregistered, Tasks

\* The steps of the launch: no call has a mark while the launch goes on.
LEMMA LaunchPreserves ==
  ASSUME BackgroundInv, LaunchStep
  PROVE  BackgroundInv'
<1>1. /\ launch # "end"
      /\ UNCHANGED <<kpc, up, reader, usurped, faults>>
      /\ proc' \in {"none", "alive", "exited", "reported"}
      /\ launch' \in {"register", "start", "setpid", "terminate", "mark", "end"}
  BY DEF BackgroundInv, BackgroundTypeOK, LaunchStep, LaunchGoto, Register, Start, StartFails,
         SetPID, Abort, AbortMark, Terminated, TerminateFails
<1>2. /\ Claims = {} /\ Claims' = {} /\ ~mem.pid
      /\ \A k \in Killers : kpc[k] \in {"idle", "refused"}
  BY <1>1 DEF BackgroundInv, LaunchIsOver, Claims
<1>3. /\ mem \in Tasks /\ disk \in Tasks /\ Sane(mem) /\ Sane(disk)
      /\ "disk" \notin faults => mem.status # "killed"
  BY <1>2 DEF BackgroundInv, BackgroundTypeOK, FailedKillUndone, Claims, Sane
<1>4. /\ Sane(mem') /\ Sane(disk')
      /\ mem'.pid => launch' = "end"
      /\ mem'.status = "killed" => mem.status = "killed"
  <2>1. CASE Register
    BY <1>2, <1>3, <2>1, NewTasks DEF Register, LaunchGoto, Store, StoreFails
  <2>2. CASE Start \/ Abort
    BY <1>2, <1>3, <2>2 DEF Start, Abort
  <2>3. CASE StartFails \/ AbortMark
    <3>1. Sane(Ended(mem, "error", "-1")) /\ Ended(mem, "error", "-1").status = "error"
      BY <1>3, EndedTask
    <3>. QED  BY <1>2, <1>3, <2>3, <3>1 DEF StartFails, AbortMark, LaunchGoto, Store, StoreFails
  <2>4. CASE SetPID
    <3>1. /\ Sane([mem EXCEPT !.pid = TRUE])
          /\ [mem EXCEPT !.pid = TRUE].status = mem.status
      BY <1>3 DEF Sane, Tasks
    <3>. QED  BY <1>2, <1>3, <2>4, <3>1 DEF SetPID, LaunchGoto, Store, StoreFails
  <2>. QED  BY <2>1, <2>2, <2>3, <2>4 DEF LaunchStep
<1>5. BackgroundTypeOK'
  BY <1>1, <1>4 DEF BackgroundInv, BackgroundTypeOK, Sane
<1>6. LaunchIsOver' /\ OneClaim'
  BY <1>1, <1>2, <1>4 DEF LaunchIsOver, OneClaim
<1>7. FailedKillUndone'
  BY <1>1, <1>3, <1>4 DEF FailedKillUndone
<1>. QED  BY <1>5, <1>6, <1>7 DEF BackgroundInv

\* The exit of the child is recorded of a running task, which no call has marked.
LEMMA ExitPreserves ==
  ASSUME BackgroundInv, MarkExited
  PROVE  BackgroundInv'
<1>1. mem \in Tasks /\ Sane(mem) /\ Sane(disk)
  BY DEF BackgroundInv, BackgroundTypeOK, Sane
<1>2. /\ UNCHANGED <<launch, kpc, up, reader, usurped, faults>>
      /\ proc' = "reported"
  BY DEF MarkExited
<1>3. CASE UNCHANGED <<mem, disk>>
  BY <1>2, <1>3 DEF BackgroundInv, BackgroundTypeOK, LaunchIsOver, OneClaim, Claims,
                    FailedKillUndone
<1>4. ASSUME mem.status = "running", NEW s \in {"completed", "error"}, NEW e \in {"0", "1"},
             Store(Ended(mem, s, e))
      PROVE  BackgroundInv'
  <2>1. Sane(mem') /\ Sane(disk') /\ mem'.status = s /\ mem'.pid = mem.pid
    BY <1>1, <1>4, EndedTask DEF Store
  <2>2. Claims = {} /\ Claims' = {}
    BY <1>2, <1>4 DEF BackgroundInv, OneClaim, Claims
  <2>3. BackgroundTypeOK'
    BY <1>2, <2>1 DEF BackgroundInv, BackgroundTypeOK, Sane
  <2>4. LaunchIsOver' /\ OneClaim' /\ FailedKillUndone'
    BY <1>2, <2>1, <2>2 DEF BackgroundInv, LaunchIsOver, OneClaim, FailedKillUndone
  <2>. QED  BY <2>3, <2>4 DEF BackgroundInv
<1>. QED  BY <1>3, <1>4 DEF MarkExited, StoreFails

\* The steps of a call: it marks a running task, and gives a mark back or keeps it.
LEMMA KillPreserves ==
  ASSUME BackgroundInv, NEW k \in Killers, KillStep(k)
  PROVE  BackgroundInv'
<1>1. /\ mem \in Tasks /\ Sane(mem) /\ Sane(disk)
      /\ kpc \in [Killers -> {"idle", "check", "mark", "signal", "restore", "stopped", "refused"}]
  BY DEF BackgroundInv, BackgroundTypeOK, Sane
<1>2. /\ UNCHANGED <<launch, up, reader, usurped, faults>>
      /\ proc' \in {"none", "alive", "exited", "reported"}
      /\ kpc' \in [Killers -> {"idle", "check", "mark", "signal", "restore", "stopped", "refused"}]
      /\ \A j \in Killers \ {k} : kpc'[j] = kpc[j]
  BY <1>1 DEF BackgroundInv, BackgroundTypeOK, KillStep, KillTarget, KillCheck, KillMark,
              KillSignal, KillRestore, Goto, Terminated, TerminateFails
<1>3. CASE KillTarget(k) \/ KillCheck(k)
  <2>1. /\ UNCHANGED <<mem, disk>>
        /\ kpc[k] \in {"idle", "check"} /\ kpc'[k] \in {"check", "mark", "refused"}
        /\ kpc[k] = "idle" => kpc'[k] = "refused" \/ mem.pid
    BY <1>1, <1>3 DEF KillTarget, KillCheck, Goto
  <2>2. Claims' = Claims
    BY <1>2, <2>1 DEF Claims
  <2>3. BackgroundTypeOK' /\ LaunchIsOver'
    BY <1>2, <2>1 DEF BackgroundInv, BackgroundTypeOK, LaunchIsOver
  <2>4. OneClaim' /\ FailedKillUndone'
    BY <1>2, <2>1, <2>2 DEF BackgroundInv, OneClaim, FailedKillUndone, Claims
  <2>. QED  BY <2>3, <2>4 DEF BackgroundInv
<1>4. CASE KillMark(k)
  <2>1. kpc[k] = "mark" /\ launch = "end"
    BY <1>4 DEF BackgroundInv, LaunchIsOver, KillMark, Goto
  <2>2. CASE kpc'[k] = "refused" /\ UNCHANGED <<mem, disk>>
    <3>1. Claims' = Claims
      BY <1>2, <2>1, <2>2 DEF Claims
    <3>2. BackgroundTypeOK' /\ LaunchIsOver'
      BY <1>2, <2>2 DEF BackgroundInv, BackgroundTypeOK, LaunchIsOver
    <3>3. OneClaim' /\ FailedKillUndone'
      BY <1>2, <2>2, <3>1 DEF BackgroundInv, OneClaim, FailedKillUndone, Claims
    <3>. QED  BY <3>2, <3>3 DEF BackgroundInv
  <2>3. CASE /\ mem.status = "running" /\ kpc'[k] = "signal"
             /\ Store(Ended(mem, "killed", "-1"))
    <3>1. Sane(mem') /\ Sane(disk') /\ mem'.status = "killed"
      BY <1>1, <2>3, EndedTask DEF Store
    <3>2. Claims = {}
      BY <2>3 DEF BackgroundInv, OneClaim
    <3>3. Claims' = {k}
      BY <1>2, <2>3, <3>2 DEF Claims
    <3>4. BackgroundTypeOK' /\ LaunchIsOver'
      BY <1>2, <2>1, <3>1 DEF BackgroundInv, BackgroundTypeOK, LaunchIsOver, Sane
    <3>5. OneClaim' /\ FailedKillUndone'
      BY <2>3, <3>1, <3>3 DEF OneClaim, FailedKillUndone
    <3>. QED  BY <3>4, <3>5 DEF BackgroundInv
  <2>4. \/ kpc'[k] = "refused" /\ UNCHANGED <<mem, disk>>
        \/ /\ mem.status = "running" /\ kpc'[k] = "signal"
           /\ Store(Ended(mem, "killed", "-1"))
    BY <1>1, <1>4 DEF KillMark, Goto, StoreFails
  <2>. QED  BY <2>2, <2>3, <2>4
<1>5. CASE KillSignal(k)
  <2>1. /\ UNCHANGED <<mem, disk>>
        /\ kpc[k] = "signal" /\ kpc'[k] \in {"stopped", "restore"}
    BY <1>1, <1>5 DEF KillSignal, Goto
  <2>2. Claims' = Claims
    BY <1>2, <2>1 DEF Claims
  <2>3. BackgroundTypeOK' /\ LaunchIsOver'
    BY <1>2, <2>1 DEF BackgroundInv, BackgroundTypeOK, LaunchIsOver
  <2>4. OneClaim' /\ FailedKillUndone'
    BY <1>2, <2>1, <2>2 DEF BackgroundInv, OneClaim, FailedKillUndone, Claims
  <2>. QED  BY <2>3, <2>4 DEF BackgroundInv
<1>6. CASE KillRestore(k)
  <2>1. /\ kpc[k] = "restore" /\ kpc'[k] = "refused" /\ mem.status = "killed"
        /\ \/ Store(Ended(mem, "running", "none"))
           \/ "disk" \in faults /\ UNCHANGED <<mem, disk>>
    BY <1>1, <1>6 DEF BackgroundInv, OneClaim, Claims, KillRestore, Goto, StoreFails
  <2>2. Claims' = {}
    BY <1>2, <2>1 DEF BackgroundInv, OneClaim, Claims
  <2>3. /\ Sane(mem') /\ Sane(disk') /\ mem'.pid = mem.pid
        /\ mem'.status = "running" \/ "disk" \in faults
    BY <1>1, <2>1, EndedTask DEF Store
  <2>4. BackgroundTypeOK' /\ LaunchIsOver'
    BY <1>2, <2>1, <2>3 DEF BackgroundInv, BackgroundTypeOK, LaunchIsOver, Sane
  <2>5. OneClaim' /\ FailedKillUndone'
    BY <1>2, <2>2, <2>3 DEF OneClaim, FailedKillUndone
  <2>. QED  BY <2>4, <2>5 DEF BackgroundInv
<1>. QED  BY <1>3, <1>4, <1>5, <1>6 DEF KillStep

\* The other process touches the file alone.
LEMMA OthersPreserve ==
  ASSUME BackgroundInv, ChildExits \/ Crash \/ LoadRead \/ LoadRepair
  PROVE  BackgroundInv'
<1>1. UNCHANGED <<mem, launch, kpc, faults>>
  BY DEF ChildExits, Crash, LoadRead, LoadRepair
<1>2. BackgroundTypeOK'
  <2>1. CASE ChildExits \/ Crash
    BY <2>1 DEF BackgroundInv, BackgroundTypeOK, ChildExits, Crash
  <2>2. CASE LoadRead
    BY <2>2 DEF BackgroundInv, BackgroundTypeOK, LoadRead
  <2>3. CASE LoadRepair
    <3>. DEFINE t == [status |-> "error", pid |-> FALSE, exit |-> "-1"]
    <3>1. Sane(t)
      BY DEF Sane, Tasks
    <3>2. /\ reader' = [at |-> "loaded", task |-> t]
          /\ disk' = t \/ disk' = disk
          /\ usurped' = (usurped \/ up)
          /\ UNCHANGED <<mem, proc, launch, kpc, up, faults>>
      BY <2>3 DEF LoadRepair
    <3>. HIDE DEF t
    <3>3. usurped' \in BOOLEAN
      BY <3>2
    <3>. QED  BY <3>1, <3>2, <3>3 DEF BackgroundInv, BackgroundTypeOK, Sane
  <2>. QED  BY <2>1, <2>2, <2>3
<1>3. LaunchIsOver' /\ OneClaim' /\ FailedKillUndone'
  BY <1>1 DEF BackgroundInv, LaunchIsOver, OneClaim, Claims, FailedKillUndone
<1>. QED  BY <1>2, <1>3 DEF BackgroundInv

\* The inductive invariant.
THEOREM BackgroundInvariant == BackgroundSpec => []BackgroundInv
<1>1. BackgroundInit => BackgroundInv
  <2>. SUFFICES ASSUME BackgroundInit PROVE BackgroundInv
    OBVIOUS
  <2>1. BackgroundTypeOK
    BY NewTasks DEF BackgroundInit, BackgroundTypeOK, Sane
  <2>2. LaunchIsOver /\ OneClaim /\ FailedKillUndone
    BY NewTasks DEF BackgroundInit, LaunchIsOver, OneClaim, Claims, FailedKillUndone
  <2>. QED  BY <2>1, <2>2 DEF BackgroundInv
<1>2. ASSUME BackgroundInv, [BackgroundNext]_backgroundVars PROVE BackgroundInv'
  <2>1. CASE UNCHANGED backgroundVars
    BY <1>2, <2>1 DEF backgroundVars, BackgroundInv, BackgroundTypeOK, LaunchIsOver, OneClaim,
                      Claims, FailedKillUndone
  <2>. QED  BY <1>2, <2>1, LaunchPreserves, ExitPreserves, KillPreserves, OthersPreserve
            DEF BackgroundNext
<1>. QED  BY <1>1, <1>2, PTL DEF BackgroundSpec

\* For any number of calls of Kill: the mark is claimed by one of them, and taken back
\* by it when the kill fails and the disk is sound (markKilledIfStillRunning,
\* restoreRunningAfterFailedKill).
THEOREM KillClaimed == BackgroundSpec => []KillIsClaimed
<1>1. BackgroundInv => KillIsClaimed
  BY DEF BackgroundInv, OneClaim, Claims, KillIsClaimed, SignalIsClaimed
<1>. QED  BY <1>1, BackgroundInvariant, PTL

\* For any number of them: a task whose child was stopped stays killed (Kill).
THEOREM StopIsFinal == BackgroundSpec => []StopSticks
<1>1. BackgroundInv => StopSticks
  BY DEF BackgroundInv, OneClaim, Claims, StopSticks
<1>. QED  BY <1>1, BackgroundInvariant, PTL
=============================================================================
