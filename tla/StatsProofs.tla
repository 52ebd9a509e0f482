---------------------------- MODULE StatsProofs -----------------------------
(***************************************************************************)
(* Proofs about module Stats, for every trace, number of bidders and       *)
(* blocks, and capacity of the channels: nothing that is sent is lost, no  *)
(* block is fed twice, and the figures of a slot balance.                  *)
(***************************************************************************)
EXTENDS Stats, DataLemmas, SequenceTheorems

\* What is in a queue of anything.
LEMMA PutIn ==
  ASSUME NEW S, NEW q \in Seq(S), NEW x
  PROVE  In(Append(q, x)) = In(q) \cup {x}
<1>1. /\ DOMAIN Append(q, x) = 1 .. Len(q) + 1 /\ DOMAIN q = 1 .. Len(q)
      /\ Len(q) \in Nat
      /\ \A j \in 1 .. Len(q) : Append(q, x)[j] = q[j]
      /\ Append(q, x)[Len(q) + 1] = x
  OBVIOUS
<1>2. In(q) \cup {x} \subseteq In(Append(q, x))
  BY <1>1 DEF In
<1>3. ASSUME NEW j \in 1 .. Len(q) + 1 PROVE Append(q, x)[j] \in In(q) \cup {x}
  <2>1. j \in 1 .. Len(q) \/ j = Len(q) + 1
    BY <1>1
  <2> QED
    BY <1>1, <2>1 DEF In
<1> QED
  BY <1>1, <1>2, <1>3 DEF In

LEMMA TakeOut ==
  ASSUME NEW S, NEW q \in Seq(S), q # <<>>
  PROVE  Tail(q) \in Seq(S) /\ Head(q) \in S /\ In(q) = {Head(q)} \cup In(Tail(q))
<1>1. /\ Tail(q) \in Seq(S) /\ Head(q) \in S /\ Head(q) = q[1]
      /\ DOMAIN Tail(q) = 1 .. Len(q) - 1 /\ DOMAIN q = 1 .. Len(q)
      /\ Len(q) \in Nat \ {0}
  OBVIOUS
<1>2. \A j \in 1 .. Len(q) - 1 : Tail(q)[j] = q[j + 1] /\ j + 1 \in 1 .. Len(q)
  BY <1>1
<1>3. {Head(q)} \cup In(Tail(q)) \subseteq In(q)
  BY <1>1, <1>2 DEF In
<1>4. ASSUME NEW j \in 1 .. Len(q) PROVE q[j] \in {Head(q)} \cup In(Tail(q))
  <2>1. CASE j = 1
    BY <1>1, <2>1
  <2>2. CASE j # 1
    <3>1. j - 1 \in 1 .. Len(q) - 1 /\ (j - 1) + 1 = j
      BY <1>1, <2>2
    <3>2. Tail(q)[j - 1] = q[j]
      BY <1>2, <3>1
    <3> QED
      BY <1>1, <3>1, <3>2 DEF In
  <2> QED
    BY <2>1, <2>2
<1> QED
  BY <1>1, <1>3, <1>4 DEF In
-----------------------------------------------------------------------------
(***************************************************************************)
(* The collector is stopped when the senders are gone, and leaves a        *)
(* channel it drains for good, so that the next one is the only one with   *)
(* anything in it.                                                         *)
(***************************************************************************)
LinesInv == slotC \in Seq(lines) /\ lines = counted \cup In(slotC)

DrainInv ==
  /\ collector \in {"run", "block", "tran", "slot", "end"}
  /\ collector # "run" => SendersGone
  /\ collector \in {"tran", "slot", "end"} => blockC = <<>>
  /\ collector \in {"slot", "end"} => tranC = 0
  /\ collector = "end" => slotC = <<>>

LEMMA SameLines ==
  ASSUME LinesInv, UNCHANGED <<slotC, lines, counted>>
  PROVE  LinesInv'
  BY DEF LinesInv

LEMMA SendLines ==
  ASSUME LinesInv, NEW x, NEW line, Send(x, line), counted' = counted
  PROVE  LinesInv'
<1> DEFINE l == <<x, line>>
<1>1. slotC' = Append(slotC, l) /\ lines' = lines \cup {l}
  BY DEF Send
<1>2. slotC \in Seq(lines) /\ lines = counted \cup In(slotC)
  BY DEF LinesInv
<1> HIDE DEF l
<1>3. In(slotC') = In(slotC) \cup {l}
  BY <1>1, <1>2, PutIn
<1>4. slotC \in Seq(lines')
  BY <1>1, <1>2
<1>5. slotC' \in Seq(lines')
  BY <1>1, <1>4, AppendProperties
<1> QED
  BY <1>1, <1>2, <1>3, <1>5 DEF LinesInv

LEMMA LinesStep == LinesInv /\ [Next]_vars => LinesInv'
<1> SUFFICES ASSUME LinesInv, [Next]_vars PROVE LinesInv'
  OBVIOUS
<1>1. ASSUME NEW b \in Bidders, SendBidLine(b) PROVE LinesInv'
  BY <1>1, SendLines DEF SendBidLine
<1>2. CASE SendMarkEndLine
  BY <1>2, SendLines DEF SendMarkEndLine
<1>3. CASE ReceiveSlot
  <2>1. /\ slotC # <<>> /\ slotC' = Tail(slotC) /\ lines' = lines
        /\ counted' = counted \cup {Head(slotC)}
    BY <1>3 DEF ReceiveSlot
  <2>2. slotC \in Seq(lines) /\ lines = counted \cup In(slotC)
    BY DEF LinesInv
  <2>3. Tail(slotC) \in Seq(lines) /\ In(slotC) = {Head(slotC)} \cup In(Tail(slotC))
    BY <2>1, <2>2, TakeOut
  <2> QED
    BY <2>1, <2>2, <2>3 DEF LinesInv
<1>4. ASSUME NEW b \in Bidders,
             (\E row \in Slots : TakeRow(b, row)) \/ Invoke(b) \/ SendBidTran(b) \/ BidderQuits(b)
      PROVE  UNCHANGED <<slotC, lines, counted>>
  BY <1>4 DEF TakeRow, Invoke, SendBidTran, BidderQuits, histVars
<1>5. CASE (\E slot \in Slots : MarkEnd(slot)) \/ SendMarkEndTran \/ RegulatorQuits
  <2>1. UNCHANGED <<slotC, lines, counted>>
    BY <1>5 DEF MarkEnd, SendMarkEndTran, RegulatorQuits, histVars
  <2> QED
    BY <2>1, SameLines
<1>6. CASE (\E n \in 0 .. MaxBlock : Observe(n)) \/ TakeNumber \/ GetBlock \/ GotBlocks
           \/ GetterQuits
  <2>1. UNCHANGED <<slotC, lines, counted>>
    BY <1>6 DEF Observe, TakeNumber, GetBlock, GotBlocks, GetterQuits, histVars
  <2> QED
    BY <2>1, SameLines
<1>7. CASE ReceiveTransaction \/ ReceiveBlock \/ Stop \/ Drained \/ UNCHANGED vars
  <2>1. UNCHANGED <<slotC, lines, counted>>
    BY <1>7 DEF ReceiveTransaction, ReceiveBlock, Stop, Drained, histVars, vars
  <2> QED
    BY <2>1, SameLines
<1> QED
  BY <1>1, <1>2, <1>3, <1>4, <1>5, <1>6, <1>7, SameLines DEF Next

\* Once the senders are gone, all that happens is the collector's, and the
\* block notifier's hearing of new blocks.
LEMMA GoneSteps ==
  ASSUME SendersGone, [Next]_vars
  PROVE  \/ \E n \in 0 .. MaxBlock : Observe(n)
         \/ ReceiveSlot \/ ReceiveTransaction \/ ReceiveBlock \/ Stop \/ Drained
         \/ UNCHANGED vars
<1>1. \A b \in Bidders : /\ \A row \in Slots : ~ TakeRow(b, row)
                         /\ ~ SendBidLine(b) /\ ~ Invoke(b) /\ ~ SendBidTran(b)
                         /\ ~ BidderQuits(b)
  BY DEF SendersGone, TakeRow, SendBidLine, Invoke, SendBidTran, BidderQuits
<1>2. /\ \A slot \in Slots : ~ MarkEnd(slot)
      /\ ~ SendMarkEndTran /\ ~ SendMarkEndLine /\ ~ RegulatorQuits
  BY DEF SendersGone, MarkEnd, SendMarkEndTran, SendMarkEndLine, RegulatorQuits
<1>3. ~ TakeNumber /\ ~ GetBlock /\ ~ GotBlocks /\ ~ GetterQuits
  BY DEF SendersGone, TakeNumber, GetBlock, GotBlocks, GetterQuits
<1> QED
  BY <1>1, <1>2, <1>3 DEF Next

LEMMA DrainStep == DrainInv /\ [Next]_vars => DrainInv'
<1> SUFFICES ASSUME DrainInv, [Next]_vars PROVE DrainInv'
  OBVIOUS
<1>1. ASSUME UNCHANGED <<bidder, reg, getter>> PROVE SendersGone' <=> SendersGone
  BY <1>1 DEF SendersGone
<1>2. CASE Stop
  <2>1. SendersGone /\ collector' = "block" /\ UNCHANGED <<bidder, reg, getter>>
    BY <1>2 DEF Stop, workVars, blockVars
  <2> QED
    BY <1>1, <2>1 DEF DrainInv
<1>3. CASE collector = "run" /\ ~ Stop
  <2>1. collector' = "run"
    BY <1>3 DEF Next, TakeRow, SendBidLine, Invoke, SendBidTran, BidderQuits, MarkEnd,
                SendMarkEndTran, SendMarkEndLine, RegulatorQuits, Observe, TakeNumber, GetBlock,
                GotBlocks, GetterQuits, ReceiveSlot, ReceiveTransaction, ReceiveBlock, Drained, vars
  <2> QED
    BY <2>1 DEF DrainInv
<1>4. CASE collector # "run"
  <2>1. SendersGone
    BY <1>4 DEF DrainInv
  <2>2. UNCHANGED <<bidder, reg, getter>>
    BY <2>1, GoneSteps DEF Observe, ReceiveSlot, ReceiveTransaction, ReceiveBlock, Stop, Drained,
                           vars, workVars, blockVars
  <2>3. SendersGone'
    BY <1>1, <2>1, <2>2
  <2>4. CASE (\E n \in 0 .. MaxBlock : Observe(n)) \/ UNCHANGED vars
    <3>1. UNCHANGED <<collector, blockC, tranC, slotC>>
      BY <2>4 DEF Observe, vars, blockVars
    <3> QED
      BY <2>3, <3>1 DEF DrainInv
  <2>5. CASE ReceiveSlot
    BY <1>4, <2>3, <2>5 DEF DrainInv, ReceiveSlot, Receives, blockVars
  <2>6. CASE ReceiveTransaction
    BY <1>4, <2>3, <2>6 DEF DrainInv, ReceiveTransaction, Receives, blockVars
  <2>7. CASE ReceiveBlock
    BY <1>4, <2>3, <2>7 DEF DrainInv, ReceiveBlock, Receives
  <2>8. CASE Drained
    BY <1>4, <2>3, <2>8 DEF DrainInv, Drained, blockVars
  <2> QED
    BY <1>2, <2>1, <2>4, <2>5, <2>6, <2>7, <2>8, GoneSteps
<1> QED
  BY <1>2, <1>3, <1>4

(***************************************************************************)
(* Nothing that was sent is lost: whenever the senders are told to stop,   *)
(* and whatever is in the channels then, the collector has added it up by  *)
(* its end (collector.go, Run; main.go).                                   *)
(***************************************************************************)
THEOREM EverythingIsCounted == Spec => []AllCounted
<1>1. Init => LinesInv /\ DrainInv
  <2> SUFFICES ASSUME Init PROVE LinesInv /\ DrainInv
    OBVIOUS
  <2>1. slotC = <<>> /\ lines = {} /\ counted = {} /\ collector = "run"
    BY DEF Init
  <2>2. LinesInv
    BY <2>1, EmptyQueue, EmptySeq DEF LinesInv
  <2> QED
    BY <2>1, <2>2 DEF DrainInv
<1>2. LinesInv /\ DrainInv => AllCounted
  <2> SUFFICES ASSUME LinesInv, DrainInv, collector = "end"
               PROVE  counted = lines /\ tranC = 0 /\ blockC = <<>>
    BY DEF AllCounted
  <2>1. slotC = <<>> /\ tranC = 0 /\ blockC = <<>> /\ lines = counted \cup In(slotC)
    BY DEF LinesInv, DrainInv
  <2>2. In(slotC) = {}
    BY <2>1, EmptyQueue
  <2> QED
    BY <2>1, <2>2
<1> QED
  BY <1>1, <1>2, LinesStep, DrainStep, PTL DEF Spec
-----------------------------------------------------------------------------
(***************************************************************************)
(* The way of the blocks.  The numbers that wait in BlockNumberChan are    *)
(* above the one the second goroutine was last asked for, so the blocks it *)
(* gets next follow those it got.                                          *)
(***************************************************************************)
Last == IF getter.pc = "get" THEN getter.at - 1 ELSE getter.queried

Getters == [pc : {"select", "get", "exited"}, queried : Int, at : Int, upTo : Int]

GetterType ==
  /\ getter \in Getters
  /\ observed \in Int /\ numC \in Seq(Int)
  /\ BlockStats \in Seq(Int) /\ blockC \in Seq(Int)

NumbersInv ==
  /\ Ascends(numC)
  /\ \A n \in In(numC) : getter.upTo < n /\ n <= observed
  /\ -1 <= getter.queried /\ getter.queried <= getter.upTo /\ getter.upTo <= observed
  /\ IF getter.pc = "get" THEN getter.queried < getter.at /\ getter.at <= getter.upTo + 1
                          ELSE getter.queried = getter.upTo

FeedInv ==
  /\ Ascends(BlockStats) /\ Ascends(blockC) /\ Below(In(BlockStats), In(blockC))
  /\ lost \subseteq 0 .. Last
  /\ In(BlockStats) \cup In(blockC) = 0 .. Last \ lost

BlockInv == GetterType /\ NumbersInv /\ FeedInv

\* How the goroutine's record changes.
LEMMA GetterAsked ==
  ASSUME NEW g \in Getters, NEW m \in Int, NEW h \in Int
  PROVE  [g EXCEPT !.pc = "get", !.at = m, !.upTo = h] \in Getters
  BY DEF Getters

LEMMA GetterGoesOn ==
  ASSUME NEW g \in Getters, NEW m \in Int
  PROVE  [g EXCEPT !.at = m] \in Getters
  BY DEF Getters

\* Block n is delivered, or not.
LEMMA FeedBlock ==
  ASSUME GetterType, FeedInv, NEW n \in Int, n = Last + 1, n >= 0
  PROVE  /\ Append(blockC, n) \in Seq(Int) /\ Ascends(Append(blockC, n))
         /\ Below(In(BlockStats), In(Append(blockC, n)))
         /\ In(BlockStats) \cup In(Append(blockC, n)) = 0 .. n \ lost
         /\ In(BlockStats) \cup In(blockC) = 0 .. n \ (lost \cup {n})
         /\ lost \cup {n} \subseteq 0 .. n
<1> DEFINE p == BlockStats
           q == blockC
<1>1. /\ p \in Seq(Int) /\ q \in Seq(Int) /\ Ascends(q) /\ Below(In(p), In(q))
      /\ lost \subseteq 0 .. n - 1 /\ In(p) \cup In(q) = 0 .. (n - 1) \ lost
  <2>1. Last = n - 1
    BY DEF GetterType, Last, Getters
  <2> QED
    BY <2>1 DEF GetterType, FeedInv
<1> HIDE DEF p, q
<1>2. Append(q, n) \in Seq(Int) /\ In(Append(q, n)) = In(q) \cup {n}
  BY <1>1, AppendQueue
<1>3. Below(In(p), {n}) /\ Below(In(q), {n})
  BY <1>1 DEF Below
<1>4. Ascends(Append(q, n))
  BY <1>1, <1>3, AppendAscends
<1>5. Below(In(p), In(Append(q, n)))
  BY <1>1, <1>2, <1>3 DEF Below
<1>6. 0 .. n = 0 .. (n - 1) \cup {n} /\ n \notin 0 .. (n - 1)
  OBVIOUS
<1>7. n \notin lost
  BY <1>1, <1>6
<1>8. In(p) \cup In(Append(q, n)) = 0 .. n \ lost
  BY <1>1, <1>2, <1>6, <1>7
<1>9. In(p) \cup In(q) = 0 .. n \ (lost \cup {n})
  BY <1>1, <1>6
<1>10. lost \cup {n} \subseteq 0 .. n
  BY <1>1, <1>6
<1> QED
  BY <1>2, <1>4, <1>5, <1>8, <1>9, <1>10 DEF p, q

LEMMA BlockStep == BlockInv /\ [Next]_vars => BlockInv'
<1> SUFFICES ASSUME BlockInv, [Next]_vars PROVE BlockInv'
  OBVIOUS
<1>1. /\ getter \in Getters
      /\ observed \in Int /\ numC \in Seq(Int) /\ BlockStats \in Seq(Int) /\ blockC \in Seq(Int)
  BY DEF BlockInv, GetterType
<1>2. ASSUME UNCHANGED <<getter, observed, numC, BlockStats, blockC, lost>> PROVE BlockInv'
  BY <1>2 DEF BlockInv, GetterType, NumbersInv, FeedInv, Last
<1>3. ASSUME UNCHANGED <<BlockStats, blockC, lost>>, Last' = Last PROVE FeedInv'
  BY <1>3 DEF BlockInv, FeedInv
<1>4. ASSUME NEW n \in 0 .. MaxBlock, Observe(n) PROVE BlockInv'
  <2>1. /\ n > observed /\ numC' = Append(numC, n) /\ observed' = n
        /\ UNCHANGED <<getter, BlockStats, blockC, lost>> /\ n \in Int
    BY <1>4 DEF Observe, statVars
  <2>2. Append(numC, n) \in Seq(Int) /\ In(Append(numC, n)) = In(numC) \cup {n}
    BY <1>1, <2>1, AppendQueue
  <2>3. Below(In(numC), {n}) /\ In(numC) \subseteq Int
    BY <1>1, <2>1, InType DEF BlockInv, NumbersInv, Below
  <2>4. Ascends(Append(numC, n))
    BY <1>1, <2>1, <2>3, AppendAscends DEF BlockInv, NumbersInv
  <2>5. NumbersInv'
    BY <1>1, <2>1, <2>2, <2>3, <2>4 DEF BlockInv, NumbersInv, Getters
  <2>6. GetterType'
    BY <1>1, <2>1, <2>2 DEF GetterType
  <2>7. FeedInv'
    BY <1>3, <2>1 DEF Last
  <2> QED
    BY <2>5, <2>6, <2>7 DEF BlockInv
<1>5. CASE TakeNumber
  <2>1. /\ getter.pc = "select" /\ numC # <<>> /\ numC' = Tail(numC)
        /\ UNCHANGED <<observed, BlockStats, blockC, lost>>
        /\ getter' = [getter EXCEPT !.pc = "get", !.at = getter.queried + 1, !.upTo = Head(numC)]
    BY <1>5 DEF TakeNumber, statVars
  <2>2. /\ Head(numC) \in Int /\ Tail(numC) \in Seq(Int)
        /\ In(numC) = {Head(numC)} \cup In(Tail(numC))
        /\ Ascends(Tail(numC)) /\ Below({Head(numC)}, In(Tail(numC)))
    BY <1>1, <2>1, TailQueue DEF BlockInv, NumbersInv
  <2>3. /\ getter'.pc = "get" /\ getter'.at = getter.queried + 1
        /\ getter'.upTo = Head(numC) /\ getter'.queried = getter.queried
    BY <1>1, <2>1 DEF Getters
  <2>4. GetterType'
    <3>1. getter.queried + 1 \in Int
      BY <1>1 DEF Getters
    <3>2. getter' \in Getters
      BY <1>1, <2>1, <2>2, <3>1, GetterAsked
    <3>3. numC' \in Seq(Int)
      BY <2>1, <2>2
    <3> QED
      BY <1>1, <2>1, <3>3, <3>2 DEF GetterType
  <2>5. NumbersInv'
    <3> DEFINE h == Head(numC)
               q == Tail(numC)
    <3>1. /\ h \in Int /\ getter.upTo < h /\ h <= observed
          /\ -1 <= getter.queried /\ getter.queried = getter.upTo
      BY <2>1, <2>2 DEF BlockInv, NumbersInv
    <3>2. \A n \in In(q) : h < n /\ n <= observed
      BY <2>2 DEF BlockInv, NumbersInv, Below
    <3>3. getter'.upTo = h /\ numC' = q /\ Ascends(q)
      BY <2>1, <2>2, <2>3
    <3> HIDE DEF h, q
    <3>4. getter.queried \in Int /\ getter.upTo \in Int
      BY <1>1 DEF Getters
    <3>5. /\ Ascends(numC') /\ \A n \in In(numC') : getter'.upTo < n /\ n <= observed'
      BY <2>1, <3>2, <3>3
    <3>6. /\ -1 <= getter'.queried /\ getter'.queried <= getter'.upTo
          /\ getter'.upTo <= observed'
          /\ getter'.queried < getter'.at /\ getter'.at <= getter'.upTo + 1
      BY <1>1, <2>1, <2>3, <3>1, <3>3, <3>4
    <3> QED
      BY <2>3, <3>5, <3>6 DEF NumbersInv
  <2>6. FeedInv'
    BY <1>1, <1>3, <2>1, <2>3 DEF Last, Getters
  <2> QED
    BY <2>4, <2>5, <2>6 DEF BlockInv
<1>6. CASE GetBlock
  <2>1. /\ getter.pc = "get" /\ getter.at <= getter.upTo
        /\ getter' = [getter EXCEPT !.at = getter.at + 1]
        /\ UNCHANGED <<observed, numC, BlockStats>>
        /\ \/ blockC' = Append(blockC, getter.at) /\ lost' = lost
           \/ blockC' = blockC /\ lost' = lost \cup {getter.at}
    BY <1>6 DEF GetBlock, statVars
  <2>2. /\ getter'.pc = "get" /\ getter'.at = getter.at + 1 /\ getter'.at \in Int
        /\ getter'.upTo = getter.upTo /\ getter'.queried = getter.queried
    BY <1>1, <2>1 DEF Getters
  <2> DEFINE n == getter.at
  <2>3. n \in Int /\ n = Last + 1 /\ n >= 0 /\ Last' = n
    <3>1. getter.at \in Int /\ getter.queried \in Int /\ -1 <= getter.queried
          /\ getter.queried < getter.at
      BY <1>1, <2>1 DEF BlockInv, NumbersInv, Getters
    <3> QED
      BY <2>1, <2>2, <3>1 DEF Last
  <2> HIDE DEF n
  <2>4. /\ Append(blockC, n) \in Seq(Int) /\ Ascends(Append(blockC, n))
        /\ Below(In(BlockStats), In(Append(blockC, n)))
        /\ In(BlockStats) \cup In(Append(blockC, n)) = 0 .. n \ lost
        /\ In(BlockStats) \cup In(blockC) = 0 .. n \ (lost \cup {n})
        /\ lost \cup {n} \subseteq 0 .. n
    BY <2>3, FeedBlock DEF BlockInv
  <2>5. \/ blockC' = Append(blockC, n) /\ lost' = lost
        \/ blockC' = blockC /\ lost' = lost \cup {n}
    BY <2>1 DEF n
  <2>6. GetterType'
    <3>1. getter' \in Getters
      <4>1. getter.at + 1 \in Int
        BY <1>1 DEF Getters
      <4> QED
        BY <1>1, <2>1, <4>1, GetterGoesOn
    <3>2. blockC' \in Seq(Int)
      BY <1>1, <2>4, <2>5
    <3> QED
      BY <1>1, <2>1, <3>1, <3>2 DEF GetterType
  <2>7. NumbersInv'
    BY <1>1, <2>1, <2>2 DEF BlockInv, NumbersInv, Getters
  <2>8. FeedInv'
    BY <2>1, <2>3, <2>4, <2>5 DEF BlockInv, FeedInv
  <2> QED
    BY <2>6, <2>7, <2>8 DEF BlockInv
<1>7. CASE GotBlocks
  <2>1. /\ getter.pc = "get" /\ getter.at > getter.upTo
        /\ getter' = [getter EXCEPT !.pc = "select", !.queried = getter.upTo]
        /\ UNCHANGED <<observed, numC, BlockStats, blockC, lost>>
    BY <1>7 DEF GotBlocks, statVars
  <2>2. /\ getter'.pc = "select" /\ getter'.at = getter.at
        /\ getter'.upTo = getter.upTo /\ getter'.queried = getter.upTo
    BY <1>1, <2>1 DEF Getters
  <2>3. GetterType'
    BY <1>1, <2>1 DEF GetterType, Getters
  <2>4. NumbersInv'
    BY <1>1, <2>1, <2>2 DEF BlockInv, NumbersInv, Getters
  <2>5. Last' = Last
    BY <1>1, <2>1, <2>2 DEF BlockInv, NumbersInv, Last, Getters
  <2> QED
    BY <1>3, <2>1, <2>3, <2>4, <2>5 DEF BlockInv
<1>8. CASE GetterQuits
  <2>1. /\ getter.pc = "select" /\ getter' = [getter EXCEPT !.pc = "exited"]
        /\ UNCHANGED <<observed, numC, BlockStats, blockC, lost>>
    BY <1>8 DEF GetterQuits, statVars
  <2>2. /\ getter'.pc = "exited" /\ getter'.at = getter.at
        /\ getter'.upTo = getter.upTo /\ getter'.queried = getter.queried
    BY <1>1, <2>1 DEF Getters
  <2>3. GetterType'
    BY <1>1, <2>1 DEF GetterType, Getters
  <2>4. NumbersInv' /\ Last' = Last
    BY <1>1, <2>1, <2>2 DEF BlockInv, NumbersInv, Last
  <2> QED
    BY <1>3, <2>1, <2>3, <2>4 DEF BlockInv
<1>9. CASE ReceiveBlock
  <2>1. /\ blockC # <<>> /\ blockC' = Tail(blockC)
        /\ BlockStats' = Append(BlockStats, Head(blockC))
        /\ UNCHANGED <<getter, observed, numC, lost>>
    BY <1>9 DEF ReceiveBlock
  <2>2. /\ Head(blockC) \in Int /\ Tail(blockC) \in Seq(Int)
        /\ In(blockC) = {Head(blockC)} \cup In(Tail(blockC))
        /\ Ascends(Tail(blockC)) /\ Below({Head(blockC)}, In(Tail(blockC)))
    BY <1>1, <2>1, TailQueue DEF BlockInv, FeedInv
  <2>3. /\ BlockStats' \in Seq(Int)
        /\ In(BlockStats') = In(BlockStats) \cup {Head(blockC)}
    BY <1>1, <2>1, <2>2, AppendQueue
  <2>4. Below(In(BlockStats), {Head(blockC)}) /\ Below(In(BlockStats), In(Tail(blockC)))
    BY <2>2 DEF BlockInv, FeedInv, Below
  <2>5. Ascends(BlockStats')
    BY <1>1, <2>1, <2>2, <2>4, AppendAscends DEF BlockInv, FeedInv
  <2>6. Below(In(BlockStats'), In(blockC'))
    BY <2>1, <2>2, <2>3, <2>4 DEF Below
  <2>7. In(BlockStats') \cup In(blockC') = In(BlockStats) \cup In(blockC)
    BY <2>1, <2>2, <2>3
  <2>8. Last' = Last /\ lost' = lost
    BY <2>1 DEF Last
  <2>9. FeedInv'
    BY <2>1, <2>2, <2>5, <2>6, <2>7, <2>8 DEF BlockInv, FeedInv
  <2>10. GetterType' /\ NumbersInv'
    BY <1>1, <2>1, <2>2, <2>3 DEF BlockInv, GetterType, NumbersInv
  <2> QED
    BY <2>9, <2>10 DEF BlockInv
<1>10. ASSUME NEW b \in Bidders,
              (\E row \in Slots : TakeRow(b, row)) \/ SendBidLine(b) \/ Invoke(b)
              \/ SendBidTran(b) \/ BidderQuits(b)
       PROVE  BlockInv'
  BY <1>2, <1>10 DEF TakeRow, SendBidLine, Invoke, SendBidTran, BidderQuits, statVars, blockVars
<1>11. CASE (\E slot \in Slots : MarkEnd(slot)) \/ SendMarkEndTran \/ SendMarkEndLine
            \/ RegulatorQuits
  BY <1>2, <1>11 DEF MarkEnd, SendMarkEndTran, SendMarkEndLine, RegulatorQuits, statVars, blockVars
<1>12. CASE ReceiveSlot \/ ReceiveTransaction \/ Stop \/ Drained \/ UNCHANGED vars
  BY <1>2, <1>12 DEF ReceiveSlot, ReceiveTransaction, Stop, Drained, vars, statVars, blockVars
<1> QED
  BY <1>4, <1>5, <1>6, <1>7, <1>8, <1>9, <1>10, <1>11, <1>12 DEF Next

(***************************************************************************)
(* The blocks are fed to the collector in order, none of them twice, and   *)
(* those that are missing could not be got or delivered, however the       *)
(* observing of new blocks, the fetching and the collecting interleave     *)
(* (blocknotifier/notifier.go, GetBlock).                                  *)
(***************************************************************************)
THEOREM BlocksAreFedOnce == Spec => []BlocksFedOnce
<1>1. Init => BlockInv
  <2> SUFFICES ASSUME Init PROVE BlockInv
    OBVIOUS
  <2>1. /\ blockC = <<>> /\ BlockStats = <<>> /\ numC = <<>> /\ observed = -1 /\ lost = {}
        /\ getter = [pc |-> "select", queried |-> -1, at |-> 0, upTo |-> -1]
    BY DEF Init
  <2>2. /\ In(blockC) = {} /\ In(BlockStats) = {} /\ In(numC) = {}
        /\ Ascends(blockC) /\ Ascends(BlockStats) /\ Ascends(numC)
    BY <2>1, EmptyQueue
  <2>3. GetterType
    BY <2>1, EmptySeq DEF GetterType, Getters
  <2>4. NumbersInv
    BY <2>1, <2>2 DEF NumbersInv
  <2>5. Last = -1 /\ 0 .. -1 = {}
    BY <2>1 DEF Last
  <2>6. FeedInv
    BY <2>1, <2>2, <2>5 DEF FeedInv, Below
  <2> QED
    BY <2>3, <2>4, <2>6 DEF BlockInv
<1>2. BlockInv => BlocksFedOnce
  <2> SUFFICES ASSUME BlockInv PROVE BlocksFedOnce
    OBVIOUS
  <2> DEFINE fed == BlockStats \o blockC
  <2>1. In(fed) = In(BlockStats) \cup In(blockC) /\ Ascends(fed)
    BY ConcatQueue DEF BlockInv, GetterType, FeedInv
  <2>2. In(fed) = 0 .. Last \ lost
    BY <2>1 DEF BlockInv, FeedInv
  <2> HIDE DEF fed
  <2>3. /\ \A j, k \in DOMAIN fed : j < k => fed[j] < fed[k]
        /\ {fed[j] : j \in DOMAIN fed} = 0 .. Last \ lost
    BY <2>1, <2>2 DEF In, Ascends
  <2> QED
    BY <2>3 DEF BlocksFedOnce, fed, Last
<1> QED
  BY <1>1, <1>2, BlockStep, PTL DEF Spec
-----------------------------------------------------------------------------
(***************************************************************************)
(* The sums over the lines of a slot.                                      *)
(***************************************************************************)
Entries == [Number : Slots, EnergyUse : Nat, PricePaid : Nat, EnergyGen : Nat,
            PriceSold : Nat, EnergyTraded : Nat]

Lines == (Bidders \cup {"markEnd"}) \X Entries

\* What SlotStats holds: SlotCalc deducts.
Figures == [Number : Int, EnergyUse : Int, PricePaid : Nat, EnergyGen : Int,
            PriceSold : Nat, EnergyTraded : Nat]

Sum(X, field) == SumFunctionOnSet([l \in X |-> l[2][field]], X)

IsLargest(n, X, field) ==
  LET fields == {0} \cup {l[2][field] : l \in X}
  IN  n \in fields /\ \A m \in fields : n >= m

LEMMA FieldTypes ==
  ASSUME NEW l \in Lines
  PROVE  /\ l[2] \in Entries
         /\ l[2].EnergyUse \in Nat /\ l[2].EnergyGen \in Nat /\ l[2].EnergyTraded \in Nat
         /\ l[2].PricePaid \in Nat /\ l[2].PriceSold \in Nat
  BY DEF Lines, Entries

LEMMA SumLine ==
  ASSUME NEW X, IsFiniteSet(X), NEW l, l \notin X, NEW field,
         \A k \in X \cup {l} : k[2][field] \in Int
  PROVE  Sum(X \cup {l}, field) = Sum(X, field) + l[2][field] /\ Sum(X, field) \in Int
<1> DEFINE Y == X \cup {l}
           f == [k \in Y |-> k[2][field]]
           g == [k \in X |-> k[2][field]]
<1>1. \A k \in Y : f[k] \in Int
  OBVIOUS
<1>2. f[l] = l[2][field] /\ l[2][field] \in Int
  OBVIOUS
<1>3. \A k \in X : f[k] = g[k] /\ g[k] \in Int
  OBVIOUS
<1> HIDE DEF f, g
<1>4. SumFunctionOnSet(f, Y) = f[l] + SumFunctionOnSet(f, X)
  BY <1>1, SumAdd
<1>5. SumFunctionOnSet(f, X) = SumFunctionOnSet(g, X)
  BY <1>3, SumSame
<1>6. SumFunctionOnSet(g, X) \in Int
  BY <1>3, SumInt
<1>7. SumFunctionOnSet(f, Y) = SumFunctionOnSet(g, X) + l[2][field]
  BY <1>2, <1>4, <1>5, <1>6
<1> QED
  BY <1>6, <1>7 DEF Sum, f, g

\* A sum of zeros, and one of numbers that are not all zero.
LEMMA SumZeros ==
  ASSUME NEW X, IsFiniteSet(X), NEW field, \A k \in X : k[2][field] = 0
  PROVE  Sum(X, field) = 0
<1> DEFINE f == [k \in X |-> k[2][field]]
<1>1. \A k \in X : f[k] = 0
  OBVIOUS
<1> HIDE DEF f
<1>2. SumFunctionOnSet(f, X) = 0
  BY <1>1, SumZero
<1> QED
  BY <1>2 DEF Sum, f

LEMMA SumSome ==
  ASSUME NEW X, IsFiniteSet(X), NEW field, \A k \in X : k[2][field] \in Nat,
         NEW l \in X, l[2][field] > 0
  PROVE  Sum(X, field) > 0
<1> DEFINE f == [k \in X |-> k[2][field]]
<1>1. \A k \in X : f[k] \in Nat
  OBVIOUS
<1>2. f[l] > 0
  OBVIOUS
<1> HIDE DEF f
<1>3. SumFunctionOnSet(f, X) >= f[l]
  BY <1>1, SumAtLeast
<1>4. SumFunctionOnSet(f, X) \in Nat /\ f[l] \in Nat
  BY <1>1, SumNat
<1>5. SumFunctionOnSet(f, X) > 0
  BY <1>2, <1>3, <1>4
<1> QED
  BY <1>5 DEF Sum, f

LEMMA SumType ==
  ASSUME NEW X, IsFiniteSet(X), NEW field, \A k \in X : k[2][field] \in Nat
  PROVE  Sum(X, field) \in Int
<1> DEFINE f == [k \in X |-> k[2][field]]
<1>1. \A k \in X : f[k] \in Int
  OBVIOUS
<1> HIDE DEF f
<1>2. SumFunctionOnSet(f, X) \in Int
  BY <1>1, SumInt
<1> QED
  BY <1>2 DEF Sum, f

LEMMA LargestLine ==
  ASSUME NEW X, NEW l, NEW field, NEW n,
         \A k \in X \cup {l} : k[2][field] \in Nat, IsLargest(n, X, field)
  PROVE  /\ n \in Nat
         /\ IsLargest(Max({n, l[2][field]}), X \cup {l}, field)
         /\ n = 0 => IsLargest(l[2][field], X \cup {l}, field)
<1> DEFINE Y == X \cup {l}
           A == {0} \cup {k[2][field] : k \in X}
           B == {0} \cup {k[2][field] : k \in Y}
           m == l[2][field]
<1>1. B = A \cup {m} /\ A \subseteq Nat /\ m \in Nat
  OBVIOUS
<1>2. n \in A /\ \A i \in A : n >= i
  BY DEF IsLargest
<1>3. Max({n, m}) \in {n, m} /\ Max({n, m}) >= n /\ Max({n, m}) >= m
  <2>1. n \in Nat /\ m \in Nat
    BY <1>1, <1>2
  <2> HIDE DEF m
  <2>2. \E x \in {n, m} : \A y \in {n, m} : x >= y
    BY <2>1
  <2> QED
    BY <2>1, <2>2 DEF Max
<1>4. Max({n, m}) \in B /\ \A i \in B : Max({n, m}) >= i
  <2> HIDE DEF A, B, m
  <2> QED
    BY <1>1, <1>2, <1>3
<1>5. n = 0 => m \in B /\ \A i \in B : m >= i
  <2> HIDE DEF A, B, m
  <2> QED
    BY <1>1, <1>2
<1>6. IsLargest(Max({n, m}), Y, field)
  BY <1>4 DEF IsLargest
<1>7. n = 0 => IsLargest(m, Y, field)
  BY <1>5 DEF IsLargest
<1> QED
  BY <1>1, <1>2, <1>6, <1>7

LEMMA TheLargest ==
  ASSUME NEW X, NEW field, NEW n, \A k \in X : k[2][field] \in Nat, IsLargest(n, X, field)
  PROVE  n = Max({0} \cup {k[2][field] : k \in X})
<1> DEFINE A == {0} \cup {k[2][field] : k \in X}
<1>1. A \subseteq Nat /\ n \in A /\ \A m \in A : n >= m
  BY DEF IsLargest
<1> HIDE DEF A
<1>2. \A m \in A : (\A k \in A : m >= k) => m = n
  BY <1>1
<1>3. Max(A) \in A /\ \A k \in A : Max(A) >= k
  BY <1>1 DEF Max
<1>4. Max(A) = n
  BY <1>2, <1>3
<1> QED
  BY <1>4 DEF A

(***************************************************************************)
(* What SlotStats has for a slot, when the lines X of that slot have been  *)
(* added up.                                                               *)
(***************************************************************************)
Balanced(stat, X) ==
  /\ stat \in Figures
  /\ stat.EnergyUse = Sum(X, "EnergyUse") - Sum(X, "EnergyTraded")
  /\ stat.EnergyGen = Sum(X, "EnergyGen") - Sum(X, "EnergyTraded")
  /\ IsLargest(stat.PricePaid, X, "PricePaid")
  /\ IsLargest(stat.PriceSold, X, "PriceSold")

\* Before any of them.
LEMMA NoneBalanced == Balanced(Zero, {})
<1>1. Zero \in Figures
  BY DEF Zero, Figures
<1>2. \A field : Sum({}, field) = 0 /\ IsLargest(0, {}, field)
  BY SumZeros, FS_EmptySet DEF IsLargest
<1> QED
  BY <1>1, <1>2 DEF Balanced, Zero

\* A line is added: the first one as it is, which has to be a bid's, or that
\* of a markEnd that settled nothing.
LEMMA SlotCalcBalanced ==
  ASSUME NEW X, IsFiniteSet(X), NEW l, l \notin X, X \cup {l} \subseteq Lines,
         NEW stat, Balanced(stat, X), l[2].EnergyTraded > 0 => stat # Zero
  PROVE  Balanced(SlotCalc(stat, l[2]), X \cup {l})
<1> DEFINE Y == X \cup {l}
           new == l[2]
<1>1. \A k \in Y : /\ k[2] \in Entries
                   /\ k[2].EnergyUse \in Nat /\ k[2].EnergyGen \in Nat
                   /\ k[2].EnergyTraded \in Nat
                   /\ k[2].PricePaid \in Nat /\ k[2].PriceSold \in Nat
  BY FieldTypes
<1>2. /\ Sum(Y, "EnergyUse") = Sum(X, "EnergyUse") + new.EnergyUse
      /\ Sum(X, "EnergyUse") \in Int
  <2>1. \A k \in X \cup {l} : k[2]["EnergyUse"] \in Int
    BY <1>1
  <2> QED
    BY <2>1, SumLine
<1>3. /\ Sum(Y, "EnergyGen") = Sum(X, "EnergyGen") + new.EnergyGen
      /\ Sum(X, "EnergyGen") \in Int
  <2>1. \A k \in X \cup {l} : k[2]["EnergyGen"] \in Int
    BY <1>1
  <2> QED
    BY <2>1, SumLine
<1>4. /\ Sum(Y, "EnergyTraded") = Sum(X, "EnergyTraded") + new.EnergyTraded
      /\ Sum(X, "EnergyTraded") \in Int
  <2>1. \A k \in X \cup {l} : k[2]["EnergyTraded"] \in Int
    BY <1>1
  <2> QED
    BY <2>1, SumLine
<1>5. /\ stat.PricePaid \in Nat
      /\ IsLargest(Max({stat.PricePaid, new.PricePaid}), Y, "PricePaid")
      /\ stat.PricePaid = 0 => IsLargest(new.PricePaid, Y, "PricePaid")
  <2>1. \A k \in X \cup {l} : k[2]["PricePaid"] \in Nat
    BY <1>1
  <2> QED
    BY <2>1, LargestLine DEF Balanced
<1>6. /\ stat.PriceSold \in Nat
      /\ IsLargest(Max({stat.PriceSold, new.PriceSold}), Y, "PriceSold")
      /\ stat.PriceSold = 0 => IsLargest(new.PriceSold, Y, "PriceSold")
  <2>1. \A k \in X \cup {l} : k[2]["PriceSold"] \in Nat
    BY <1>1
  <2> QED
    BY <2>1, LargestLine DEF Balanced
<1>7. /\ new \in Entries /\ new.EnergyUse \in Nat /\ new.EnergyGen \in Nat
      /\ new.EnergyTraded \in Nat
  BY <1>1
<1>8. /\ stat \in Figures
      /\ stat.EnergyUse = Sum(X, "EnergyUse") - Sum(X, "EnergyTraded")
      /\ stat.EnergyGen = Sum(X, "EnergyGen") - Sum(X, "EnergyTraded")
  BY DEF Balanced
<1> HIDE DEF Y, new
<1>9. CASE stat = Zero
  <2>1. /\ stat.EnergyUse = 0 /\ stat.EnergyGen = 0
        /\ stat.PricePaid = 0 /\ stat.PriceSold = 0
    BY <1>9 DEF Zero
  <2>2. new.EnergyTraded = 0
    BY <1>7, <1>9 DEF new
  <2>3. SlotCalc(stat, new) = new
    BY <1>9 DEF SlotCalc
  <2>4. new \in Figures
    BY <1>7 DEF Entries, Figures, Slots
  <2>5. /\ new.EnergyUse = Sum(Y, "EnergyUse") - Sum(Y, "EnergyTraded")
        /\ new.EnergyGen = Sum(Y, "EnergyGen") - Sum(Y, "EnergyTraded")
    BY <1>2, <1>3, <1>4, <1>7, <1>8, <2>1, <2>2
  <2>6. Balanced(new, Y)
    BY <1>5, <1>6, <2>1, <2>4, <2>5 DEF Balanced
  <2> QED
    BY <2>3, <2>6 DEF Y, new
<1>10. CASE stat # Zero
  <2> DEFINE s == SlotCalc(stat, new)
  <2>1. s = [Number |-> stat.Number,
             EnergyUse |-> stat.EnergyUse + new.EnergyUse - new.EnergyTraded,
             EnergyGen |-> stat.EnergyGen + new.EnergyGen - new.EnergyTraded,
             PricePaid |-> Max({stat.PricePaid, new.PricePaid}),
             PriceSold |-> Max({stat.PriceSold, new.PriceSold}),
             EnergyTraded |-> new.EnergyTraded]
    BY <1>10 DEF SlotCalc
  <2> HIDE DEF s
  <2>2. /\ s.EnergyUse = stat.EnergyUse + new.EnergyUse - new.EnergyTraded
        /\ s.EnergyGen = stat.EnergyGen + new.EnergyGen - new.EnergyTraded
        /\ s.PricePaid = Max({stat.PricePaid, new.PricePaid})
        /\ s.PriceSold = Max({stat.PriceSold, new.PriceSold})
    BY <2>1
  <2>3. /\ s.EnergyUse = Sum(Y, "EnergyUse") - Sum(Y, "EnergyTraded")
        /\ s.EnergyGen = Sum(Y, "EnergyGen") - Sum(Y, "EnergyTraded")
        /\ s.EnergyUse \in Int /\ s.EnergyGen \in Int
    BY <1>2, <1>3, <1>4, <1>7, <1>8, <2>2
  <2>4. IsLargest(s.PricePaid, Y, "PricePaid") /\ IsLargest(s.PriceSold, Y, "PriceSold")
    BY <1>5, <1>6, <2>2
  <2>5. s.PricePaid \in Nat /\ s.PriceSold \in Nat
    <3>1. /\ \A k \in Y : k[2].PricePaid \in Nat
          /\ \A k \in Y : k[2].PriceSold \in Nat
      BY <1>1 DEF Y
    <3> QED
      BY <2>4, <3>1 DEF IsLargest
  <2>6. s \in Figures
    <3>1. stat.Number \in Int
      BY <1>8 DEF Figures
    <3> QED
      BY <1>7, <2>1, <2>2, <2>3, <2>5, <3>1 DEF Figures
  <2>7. Balanced(s, Y)
    BY <2>3, <2>4, <2>6 DEF Balanced
  <2> QED
    BY <2>7 DEF s, Y, new
<1> QED
  BY <1>9, <1>10

-----------------------------------------------------------------------------
(***************************************************************************)
(* The order of the lines.  A line that is sent follows X, the lines sent  *)
(* before: it is new, a slot is marked once, a bid's line that follows its *)
(* slot's markEnd line is late, and a markEnd that settled something       *)
(* follows the line of a bid to buy.  The channel keeps that order, so     *)
(* what holds when the line is sent holds again when it is added up.       *)
(***************************************************************************)
HasBid(X, s) == \E l \in X : l[2].Number = s /\ l[2].EnergyUse > 0

Marked(X, s) == \E l \in X : l[1] = "markEnd" /\ l[2].Number = s

Follows(l, X, wiped) ==
  /\ l \notin X
  /\ l[1] = "markEnd" => ~ Marked(X, l[2].Number)
  /\ l[1] # "markEnd" /\ Marked(X, l[2].Number) => l[2].Number \in wiped
  /\ l[2].EnergyTraded > 0 => HasBid(X, l[2].Number)

\* The lines before the j-th one in the channel.
Before(j) == counted \cup {slotC[i] : i \in 1 .. j - 1}

OrderInv == \A j \in 1 .. Len(slotC) : Follows(slotC[j], Before(j), late)

\* What the senders have sent.  A goroutine sends one line for each of its
\* rows, before it invokes the bid.
Pcs == {"select", "line", "invoke", "tran", "exited"}

SentInv ==
  /\ lines \subseteq Lines
  /\ \A l \in lines : l[1] # "markEnd" => l[2].EnergyTraded = 0

BidderInv(b) ==
  /\ bidder[b].pc \in {"line", "invoke", "tran"} => bidder[b].row \in DOMAIN Trace[b]
  /\ \A l \in lines : l[1] = b => /\ l[2].Number <= bidder[b].row
                                  /\ bidder[b].pc = "line" => l[2].Number < bidder[b].row
  /\ b \in Buyers /\ bidder[b].pc \in {"invoke", "tran"} => HasBid(lines, bidder[b].row)

CalledInv ==
  \A c \in called :
    /\ c[1] \in Bidders /\ c[2] \in DOMAIN Trace[c[1]]
    /\ c[1] \in Buyers => HasBid(lines, c[2])

\* A slot is marked once, and what is traded was bid for.
RegInv ==
  /\ \A l \in lines : l[1] = "markEnd" => /\ l[2].Number <= reg.slot
                                          /\ reg.pc \in {"tran", "line"} => l[2].Number < reg.slot
  /\ reg.pc \in {"tran", "line"} => /\ reg.slot \in Slots
                                    /\ reg.traded > 0 => HasBid(lines, reg.slot)

SenderType ==
  /\ bidder \in [Bidders -> [pc : Pcs, row : Int]]
  /\ reg \in [pc : {"select", "tran", "failed", "line", "exited"}, slot : Int, traded : Nat]

SenderInv ==
  SenderType /\ SentInv /\ (\A b \in Bidders : BidderInv(b)) /\ CalledInv /\ RegInv

SlotInv ==
  /\ IsFiniteSet(counted)
  /\ SlotStats \in [Slots -> Figures]
  /\ \A s \in Slots : Balanced(SlotStats[s], Of(s))
  /\ \A s \in Slots \ late : SlotStats[s].EnergyTraded = Sum(Of(s), "EnergyTraded")

\* What the lines are.
LEMMA Numbers ==
  ASSUME NEW e \in Entries, NEW s \in Slots,
         NEW l, l = [e EXCEPT !.Number = s]
  PROVE  l \in Entries /\ l.Number = s /\ l.EnergyTraded = e.EnergyTraded
  BY DEF Entries

LEMMA BidLineIs ==
  ASSUME NEW b \in Bidders, bidder[b].row \in DOMAIN Trace[b]
  PROVE  /\ BidLine(b) \in Entries /\ BidLine(b).Number = bidder[b].row
         /\ BidLine(b).EnergyTraded = 0
         /\ b \in Buyers => BidLine(b).EnergyUse > 0
<1> DEFINE row == bidder[b].row
           bid == Trace[b][row]
           line == [Zero EXCEPT !.Number = row]
<1>1. row \in Slots /\ bid.energy \in Nat \ {0} /\ bid.price \in Nat
  BY StatsAssumption
<1>2. Zero \in Entries /\ Zero.EnergyTraded = 0
  BY <1>1, StatsAssumption DEF Zero, Entries, Slots
<1> HIDE DEF row, bid
<1>3. line \in Entries /\ line.Number = row /\ line.EnergyTraded = 0
  <2> HIDE DEF line
  <2> QED
    BY <1>1, <1>2, Numbers DEF line
<1> HIDE DEF line
<1>4. CASE b \in Buyers
  <2>1. BidLine(b) = [line EXCEPT !.EnergyUse = bid.energy, !.PricePaid = bid.price]
    BY <1>4 DEF BidLine, line, bid, row
  <2>2. bid.energy \in Nat /\ bid.price \in Nat /\ bid.energy > 0
    BY <1>1
  <2>3. /\ BidLine(b) \in Entries /\ BidLine(b).EnergyUse = bid.energy
        /\ BidLine(b).Number = line.Number
        /\ BidLine(b).EnergyTraded = line.EnergyTraded
    BY <1>3, <2>1, <2>2 DEF Entries
  <2> QED
    BY <1>3, <2>2, <2>3 DEF row
<1>5. CASE b \notin Buyers
  <2>1. BidLine(b) = [line EXCEPT !.EnergyGen = bid.energy, !.PriceSold = bid.price]
    BY <1>5 DEF BidLine, line, bid, row
  <2>2. bid.energy \in Nat /\ bid.price \in Nat
    BY <1>1
  <2>3. /\ BidLine(b) \in Entries
        /\ BidLine(b).Number = line.Number
        /\ BidLine(b).EnergyTraded = line.EnergyTraded
    BY <1>3, <2>1, <2>2 DEF Entries
  <2> QED
    BY <1>3, <1>5, <2>3 DEF row
<1> QED
  BY <1>4, <1>5

LEMMA MarkEndLineIs ==
  ASSUME reg.slot \in Slots, reg.traded \in Nat
  PROVE  /\ MarkEndLine \in Entries /\ MarkEndLine.Number = reg.slot
         /\ MarkEndLine.EnergyTraded = reg.traded
<1>1. Zero \in Entries
  BY StatsAssumption DEF Zero, Entries, Slots
<1> QED
  BY <1>1 DEF MarkEndLine, Entries

LEMMA MoreBids ==
  ASSUME NEW X, NEW Y, X \subseteq Y, NEW s, HasBid(X, s)
  PROVE  HasBid(Y, s)
  BY DEF HasBid

\* A line enters the channel, and leaves it.
LEMMA SendOrder ==
  ASSUME LinesInv, OrderInv, NEW x, NEW line, Send(x, line), counted' = counted,
         Follows(<<x, line>>, lines, late')
  PROVE  OrderInv'
<1> DEFINE l == <<x, line>>
<1>1. /\ slotC \in Seq(lines) /\ lines = counted \cup In(slotC)
      /\ slotC' = Append(slotC, l) /\ late \subseteq late'
  BY DEF LinesInv, Send
<1> HIDE DEF l
<1>2. /\ Len(slotC) \in Nat /\ Len(slotC') = Len(slotC) + 1
      /\ \A i \in 1 .. Len(slotC) : slotC'[i] = slotC[i]
      /\ slotC'[Len(slotC) + 1] = l
      /\ DOMAIN slotC = 1 .. Len(slotC)
  BY <1>1
<1> SUFFICES ASSUME NEW j \in 1 .. Len(slotC) + 1
             PROVE  Follows(slotC'[j], Before(j)', late')
  BY <1>2 DEF OrderInv
<1>3. \A i \in 1 .. j - 1 : i \in 1 .. Len(slotC) /\ slotC'[i] = slotC[i]
  BY <1>2
<1>4. Before(j)' = Before(j)
  BY <1>3 DEF Before
<1>5. CASE j \in 1 .. Len(slotC)
  <2>1. Follows(slotC[j], Before(j), late)
    BY <1>5 DEF OrderInv
  <2> QED
    BY <1>1, <1>2, <1>4, <1>5, <2>1 DEF Follows
<1>6. CASE j = Len(slotC) + 1
  <2>1. j - 1 = Len(slotC)
    BY <1>2, <1>6
  <2>2. Before(j) = lines
    BY <1>1, <1>2, <2>1 DEF Before, In
  <2> QED
    BY <1>2, <1>4, <1>6, <2>2 DEF l
<1> QED
  BY <1>2, <1>5, <1>6

LEMMA ReceiveOrder ==
  ASSUME LinesInv, OrderInv, ReceiveSlot
  PROVE  OrderInv' /\ Follows(Head(slotC), counted, late)
<1>1. /\ slotC \in Seq(lines) /\ slotC # <<>> /\ slotC' = Tail(slotC)
      /\ counted' = counted \cup {Head(slotC)} /\ late' = late
  BY DEF LinesInv, ReceiveSlot
<1>2. /\ Len(slotC) \in Nat \ {0} /\ Len(slotC') = Len(slotC) - 1
      /\ Head(slotC) = slotC[1]
      /\ \A i \in 1 .. Len(slotC) - 1 : slotC'[i] = slotC[i + 1]
  BY <1>1
<1>3. Follows(Head(slotC), counted, late)
  <2>1. 1 \in 1 .. Len(slotC) /\ 1 .. 1 - 1 = {}
    BY <1>2
  <2>2. Follows(slotC[1], Before(1), late)
    BY <2>1 DEF OrderInv
  <2>3. Before(1) = counted
    BY <2>1 DEF Before
  <2> QED
    BY <1>2, <2>2, <2>3
<1>4. ASSUME NEW j \in 1 .. Len(slotC) - 1
      PROVE  Follows(slotC'[j], Before(j)', late')
  <2>1. j + 1 \in 1 .. Len(slotC) /\ slotC'[j] = slotC[j + 1] /\ (j + 1) - 1 = j
    BY <1>2
  <2>2. Follows(slotC[j + 1], Before(j + 1), late)
    BY <2>1 DEF OrderInv
  <2>3. Before(j)' = Before(j + 1)
    <3>1. \A i \in 1 .. j - 1 : slotC'[i] = slotC[i + 1] /\ i + 1 \in 1 .. j
      BY <1>2
    <3>2. \A i \in 1 .. j : i = 1 \/ (i - 1 \in 1 .. j - 1 /\ slotC[i] = slotC'[i - 1])
      <4> SUFFICES ASSUME NEW i \in 1 .. j, i # 1
                   PROVE  i - 1 \in 1 .. j - 1 /\ slotC[i] = slotC'[i - 1]
        OBVIOUS
      <4>1. i - 1 \in 1 .. j - 1 /\ (i - 1) + 1 = i
        OBVIOUS
      <4> QED
        BY <3>1, <4>1
    <3>3. Before(j)' = counted' \cup {slotC'[i] : i \in 1 .. j - 1}
      BY DEF Before
    <3>4. Before(j + 1) = counted \cup {slotC[i] : i \in 1 .. j}
      BY <2>1 DEF Before
    <3>5. 1 \in 1 .. j
      OBVIOUS
    <3>6. ASSUME NEW z \in Before(j)' PROVE z \in Before(j + 1)
      BY <1>1, <1>2, <3>1, <3>3, <3>4, <3>5
    <3>7. ASSUME NEW z \in Before(j + 1) PROVE z \in Before(j)'
      <4>1. CASE z \in counted
        BY <1>1, <3>3, <4>1
      <4>2. CASE z \notin counted
        <5>1. PICK i \in 1 .. j : z = slotC[i]
          BY <3>4, <3>7, <4>2
        <5>2. CASE i = 1
          BY <1>1, <1>2, <3>3, <5>1, <5>2
        <5>3. CASE i # 1
          BY <3>2, <3>3, <5>1, <5>3
        <5> QED
          BY <5>2, <5>3
      <4> QED
        BY <4>1, <4>2
    <3> QED
      BY <3>6, <3>7
  <2> QED
    BY <1>1, <2>1, <2>2, <2>3
<1> QED
  BY <1>2, <1>3, <1>4 DEF OrderInv

\* What markEnd settles, somebody asked for.
LEMMA TradedIsAskedFor ==
  ASSUME SenderInv, NEW s \in Slots, NEW n \in Tradable(s), n > 0
  PROVE  HasBid(lines, s)
<1> DEFINE asked == {b \in Buyers : <<b, s>> \in called}
           offered == {b \in Bidders \ Buyers : <<b, s>> \in called}
<1>1. CASE asked # {}
  <2>1. PICK b \in Buyers : <<b, s>> \in called
    BY <1>1
  <2> DEFINE c == <<b, s>>
  <2>2. c \in called /\ c[1] = b /\ c[2] = s
    BY <2>1
  <2> HIDE DEF c
  <2> QED
    BY <2>1, <2>2 DEF SenderInv, CalledInv
<1>2. CASE asked = {}
  <2>1. Energy(s, Buyers) = 0
    BY <1>2, SumEmpty DEF Energy
  <2>2. Energy(s, Bidders \ Buyers) \in Int
    <3> DEFINE f == [b \in offered |-> Copies * Trace[b][s].energy]
    <3>1. ASSUME NEW b \in offered PROVE f[b] \in Int
      <4> DEFINE c == <<b, s>>
      <4>1. c \in called /\ c[1] = b /\ c[2] = s
        OBVIOUS
      <4> HIDE DEF c
      <4>2. s \in DOMAIN Trace[b] /\ b \in Bidders
        BY <4>1 DEF SenderInv, CalledInv
      <4>3. Trace[b][s].energy \in Int /\ Copies \in Int
        BY <4>2, StatsAssumption
      <4> QED
        BY <4>3
    <3>2. IsFiniteSet(offered)
      BY StatsAssumption, FS_Subset
    <3> HIDE DEF f
    <3>3. SumFunctionOnSet(f, offered) \in Int
      BY <3>1, <3>2, SumInt
    <3> QED
      BY <3>3 DEF Energy, f
  <2> DEFINE e == Energy(s, Bidders \ Buyers)
  <2>3. n \in 0 .. Min({0, e}) /\ e \in Int
    BY <2>1, <2>2 DEF Tradable
  <2> HIDE DEF e
  <2>4. Min({0, e}) <= 0 /\ Min({0, e}) \in Int
    <3>1. \E m \in {0, e} : \A k \in {0, e} : m <= k
      BY <2>3
    <3> QED
      BY <2>3, <3>1 DEF Min
  <2> QED
    BY <2>3, <2>4
<1> QED
  BY <1>1, <1>2

\* The steps that send nothing.
LEMMA SenderSame ==
  ASSUME SenderInv, UNCHANGED <<bidder, called, reg, lines>>
  PROVE  SenderInv'
<1>1. UNCHANGED <<bidder, called, reg, lines>>
  OBVIOUS
<1>2. SenderType' /\ SentInv' /\ CalledInv' /\ RegInv'
  BY <1>1 DEF SenderInv, SenderType, SentInv, CalledInv, RegInv
<1>3. \A b \in Bidders : BidderInv(b)'
  BY <1>1 DEF SenderInv, BidderInv
<1> QED
  BY <1>2, <1>3 DEF SenderInv

\* How a goroutine's record changes.
LEMMA BidderGoesOn ==
  ASSUME SenderType, NEW b \in Bidders, NEW p \in Pcs,
         bidder' = [bidder EXCEPT ![b].pc = p]
  PROVE  /\ bidder' \in [Bidders -> [pc : Pcs, row : Int]]
         /\ bidder'[b].pc = p /\ bidder'[b].row = bidder[b].row
         /\ \A c \in Bidders \ {b} : bidder'[c] = bidder[c]
  BY DEF SenderType

\* A goroutine does not send.
LEMMA BidderStep ==
  ASSUME SenderInv, NEW b \in Bidders,
         (\E row \in Slots : TakeRow(b, row)) \/ Invoke(b) \/ SendBidTran(b) \/ BidderQuits(b)
  PROVE  SenderInv'
<1>1. lines' = lines /\ reg' = reg
  BY DEF TakeRow, Invoke, SendBidTran, BidderQuits, histVars
<1>2. SentInv' /\ RegInv'
  BY <1>1 DEF SenderInv, SentInv, RegInv
<1>3. SenderType /\ BidderInv(b) /\ CalledInv
  BY DEF SenderInv
<1>4. \A l \in lines : l[2].Number \in Int
  BY DEF SenderInv, SentInv, Lines, Entries, Slots
<1>5. ASSUME \A c \in Bidders \ {b} : bidder'[c] = bidder[c], BidderInv(b)'
      PROVE  \A c \in Bidders : BidderInv(c)'
  <2> SUFFICES ASSUME NEW c \in Bidders \ {b} PROVE BidderInv(c)'
    BY <1>5
  <2>1. BidderInv(c) /\ bidder'[c] = bidder[c]
    BY <1>5 DEF SenderInv
  <2> QED
    BY <1>1, <2>1 DEF BidderInv
<1>6. ASSUME NEW row \in Slots, TakeRow(b, row)
      PROVE  SenderInv'
  <2>1. /\ row \in DOMAIN Trace[b] /\ row > bidder[b].row /\ called' = called
        /\ bidder' = [bidder EXCEPT ![b] = [pc |-> "line", row |-> row]]
    BY <1>6 DEF TakeRow, After
  <2>2. /\ bidder' \in [Bidders -> [pc : Pcs, row : Int]]
        /\ bidder'[b].pc = "line" /\ bidder'[b].row = row
        /\ \A c \in Bidders \ {b} : bidder'[c] = bidder[c]
    <3>1. row \in Int
      BY DEF Slots
    <3> QED
      BY <1>3, <2>1, <3>1 DEF SenderType, Pcs
  <2>3. bidder[b].row \in Int /\ row \in Int
    BY <1>3 DEF SenderType, Slots
  <2>4. BidderInv(b)'
    BY <1>1, <1>3, <1>4, <2>1, <2>2, <2>3 DEF BidderInv
  <2>5. CalledInv' /\ SenderType'
    BY <1>1, <1>3, <2>1, <2>2 DEF CalledInv, SenderType
  <2> QED
    BY <1>2, <1>5, <2>2, <2>4, <2>5 DEF SenderInv
<1>7. CASE Invoke(b)
  <2>1. /\ bidder[b].pc = "invoke" /\ called' = called \cup {<<b, bidder[b].row>>}
        /\ bidder' = [bidder EXCEPT ![b].pc = "tran"]
    BY <1>7 DEF Invoke, After
  <2>2. /\ bidder' \in [Bidders -> [pc : Pcs, row : Int]]
        /\ bidder'[b].pc = "tran" /\ bidder'[b].row = bidder[b].row
        /\ \A c \in Bidders \ {b} : bidder'[c] = bidder[c]
    BY <1>3, <2>1, BidderGoesOn DEF Pcs
  <2>3. BidderInv(b)'
    BY <1>1, <1>3, <2>1, <2>2 DEF BidderInv
  <2>4. CalledInv'
    <3> DEFINE n == <<b, bidder[b].row>>
    <3>1. n[1] = b /\ n[2] = bidder[b].row /\ called' = called \cup {n}
      BY <2>1
    <3> HIDE DEF n
    <3>2. /\ n[1] \in Bidders /\ n[2] \in DOMAIN Trace[n[1]]
          /\ n[1] \in Buyers => HasBid(lines, n[2])
      BY <1>3, <2>1, <3>1 DEF BidderInv
    <3> QED
      BY <1>1, <1>3, <3>1, <3>2 DEF CalledInv
  <2>5. SenderType'
    BY <1>1, <1>3, <2>2 DEF SenderType
  <2> QED
    BY <1>2, <1>5, <2>2, <2>3, <2>4, <2>5 DEF SenderInv
<1>8. CASE SendBidTran(b) \/ BidderQuits(b)
  <2>1. PICK p \in {"select", "invoke", "exited"} :
          /\ p = "invoke" => bidder[b].pc = "tran"
          /\ bidder' = [bidder EXCEPT ![b].pc = p] /\ called' = called
    BY <1>8 DEF SendBidTran, BidderQuits
  <2>2. /\ bidder' \in [Bidders -> [pc : Pcs, row : Int]]
        /\ bidder'[b].pc = p /\ bidder'[b].row = bidder[b].row
        /\ \A c \in Bidders \ {b} : bidder'[c] = bidder[c]
    BY <1>3, <2>1, BidderGoesOn DEF Pcs
  <2>3. BidderInv(b)'
    BY <1>1, <1>3, <2>1, <2>2 DEF BidderInv
  <2>4. CalledInv' /\ SenderType'
    BY <1>1, <1>3, <2>1, <2>2 DEF CalledInv, SenderType
  <2> QED
    BY <1>2, <1>5, <2>2, <2>3, <2>4 DEF SenderInv
<1> QED
  BY <1>6, <1>7, <1>8

\* A goroutine sends the line of its bid.
LEMMA BidLineStep ==
  ASSUME SenderInv, NEW b \in Bidders, SendBidLine(b)
  PROVE  SenderInv' /\ Follows(<<b, BidLine(b)>>, lines, late')
<1> DEFINE row == bidder[b].row
           l == <<b, BidLine(b)>>
<1>1. /\ bidder[b].pc = "line" /\ called' = called /\ reg' = reg
      /\ bidder' = [bidder EXCEPT ![b].pc = "invoke"]
      /\ Send(b, BidLine(b))
  BY DEF SendBidLine, After
<1>2. SenderType /\ SentInv /\ BidderInv(b) /\ CalledInv /\ RegInv
  BY DEF SenderInv
<1>3. row \in DOMAIN Trace[b] /\ b # "markEnd"
  BY <1>1, <1>2, StatsAssumption DEF BidderInv
<1>4. /\ l[1] = b /\ l[2] \in Entries /\ l[2].Number = row /\ l[2].EnergyTraded = 0
      /\ b \in Buyers => l[2].EnergyUse > 0
      /\ l \in Lines
  BY <1>3, BidLineIs DEF Lines
<1>5. /\ lines' = lines \cup {l}
      /\ (\E k \in lines : k[1] = "markEnd" /\ k[2].Number = BidLine(b).Number) => BidLine(b).Number \in late'
  BY <1>1, <1>3 DEF Send
<1>6. BidLine(b).Number = row
  BY <1>4
<1> HIDE DEF l, row
<1>7. /\ bidder' \in [Bidders -> [pc : Pcs, row : Int]]
      /\ bidder'[b].pc = "invoke" /\ bidder'[b].row = bidder[b].row
      /\ \A c \in Bidders \ {b} : bidder'[c] = bidder[c]
  BY <1>1, <1>2, BidderGoesOn DEF Pcs
<1>8. \A k \in lines : k[2].Number \in Int
  BY <1>2 DEF SentInv, Lines, Entries, Slots
<1>9. row \in Int /\ row = bidder[b].row
  BY <1>2 DEF SenderType, row
<1>10. l \notin lines
  BY <1>1, <1>2, <1>4, <1>8, <1>9 DEF BidderInv
<1>11. Follows(l, lines, late')
  BY <1>3, <1>4, <1>5, <1>6, <1>10 DEF Follows, Marked
<1>12. \A s : HasBid(lines, s) => HasBid(lines', s)
  BY <1>5, MoreBids
<1>13. SentInv'
  BY <1>2, <1>4, <1>5 DEF SentInv
<1>14. BidderInv(b)'
  <2>1. b \in Buyers => HasBid(lines', row)
    BY <1>4, <1>5 DEF HasBid
  <2>2. \A k \in lines' : k[1] = b => k[2].Number <= row
    BY <1>2, <1>4, <1>5, <1>8, <1>9 DEF BidderInv
  <2> QED
    BY <1>3, <1>7, <1>9, <2>1, <2>2 DEF BidderInv
<1>15. ASSUME NEW c \in Bidders \ {b} PROVE BidderInv(c)'
  <2>1. BidderInv(c) /\ bidder'[c] = bidder[c]
    BY <1>7 DEF SenderInv
  <2>2. \A k \in lines' : k[1] = c => k \in lines
    BY <1>4, <1>5
  <2> QED
    BY <1>12, <2>1, <2>2 DEF BidderInv
<1>16. CalledInv'
  BY <1>1, <1>2, <1>12 DEF CalledInv
<1>17. RegInv'
  <2>1. \A k \in lines' : k[1] = "markEnd" => k \in lines
    BY <1>3, <1>4, <1>5
  <2> QED
    BY <1>1, <1>2, <1>12, <2>1 DEF RegInv
<1>18. SenderType'
  BY <1>1, <1>2, <1>7 DEF SenderType
<1> QED
  BY <1>11, <1>13, <1>14, <1>15, <1>16, <1>17, <1>18 DEF SenderInv, l

\* The regulator's task goroutine.
LEMMA MarkEndStep ==
  ASSUME SenderInv, (\E slot \in Slots : MarkEnd(slot)) \/ SendMarkEndTran \/ RegulatorQuits
  PROVE  SenderInv'
<1>1. bidder' = bidder /\ called' = called /\ lines' = lines
  BY DEF MarkEnd, SendMarkEndTran, RegulatorQuits, histVars
<1>2. SenderType /\ SentInv /\ CalledInv /\ RegInv /\ reg.slot \in Int /\ reg.traded \in Nat
  BY DEF SenderInv, SenderType
<1>3. SentInv' /\ CalledInv'
  BY <1>1, <1>2 DEF SentInv, CalledInv
<1>4. \A b \in Bidders : BidderInv(b)'
  BY <1>1 DEF SenderInv, BidderInv
<1>5. \A l \in lines : l[2].Number \in Int
  BY <1>2 DEF SentInv, Lines, Entries, Slots
<1> DEFINE Regs == [pc : {"select", "tran", "failed", "line", "exited"}, slot : Int, traded : Nat]
<1>6. reg \in Regs
  BY <1>2 DEF SenderType
<1>7. RegInv' /\ reg' \in Regs
  <2>1. ASSUME NEW slot \in Slots, MarkEnd(slot)
        PROVE  RegInv' /\ reg' \in Regs
    <3>1. slot > reg.slot /\ slot \in Int
      <4>1. slot > reg.slot
        BY <2>1 DEF MarkEnd
      <4>2. slot \in Int
        BY DEF Slots
      <4> QED
        BY <4>1, <4>2
    <3>2. \A l \in lines : l[1] = "markEnd" => l[2].Number < slot
      BY <1>2, <1>5, <3>1 DEF RegInv
    <3>3. CASE reg' = [reg EXCEPT !.pc = "failed", !.slot = slot]
      <4>1. reg' \in Regs /\ reg'.pc = "failed" /\ reg'.slot = slot
        BY <1>6, <3>1, <3>3
      <4> QED
        BY <1>1, <1>5, <3>1, <3>2, <4>1 DEF RegInv
    <3>4. ASSUME NEW n \in Tradable(slot), reg' = [pc |-> "tran", slot |-> slot, traded |-> n]
          PROVE  RegInv' /\ reg' \in Regs
      <4>1. n \in Nat
        BY DEF Tradable
      <4>2. n > 0 => HasBid(lines, slot)
        BY TradedIsAskedFor
      <4>3. reg' \in Regs /\ reg'.pc = "tran" /\ reg'.slot = slot /\ reg'.traded = n
        BY <3>1, <3>4, <4>1
      <4> HIDE DEF Regs
      <4> QED
        BY <1>1, <1>5, <3>1, <3>2, <4>2, <4>3 DEF RegInv
    <3> QED
      BY <2>1, <3>3, <3>4 DEF MarkEnd
  <2>2. CASE SendMarkEndTran \/ RegulatorQuits
    <3>1. PICK p \in {"line", "select", "exited"} :
            /\ p = "line" => reg.pc = "tran"
            /\ reg' = [reg EXCEPT !.pc = p]
      BY <2>2 DEF SendMarkEndTran, RegulatorQuits
    <3>2. reg' \in Regs /\ reg'.pc = p /\ reg'.slot = reg.slot /\ reg'.traded = reg.traded
      BY <1>6, <3>1
    <3> QED
      BY <1>1, <1>2, <3>1, <3>2 DEF RegInv
  <2> QED
    BY <2>1, <2>2
<1>8. SenderType'
  BY <1>1, <1>2, <1>7 DEF SenderType
<1> QED
  BY <1>3, <1>4, <1>7, <1>8 DEF SenderInv

LEMMA MarkEndLineStep ==
  ASSUME SenderInv, SendMarkEndLine
  PROVE  SenderInv' /\ Follows(<<"markEnd", MarkEndLine>>, lines, late')
<1> DEFINE l == <<"markEnd", MarkEndLine>>
<1>1. /\ reg.pc = "line" /\ bidder' = bidder /\ called' = called /\ lines' = lines \cup {l}
      /\ reg' = [reg EXCEPT !.pc = "select", !.traded = 0]
  BY DEF SendMarkEndLine, Send
<1>2. SenderType /\ SentInv /\ CalledInv /\ RegInv /\ reg.slot \in Slots /\ reg.traded \in Nat
  BY <1>1 DEF SenderInv, SenderType, RegInv
<1>3. /\ l[1] = "markEnd" /\ l[2] \in Entries /\ l[2].Number = reg.slot
      /\ l[2].EnergyTraded = reg.traded /\ l \in Lines
  BY <1>2, MarkEndLineIs DEF Lines
<1> HIDE DEF l
<1>4. \A k \in lines : k[2].Number \in Int
  BY <1>2 DEF SentInv, Lines, Entries, Slots
<1>5. \A k \in lines : k[1] = "markEnd" => k[2].Number < reg.slot
  BY <1>1, <1>2 DEF RegInv
<1>6. reg.slot \in Int
  BY <1>2 DEF Slots
<1>7. l \notin lines /\ ~ Marked(lines, reg.slot)
  BY <1>3, <1>4, <1>5, <1>6 DEF Marked
<1>8. Follows(l, lines, late')
  BY <1>1, <1>2, <1>3, <1>7 DEF Follows, RegInv
<1>9. \A s : HasBid(lines, s) => HasBid(lines', s)
  BY <1>1, MoreBids
<1>10. SentInv'
  BY <1>1, <1>2, <1>3 DEF SentInv
<1>11. ASSUME NEW b \in Bidders PROVE BidderInv(b)'
  <2>1. BidderInv(b) /\ bidder'[b] = bidder[b]
    BY <1>1 DEF SenderInv
  <2>2. \A k \in lines' : k[1] = b => k \in lines
    BY <1>1, <1>3, StatsAssumption
  <2> QED
    BY <1>9, <2>1, <2>2 DEF BidderInv
<1>12. CalledInv'
  BY <1>1, <1>2, <1>9 DEF CalledInv
<1>13. RegInv' /\ SenderType'
  <2> DEFINE Regs == [pc : {"select", "tran", "failed", "line", "exited"}, slot : Int, traded : Nat]
  <2>1. reg \in Regs
    BY <1>2 DEF SenderType
  <2>2. reg' \in Regs /\ reg'.pc = "select" /\ reg'.slot = reg.slot
    BY <1>1, <2>1
  <2>3. \A k \in lines' : k[1] = "markEnd" => k[2].Number <= reg.slot
    BY <1>1, <1>3, <1>4, <1>5, <1>6
  <2>4. RegInv'
    BY <2>2, <2>3 DEF RegInv
  <2>5. SenderType'
    BY <1>1, <1>2, <2>2 DEF SenderType
  <2> QED
    BY <2>4, <2>5
<1> QED
  BY <1>8, <1>10, <1>11, <1>12, <1>13 DEF SenderInv, l

\* The collector adds up a line.
LEMMA ReceiveSlotStep ==
  ASSUME LinesInv, SentInv, SlotInv, ReceiveSlot, Follows(Head(slotC), counted, late)
  PROVE  SlotInv'
<1> DEFINE line == Head(slotC)[2]
<1>1. /\ slotC # <<>> /\ counted' = counted \cup {Head(slotC)} /\ late' = late
      /\ SlotStats' = [SlotStats EXCEPT ![line.Number] = SlotCalc(SlotStats[line.Number], line)]
  BY DEF ReceiveSlot
<1>2. PICK l \in lines : l = Head(slotC) /\ counted \subseteq lines
  <2>1. Head(slotC) \in lines /\ counted \subseteq lines
    BY <1>1, TakeOut DEF LinesInv
  <2> QED
    BY <2>1
<1>3. lines \subseteq Lines /\ \A k \in lines : k[1] # "markEnd" => k[2].EnergyTraded = 0
  BY DEF SentInv
<1>4. Follows(l, counted, late)
  BY <1>2
<1>5. l[2] \in Entries /\ l[2].EnergyTraded \in Nat
  BY <1>2, <1>3, FieldTypes
<1>6. PICK t \in Slots : t = l[2].Number
  BY <1>5 DEF Entries
<1>7. /\ slotC # <<>> /\ counted' = counted \cup {l} /\ late' = late
      /\ SlotStats' = [SlotStats EXCEPT ![t] = SlotCalc(SlotStats[t], l[2])]
  BY <1>1, <1>2, <1>6
<1> DEFINE X == Of(t)
<1>8. IsFiniteSet(counted) /\ IsFiniteSet(X) /\ X \subseteq counted
  BY FS_Subset DEF SlotInv, Of
<1>9. l \notin X /\ X \cup {l} \subseteq Lines
  BY <1>2, <1>3, <1>4, <1>8 DEF Follows
<1>10. Balanced(SlotStats[t], X)
  BY <1>6 DEF SlotInv
<1>11. Of(t)' = X \cup {l} /\ \A s \in Slots \ {t} : Of(s)' = Of(s)
  BY <1>7, <1>6 DEF Of
<1>12. \A k \in X : k[2]["EnergyUse"] \in Nat /\ k[2].EnergyTraded \in Nat
  BY <1>9, FieldTypes
<1>13. ~ Marked(counted, t) => \A k \in X : k[2]["EnergyTraded"] = 0
  BY <1>2, <1>3, <1>8 DEF Marked, Of
<1>14. ~ Marked(counted, t) => Sum(X, "EnergyTraded") = 0
  BY <1>8, <1>13, SumZeros
<1>15. ASSUME l[2].EnergyTraded > 0 PROVE SlotStats[t] # Zero
  <2>1. l[1] = "markEnd"
    BY <1>2, <1>3, <1>5, <1>15
  <2>2. ~ Marked(counted, t) /\ HasBid(counted, t)
    BY <1>4, <1>6, <1>15, <2>1 DEF Follows
  <2>3. PICK k \in X : k[2]["EnergyUse"] > 0
    BY <2>2 DEF HasBid, Of
  <2>4. Sum(X, "EnergyUse") > 0
    BY <1>8, <1>12, <2>3, SumSome
  <2>5. SlotStats[t].EnergyUse = Sum(X, "EnergyUse") - Sum(X, "EnergyTraded")
    BY <1>10 DEF Balanced
  <2>6. Sum(X, "EnergyUse") \in Int
    BY <1>8, <1>9, <1>12, SumType
  <2>7. SlotStats[t].EnergyUse # 0
    BY <1>14, <2>2, <2>4, <2>5, <2>6
  <2> QED
    BY <2>7 DEF Zero
<1>16. Balanced(SlotCalc(SlotStats[t], l[2]), X \cup {l})
  BY <1>8, <1>9, <1>10, <1>15, SlotCalcBalanced
<1>17. /\ SlotStats'[t] = SlotCalc(SlotStats[t], l[2])
       /\ \A s \in Slots \ {t} : SlotStats'[s] = SlotStats[s]
       /\ SlotStats' \in [Slots -> Figures]
  <2>1. SlotCalc(SlotStats[t], l[2]) \in Figures
    BY <1>16 DEF Balanced
  <2>2. SlotStats \in [Slots -> Figures]
    BY DEF SlotInv
  <2> QED
    BY <1>7, <1>6, <2>1, <2>2
<1>18. SlotCalc(SlotStats[t], l[2]).EnergyTraded = l[2].EnergyTraded
  BY DEF SlotCalc
<1>19. t \notin late => l[2].EnergyTraded = Sum(X \cup {l}, "EnergyTraded")
  <2>1. Sum(X \cup {l}, "EnergyTraded") = Sum(X, "EnergyTraded") + l[2]["EnergyTraded"]
    <3>1. \A k \in X \cup {l} : k[2]["EnergyTraded"] \in Int
      BY <1>5, <1>12
    <3> QED
      BY <1>8, <1>9, <3>1, SumLine
  <2> SUFFICES ASSUME t \notin late PROVE Sum(X, "EnergyTraded") = 0
    BY <1>5, <2>1
  <2>2. ~ Marked(counted, t)
    BY <1>3, <1>4, <1>6, <1>2 DEF Follows
  <2> QED
    BY <1>14, <2>2
<1>20. ASSUME NEW s \in Slots
       PROVE  /\ Balanced(SlotStats'[s], Of(s)')
              /\ s \notin late => SlotStats'[s].EnergyTraded = Sum(Of(s)', "EnergyTraded")
  <2>1. CASE s = t
    BY <1>11, <1>16, <1>17, <1>18, <1>19, <2>1
  <2>2. CASE s # t
    BY <1>11, <1>17, <2>2 DEF SlotInv
  <2> QED
    BY <2>1, <2>2
<1>21. IsFiniteSet(counted')
  BY <1>7, <1>8, FS_AddElement
<1> QED
  BY <1>7, <1>17, <1>20, <1>21 DEF SlotInv

(***************************************************************************)
(* All of it.                                                              *)
(***************************************************************************)
CollectInv == LinesInv /\ OrderInv /\ SenderInv /\ SlotInv

LEMMA SlotSame ==
  ASSUME SlotInv, UNCHANGED <<counted, SlotStats>>, late \subseteq late'
  PROVE  SlotInv'
<1>1. counted' = counted /\ SlotStats' = SlotStats
  OBVIOUS
<1>2. \A s : Of(s)' = Of(s)
  BY <1>1 DEF Of
<1> QED
  BY <1>1, <1>2 DEF SlotInv

LEMMA OrderSame ==
  ASSUME OrderInv, UNCHANGED <<slotC, counted, late>>
  PROVE  OrderInv'
  BY DEF OrderInv, Before

LEMMA CollectStep == CollectInv /\ [Next]_vars => CollectInv'
<1> SUFFICES ASSUME CollectInv, [Next]_vars PROVE CollectInv'
  OBVIOUS
<1>1. LinesInv /\ OrderInv /\ SenderInv /\ SlotInv
  BY DEF CollectInv
<1>2. LinesInv'
  BY <1>1, LinesStep
<1>3. ASSUME NEW b \in Bidders, SendBidLine(b) PROVE CollectInv'
  <2>1. /\ Send(b, BidLine(b)) /\ counted' = counted /\ SlotStats' = SlotStats
    BY <1>3 DEF SendBidLine, statVars
  <2>2. late \subseteq late'
    BY <2>1 DEF Send
  <2>3. SenderInv' /\ Follows(<<b, BidLine(b)>>, lines, late')
    BY <1>1, <1>3, BidLineStep
  <2>4. OrderInv'
    BY <1>1, <2>1, <2>3, SendOrder
  <2> QED
    BY <1>1, <1>2, <2>1, <2>2, <2>3, <2>4, SlotSame DEF CollectInv
<1>4. CASE SendMarkEndLine
  <2>1. /\ Send("markEnd", MarkEndLine) /\ counted' = counted /\ SlotStats' = SlotStats
    BY <1>4 DEF SendMarkEndLine, statVars
  <2>2. late \subseteq late'
    BY <2>1 DEF Send
  <2>3. SenderInv' /\ Follows(<<"markEnd", MarkEndLine>>, lines, late')
    BY <1>1, <1>4, MarkEndLineStep
  <2>4. OrderInv'
    BY <1>1, <2>1, <2>3, SendOrder
  <2> QED
    BY <1>1, <1>2, <2>1, <2>2, <2>3, <2>4, SlotSame DEF CollectInv
<1>5. CASE ReceiveSlot
  <2>1. OrderInv' /\ Follows(Head(slotC), counted, late)
    BY <1>1, <1>5, ReceiveOrder
  <2>2. SlotInv'
    BY <1>1, <1>5, <2>1, ReceiveSlotStep DEF SenderInv
  <2>3. UNCHANGED <<bidder, called, reg, lines>>
    BY <1>5 DEF ReceiveSlot, workVars
  <2>4. SenderInv'
    BY <1>1, <2>3, SenderSame
  <2> QED
    BY <1>2, <2>1, <2>2, <2>4 DEF CollectInv
<1>6. ASSUME UNCHANGED <<slotC, counted, late, SlotStats>>, SenderInv' PROVE CollectInv'
  BY <1>1, <1>2, <1>6, SlotSame, OrderSame DEF CollectInv
<1>7. ASSUME NEW b \in Bidders,
             (\E row \in Slots : TakeRow(b, row)) \/ Invoke(b) \/ SendBidTran(b) \/ BidderQuits(b)
      PROVE  CollectInv'
  <2>1. UNCHANGED <<slotC, counted, late, SlotStats>>
    BY <1>7 DEF TakeRow, Invoke, SendBidTran, BidderQuits, histVars, statVars
  <2> QED
    BY <1>1, <1>6, <1>7, <2>1, BidderStep
<1>8. CASE (\E slot \in Slots : MarkEnd(slot)) \/ SendMarkEndTran \/ RegulatorQuits
  <2>1. UNCHANGED <<slotC, counted, late, SlotStats>>
    BY <1>8 DEF MarkEnd, SendMarkEndTran, RegulatorQuits, histVars, statVars
  <2> QED
    BY <1>1, <1>6, <1>8, <2>1, MarkEndStep
<1>9. CASE (\E n \in 0 .. MaxBlock : Observe(n)) \/ TakeNumber \/ GetBlock \/ GotBlocks
           \/ GetterQuits
  <2>1. UNCHANGED <<slotC, counted, late, SlotStats, bidder, called, reg, lines>>
    BY <1>9 DEF Observe, TakeNumber, GetBlock, GotBlocks, GetterQuits, histVars, statVars, workVars
  <2> QED
    BY <1>1, <1>6, <2>1, SenderSame
<1>10. CASE ReceiveTransaction \/ ReceiveBlock \/ Stop \/ Drained \/ UNCHANGED vars
  <2>1. UNCHANGED <<slotC, counted, late, SlotStats, bidder, called, reg, lines>>
    BY <1>10 DEF ReceiveTransaction, ReceiveBlock, Stop, Drained, histVars, vars, statVars, workVars
  <2> QED
    BY <1>1, <1>6, <2>1, SenderSame
<1> QED
  BY <1>3, <1>4, <1>5, <1>7, <1>8, <1>9, <1>10 DEF Next

LEMMA CollectInit == Init => CollectInv
<1> SUFFICES ASSUME Init PROVE CollectInv
  OBVIOUS
<1>1. /\ slotC = <<>> /\ lines = {} /\ counted = {} /\ called = {} /\ late = {}
      /\ SlotStats = [s \in Slots |-> Zero]
      /\ bidder = [b \in Bidders |-> [pc |-> "select", row |-> -1]]
      /\ reg = [pc |-> "select", slot |-> -1, traded |-> 0]
  BY DEF Init
<1>2. LinesInv
  BY <1>1, EmptyQueue, EmptySeq DEF LinesInv
<1>3. OrderInv
  BY <1>1, EmptySeq DEF OrderInv
<1>4. SenderInv
  <2>1. SenderType
    BY <1>1 DEF SenderType, Pcs
  <2>2. SentInv /\ CalledInv /\ RegInv
    BY <1>1 DEF SentInv, CalledInv, RegInv
  <2>3. \A b \in Bidders : BidderInv(b)
    BY <1>1 DEF BidderInv
  <2> QED
    BY <2>1, <2>2, <2>3 DEF SenderInv
<1>5. SlotInv
  <2>1. IsFiniteSet(counted) /\ \A s : Of(s) = {}
    BY <1>1, FS_EmptySet DEF Of
  <2>2. SlotStats \in [Slots -> Figures]
    BY <1>1, NoneBalanced DEF Balanced
  <2>3. \A s \in Slots : SlotStats[s] = Zero
    BY <1>1
  <2>4. Sum({}, "EnergyTraded") = 0 /\ Zero.EnergyTraded = 0
    BY SumZeros, FS_EmptySet DEF Zero
  <2> QED
    BY <2>1, <2>2, <2>3, <2>4, NoneBalanced DEF SlotInv
<1> QED
  BY <1>2, <1>3, <1>4, <1>5 DEF CollectInv

(***************************************************************************)
(* What the collector has for a slot is what the bidders asked for and     *)
(* offered less what was traded, whatever the order of the lines           *)
(* (collector.go, SlotCalc; bidder.go, Buy and Sell; regulator.go, Run).   *)
(***************************************************************************)
THEOREM GridIsBalanced == Spec => []GridBalance
<1>1. CollectInv => GridBalance
  <2> SUFFICES ASSUME CollectInv, NEW s \in Slots
               PROVE  LET stat == SlotStats[s]
                          traded == Total(s, "EnergyTraded")
                      IN  /\ stat.EnergyUse = Total(s, "EnergyUse") - traded
                          /\ stat.EnergyGen = Total(s, "EnergyGen") - traded
                          /\ stat.PricePaid = Largest(s, "PricePaid")
                          /\ stat.PriceSold = Largest(s, "PriceSold")
    BY DEF GridBalance
  <2>1. Balanced(SlotStats[s], Of(s))
    BY DEF CollectInv, SlotInv
  <2>2. \A field : Total(s, field) = Sum(Of(s), field)
    BY DEF Total, Sum
  <2>3. Of(s) \subseteq Lines
    BY DEF CollectInv, LinesInv, SenderInv, SentInv, Of
  <2>4. SlotStats[s].PricePaid = Largest(s, "PricePaid")
    <3>1. \A k \in Of(s) : k[2]["PricePaid"] \in Nat
      BY <2>3, FieldTypes
    <3> QED
      BY <2>1, <3>1, TheLargest DEF Balanced, Largest
  <2>5. SlotStats[s].PriceSold = Largest(s, "PriceSold")
    <3>1. \A k \in Of(s) : k[2]["PriceSold"] \in Nat
      BY <2>3, FieldTypes
    <3> QED
      BY <2>1, <3>1, TheLargest DEF Balanced, Largest
  <2> QED
    BY <2>1, <2>2, <2>4, <2>5 DEF Balanced
<1> QED
  BY <1>1, CollectInit, CollectStep, PTL DEF Spec

(***************************************************************************)
(* The energy reported as traded is what markEnd settled, unless a bid's   *)
(* line came after markEnd's (collector.go, SlotCalc).                     *)
(***************************************************************************)
THEOREM TradedIsKept == Spec => []TradedUnlessLate
<1>1. CollectInv => TradedUnlessLate
  BY DEF CollectInv, SlotInv, TradedUnlessLate, Total, Sum
<1> QED
  BY <1>1, CollectInit, CollectStep, PTL DEF Spec
=============================================================================
