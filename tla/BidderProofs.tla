---------------------------- MODULE BidderProofs ----------------------------
(***************************************************************************)
(* Proofs about module Bidder, for every trace, every capacity of the      *)
(* queues and with or without a second notifier: the queues stay within    *)
(* their capacity, the rows come through them in order, and the bidder     *)
(* implements Agent.                                                       *)
(***************************************************************************)
EXTENDS Bidder, DataLemmas, SequenceTheorems

-----------------------------------------------------------------------------
(***************************************************************************)
(* The constants.                                                          *)
(***************************************************************************)
LEMMA Constants ==
  /\ 1 \in Notifiers /\ Notifiers \subseteq {1, 2}
  /\ TraceLength \in Nat \ {0} /\ BufferLen \in Nat \ {0}
  /\ MaxSlot \in Nat /\ MaxSlot <= TraceLength - 1
  /\ Rows \subseteq Int
  /\ "buy" \in Workers /\ "sell" \in Workers
  /\ "postKey" \in Workers <=> 2 \in Notifiers
  /\ Workers \subseteq {"buy", "sell", "postKey"}
  BY BidderAssumption DEF Rows, Workers

\* The notifier whose slots a goroutine acts on.
Lane(w) == IF w = "postKey" THEN 2 ELSE 1

LEMMA Lanes ==
  /\ \A w \in Workers : Lane(w) \in Notifiers
  /\ Lane("buy") = 1 /\ Lane("sell") = 1 /\ Lane("postKey") = 2
  BY Constants DEF Lane

LEMMA RowQueue ==
  ASSUME NEW q \in Seq(Rows)
  PROVE  /\ q \in Seq(Int) /\ In(q) \subseteq Rows
         /\ Len(q) \in Nat
         /\ \A r \in Rows : Append(q, r) \in Seq(Rows) /\ Len(Append(q, r)) = Len(q) + 1
         /\ q # <<>> => /\ Head(q) \in Rows /\ Tail(q) \in Seq(Rows)
                        /\ Len(Tail(q)) = Len(q) - 1
<1>1. q \in Seq(Int)
  BY Constants, SeqMonotonic
<1> QED
  BY <1>1, InType

\* The main loop's record.
LoopType(N) == [pc : {"loop", "closing", "returned"}, failed : BOOLEAN, row : N]

LEMMA LoopRecord ==
  ASSUME NEW N, NEW r \in N, NEW l \in LoopType(N), NEW m,
         \/ m = [pc |-> "closing", failed |-> TRUE, row |-> r]
         \/ m = [pc |-> "closing", failed |-> FALSE, row |-> r]
         \/ m = [l EXCEPT !.row = r]
  PROVE  m \in LoopType(N)
<1>1. CASE m = [pc |-> "closing", failed |-> TRUE, row |-> r]
  BY <1>1 DEF LoopType
<1>2. CASE m = [pc |-> "closing", failed |-> FALSE, row |-> r]
  BY <1>2 DEF LoopType
<1>3. CASE m = [l EXCEPT !.row = r]
  BY <1>3 DEF LoopType
<1> QED
  BY <1>1, <1>2, <1>3

-----------------------------------------------------------------------------
(***************************************************************************)
(* Type correctness.                                                       *)
(***************************************************************************)
LEMMA InitTypeOK == Init => TypeOK
<1> SUFFICES ASSUME Init PROVE TypeOK
  OBVIOUS
<1>1. -1 \in -1 .. TraceLength - 1 /\ -1 \in -1 .. MaxSlot /\ 0 \in 0 .. BufferLen
  BY Constants
<1>2. /\ told \in [Notifiers -> -1 .. MaxSlot]
      /\ loop.row \in -1 .. TraceLength - 1
      /\ recentQ \in 0 .. BufferLen
  BY <1>1 DEF Init
<1>3. loop \in [pc : {"loop", "closing", "returned"}, failed : BOOLEAN,
                row : -1 .. TraceLength - 1]
  BY <1>1 DEF Init
<1>4. /\ slotQ \in [Notifiers -> Seq(Rows)]
      /\ workQ \in [Workers -> Seq(Rows)]
      /\ \A i \in Notifiers : Len(slotQ[i]) <= BufferLen
      /\ \A w \in Workers : Len(workQ[w]) <= BufferLen
  BY EmptySeq, Constants DEF Init
<1>5. /\ worker \in [Workers -> {"select", "busy", "push", "exited"}]
      /\ did \in [Workers -> SUBSET Rows]
      /\ done \in BOOLEAN /\ missed \in BOOLEAN
      /\ updater \in {"select", "exited"}
  BY DEF Init
<1> QED
  BY <1>2, <1>3, <1>4, <1>5 DEF TypeOK

LEMMA NotifyTypeOK ==
  ASSUME TypeOK, NEW i \in Notifiers, Notify(i)
  PROVE  TypeOK'
<1>1. /\ told[i] \in -1 .. MaxSlot /\ told[i] < MaxSlot
      /\ slotQ[i] \in Seq(Rows) /\ Len(slotQ[i]) <= BufferLen
  BY DEF TypeOK, Notify
<1>2. told[i] + 1 \in Rows /\ told[i] + 1 \in -1 .. MaxSlot
  BY <1>1, Constants DEF Rows
<1>3. told' \in [Notifiers -> -1 .. MaxSlot]
  BY <1>2 DEF TypeOK, Notify
<1>4. /\ slotQ' \in [Notifiers -> Seq(Rows)]
      /\ \A j \in Notifiers : Len(slotQ'[j]) <= BufferLen
  <2>1. CASE Room(slotQ[i])
    <3>1. slotQ' = [slotQ EXCEPT ![i] = Append(slotQ[i], told[i] + 1)]
      BY <2>1 DEF Notify
    <3>2. /\ Append(slotQ[i], told[i] + 1) \in Seq(Rows)
          /\ Len(Append(slotQ[i], told[i] + 1)) <= BufferLen
      BY <1>1, <1>2, <2>1, RowQueue, Constants DEF Room
    <3> QED
      BY <3>1, <3>2 DEF TypeOK
  <2>2. CASE ~ Room(slotQ[i])
    BY <2>2 DEF TypeOK, Notify
  <2> QED
    BY <2>1, <2>2
<1>5. missed' \in BOOLEAN
  BY DEF TypeOK, Notify
<1> QED
  BY <1>3, <1>4, <1>5 DEF TypeOK, Notify, workVars, recentVars

\* What the main loop leaves of a queue it takes from, and of one it adds to.
LEMMA TailTypeOK ==
  ASSUME TypeOK, NEW i \in Notifiers, slotQ[i] # <<>>,
         slotQ' = [slotQ EXCEPT ![i] = Tail(slotQ[i])]
  PROVE  /\ slotQ' \in [Notifiers -> Seq(Rows)]
         /\ \A j \in Notifiers : Len(slotQ'[j]) <= BufferLen
         /\ Head(slotQ[i]) \in Rows
<1>1. slotQ[i] \in Seq(Rows) /\ Len(slotQ[i]) <= BufferLen
  BY DEF TypeOK
<1>2. /\ Head(slotQ[i]) \in Rows /\ Tail(slotQ[i]) \in Seq(Rows)
      /\ Len(Tail(slotQ[i])) <= BufferLen
  BY <1>1, RowQueue, Constants
<1> QED
  BY <1>2 DEF TypeOK

LEMMA RoomTypeOK ==
  ASSUME TypeOK, NEW w \in Workers, NEW r \in Rows, Room(workQ[w])
  PROVE  Append(workQ[w], r) \in Seq(Rows) /\ Len(Append(workQ[w], r)) <= BufferLen
<1>1. workQ[w] \in Seq(Rows) /\ Len(workQ[w]) < BufferLen
  BY DEF TypeOK, Room
<1> QED
  BY <1>1, RowQueue, Constants

LEMMA BidSlotTypeOK ==
  ASSUME TypeOK, BidSlot
  PROVE  TypeOK'
<1> DEFINE row == Head(slotQ[1])
           buys == Room(workQ["buy"])
           sells == buys /\ Room(workQ["sell"])
<1>1. 1 \in Notifiers /\ slotQ[1] # <<>> /\ slotQ' = [slotQ EXCEPT ![1] = Tail(slotQ[1])]
  BY Constants DEF BidSlot
<1>2. /\ slotQ' \in [Notifiers -> Seq(Rows)]
      /\ \A j \in Notifiers : Len(slotQ'[j]) <= BufferLen
      /\ row \in Rows
  BY <1>1, TailTypeOK
<1>3. workQ' = [workQ EXCEPT !["buy"] = IF buys THEN Append(@, row) ELSE @,
                             !["sell"] = IF sells THEN Append(@, row) ELSE @]
  BY DEF BidSlot
<1>4. /\ buys => /\ Append(workQ["buy"], row) \in Seq(Rows)
                 /\ Len(Append(workQ["buy"], row)) <= BufferLen
      /\ sells => /\ Append(workQ["sell"], row) \in Seq(Rows)
                  /\ Len(Append(workQ["sell"], row)) <= BufferLen
  BY <1>2, RoomTypeOK, Constants
<1>5. \/ loop' = [pc |-> "closing", failed |-> TRUE, row |-> row]
      \/ loop' = [pc |-> "closing", failed |-> FALSE, row |-> row]
      \/ loop' = [loop EXCEPT !.row = row]
  BY DEF BidSlot, Leave
<1> HIDE DEF row, buys, sells
<1>6. /\ workQ' \in [Workers -> Seq(Rows)]
      /\ \A w \in Workers : Len(workQ'[w]) <= BufferLen
  BY <1>3, <1>4 DEF TypeOK
<1>7. loop' \in LoopType(-1 .. TraceLength - 1)
  <2>1. row \in -1 .. TraceLength - 1
    BY <1>2 DEF Rows
  <2>2. loop \in LoopType(-1 .. TraceLength - 1)
    BY DEF TypeOK, LoopType
  <2> QED
    BY <1>5, <2>1, <2>2, LoopRecord
<1> QED
  BY <1>2, <1>6, <1>7 DEF TypeOK, LoopType, BidSlot, envVars, recentVars

LEMMA PostKeySlotTypeOK ==
  ASSUME TypeOK, PostKeySlot
  PROVE  TypeOK'
<1> DEFINE row == Head(slotQ[2])
<1>1. 2 \in Notifiers /\ slotQ[2] # <<>> /\ slotQ' = [slotQ EXCEPT ![2] = Tail(slotQ[2])]
  BY DEF PostKeySlot
<1>2. /\ slotQ' \in [Notifiers -> Seq(Rows)]
      /\ \A j \in Notifiers : Len(slotQ'[j]) <= BufferLen
      /\ row \in Rows
  BY <1>1, TailTypeOK
<1>3. /\ workQ' \in [Workers -> Seq(Rows)]
      /\ \A w \in Workers : Len(workQ'[w]) <= BufferLen
      /\ loop' \in LoopType(-1 .. TraceLength - 1)
  <2>1. CASE Room(workQ["postKey"])
    <3>1. /\ workQ' = [workQ EXCEPT !["postKey"] = Append(workQ["postKey"], row)]
          /\ loop' = loop
      BY <2>1 DEF PostKeySlot
    <3>2. /\ Append(workQ["postKey"], row) \in Seq(Rows)
          /\ Len(Append(workQ["postKey"], row)) <= BufferLen
      BY <1>1, <1>2, <2>1, RoomTypeOK, Constants
    <3> HIDE DEF row
    <3> QED
      BY <3>1, <3>2 DEF TypeOK, LoopType
  <2>2. CASE ~ Room(workQ["postKey"])
    <3>1. workQ' = workQ /\ loop' = [pc |-> "closing", failed |-> TRUE, row |-> loop.row]
      BY <2>2 DEF PostKeySlot, Leave
    <3>2. loop \in LoopType(-1 .. TraceLength - 1) /\ loop.row \in -1 .. TraceLength - 1
      BY DEF TypeOK, LoopType
    <3>3. loop' \in LoopType(-1 .. TraceLength - 1)
      BY <3>1, <3>2, LoopRecord
    <3> QED
      BY <3>1, <3>3 DEF TypeOK
  <2> QED
    BY <2>1, <2>2
<1> HIDE DEF row
<1> QED
  BY <1>2, <1>3 DEF TypeOK, LoopType, PostKeySlot, envVars, recentVars

LEMMA TakeTypeOK ==
  ASSUME TypeOK, NEW w \in Workers, Take(w)
  PROVE  TypeOK'
<1> DEFINE row == Head(workQ[w])
<1>1. workQ[w] \in Seq(Rows) /\ workQ[w] # <<>> /\ Len(workQ[w]) <= BufferLen
  BY DEF TypeOK, Take
<1>2. /\ row \in Rows /\ Tail(workQ[w]) \in Seq(Rows)
      /\ Len(Tail(workQ[w])) <= BufferLen
  BY <1>1, RowQueue, Constants
<1>3. /\ workQ' = [workQ EXCEPT ![w] = Tail(workQ[w])]
      /\ did' = [did EXCEPT ![w] = did[w] \cup {row}]
      /\ \E pc \in {"busy", "select"} : worker' = [worker EXCEPT ![w] = pc]
  BY DEF Take
<1> HIDE DEF row
<1>4. /\ workQ' \in [Workers -> Seq(Rows)]
      /\ \A v \in Workers : Len(workQ'[v]) <= BufferLen
  BY <1>2, <1>3 DEF TypeOK
<1>5. did' \in [Workers -> SUBSET Rows]
  BY <1>2, <1>3 DEF TypeOK
<1>6. worker' \in [Workers -> {"select", "busy", "push", "exited"}]
  BY <1>3 DEF TypeOK
<1> QED
  BY <1>4, <1>5, <1>6 DEF TypeOK, Take, envVars, recentVars

LEMMA NextTypeOK == TypeOK /\ [Next]_vars => TypeOK'
<1> SUFFICES ASSUME TypeOK, [Next]_vars PROVE TypeOK'
  OBVIOUS
<1>1. CASE UNCHANGED vars
  BY <1>1 DEF TypeOK, vars
<1>2. CASE CloseDone
  BY <1>2 DEF TypeOK, CloseDone, workVars, recentVars
<1>3. CASE LoopDone
  BY <1>3 DEF TypeOK, LoopDone, Leave, envVars, workVars, recentVars
<1>4. CASE Return
  BY <1>4 DEF TypeOK, Return, envVars, workVars, recentVars
<1>5. ASSUME NEW w \in Workers, Finish(w) \/ Succeed(w) \/ Quit(w)
      PROVE  TypeOK'
  BY <1>5 DEF TypeOK, Finish, Succeed, Quit, envVars, recentVars
<1>6. ASSUME NEW w \in Workers, Push(w)
      PROVE  TypeOK'
  <2>1. recentQ' \in 0 .. BufferLen
    BY <1>6, Constants DEF TypeOK, Push
  <2> QED
    BY <1>6, <2>1 DEF TypeOK, Push, envVars
<1>7. CASE Update
  <2>1. recentQ' \in 0 .. BufferLen
    BY <1>7, Constants DEF TypeOK, Update
  <2> QED
    BY <1>7, <2>1 DEF TypeOK, Update, envVars, workVars
<1>8. CASE UpdaterQuits
  BY <1>8 DEF TypeOK, UpdaterQuits, envVars, workVars
<1> QED
  BY <1>1, <1>2, <1>3, <1>4, <1>5, <1>6, <1>7, <1>8, NotifyTypeOK, BidSlotTypeOK,
     PostKeySlotTypeOK, TakeTypeOK
     DEF Next, Loop, Worker, Updater

\* Type correctness of the bidder: no queue outgrows its capacity, and every
\* row a goroutine is handed is one of the trace it indexes (bidder.go, Run).
THEOREM BidderTypeCorrect == Spec => []TypeOK
  BY InitTypeOK, NextTypeOK, PTL DEF Spec

-----------------------------------------------------------------------------
(***************************************************************************)
(* The inductive invariant: for every goroutine the rows are on their way  *)
(* (in order, and none lost unless a queue was full), and the row the main *)
(* loop took last comes before those in the slot queue.                    *)
(***************************************************************************)
InOrder(w) == Passes(did[w], workQ[w], slotQ[Lane(w)], told[Lane(w)])

Complete(w) == NoneLost(did[w], workQ[w], slotQ[Lane(w)], told[Lane(w)])

AllComplete == missed \/ loop.failed \/ \A w \in Workers : Complete(w)

RowBefore == loop.row <= told[1] /\ Below({loop.row}, In(slotQ[1]))

BidderInv ==
  /\ TypeOK
  /\ \A w \in Workers : InOrder(w)
  /\ AllComplete
  /\ RowBefore
  /\ loop.pc = "loop" => ~ loop.failed

LEMMA InitInv == Init => BidderInv
<1> SUFFICES ASSUME Init PROVE BidderInv
  OBVIOUS
<1>1. 0 .. -1 = {}
  OBVIOUS
<1>2. ASSUME NEW w \in Workers PROVE InOrder(w) /\ Complete(w)
  <2>1. did[w] = {} /\ workQ[w] = <<>> /\ slotQ[Lane(w)] = <<>> /\ told[Lane(w)] = -1
    BY Lanes DEF Init
  <2>2. Passes({}, <<>>, <<>>, -1) /\ NoneLost({}, <<>>, <<>>, -1)
    BY <1>1, EmptyQueue DEF Passes, NoneLost, Below
  <2> QED
    BY <2>1, <2>2 DEF InOrder, Complete
<1>3. RowBefore
  <2>1. loop.row = -1 /\ told[1] = -1 /\ slotQ[1] = <<>>
    BY Constants DEF Init
  <2> QED
    BY <2>1, EmptyQueue DEF RowBefore, Below
<1>4. loop.failed = FALSE
  BY DEF Init
<1> QED
  BY <1>2, <1>3, <1>4, InitTypeOK DEF BidderInv, AllComplete

\* The types of a goroutine's part of the state.
LEMMA LaneTypes ==
  ASSUME TypeOK, NEW w \in Workers
  PROVE  /\ did[w] \subseteq Rows
         /\ workQ[w] \in Seq(Rows) /\ workQ[w] \in Seq(Int)
         /\ slotQ[Lane(w)] \in Seq(Rows) /\ slotQ[Lane(w)] \in Seq(Int)
         /\ told[Lane(w)] \in Int /\ told[Lane(w)] >= -1
<1>1. /\ did[w] \subseteq Rows /\ workQ[w] \in Seq(Rows)
      /\ slotQ[Lane(w)] \in Seq(Rows) /\ told[Lane(w)] \in -1 .. MaxSlot
  BY Lanes DEF TypeOK
<1>2. workQ[w] \in Seq(Int) /\ slotQ[Lane(w)] \in Seq(Int)
  BY <1>1, RowQueue
<1> QED
  BY <1>1, <1>2, Constants

\* A step that leaves the queues alone.
LEMMA QueuesUnchanged ==
  ASSUME BidderInv, TypeOK',
         did' = did, workQ' = workQ, slotQ' = slotQ, told' = told,
         missed' = missed,
         loop'.row = loop.row,
         loop.failed => loop'.failed,
         loop'.pc = "loop" => ~ loop'.failed
  PROVE  BidderInv'
<1>1. \A w \in Workers : InOrder(w)' /\ (Complete(w) => Complete(w)')
  BY DEF BidderInv, InOrder, Complete
<1>2. RowBefore'
  BY DEF BidderInv, RowBefore
<1>3. AllComplete'
  BY <1>1 DEF BidderInv, AllComplete
<1> QED
  BY <1>1, <1>2, <1>3 DEF BidderInv

LEMMA NotifyInv ==
  ASSUME BidderInv, NEW i \in Notifiers, Notify(i)
  PROVE  BidderInv'
<1>1. TypeOK /\ TypeOK'
  BY NotifyTypeOK DEF BidderInv
<1>2. /\ did' = did /\ workQ' = workQ /\ loop' = loop
      /\ told' = [told EXCEPT ![i] = told[i] + 1]
      /\ \/ slotQ' = [slotQ EXCEPT ![i] = Append(slotQ[i], told[i] + 1)] /\ (missed => missed')
         \/ slotQ' = slotQ /\ missed' = TRUE
  BY DEF Notify, workVars
<1>3. DOMAIN told = Notifiers /\ DOMAIN slotQ = Notifiers /\ 1 \in Notifiers
  BY <1>1, Constants DEF TypeOK
<1>4. ASSUME NEW w \in Workers
      PROVE  InOrder(w)' /\ (Complete(w) => Complete(w)' \/ missed')
  <2> USE LaneTypes, <1>1
  <2>1. InOrder(w)
    BY DEF BidderInv
  <2>2. CASE Lane(w) # i
    <3>1. slotQ'[Lane(w)] = slotQ[Lane(w)] /\ told'[Lane(w)] = told[Lane(w)]
      BY <1>2, <1>3, <2>2, Lanes
    <3> QED
      BY <1>2, <2>1, <3>1 DEF InOrder, Complete
  <2>3. CASE Lane(w) = i /\ slotQ' = slotQ /\ missed' = TRUE
    <3>1. slotQ'[Lane(w)] = slotQ[Lane(w)] /\ told'[Lane(w)] = told[Lane(w)] + 1
      BY <1>2, <1>3, <2>3, Lanes
    <3>2. Passes(did[w], workQ[w], slotQ[Lane(w)], told[Lane(w)] + 1)
      BY <2>1, Misses DEF InOrder
    <3> QED
      BY <1>2, <2>3, <3>1, <3>2 DEF InOrder, Complete
  <2>4. CASE Lane(w) = i /\ slotQ' = [slotQ EXCEPT ![i] = Append(slotQ[i], told[i] + 1)]
    <3>1. /\ slotQ'[Lane(w)] = Append(slotQ[Lane(w)], told[Lane(w)] + 1)
          /\ told'[Lane(w)] = told[Lane(w)] + 1
      BY <1>2, <1>3, <2>4, Lanes
    <3>2. /\ Passes(did[w], workQ[w], Append(slotQ[Lane(w)], told[Lane(w)] + 1), told[Lane(w)] + 1)
          /\ Complete(w) => NoneLost(did[w], workQ[w], Append(slotQ[Lane(w)], told[Lane(w)] + 1), told[Lane(w)] + 1)
      BY <2>1, Arrives DEF InOrder, Complete
    <3> QED
      BY <1>2, <3>1, <3>2 DEF InOrder, Complete
  <2> QED
    BY <1>2, <2>2, <2>3, <2>4
<1>5. AllComplete'
  BY <1>2, <1>4 DEF BidderInv, AllComplete
<1>6. RowBefore'
  <2>1. /\ loop.row \in Int /\ told[1] \in Int /\ slotQ[1] \in Seq(Int)
        /\ loop.row <= told[1] /\ Below({loop.row}, In(slotQ[1]))
    <3>1. loop.row \in -1 .. TraceLength - 1 /\ told[1] \in -1 .. MaxSlot
      BY <1>1, Constants DEF TypeOK
    <3> QED
      BY <1>1, <3>1, Constants, Lanes, LaneTypes DEF BidderInv, RowBefore
  <2>2. told'[1] \in Int /\ loop.row <= told'[1]
    BY <1>2, <1>3, <2>1
  <2>3. CASE slotQ'[1] = slotQ[1]
    BY <1>2, <2>1, <2>2, <2>3 DEF RowBefore
  <2>4. CASE slotQ'[1] = Append(slotQ[1], told[1] + 1)
    <3>1. In(slotQ'[1]) = In(slotQ[1]) \cup {told[1] + 1}
      BY <2>1, <2>4, AppendQueue
    <3>2. loop.row < told[1] + 1
      BY <2>1
    <3> QED
      BY <1>2, <2>1, <2>2, <3>1, <3>2 DEF RowBefore, Below
  <2> QED
    BY <1>2, <1>3, <2>3, <2>4
<1> QED
  BY <1>1, <1>2, <1>4, <1>5, <1>6 DEF BidderInv

\* The row at the head of the bid slots' queue.
LEMMA NextRow ==
  ASSUME BidderInv, slotQ[1] # <<>>
  PROVE  /\ Head(slotQ[1]) \in Rows
         /\ loop.row \in Int /\ loop.row < Head(slotQ[1])
         /\ Head(slotQ[1]) <= told[1]
         /\ Below({Head(slotQ[1])}, In(Tail(slotQ[1])))
<1>1. /\ TypeOK /\ "buy" \in Workers /\ Lane("buy") = 1
      /\ InOrder("buy") /\ Below({loop.row}, In(slotQ[1]))
  BY Constants, Lanes DEF BidderInv, RowBefore
<1>2. /\ slotQ[1] \in Seq(Rows) /\ slotQ[1] \in Seq(Int) /\ told[1] \in Int
      /\ Ascends(slotQ[1]) /\ In(slotQ[1]) \subseteq 0 .. told[1]
  BY <1>1, LaneTypes DEF InOrder, Passes
<1>3. /\ Head(slotQ[1]) \in In(slotQ[1])
      /\ Below({Head(slotQ[1])}, In(Tail(slotQ[1])))
  BY <1>2, TailQueue
<1>4. loop.row \in -1 .. TraceLength - 1
  BY <1>1 DEF TypeOK
<1> QED
  BY <1>1, <1>2, <1>3, <1>4, RowQueue, Constants DEF Below

\* What BidSlot does to the buy or the sell queue.
LEMMA BidSlotWorker ==
  ASSUME BidderInv, NEW w \in {"buy", "sell"}, slotQ[1] # <<>>,
         did' = did, told' = told, slotQ'[1] = Tail(slotQ[1]),
         \/ workQ'[w] = Append(workQ[w], Head(slotQ[1]))
         \/ workQ'[w] = workQ[w]
  PROVE  /\ InOrder(w)'
         /\ workQ'[w] = Append(workQ[w], Head(slotQ[1])) /\ Complete(w) => Complete(w)'
<1>1. TypeOK /\ w \in Workers /\ Lane(w) = 1 /\ InOrder(w)
  BY Constants, Lanes DEF BidderInv
<1>2. /\ workQ[w] \in Seq(Int) /\ slotQ[1] \in Seq(Int) /\ told[1] \in Int
      /\ Passes(did[w], workQ[w], slotQ[1], told[1])
  BY <1>1, LaneTypes DEF InOrder
<1>3. CASE workQ'[w] = Append(workQ[w], Head(slotQ[1]))
  <2>1. /\ Passes(did[w], Append(workQ[w], Head(slotQ[1])), Tail(slotQ[1]), told[1])
        /\ NoneLost(did[w], workQ[w], slotQ[1], told[1]) =>
             NoneLost(did[w], Append(workQ[w], Head(slotQ[1])), Tail(slotQ[1]), told[1])
    BY <1>2, Moves
  <2> QED
    BY <1>1, <1>3, <2>1 DEF InOrder, Complete
<1>4. CASE workQ'[w] = workQ[w] /\ workQ'[w] # Append(workQ[w], Head(slotQ[1]))
  <2>1. Passes(did[w], workQ[w], Tail(slotQ[1]), told[1])
    BY <1>2, Drops
  <2> QED
    BY <1>1, <1>4, <2>1 DEF InOrder
<1> QED
  BY <1>3, <1>4

LEMMA BidSlotInv ==
  ASSUME BidderInv, BidSlot
  PROVE  BidderInv'
<1> DEFINE row == Head(slotQ[1])
           buys == Room(workQ["buy"])
           sells == buys /\ Room(workQ["sell"])
<1>1. TypeOK /\ TypeOK'
  BY BidSlotTypeOK DEF BidderInv
<1>2. /\ slotQ[1] # <<>> /\ slotQ' = [slotQ EXCEPT ![1] = Tail(slotQ[1])]
      /\ did' = did /\ told' = told /\ missed' = missed
      /\ workQ' = [workQ EXCEPT !["buy"] = IF buys THEN Append(@, row) ELSE @,
                                !["sell"] = IF sells THEN Append(@, row) ELSE @]
      /\ \/ ~ sells /\ loop' = [pc |-> "closing", failed |-> TRUE, row |-> row]
         \/ sells /\ loop' = [pc |-> "closing", failed |-> FALSE, row |-> row]
         \/ sells /\ loop' = [loop EXCEPT !.row = row]
      /\ loop.pc = "loop"
  BY DEF BidSlot, Leave, envVars
<1>3. /\ DOMAIN slotQ = Notifiers /\ DOMAIN workQ = Workers
      /\ DOMAIN loop = {"pc", "failed", "row"}
      /\ 1 \in Notifiers /\ "buy" \in Workers /\ "sell" \in Workers
  BY <1>1, Constants DEF TypeOK
<1>4. /\ workQ'["buy"] = IF buys THEN Append(workQ["buy"], row) ELSE workQ["buy"]
      /\ workQ'["sell"] = IF sells THEN Append(workQ["sell"], row) ELSE workQ["sell"]
      /\ \A w \in Workers \ {"buy", "sell"} : workQ'[w] = workQ[w]
      /\ slotQ'[1] = Tail(slotQ[1])
      /\ \A i \in Notifiers \ {1} : slotQ'[i] = slotQ[i]
  BY <1>2, <1>3
<1>5. /\ loop'.row = row
      /\ ~ sells => loop'.failed
      /\ loop'.pc = "loop" => ~ loop'.failed
  <2>1. ~ loop.failed
    BY <1>2 DEF BidderInv
  <2> QED
    BY <1>2, <1>3, <2>1
<1> HIDE DEF buys, sells
<1>6. /\ InOrder("buy")' /\ (sells /\ Complete("buy") => Complete("buy")')
      /\ InOrder("sell")' /\ (sells /\ Complete("sell") => Complete("sell")')
  <2>1. sells => buys
    BY DEF sells
  <2> QED
    BY <1>2, <1>4, <2>1, BidSlotWorker
<1>7. ASSUME NEW w \in Workers \ {"buy", "sell"}
      PROVE  InOrder(w)' /\ (Complete(w) => Complete(w)')
  <2>1. Lane(w) \in Notifiers \ {1}
    BY Constants, Lanes
  <2>2. workQ'[w] = workQ[w] /\ slotQ'[Lane(w)] = slotQ[Lane(w)]
    BY <1>4, <2>1
  <2> QED
    BY <1>2, <2>2 DEF BidderInv, InOrder, Complete
<1>8. \A w \in Workers : InOrder(w)' /\ (sells /\ Complete(w) => Complete(w)')
  BY <1>6, <1>7
<1>9. AllComplete'
  <2>1. loop.failed = FALSE
    BY <1>1, <1>2 DEF BidderInv, TypeOK
  <2> QED
    BY <1>2, <1>5, <1>8, <2>1 DEF BidderInv, AllComplete
<1>10. RowBefore'
  BY <1>2, <1>4, <1>5, NextRow DEF RowBefore
<1> QED
  BY <1>1, <1>5, <1>8, <1>9, <1>10 DEF BidderInv

LEMMA PostKeySlotInv ==
  ASSUME BidderInv, PostKeySlot
  PROVE  BidderInv'
<1>1. TypeOK /\ TypeOK'
  BY PostKeySlotTypeOK DEF BidderInv
<1>2. /\ 2 \in Notifiers /\ slotQ[2] # <<>>
      /\ slotQ' = [slotQ EXCEPT ![2] = Tail(slotQ[2])]
      /\ did' = did /\ told' = told /\ missed' = missed /\ loop.pc = "loop"
      /\ \/ /\ workQ' = [workQ EXCEPT !["postKey"] = Append(workQ["postKey"], Head(slotQ[2]))]
            /\ loop' = loop
         \/ /\ workQ' = workQ
            /\ loop' = [pc |-> "closing", failed |-> TRUE, row |-> loop.row]
  BY DEF PostKeySlot, Leave, envVars
<1>3. /\ DOMAIN slotQ = Notifiers /\ DOMAIN workQ = Workers
      /\ 1 \in Notifiers /\ "postKey" \in Workers /\ Lane("postKey") = 2
  BY <1>1, <1>2, Constants, Lanes DEF TypeOK
<1>4. slotQ'[1] = slotQ[1] /\ slotQ'[2] = Tail(slotQ[2])
  BY <1>2, <1>3
<1>5. ASSUME NEW w \in Workers \ {"postKey"}
      PROVE  InOrder(w)' /\ (Complete(w) => Complete(w)')
  <2>1. Lane(w) = 1
    BY DEF Lane
  <2>2. workQ'[w] = workQ[w] /\ slotQ'[Lane(w)] = slotQ[Lane(w)]
    BY <1>2, <1>3, <1>4, <2>1
  <2> QED
    BY <1>2, <2>2 DEF BidderInv, InOrder, Complete
<1>6. /\ workQ["postKey"] \in Seq(Int) /\ slotQ[2] \in Seq(Int) /\ told[2] \in Int
      /\ Passes(did["postKey"], workQ["postKey"], slotQ[2], told[2])
  BY <1>1, <1>3, LaneTypes DEF BidderInv, InOrder
<1>7. InOrder("postKey")' /\ (loop' = loop /\ Complete("postKey") => Complete("postKey")')
  <2>1. CASE /\ workQ' = [workQ EXCEPT !["postKey"] = Append(workQ["postKey"], Head(slotQ[2]))]
             /\ loop' = loop
    <3>1. workQ'["postKey"] = Append(workQ["postKey"], Head(slotQ[2]))
      BY <1>3, <2>1
    <3>2. /\ Passes(did["postKey"], Append(workQ["postKey"], Head(slotQ[2])), Tail(slotQ[2]), told[2])
          /\ NoneLost(did["postKey"], workQ["postKey"], slotQ[2], told[2]) =>
             NoneLost(did["postKey"], Append(workQ["postKey"], Head(slotQ[2])), Tail(slotQ[2]), told[2])
      BY <1>2, <1>6, Moves
    <3> QED
      BY <1>2, <1>3, <1>4, <3>1, <3>2 DEF InOrder, Complete
  <2>2. CASE /\ workQ' = workQ
             /\ loop' = [pc |-> "closing", failed |-> TRUE, row |-> loop.row]
    <3>1. Passes(did["postKey"], workQ["postKey"], Tail(slotQ[2]), told[2])
      BY <1>2, <1>6, Drops
    <3>2. loop'.pc = "closing"
      BY <2>2
    <3> QED
      BY <1>2, <1>3, <1>4, <2>2, <3>1, <3>2 DEF InOrder
  <2> QED
    BY <1>2, <2>1, <2>2
<1>8. /\ loop'.row = loop.row
      /\ loop' = loop \/ loop'.failed
      /\ loop'.pc = "loop" => loop' = loop
  BY <1>2
<1>9. AllComplete'
  BY <1>2, <1>5, <1>7, <1>8 DEF BidderInv, AllComplete
<1>10. RowBefore'
  BY <1>2, <1>4, <1>8 DEF BidderInv, RowBefore
<1> QED
  BY <1>1, <1>5, <1>7, <1>8, <1>9, <1>10 DEF BidderInv

LEMMA TakeInv ==
  ASSUME BidderInv, NEW w \in Workers, Take(w)
  PROVE  BidderInv'
<1>1. TypeOK /\ TypeOK'
  BY TakeTypeOK DEF BidderInv
<1>2. /\ workQ[w] # <<>>
      /\ workQ' = [workQ EXCEPT ![w] = Tail(workQ[w])]
      /\ did' = [did EXCEPT ![w] = did[w] \cup {Head(workQ[w])}]
      /\ slotQ' = slotQ /\ told' = told /\ missed' = missed /\ loop' = loop
  BY DEF Take, envVars
<1>3. DOMAIN workQ = Workers /\ DOMAIN did = Workers
  BY <1>1 DEF TypeOK
<1>4. ASSUME NEW v \in Workers \ {w}
      PROVE  InOrder(v)' /\ (Complete(v) => Complete(v)')
  <2>1. workQ'[v] = workQ[v] /\ did'[v] = did[v]
    BY <1>2, <1>3
  <2> QED
    BY <1>2, <2>1 DEF BidderInv, InOrder, Complete
<1>5. InOrder(w)' /\ (Complete(w) => Complete(w)')
  <2>1. workQ'[w] = Tail(workQ[w]) /\ did'[w] = did[w] \cup {Head(workQ[w])}
    BY <1>2, <1>3
  <2>2. workQ[w] \in Seq(Int) /\ InOrder(w)
    BY <1>1, LaneTypes DEF BidderInv
  <2>3. /\ Passes(did[w] \cup {Head(workQ[w])}, Tail(workQ[w]), slotQ[Lane(w)], told[Lane(w)])
        /\ Complete(w) =>
             NoneLost(did[w] \cup {Head(workQ[w])}, Tail(workQ[w]), slotQ[Lane(w)], told[Lane(w)])
    BY <1>2, <2>2, Takes DEF InOrder, Complete
  <2> QED
    BY <1>2, <2>1, <2>3 DEF InOrder, Complete
<1>6. AllComplete'
  BY <1>2, <1>4, <1>5 DEF BidderInv, AllComplete
<1>7. RowBefore'
  BY <1>2 DEF BidderInv, RowBefore
<1> QED
  BY <1>1, <1>2, <1>4, <1>5, <1>6, <1>7 DEF BidderInv

LEMMA NextInv == BidderInv /\ [Next]_vars => BidderInv'
<1> SUFFICES ASSUME BidderInv, [Next]_vars PROVE BidderInv'
  OBVIOUS
<1>1. TypeOK'
  BY NextTypeOK DEF BidderInv
<1>2. CASE \/ UNCHANGED vars \/ CloseDone \/ Updater
           \/ \E w \in Workers : Finish(w) \/ Succeed(w) \/ Push(w) \/ Quit(w)
  <2>1. /\ did' = did /\ workQ' = workQ /\ slotQ' = slotQ /\ told' = told
        /\ missed' = missed /\ loop' = loop
    BY <1>2 DEF vars, CloseDone, Updater, Update, UpdaterQuits, Finish, Succeed, Push,
                Quit, envVars, workVars
  <2> QED
    BY <1>1, <2>1, QueuesUnchanged DEF BidderInv
<1>3. CASE LoopDone \/ Return
  <2>1. /\ did' = did /\ workQ' = workQ /\ slotQ' = slotQ /\ told' = told
        /\ missed' = missed
    BY <1>3 DEF LoopDone, Return, envVars, workVars
  <2>2. DOMAIN loop = {"pc", "failed", "row"}
    BY DEF BidderInv, TypeOK
  <2>3. /\ loop'.row = loop.row
        /\ loop.failed => loop'.failed
        /\ loop'.pc # "loop"
    BY <1>3, <2>2 DEF LoopDone, Return, Leave, BidderInv
  <2> QED
    BY <1>1, <2>1, <2>3, QueuesUnchanged
<1>4. CASE \E i \in Notifiers : Notify(i)
  BY <1>4, NotifyInv
<1>5. CASE BidSlot
  BY <1>5, BidSlotInv
<1>6. CASE PostKeySlot
  BY <1>6, PostKeySlotInv
<1>7. CASE \E w \in Workers : Take(w)
  BY <1>7, TakeInv
<1>8. CASE \E w \in Workers : Worker(w)
  BY <1>2, <1>7, <1>8 DEF Worker
<1>9. CASE Loop
  BY <1>3, <1>5, <1>6, <1>9 DEF Loop
<1> QED
  BY <1>2, <1>4, <1>8, <1>9 DEF Next

LEMMA BidderInvariant == Spec => []BidderInv
  BY InitInv, NextInv, PTL DEF Spec

LEMMA InvRowsInOrder == BidderInv => RowsInOrder
<1> SUFFICES ASSUME BidderInv, NEW w \in Workers
             PROVE  LET q == Queued(w)
                        last == told[IF w = "postKey" THEN 2 ELSE 1]
                    IN  /\ \A r \in did[w], j \in DOMAIN q : r < q[j]
                        /\ \A j, k \in DOMAIN q : j < k => q[j] < q[k]
                        /\ \/ missed \/ loop.failed
                           \/ did[w] \cup {q[j] : j \in DOMAIN q} = 0 .. last
  BY DEF RowsInOrder
<1> DEFINE q == Queued(w)
<1>1. q = workQ[w] \o slotQ[Lane(w)]
  BY DEF Queued, Lane
<1> HIDE DEF q
<1>2. workQ[w] \in Seq(Int) /\ slotQ[Lane(w)] \in Seq(Int)
  BY LaneTypes DEF BidderInv
<1>3. Passes(did[w], workQ[w], slotQ[Lane(w)], told[Lane(w)])
  BY DEF BidderInv, InOrder
<1>4. /\ In(q) = In(workQ[w]) \cup In(slotQ[Lane(w)])
      /\ Ascends(q) /\ Below(did[w], In(q))
  <2>1. PICK p \in Seq(Int), r \in Seq(Int) : p = workQ[w] /\ r = slotQ[Lane(w)]
    BY <1>2
  <2>2. Passes(did[w], p, r, told[Lane(w)])
    BY <1>3, <2>1
  <2>3. /\ In(p \o r) = In(p) \cup In(r)
        /\ Ascends(p \o r) /\ Below(did[w], In(p \o r))
    BY <2>2, PassesConcat
  <2> QED
    BY <1>1, <2>1, <2>3
<1>5. \A r \in did[w], j \in DOMAIN q : r < q[j]
  BY <1>4 DEF Below, In
<1>6. \A j, k \in DOMAIN q : j < k => q[j] < q[k]
  BY <1>4 DEF Ascends
<1>7. missed \/ loop.failed \/ did[w] \cup In(q) = 0 .. told[Lane(w)]
  <2>1. did[w] \cup In(q) \subseteq 0 .. told[Lane(w)]
    BY <1>4 DEF BidderInv, InOrder, Passes
  <2>2. Complete(w) => 0 .. told[Lane(w)] \subseteq did[w] \cup In(q)
    BY <1>4 DEF Complete, NoneLost
  <2> QED
    BY <2>1, <2>2 DEF BidderInv, AllComplete
<1> QED
  BY <1>5, <1>6, <1>7 DEF q, In, Lane

(***************************************************************************)
(* The rows of the slots come through the two queues to the goroutine that *)
(* acts on them in order, none twice, and none lost unless a queue was     *)
(* full (bidder.go, Run; slotnotifier/notifier.go, Run).                   *)
(***************************************************************************)
THEOREM RowsStayInOrder == Spec => []RowsInOrder
  BY BidderInvariant, InvRowsInOrder, PTL

-----------------------------------------------------------------------------
(***************************************************************************)
(* The bidder implements Agent.                                            *)
(***************************************************************************)
AgentType == [pc : {"loop", "closing", "returned"}, failed : BOOLEAN, row : Int,
              alive : BOOLEAN]

LEMMA AgentMade ==
  ASSUME NEW R, NEW pc \in {"loop", "closing", "returned"}, NEW f \in BOOLEAN,
         NEW r \in Int, NEW a \in BOOLEAN,
         R = [pc |-> pc, failed |-> f, row |-> r, alive |-> a]
  PROVE  /\ R \in AgentType
         /\ R.pc = pc /\ R.failed = f /\ R.row = r /\ R.alive = a
<1>1. R \in AgentType
  BY DEF AgentType
<1>2. R.pc = pc /\ R.row = r
  OBVIOUS
<1>3. R.failed = f
  OBVIOUS
<1>4. R.alive = a
  OBVIOUS
<1> QED
  BY <1>1, <1>2, <1>3, <1>4

LEMMA AgentFields ==
  ASSUME TypeOK, TypeOK'
  PROVE  /\ TheAgent \in AgentType /\ TheAgent' \in AgentType
         /\ TheAgent.pc = loop.pc /\ TheAgent'.pc = loop'.pc
         /\ TheAgent.failed = loop.failed /\ TheAgent'.failed = loop'.failed
         /\ TheAgent.row = loop.row /\ TheAgent'.row = loop'.row
         /\ TheAgent.alive = Alive /\ TheAgent'.alive = Alive'
<1>1. /\ loop.pc \in {"loop", "closing", "returned"} /\ loop.row \in Int
      /\ loop.failed \in BOOLEAN
      /\ loop'.pc \in {"loop", "closing", "returned"} /\ loop'.row \in Int
      /\ loop'.failed \in BOOLEAN
  BY Constants DEF TypeOK
<1>2. Alive \in BOOLEAN /\ Alive' \in BOOLEAN
  BY DEF Alive
<1>3. /\ TheAgent = [pc |-> loop.pc, failed |-> loop.failed, row |-> loop.row,
                     alive |-> Alive]
      /\ TheAgent' = [pc |-> loop'.pc, failed |-> loop'.failed, row |-> loop'.row,
                      alive |-> Alive']
  BY DEF TheAgent
<1> QED
  BY <1>1, <1>2, <1>3, AgentMade

\* Records of an agent that differ in some fields.
LEMMA AgentLeft ==
  ASSUME NEW R \in AgentType, NEW Q \in AgentType, NEW g \in BOOLEAN,
         Q.pc = "closing", Q.failed = g, Q.row = R.row, Q.alive = R.alive
  PROVE  Q = A!Left(R, g)
  BY DEF AgentType, A!Left

LEMMA AgentRow ==
  ASSUME NEW R \in AgentType, NEW Q \in AgentType, NEW r \in Int,
         Q.pc = R.pc, Q.failed = R.failed, Q.row = r, Q.alive = R.alive
  PROVE  Q = [R EXCEPT !.row = r]
  BY DEF AgentType

LEMMA AgentRowLeft ==
  ASSUME NEW R \in AgentType, NEW Q \in AgentType, NEW r \in Int, NEW g \in BOOLEAN,
         Q.pc = "closing", Q.failed = g, Q.row = r, Q.alive = R.alive
  PROVE  Q = A!Left([R EXCEPT !.row = r], g)
  BY DEF AgentType, A!Left

LEMMA AgentDies ==
  ASSUME NEW R \in AgentType, NEW Q \in AgentType,
         Q.failed = R.failed, Q.row = R.row, Q.alive = FALSE
  PROVE  /\ Q.pc = R.pc => Q = [R EXCEPT !.alive = FALSE]
         /\ Q.pc = "returned" => Q = [R EXCEPT !.pc = "returned", !.alive = FALSE]
  BY DEF AgentType

\* A step of a goroutine: the last one to exit takes the agent's life.
LEMMA WorkerAgentStep ==
  ASSUME TypeOK, TypeOK', loop' = loop, done' = done, NEW w \in Workers,
         worker[w] # "exited",
         \A v \in Workers \ {w} : worker'[v] = worker[v],
         worker'[w] = "exited" => Killed \/ done
  PROVE  [A!Next]_TheAgent
<1>1. Alive = TRUE
  BY DEF Alive
<1>2. CASE Alive'
  <2>1. Alive' = Alive
    BY <1>1, <1>2 DEF Alive
  <2> QED
    BY <2>1 DEF TheAgent
<1>3. CASE ~ Alive'
  <2>1. Alive' = FALSE /\ worker'[w] = "exited"
    BY <1>3 DEF Alive
  <2>2. /\ TheAgent \in AgentType /\ TheAgent' \in AgentType
        /\ TheAgent.pc = loop.pc /\ TheAgent'.pc = TheAgent.pc
        /\ TheAgent'.failed = TheAgent.failed /\ TheAgent'.row = TheAgent.row
    BY AgentFields
  <2>3. TheAgent'.alive = FALSE
    <3>1. TheAgent'.alive = Alive'
      BY AgentFields
    <3> QED
      BY <2>1, <3>1
  <2>4. TheAgent' = [TheAgent EXCEPT !.alive = FALSE]
    BY <2>2, <2>3, AgentDies
  <2>5. TheAgent.pc # "loop" \/ done
    BY <2>1, <2>2 DEF Killed
  <2> QED
    BY <2>4, <2>5 DEF A!Next
<1> QED
  BY <1>2, <1>3

\* A step of the main loop: the goroutines go on.
LEMMA LoopAgentStep ==
  ASSUME TypeOK, TypeOK', worker' = worker
  PROVE  /\ TheAgent \in AgentType /\ TheAgent' \in AgentType
         /\ TheAgent.pc = loop.pc /\ TheAgent'.pc = loop'.pc
         /\ TheAgent.failed = loop.failed /\ TheAgent'.failed = loop'.failed
         /\ TheAgent.row = loop.row /\ TheAgent'.row = loop'.row
         /\ TheAgent'.alive = TheAgent.alive
<1>1. Alive' = Alive
  BY DEF Alive
<1>2. TheAgent'.alive = TheAgent.alive
  BY <1>1, AgentFields
<1> QED
  BY <1>2, AgentFields

LEMMA BidSlotAgentStep ==
  ASSUME BidderInv, BidSlot
  PROVE  [A!Next]_TheAgent
<1> DEFINE row == Head(slotQ[1])
<1>1. TypeOK /\ TypeOK'
  BY BidSlotTypeOK DEF BidderInv
<1>2. /\ loop.pc = "loop" /\ slotQ[1] # <<>> /\ worker' = worker
      /\ \/ loop' = [pc |-> "closing", failed |-> TRUE, row |-> row]
         \/ /\ row = TraceLength - 1
            /\ loop' = [pc |-> "closing", failed |-> FALSE, row |-> row]
         \/ /\ row # TraceLength - 1
            /\ loop' = [loop EXCEPT !.row = row]
  BY DEF BidSlot, Leave
<1>3. row \in Rows /\ row \in Int /\ row > loop.row
  BY <1>2, NextRow, Constants
<1> HIDE DEF row
<1>4. DOMAIN loop = {"pc", "failed", "row"}
  BY <1>1 DEF TypeOK
<1>5. /\ TheAgent \in AgentType /\ TheAgent' \in AgentType
      /\ TheAgent.pc = loop.pc /\ TheAgent'.pc = loop'.pc
      /\ TheAgent.failed = loop.failed /\ TheAgent'.failed = loop'.failed
      /\ TheAgent.row = loop.row /\ TheAgent'.row = loop'.row
      /\ TheAgent'.alive = TheAgent.alive
  BY <1>1, <1>2, LoopAgentStep
<1>6. TheAgent' \in A!AfterBidSlot(row)
  <2>1. CASE loop' = [pc |-> "closing", failed |-> TRUE, row |-> row]
    <3>1. TheAgent'.pc = "closing" /\ TheAgent'.failed = TRUE /\ TheAgent'.row = row
      BY <1>5, <2>1
    <3>2. TheAgent' = A!Left([TheAgent EXCEPT !.row = row], TRUE)
      BY <1>3, <1>5, <3>1, AgentRowLeft
    <3> QED
      BY <3>2 DEF A!AfterBidSlot
  <2>2. CASE /\ row = TraceLength - 1
             /\ loop' = [pc |-> "closing", failed |-> FALSE, row |-> row]
    <3>1. TheAgent'.pc = "closing" /\ TheAgent'.failed = FALSE /\ TheAgent'.row = row
      BY <1>5, <2>2
    <3>2. TheAgent' = A!Left([TheAgent EXCEPT !.row = row], FALSE)
      BY <1>3, <1>5, <3>1, AgentRowLeft
    <3> QED
      BY <2>2, <3>2 DEF A!AfterBidSlot
  <2>3. CASE row # TraceLength - 1 /\ loop' = [loop EXCEPT !.row = row]
    <3>1. /\ TheAgent'.pc = TheAgent.pc /\ TheAgent'.failed = TheAgent.failed
          /\ TheAgent'.row = row
      BY <1>4, <1>5, <2>3
    <3>2. TheAgent' = [TheAgent EXCEPT !.row = row]
      BY <1>3, <1>5, <3>1, AgentRow
    <3> QED
      BY <2>3, <3>2 DEF A!AfterBidSlot
  <2> QED
    BY <1>2, <2>1, <2>2, <2>3
<1> QED
  BY <1>2, <1>3, <1>5, <1>6 DEF A!Next, Rows

LEMMA AgentStep ==
  ASSUME BidderInv, [Next]_vars
  PROVE  [A!Next]_TheAgent
<1>1. TypeOK /\ TypeOK'
  BY NextTypeOK DEF BidderInv
<1>2. CASE worker' = worker /\ loop' = loop
  BY <1>2 DEF TheAgent, Alive
<1>3. ASSUME NEW w \in Workers, Worker(w)
      PROVE  [A!Next]_TheAgent
  <2>1. /\ loop' = loop /\ done' = done /\ worker[w] # "exited"
        /\ worker'[w] = "exited" => Killed \/ done
        /\ \A v \in Workers \ {w} : worker'[v] = worker[v]
    <3>1. DOMAIN worker = Workers
      BY <1>1 DEF TypeOK
    <3> QED
      BY <1>3, <3>1 DEF Worker, Take, Finish, Succeed, Push, Quit, envVars
  <2> QED
    BY <1>1, <2>1, WorkerAgentStep
<1>4. CASE PostKeySlot
  <2>1. /\ loop.pc = "loop" /\ worker' = worker
        /\ \/ loop' = loop
           \/ loop' = [pc |-> "closing", failed |-> TRUE, row |-> loop.row]
    BY <1>4 DEF PostKeySlot, Leave
  <2>2. CASE loop' = [pc |-> "closing", failed |-> TRUE, row |-> loop.row]
    <3>1. /\ TheAgent \in AgentType /\ TheAgent' \in AgentType
          /\ TheAgent'.row = TheAgent.row /\ TheAgent'.alive = TheAgent.alive
          /\ TheAgent.pc = "loop" /\ TheAgent'.pc = "closing"
      BY <1>1, <2>1, <2>2, LoopAgentStep
    <3>2. TheAgent'.failed = TRUE
      BY <1>1, <2>1, <2>2, LoopAgentStep
    <3>3. TheAgent' = A!Left(TheAgent, TRUE)
      BY <3>1, <3>2, AgentLeft
    <3> QED
      BY <3>1, <3>3 DEF A!Next, A!AfterPostKeySlot
  <2> QED
    BY <1>2, <2>1, <2>2
<1>5. CASE LoopDone
  <2>1. /\ loop.pc = "loop" /\ worker' = worker /\ done
        /\ loop' = [pc |-> "closing", failed |-> FALSE, row |-> loop.row]
    BY <1>5 DEF LoopDone, Leave, workVars
  <2>2. /\ TheAgent \in AgentType /\ TheAgent' \in AgentType
        /\ TheAgent'.row = TheAgent.row /\ TheAgent'.alive = TheAgent.alive
        /\ TheAgent.pc = "loop" /\ TheAgent'.pc = "closing"
    BY <1>1, <2>1, LoopAgentStep
  <2>3. TheAgent'.failed = FALSE
    BY <1>1, <2>1, LoopAgentStep
  <2>4. TheAgent' = A!Left(TheAgent, FALSE)
    BY <2>2, <2>3, AgentLeft
  <2> QED
    BY <2>1, <2>2, <2>4 DEF A!Next
<1>6. CASE Return
  <2>1. /\ loop.pc = "closing" /\ worker' = worker
        /\ \A w \in Workers : worker[w] = "exited"
        /\ loop' = [loop EXCEPT !.pc = "returned"]
    BY <1>6 DEF Return, workVars
  <2>2. DOMAIN loop = {"pc", "failed", "row"}
    BY <1>1 DEF TypeOK
  <2>3. /\ TheAgent \in AgentType /\ TheAgent' \in AgentType
        /\ TheAgent'.row = TheAgent.row /\ TheAgent'.failed = TheAgent.failed
        /\ TheAgent.pc = "closing" /\ TheAgent'.pc = "returned"
    BY <1>1, <2>1, <2>2, LoopAgentStep
  <2>4. TheAgent'.alive = FALSE
    <3>1. Alive' = FALSE
      BY <2>1 DEF Alive
    <3>2. TheAgent'.alive = Alive'
      BY <1>1, AgentFields
    <3> QED
      BY <3>1, <3>2
  <2>5. TheAgent' = [TheAgent EXCEPT !.pc = "returned", !.alive = FALSE]
    BY <2>3, <2>4, AgentDies
  <2> QED
    BY <2>3, <2>5 DEF A!Next, A!AfterReturn
<1>7. CASE \/ UNCHANGED vars \/ CloseDone \/ Updater
           \/ \E i \in Notifiers : Notify(i)
  <2>1. worker' = worker /\ loop' = loop
    BY <1>7 DEF vars, CloseDone, Updater, Update, UpdaterQuits, Notify, workVars
  <2> QED
    BY <1>2, <2>1
<1> QED
  BY <1>3, <1>4, <1>5, <1>6, <1>7, BidSlotAgentStep DEF Next, Loop

(***************************************************************************)
(* The bidder implements Agent: it takes bid slots in order, leaves its    *)
(* loop for one of the three reasons only, and once Run has returned none  *)
(* of its goroutines makes a call again (bidder.go, Run: the deferred      *)
(* close(killChan) and waitGroup.Wait).                                    *)
(***************************************************************************)
THEOREM BidderImplementsAgent == Spec => ImplementsAgent
<1>1. Init => A!Init
  <2> SUFFICES ASSUME Init PROVE A!Init
    OBVIOUS
  <2>1. Alive = TRUE
    BY Constants DEF Init, Alive
  <2>2. loop.pc = "loop" /\ loop.failed = FALSE /\ loop.row = -1
    BY DEF Init
  <2> HIDE DEF Alive
  <2> QED
    BY <2>1, <2>2 DEF A!Init, A!Start, TheAgent
<1>2. BidderInv /\ [Next]_vars => [A!Next]_TheAgent
  BY AgentStep
<1> QED
  BY BidderInvariant, <1>1, <1>2, PTL DEF Spec, ImplementsAgent, A!Spec
=============================================================================
