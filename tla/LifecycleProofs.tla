-------------------------- MODULE LifecycleProofs ---------------------------
(***************************************************************************)
(* Proofs about module Lifecycle, for every number of bidders, every       *)
(* length of the trace and every capacity of the queues: the order of the  *)
(* shutdown, and the way of the slots from the notifiers to those who act  *)
(* on them.                                                                *)
(***************************************************************************)
EXTENDS Lifecycle, DataLemmas, SequenceTheorems

-----------------------------------------------------------------------------
(***************************************************************************)
(* The bidders' records, and how they change.                              *)
(***************************************************************************)
AgentType == [pc : {"loop", "closing", "returned"}, failed : BOOLEAN,
              alive : BOOLEAN, row : Int]

LEMMA Constants ==
  /\ Regulator \notin Bidders
  /\ 1 \in Notifiers /\ Notifiers \subseteq {1, 2}
  /\ TraceLength \in Nat \ {0} /\ BufferLen \in Nat \ {0} /\ MaxSlot \in Nat
  /\ TraceLength <= BufferLen \/ MaxSlot < TraceLength
  BY LifecycleAssumption

\* A bidder leaves its loop.
LEMMA LeftFields ==
  ASSUME NEW b \in Bidders, NEW R \in AgentType, NEW Q,
         Q = A(b)!Left(R, TRUE) \/ Q = A(b)!Left(R, FALSE)
  PROVE  /\ Q \in AgentType
         /\ Q.pc = "closing" /\ Q.row = R.row /\ Q.alive = R.alive
<1>1. CASE Q = A(b)!Left(R, TRUE)
  <2>1. Q \in AgentType
    BY <1>1 DEF AgentType, A!Left
  <2> QED
    BY <1>1, <2>1 DEF AgentType, A!Left
<1>2. CASE Q = A(b)!Left(R, FALSE)
  <2>1. Q \in AgentType
    BY <1>2 DEF AgentType, A!Left
  <2> QED
    BY <1>2, <2>1 DEF AgentType, A!Left
<1> QED
  BY <1>1, <1>2

LEMMA RowFields ==
  ASSUME NEW R \in AgentType, NEW r \in Int, NEW Q, Q = [R EXCEPT !.row = r]
  PROVE  /\ Q \in AgentType
         /\ Q.pc = R.pc /\ Q.row = r /\ Q.failed = R.failed /\ Q.alive = R.alive
  BY DEF AgentType

\* It takes a bid slot, ...
LEMMA BidSlotFields ==
  ASSUME NEW b \in Bidders, bidder[b] \in AgentType, NEW r \in Int,
         NEW Q \in A(b)!AfterBidSlot(r)
  PROVE  /\ Q \in AgentType /\ Q.row = r /\ Q.alive = bidder[b].alive
         /\ \/ Q.pc = "closing"
            \/ Q.pc = bidder[b].pc /\ Q.failed = bidder[b].failed /\ r # TraceLength - 1
<1> DEFINE a == [bidder[b] EXCEPT !.row = r]
<1>1. /\ a \in AgentType
      /\ a.pc = bidder[b].pc /\ a.row = r /\ a.failed = bidder[b].failed
      /\ a.alive = bidder[b].alive
  BY RowFields
<1>2. \/ Q = A(b)!Left(a, TRUE)
      \/ Q = A(b)!Left(a, FALSE)
      \/ Q = a /\ r # TraceLength - 1
  BY DEF A!AfterBidSlot
<1> HIDE DEF a
<1>3. CASE Q = A(b)!Left(a, TRUE)
  <2>1. /\ Q \in AgentType
        /\ Q.pc = "closing" /\ Q.row = a.row /\ Q.alive = a.alive
    BY <1>1, <1>3, LeftFields
  <2> QED
    BY <1>1, <2>1
<1>4. CASE Q = A(b)!Left(a, FALSE)
  <2>1. /\ Q \in AgentType
        /\ Q.pc = "closing" /\ Q.row = a.row /\ Q.alive = a.alive
    BY <1>1, <1>4, LeftFields
  <2> QED
    BY <1>1, <2>1
<1> QED
  BY <1>1, <1>2, <1>3, <1>4

\* ... a postKey slot, ...
LEMMA PostKeySlotFields ==
  ASSUME NEW b \in Bidders, bidder[b] \in AgentType,
         NEW Q \in A(b)!AfterPostKeySlot
  PROVE  /\ Q \in AgentType /\ Q.row = bidder[b].row /\ Q.alive = bidder[b].alive
         /\ Q = bidder[b] \/ Q.pc = "closing"
<1>1. Q = bidder[b] \/ Q = A(b)!Left(bidder[b], TRUE)
  BY DEF A!AfterPostKeySlot
<1>2. CASE Q = A(b)!Left(bidder[b], TRUE)
  <2>1. PICK R \in AgentType : R = bidder[b]
    OBVIOUS
  <2>2. Q = A(b)!Left(R, TRUE)
    BY <1>2, <2>1
  <2>3. Q \in AgentType /\ Q.pc = "closing" /\ Q.row = R.row /\ Q.alive = R.alive
    BY <2>2, LeftFields
  <2> QED
    BY <2>1, <2>3
<1>3. CASE Q = bidder[b]
  BY <1>3
<1> QED
  BY <1>1, <1>2, <1>3

\* ... or returns.
LEMMA ReturnFields ==
  ASSUME NEW b \in Bidders, bidder[b] \in AgentType,
         NEW Q \in A(b)!AfterReturn
  PROVE  /\ Q \in AgentType
         /\ Q.pc = "returned" /\ Q.row = bidder[b].row
         /\ Q.failed = bidder[b].failed /\ Q.alive = FALSE
<1>1. Q = [bidder[b] EXCEPT !.pc = "returned", !.alive = FALSE]
  BY DEF A!AfterReturn
<1>2. Q.pc = "returned" /\ Q.row = bidder[b].row /\ Q.failed = bidder[b].failed /\ Q.alive = FALSE
  BY <1>1 DEF AgentType
<1>3. Q \in AgentType
  BY <1>1 DEF AgentType
<1> QED
  BY <1>2, <1>3

-----------------------------------------------------------------------------
(***************************************************************************)
(* The types of the queues and of what fills them.                         *)
(***************************************************************************)
Slots == 0 .. MaxSlot

NotifierType(i) ==
  /\ sn[i] \in [pc : {"recv", "fan", "exited"}, last : -1 .. MaxSlot,
                left : SUBSET Subs(i)]
  /\ sn[i].pc # "fan" => sn[i].left = {}
  /\ sn[i].left # {} => sn[i].last \in Slots

SlotQType(i, a) == slotQ[i][a] \in Seq(Slots) /\ Len(slotQ[i][a]) <= BufferLen

QueueShape ==
  /\ DOMAIN slotQ = Notifiers
  /\ \A i \in Notifiers : DOMAIN slotQ[i] = Subs(i)

TaskType ==
  /\ taskQ \in Seq(Slots \ {0}) /\ Len(taskQ) <= BufferLen
  /\ marked \subseteq 0 .. MaxSlot - 1

QueueType ==
  /\ DOMAIN sn = Notifiers
  /\ \A i \in Notifiers : NotifierType(i)
  /\ QueueShape
  /\ \A i \in Notifiers : \A a \in Subs(i) : SlotQType(i, a)
  /\ missed \in BOOLEAN
  /\ TaskType

LEMMA SlotQueue ==
  ASSUME NEW S, S \subseteq Slots, NEW q \in Seq(S)
  PROVE  /\ q \in Seq(Int) /\ Len(q) \in Nat
         /\ In(q) \subseteq S
         /\ \A s \in S : Append(q, s) \in Seq(S) /\ Len(Append(q, s)) = Len(q) + 1
         /\ q # <<>> => /\ Head(q) \in S /\ Tail(q) \in Seq(S)
                        /\ Len(Tail(q)) = Len(q) - 1
<1>1. S \subseteq Int
  BY DEF Slots
<1>2. q \in Seq(Int)
  BY <1>1, SeqMonotonic
<1> QED
  BY <1>2, InType

\* Two queues that differ in one place.
LEMMA OneQueue ==
  ASSUME QueueShape, NEW i \in Notifiers, NEW a \in Subs(i), NEW q, NEW f,
         f = [slotQ EXCEPT ![i] = [slotQ[i] EXCEPT ![a] = q]]
  PROVE  /\ DOMAIN f = Notifiers
         /\ \A j \in Notifiers : DOMAIN f[j] = Subs(j)
         /\ f[i][a] = q
         /\ \A j \in Notifiers : \A c \in Subs(j) :
              j # i \/ c # a => f[j][c] = slotQ[j][c]
  BY DEF QueueShape

\* A step that changes one slot notifier.
LEMMA OneNotifier ==
  ASSUME DOMAIN sn = Notifiers, NEW i \in Notifiers, NEW n,
         sn' = [sn EXCEPT ![i] = n]
  PROVE  /\ DOMAIN sn' = Notifiers /\ sn'[i] = n
         /\ \A j \in Notifiers \ {i} : sn'[j] = sn[j]
  OBVIOUS

LEMMA InitQueueType == Init => QueueType
<1> SUFFICES ASSUME Init PROVE QueueType
  OBVIOUS
<1>1. ASSUME NEW i \in Notifiers PROVE NotifierType(i)
  <2>1. sn[i] = [pc |-> "recv", last |-> -1, left |-> {}]
    BY DEF Init
  <2>2. -1 \in -1 .. MaxSlot
    BY Constants
  <2> QED
    BY <2>1, <2>2 DEF NotifierType
<1>2. ASSUME NEW i \in Notifiers, NEW a \in Subs(i) PROVE SlotQType(i, a)
  <2>1. slotQ[i][a] = <<>>
    BY DEF Init
  <2> QED
    BY <2>1, EmptySeq, Constants DEF SlotQType
<1>3. QueueShape
  BY DEF Init, QueueShape
<1>4. TaskType
  BY EmptySeq, Constants DEF Init, TaskType
<1> QED
  BY <1>1, <1>2, <1>3, <1>4 DEF Init, QueueType

LEMMA SameQueues ==
  ASSUME QueueType, UNCHANGED <<sn, slotQ, missed, taskQ, marked>>
  PROVE  QueueType'
<1>1. \A i \in Notifiers : NotifierType(i)'
  BY DEF QueueType, NotifierType, Subs
<1>2. \A i \in Notifiers : \A a \in Subs(i) : SlotQType(i, a)'
  BY DEF QueueType, SlotQType
<1>3. QueueShape' /\ TaskType'
  BY DEF QueueType, QueueShape, TaskType, Subs
<1> QED
  BY <1>1, <1>2, <1>3 DEF QueueType, Subs

LEMMA NotifierQueueType ==
  ASSUME QueueType, NEW i \in Notifiers, SlotNotifier(i)
  PROVE  QueueType'
<1>1. DOMAIN sn = Notifiers /\ NotifierType(i) /\ QueueShape /\ MaxSlot \in Nat
  BY Constants DEF QueueType
<1>2. /\ sn[i].pc \in {"recv", "fan", "exited"} /\ sn[i].last \in -1 .. MaxSlot
      /\ sn[i].left \subseteq Subs(i)
      /\ DOMAIN sn[i] = {"pc", "last", "left"}
  BY <1>1 DEF NotifierType
<1>3. taskQ' = taskQ /\ marked' = marked
  BY DEF SlotNotifier, NewSlot, SlotNotifierQuits, FanOut, regVars
<1>4. TaskType'
  BY <1>3 DEF QueueType, TaskType
<1>5. ASSUME NEW n, sn' = [sn EXCEPT ![i] = n],
             n \in [pc : {"recv", "fan", "exited"}, last : -1 .. MaxSlot,
                    left : SUBSET Subs(i)],
             n.pc # "fan" => n.left = {},
             n.left # {} => n.last \in Slots
      PROVE  DOMAIN sn' = Notifiers /\ \A j \in Notifiers : NotifierType(j)'
  BY <1>1, <1>5, OneNotifier DEF QueueType, NotifierType, Subs, Slots
<1>6. CASE NewSlot(i)
  <2>1. /\ sn' = [sn EXCEPT ![i] = [pc |-> "fan", last |-> sn[i].last + 1, left |-> Subs(i)]]
        /\ sn[i].last < MaxSlot /\ slotQ' = slotQ /\ missed' = missed
    BY <1>6 DEF NewSlot
  <2>2. sn[i].last + 1 \in Slots /\ sn[i].last + 1 \in -1 .. MaxSlot
    BY <1>1, <1>2, <2>1 DEF Slots
  <2>3. DOMAIN sn' = Notifiers /\ \A j \in Notifiers : NotifierType(j)'
    BY <1>5, <2>1, <2>2
  <2> QED
    BY <1>4, <2>1, <2>3 DEF QueueType, QueueShape, SlotQType, Subs
<1>7. CASE SlotNotifierQuits(i)
  <2>1. /\ sn' = [sn EXCEPT ![i] = [sn[i] EXCEPT !.pc = "exited"]]
        /\ sn[i].pc = "recv" /\ slotQ' = slotQ /\ missed' = missed
    BY <1>7 DEF SlotNotifierQuits
  <2>2. PICK n : n = [sn[i] EXCEPT !.pc = "exited"]
    OBVIOUS
  <2>3. /\ n \in [pc : {"recv", "fan", "exited"}, last : -1 .. MaxSlot,
                  left : SUBSET Subs(i)]
        /\ n.left = {}
    BY <1>1, <2>1, <2>2 DEF NotifierType
  <2>4. DOMAIN sn' = Notifiers /\ \A j \in Notifiers : NotifierType(j)'
    BY <1>5, <2>1, <2>2, <2>3
  <2> QED
    BY <1>4, <2>1, <2>4 DEF QueueType, QueueShape, SlotQType, Subs
<1>8. ASSUME NEW a \in Subs(i), FanOut(i, a)
      PROVE  QueueType'
  <2>1. PICK left \in SUBSET sn[i].left, pc \in {"recv", "fan"} :
              /\ sn' = [sn EXCEPT ![i] = [pc |-> pc, last |-> sn[i].last, left |-> left]]
              /\ pc # "fan" => left = {}
    BY <1>8 DEF FanOut
  <2>2. /\ sn[i].left # {} /\ missed' = (missed \/ ~ Room(slotQ[i][a]))
        /\ \/ slotQ' = slotQ
           \/ /\ Room(slotQ[i][a])
              /\ slotQ' = [slotQ EXCEPT ![i][a] = Append(slotQ[i][a], sn[i].last)]
    BY <1>8 DEF FanOut
  <2>3. sn[i].last \in Slots
    BY <1>1, <2>2 DEF NotifierType
  <2>4. DOMAIN sn' = Notifiers /\ \A j \in Notifiers : NotifierType(j)'
    BY <1>2, <1>5, <2>1, <2>3
  <2>5. QueueShape' /\ \A j \in Notifiers : \A c \in Subs(j) : SlotQType(j, c)'
    <3>1. CASE slotQ' = slotQ
      BY <3>1 DEF QueueType, QueueShape, SlotQType, Subs
    <3>2. CASE /\ Room(slotQ[i][a])
               /\ slotQ' = [slotQ EXCEPT ![i][a] = Append(slotQ[i][a], sn[i].last)]
      <4>1. PICK q : q = Append(slotQ[i][a], sn[i].last)
        OBVIOUS
      <4>2. slotQ[i][a] \in Seq(Slots) /\ Len(slotQ[i][a]) < BufferLen
        BY <3>2 DEF QueueType, SlotQType, Room
      <4>3. q \in Seq(Slots) /\ Len(q) <= BufferLen
        BY <2>3, <4>1, <4>2, SlotQueue, Constants
      <4>4. /\ QueueShape' /\ slotQ'[i][a] = q
            /\ \A j \in Notifiers : \A c \in Subs(j) :
                 j # i \/ c # a => slotQ'[j][c] = slotQ[j][c]
        <5>1. slotQ' = [slotQ EXCEPT ![i] = [slotQ[i] EXCEPT ![a] = q]]
          BY <3>2, <4>1
        <5> QED
          BY <1>1, <5>1, OneQueue DEF QueueShape, Subs
      <4> QED
        BY <4>3, <4>4 DEF QueueType, SlotQType
    <3> QED
      BY <2>2, <3>1, <3>2
  <2>6. missed' \in BOOLEAN
    BY <2>2 DEF QueueType
  <2> QED
    BY <1>4, <2>4, <2>5, <2>6 DEF QueueType, Subs
<1> QED
  BY <1>6, <1>7, <1>8 DEF SlotNotifier

\* Somebody takes a slot off a queue.
LEMMA TakeQueueType ==
  ASSUME QueueType, NEW i \in Notifiers, NEW a \in Subs(i), slotQ[i][a] # <<>>,
         slotQ' = [slotQ EXCEPT ![i][a] = Tail(slotQ[i][a])],
         UNCHANGED <<sn, missed>>, TaskType'
  PROVE  QueueType'
<1>1. slotQ[i][a] \in Seq(Slots) /\ Len(slotQ[i][a]) <= BufferLen
  BY DEF QueueType, SlotQType
<1>2. PICK q : q = Tail(slotQ[i][a])
  OBVIOUS
<1>3. q \in Seq(Slots) /\ Len(q) <= BufferLen
  BY <1>1, <1>2, SlotQueue, Constants
<1>4. /\ QueueShape' /\ slotQ'[i][a] = q
      /\ \A j \in Notifiers : \A c \in Subs(j) :
           j # i \/ c # a => slotQ'[j][c] = slotQ[j][c]
  <2>1. slotQ' = [slotQ EXCEPT ![i] = [slotQ[i] EXCEPT ![a] = q]] /\ QueueShape
    BY <1>2 DEF QueueType
  <2>2. /\ DOMAIN slotQ' = Notifiers
        /\ \A j \in Notifiers : DOMAIN slotQ'[j] = Subs(j)
        /\ slotQ'[i][a] = q
        /\ \A j \in Notifiers : \A c \in Subs(j) :
             j # i \/ c # a => slotQ'[j][c] = slotQ[j][c]
    BY <1>2, <2>1 DEF QueueShape
  <2> QED
    BY <2>2 DEF QueueShape, Subs
<1>5. \A j \in Notifiers : NotifierType(j)'
  BY DEF QueueType, NotifierType, Subs
<1>6. \A j \in Notifiers : \A c \in Subs(j) : SlotQType(j, c)'
  BY <1>3, <1>4 DEF QueueType, SlotQType
<1> QED
  BY <1>4, <1>5, <1>6 DEF QueueType, Subs

LEMMA NextQueueType == QueueType /\ [Next]_vars => QueueType'
<1> SUFFICES ASSUME QueueType, [Next]_vars PROVE QueueType'
  OBVIOUS
<1>1. ASSUME UNCHANGED <<sn, slotQ, missed, taskQ, marked>> PROVE QueueType'
  BY <1>1, SameQueues
<1>2. 1 \in Notifiers
  BY Constants
<1>3. CASE UNCHANGED vars
  BY <1>1, <1>3 DEF vars
<1>4. ASSUME NEW i \in Notifiers, BlockNotifier(i)
      PROVE  QueueType'
  BY <1>1, <1>4 DEF BlockNotifier, QueryFails, QueryFailed, regVars
<1>5. ASSUME NEW b \in Bidders, BidderRun(b)
      PROVE  QueueType'
  <2>1. b \in Subs(1) /\ b \in Subs(2)
    BY DEF Subs
  <2>2. taskQ' = taskQ /\ marked' = marked /\ sn' = sn /\ missed' = missed
    BY <1>5 DEF BidderRun, BidSlot, PostKeySlot, BidderDone, BidderReturn, BidderExit,
                clockVars, regVars
  <2>3. TaskType'
    BY <2>2 DEF QueueType, TaskType
  <2>4. CASE BidSlot(b)
    <3>1. slotQ[1][b] # <<>> /\ slotQ' = [slotQ EXCEPT ![1][b] = Tail(slotQ[1][b])]
      BY <2>4 DEF BidSlot
    <3> QED
      BY <1>2, <2>1, <2>2, <2>3, <3>1, TakeQueueType
  <2>5. CASE PostKeySlot(b)
    <3>1. /\ 2 \in Notifiers /\ slotQ[2][b] # <<>>
          /\ slotQ' = [slotQ EXCEPT ![2][b] = Tail(slotQ[2][b])]
      BY <2>5 DEF PostKeySlot
    <3> QED
      BY <2>1, <2>2, <2>3, <3>1, TakeQueueType
  <2>6. CASE BidderDone(b) \/ BidderReturn(b) \/ BidderExit(b)
    <3>1. slotQ' = slotQ
      BY <2>6 DEF BidderDone, BidderReturn, BidderExit
    <3> QED
      BY <1>1, <2>2, <3>1
  <2> QED
    BY <1>5, <2>4, <2>5, <2>6 DEF BidderRun
<1>6. CASE RegSlot
  <2>1. /\ slotQ[1][Regulator] # <<>>
        /\ slotQ' = [slotQ EXCEPT ![1][Regulator] = Tail(slotQ[1][Regulator])]
        /\ sn' = sn /\ missed' = missed /\ marked' = marked
        /\ \/ taskQ' = taskQ
           \/ /\ Head(slotQ[1][Regulator]) # 0 /\ Room(taskQ)
              /\ taskQ' = Append(taskQ, Head(slotQ[1][Regulator]))
    BY <1>6 DEF RegSlot, clockVars
  <2>2. Regulator \in Subs(1)
    BY DEF Subs
  <2>3. slotQ[1][Regulator] \in Seq(Slots)
    BY <1>2, <2>2 DEF QueueType, SlotQType
  <2>4. Head(slotQ[1][Regulator]) \in Slots
    BY <2>1, <2>3, SlotQueue
  <2>5. TaskType'
    <3>1. CASE taskQ' = taskQ
      BY <2>1, <3>1 DEF QueueType, TaskType
    <3>2. CASE /\ Head(slotQ[1][Regulator]) # 0 /\ Room(taskQ)
               /\ taskQ' = Append(taskQ, Head(slotQ[1][Regulator]))
      <4>1. PICK s \in Slots \ {0} : s = Head(slotQ[1][Regulator])
        BY <2>4, <3>2
      <4>2. taskQ \in Seq(Slots \ {0}) /\ Len(taskQ) < BufferLen
        BY <3>2 DEF QueueType, TaskType, Room
      <4>3. taskQ' \in Seq(Slots \ {0}) /\ Len(taskQ') <= BufferLen
        BY <3>2, <4>1, <4>2, SlotQueue, Constants
      <4> QED
        BY <2>1, <4>3 DEF QueueType, TaskType
    <3> QED
      BY <2>1, <3>1, <3>2
  <2> QED
    BY <1>2, <2>1, <2>2, <2>5, TakeQueueType
<1>7. CASE TaskTake
  <2>1. /\ taskQ # <<>> /\ taskQ' = Tail(taskQ)
        /\ marked' = marked \cup {Head(taskQ) - 1}
        /\ UNCHANGED <<sn, slotQ, missed>>
    BY <1>7 DEF TaskTake, clockVars
  <2>2. taskQ \in Seq(Slots \ {0}) /\ Len(taskQ) <= BufferLen /\ marked \subseteq 0 .. MaxSlot - 1
    BY DEF QueueType, TaskType
  <2>3. /\ Head(taskQ) \in Slots \ {0} /\ taskQ' \in Seq(Slots \ {0})
        /\ Len(taskQ') <= BufferLen
    BY <2>1, <2>2, SlotQueue, Constants
  <2>4. Head(taskQ) - 1 \in 0 .. MaxSlot - 1
    BY <2>3, Constants DEF Slots
  <2>5. TaskType'
    BY <2>1, <2>2, <2>3, <2>4 DEF TaskType
  <2>6. /\ \A j \in Notifiers : NotifierType(j)'
        /\ \A j \in Notifiers : \A c \in Subs(j) : SlotQType(j, c)'
        /\ QueueShape'
    BY <2>1 DEF QueueType, NotifierType, SlotQType, QueueShape, Subs
  <2> QED
    BY <2>1, <2>5, <2>6 DEF QueueType, Subs
<1>8. CASE RegErr \/ RegDone \/ RegExit \/ TaskFinish \/ TaskQuit \/ Main
  <2>1. UNCHANGED <<sn, slotQ, missed, taskQ, marked>>
    BY <1>8 DEF RegErr, RegDone, RegExit, TaskFinish, TaskQuit, Main, Wg1Wait, Wg2Wait,
                Collect, Output, clockVars, regVars
  <2> QED
    BY <1>1, <2>1
<1> QED
  BY <1>3, <1>4, <1>5, <1>6, <1>7, <1>8, NotifierQueueType
     DEF Next, RegulatorLoop, RegulatorTask

-----------------------------------------------------------------------------
(***************************************************************************)
(* The shutdown.  Its inductive invariant does not look at the queues.     *)
(***************************************************************************)
ShutdownType ==
  /\ done \in BOOLEAN
  /\ main \in {"wg1", "wg2", "wg3", "end"}
  /\ collector \in {"run", "end"}
  /\ bn \in [Notifiers -> {"run", "failing", "failed"}]
  /\ bidder \in [Bidders -> AgentType]
  /\ err \in BOOLEAN
  /\ gone \subseteq Bidders
  /\ reg \in [pc : {"loop", "closing", "exited"}, failed : BOOLEAN]
  /\ tasker \in {"select", "busy", "err", "exited"}

\* A bidder fails when it leaves its loop, is dead when it has returned, and
\* has returned when it is gone.
BidderStages ==
  \A b \in Bidders :
    /\ bidder[b].pc = "loop" => bidder[b].failed = FALSE
    /\ bidder[b].pc = "returned" => bidder[b].alive = FALSE
    /\ b \in gone => bidder[b].pc = "returned"

ErrHasCause == err => \E b \in Bidders : bidder[b].failed

\* The regulator fails when it leaves its loop, and waits for its goroutine.
RegStages ==
  /\ reg.pc = "loop" => reg.failed = FALSE
  /\ reg.pc = "exited" => tasker = "exited"

\* The wait groups.
MainStages ==
  /\ main # "wg1" => gone = Bidders
  /\ main \in {"wg3", "end"} => reg.pc = "exited"
  /\ collector = "end" => main \in {"wg3", "end"}

ShutdownInv ==
  /\ ShutdownType
  /\ BidderStages
  /\ ErrHasCause
  /\ RegStages
  /\ MainStages
  /\ NobodyCutShort

LEMMA InitShutdown == Init => ShutdownInv
<1> SUFFICES ASSUME Init PROVE ShutdownInv
  OBVIOUS
<1>1. ASSUME NEW b \in Bidders
      PROVE  /\ bidder[b] \in AgentType
             /\ bidder[b].pc = "loop" /\ bidder[b].failed = FALSE
  BY DEF Init, A!Start, AgentType
<1>2. bidder \in [Bidders -> AgentType]
  BY <1>1 DEF Init
<1>3. ShutdownType
  BY <1>2 DEF Init, ShutdownType
<1>4. BidderStages
  BY <1>1 DEF Init, BidderStages
<1> QED
  BY <1>3, <1>4 DEF Init, ShutdownInv, ErrHasCause, RegStages, MainStages, NobodyCutShort

\* A step of somebody else.
LEMMA SameShutdown ==
  ASSUME ShutdownInv,
         UNCHANGED <<done, main, collector, bn, bidder, err, gone, reg, tasker>>
  PROVE  ShutdownInv'
  BY DEF ShutdownInv, ShutdownType, BidderStages, ErrHasCause, RegStages, MainStages,
         NobodyCutShort

\* A step that changes the record of one bidder.
LEMMA OneBidder ==
  ASSUME ShutdownInv, NEW b \in Bidders, NEW Q \in AgentType,
         bidder' = [bidder EXCEPT ![b] = Q],
         bidder[b].pc # "returned",
         Q.pc = "loop" => Q.failed = FALSE,
         Q.pc = "returned" => Q.alive = FALSE,
         bidder[b].failed => Q.failed,
         err' \in BOOLEAN, err' => err \/ Q.failed,
         UNCHANGED <<done, main, collector, bn, gone, reg, tasker>>
  PROVE  ShutdownInv'
<1>1. /\ bidder' \in [Bidders -> AgentType]
      /\ bidder'[b] = Q
      /\ \A c \in Bidders \ {b} : bidder'[c] = bidder[c]
  BY DEF ShutdownInv, ShutdownType
<1>2. b \notin gone
  BY DEF ShutdownInv, BidderStages
<1>3. \A c \in Bidders : bidder[c].failed => bidder'[c].failed
  BY <1>1
<1>4. ShutdownType'
  BY <1>1 DEF ShutdownInv, ShutdownType
<1>5. BidderStages'
  BY <1>1, <1>2 DEF ShutdownInv, BidderStages
<1>6. ErrHasCause'
  BY <1>1, <1>3 DEF ShutdownInv, ErrHasCause
<1>7. NobodyCutShort'
  BY <1>3 DEF ShutdownInv, NobodyCutShort
<1> QED
  BY <1>4, <1>5, <1>6, <1>7 DEF ShutdownInv, RegStages, MainStages

LEMMA BidderShutdown ==
  ASSUME ShutdownInv, QueueType, NEW b \in Bidders, BidderRun(b)
  PROVE  ShutdownInv'
<1>1. /\ bidder[b] \in AgentType
      /\ bidder[b].pc = "loop" => bidder[b].failed = FALSE
      /\ err \in BOOLEAN /\ bidder[b].failed \in BOOLEAN
  BY DEF ShutdownInv, ShutdownType, BidderStages, AgentType
<1>2. CASE BidSlot(b) \/ PostKeySlot(b) \/ BidderDone(b)
  <2>1. /\ bidder[b].pc = "loop"
        /\ UNCHANGED <<done, main, collector, bn, err, gone, reg, tasker>>
    BY <1>2 DEF BidSlot, PostKeySlot, BidderDone, mainVars, clockVars, regVars
  <2>2. PICK Q \in AgentType :
               /\ bidder' = [bidder EXCEPT ![b] = Q]
               /\ Q.pc = "closing" \/ (Q.pc = "loop" /\ Q.failed = FALSE)
    <3>1. CASE BidSlot(b)
      <4>1. PICK Q \in A(b)!AfterBidSlot(Head(slotQ[1][b])) :
                   bidder' = [bidder EXCEPT ![b] = Q]
        BY <3>1 DEF BidSlot
      <4>2. slotQ[1][b] \in Seq(Slots) /\ slotQ[1][b] # <<>>
        BY <3>1, Constants DEF BidSlot, QueueType, SlotQType, Subs
      <4>3. PICK r \in Slots : r = Head(slotQ[1][b])
        BY <4>2, SlotQueue
      <4>4. /\ Q \in AgentType
            /\ \/ Q.pc = "closing"
               \/ Q.pc = bidder[b].pc /\ Q.failed = bidder[b].failed
        BY <1>1, <4>1, <4>3, BidSlotFields DEF Slots
      <4> QED
        BY <1>1, <2>1, <4>1, <4>4
    <3>2. CASE PostKeySlot(b)
      <4>1. PICK Q \in A(b)!AfterPostKeySlot : bidder' = [bidder EXCEPT ![b] = Q]
        BY <3>2 DEF PostKeySlot
      <4>2. Q \in AgentType /\ (Q = bidder[b] \/ Q.pc = "closing")
        BY <1>1, <4>1, PostKeySlotFields
      <4> QED
        BY <1>1, <2>1, <4>1, <4>2
    <3>3. CASE BidderDone(b)
      <4>1. PICK R \in AgentType : R = bidder[b]
        BY <1>1
      <4>2. PICK Q : Q = A(b)!Left(R, FALSE)
        OBVIOUS
      <4>3. Q \in AgentType /\ Q.pc = "closing"
        BY <4>1, <4>2, LeftFields
      <4>4. bidder' = [bidder EXCEPT ![b] = Q]
        BY <3>3, <4>1, <4>2 DEF BidderDone
      <4> QED
        BY <4>3, <4>4
    <3> QED
      BY <1>2, <3>1, <3>2, <3>3
  <2> QED
    BY <1>1, <2>1, <2>2, OneBidder
<1>3. CASE BidderReturn(b)
  <2>1. PICK Q \in A(b)!AfterReturn : bidder' = [bidder EXCEPT ![b] = Q]
    BY <1>3 DEF BidderReturn
  <2>2. /\ Q \in AgentType /\ Q.pc = "returned" /\ Q.failed = bidder[b].failed
        /\ Q.alive = FALSE
    BY <1>1, <2>1, ReturnFields
  <2>3. /\ bidder[b].pc = "closing" /\ err' = bidder[b].failed
        /\ UNCHANGED <<done, main, collector, bn, gone, reg, tasker>>
    BY <1>3 DEF BidderReturn, mainVars, clockVars, regVars
  <2> QED
    BY <1>1, <2>1, <2>2, <2>3, OneBidder
<1>4. CASE BidderExit(b)
  <2>1. /\ bidder[b].pc = "returned" /\ gone' = gone \cup {b}
        /\ done' = (done \/ err)
        /\ UNCHANGED <<main, collector, bn, bidder, err, reg, tasker>>
    BY <1>4 DEF BidderExit, mainVars, clockVars, regVars
  <2>2. gone = Bidders => gone' = Bidders
    BY <2>1
  <2>3. NobodyCutShort'
    BY <2>1, <2>2 DEF ShutdownInv, NobodyCutShort, ErrHasCause
  <2>4. ShutdownType'
    BY <2>1 DEF ShutdownInv, ShutdownType
  <2>5. BidderStages' /\ ErrHasCause' /\ RegStages'
    BY <2>1 DEF ShutdownInv, BidderStages, ErrHasCause, RegStages
  <2>6. MainStages'
    BY <2>1, <2>2 DEF ShutdownInv, MainStages
  <2> QED
    BY <2>3, <2>4, <2>5, <2>6 DEF ShutdownInv
<1> QED
  BY <1>2, <1>3, <1>4 DEF BidderRun

\* A step of the regulator: a failure of its main loop is for good.
LEMMA RegShutdown ==
  ASSUME ShutdownInv, ShutdownType', RegStages',
         reg.failed => reg'.failed, reg.pc = "exited" => reg'.pc = "exited",
         done' => done \/ reg'.failed,
         UNCHANGED <<main, collector, bn, bidder, err, gone>>
  PROVE  ShutdownInv'
<1>1. BidderStages' /\ ErrHasCause'
  BY DEF ShutdownInv, BidderStages, ErrHasCause
<1>2. MainStages'
  BY DEF ShutdownInv, MainStages
<1>3. NobodyCutShort'
  BY DEF ShutdownInv, NobodyCutShort
<1> QED
  BY <1>1, <1>2, <1>3 DEF ShutdownInv

LEMMA RegulatorShutdown ==
  ASSUME ShutdownInv, RegulatorLoop \/ RegulatorTask
  PROVE  ShutdownInv'
<1>1. /\ reg \in [pc : {"loop", "closing", "exited"}, failed : BOOLEAN]
      /\ tasker \in {"select", "busy", "err", "exited"}
      /\ reg.pc = "loop" => reg.failed = FALSE
      /\ reg.pc = "exited" => tasker = "exited"
      /\ done \in BOOLEAN
  BY DEF ShutdownInv, ShutdownType, RegStages
<1>2. UNCHANGED <<main, collector, bn, bidder, err, gone>>
  BY DEF RegulatorLoop, RegulatorTask, RegSlot, RegErr, RegDone, RegExit, TaskTake,
         TaskFinish, TaskQuit, mainVars, clockVars, bidderVars
<1>3. ASSUME reg' \in [pc : {"loop", "closing", "exited"}, failed : BOOLEAN],
             tasker' \in {"select", "busy", "err", "exited"}, done' \in BOOLEAN
      PROVE  ShutdownType'
  BY <1>2, <1>3 DEF ShutdownInv, ShutdownType
<1>4. CASE RegSlot
  <2>1. /\ reg' = reg \/ reg' = [pc |-> "closing", failed |-> TRUE]
        /\ done' = done /\ tasker' = tasker /\ reg.pc = "loop"
    BY <1>4 DEF RegSlot
  <2>2. /\ reg' \in [pc : {"loop", "closing", "exited"}, failed : BOOLEAN]
        /\ RegStages' /\ (reg.failed => reg'.failed)
    <3>1. CASE reg' = reg
      BY <1>1, <2>1, <3>1 DEF RegStages
    <3>2. CASE reg' = [pc |-> "closing", failed |-> TRUE]
      <4>1. reg'.pc = "closing"
        BY <3>2
      <4>2. reg' \in [pc : {"loop", "closing", "exited"}, failed : BOOLEAN]
        BY <3>2
      <4> QED
        BY <1>1, <2>1, <4>1, <4>2 DEF RegStages
    <3> QED
      BY <2>1, <3>1, <3>2
  <2> QED
    BY <1>1, <1>2, <1>3, <2>1, <2>2, RegShutdown
<1>5. CASE RegErr \/ TaskTake \/ TaskFinish \/ TaskQuit
  <2>1. /\ reg' = reg /\ done' = done /\ tasker # "exited"
        /\ tasker' \in {"select", "busy", "err", "exited"}
    BY <1>5 DEF RegErr, TaskTake, TaskFinish, TaskQuit
  <2>2. RegStages'
    BY <1>1, <2>1 DEF RegStages
  <2> QED
    BY <1>1, <1>2, <1>3, <2>1, <2>2, RegShutdown
<1>6. CASE RegDone
  <2>1. /\ reg.pc = "loop" /\ done' = done
        /\ reg' = [pc |-> "closing", failed |-> tasker = "err"]
        /\ tasker' \in {"select", "busy", "err", "exited"}
    BY <1>1, <1>6 DEF RegDone
  <2>2. reg' \in [pc : {"loop", "closing", "exited"}, failed : BOOLEAN]
    BY <2>1
  <2>3. reg'.pc = "closing"
    BY <2>1
  <2>4. RegStages' /\ (reg.failed => reg'.failed) /\ reg.pc # "exited"
    BY <1>1, <2>1, <2>3 DEF RegStages
  <2> QED
    BY <1>1, <1>2, <1>3, <2>1, <2>2, <2>4, RegShutdown
<1>7. CASE RegExit
  <2>1. /\ reg.pc = "closing" /\ reg' = [reg EXCEPT !.pc = "exited"]
        /\ done' = (done \/ reg.failed) /\ tasker = "exited" /\ tasker' = tasker
    BY <1>7 DEF RegExit
  <2>2. /\ reg' \in [pc : {"loop", "closing", "exited"}, failed : BOOLEAN]
        /\ reg'.pc = "exited" /\ reg'.failed = reg.failed
    BY <1>1, <2>1
  <2>3. RegStages' /\ done' \in BOOLEAN
    BY <1>1, <2>1, <2>2 DEF RegStages
  <2> QED
    BY <1>1, <1>2, <1>3, <2>1, <2>2, <2>3, RegShutdown
<1> QED
  BY <1>4, <1>5, <1>6, <1>7 DEF RegulatorLoop, RegulatorTask

LEMMA MainShutdown ==
  ASSUME ShutdownInv, Main
  PROVE  ShutdownInv'
<1>1. UNCHANGED <<bn, bidder, err, gone, reg, tasker>>
  BY DEF Main, Wg1Wait, Wg2Wait, Collect, Output, clockVars, bidderVars, regVars
<1>2. BidderStages' /\ ErrHasCause' /\ RegStages'
  BY <1>1 DEF ShutdownInv, BidderStages, ErrHasCause, RegStages
<1>3. ShutdownType'
  BY <1>1 DEF ShutdownInv, ShutdownType, Main, Wg1Wait, Wg2Wait, Collect, Output
<1>4. MainStages'
  BY <1>1 DEF ShutdownInv, ShutdownType, MainStages, Main, Wg1Wait, Wg2Wait, Collect, Output
<1>5. NobodyCutShort'
  BY <1>1 DEF ShutdownInv, NobodyCutShort, Main, Wg1Wait, Wg2Wait, Collect, Output
<1> QED
  BY <1>2, <1>3, <1>4, <1>5 DEF ShutdownInv

LEMMA BlockNotifierShutdown ==
  ASSUME ShutdownInv, NEW i \in Notifiers, BlockNotifier(i)
  PROVE  ShutdownInv'
<1>1. /\ UNCHANGED <<main, collector, bidder, err, gone, reg, tasker>>
      /\ \/ bn[i] = "run" /\ bn' = [bn EXCEPT ![i] = "failing"] /\ done' = done
         \/ bn[i] = "failing" /\ bn' = [bn EXCEPT ![i] = "failed"] /\ done' = TRUE
  BY DEF BlockNotifier, QueryFails, QueryFailed, mainVars, bidderVars, regVars
<1>2. BidderStages' /\ ErrHasCause' /\ RegStages' /\ MainStages'
  BY <1>1 DEF ShutdownInv, BidderStages, ErrHasCause, RegStages, MainStages
<1>3. ShutdownType'
  BY <1>1 DEF ShutdownInv, ShutdownType
<1>4. \A j \in Notifiers : bn[j] = "failed" => bn'[j] = "failed"
  BY <1>1 DEF ShutdownInv, ShutdownType
<1>5. done' => done \/ bn'[i] = "failed"
  BY <1>1 DEF ShutdownInv, ShutdownType
<1>6. NobodyCutShort'
  BY <1>1, <1>4, <1>5 DEF ShutdownInv, NobodyCutShort
<1> QED
  BY <1>2, <1>3, <1>6 DEF ShutdownInv

LEMMA NextShutdown == ShutdownInv /\ QueueType /\ [Next]_vars => ShutdownInv'
<1> SUFFICES ASSUME ShutdownInv, QueueType, [Next]_vars PROVE ShutdownInv'
  OBVIOUS
<1>1. CASE UNCHANGED vars \/ \E i \in Notifiers : SlotNotifier(i)
  <2>1. UNCHANGED <<done, main, collector, bn, bidder, err, gone, reg, tasker>>
    BY <1>1 DEF vars, SlotNotifier, NewSlot, SlotNotifierQuits, FanOut, mainVars,
                bidderVars, regVars
  <2> QED
    BY <2>1, SameShutdown
<1> QED
  BY <1>1, BlockNotifierShutdown, BidderShutdown, RegulatorShutdown, MainShutdown DEF Next

LEMMA ShutdownInvariant == Spec => [](ShutdownInv /\ QueueType)
<1>1. Init => ShutdownInv /\ QueueType
  BY InitShutdown, InitQueueType
<1>2. (ShutdownInv /\ QueueType) /\ [Next]_vars => (ShutdownInv /\ QueueType)'
  BY NextShutdown, NextQueueType
<1> QED
  BY <1>1, <1>2, PTL DEF Spec

(***************************************************************************)
(* The stats collector closes its channels when all who send on them have  *)
(* returned (main.go, run: wg1, wg2 and wg3; collector.go, Run).           *)
(***************************************************************************)
THEOREM SendersAreGone == Spec => []SendersGone
<1>1. ShutdownInv /\ QueueType => SendersGone
  BY DEF ShutdownInv, BidderStages, RegStages, MainStages, SendersGone
<1> QED
  BY ShutdownInvariant, <1>1, PTL

(***************************************************************************)
(* Without a failure, doneC is closed by run() alone, after the last       *)
(* bidder: the variable that the bidders' closures share holds an error    *)
(* only if one of them has failed (main.go, run).                          *)
(***************************************************************************)
THEOREM DoneHasCause == Spec => []NobodyCutShort
<1>1. ShutdownInv /\ QueueType => NobodyCutShort
  BY DEF ShutdownInv
<1> QED
  BY ShutdownInvariant, <1>1, PTL

-----------------------------------------------------------------------------
(***************************************************************************)
(* The way of the slots.  A subscriber's queue holds slots between the one *)
(* it took last and the one it was told last, in order, and not more of    *)
(* them than were told.  A slot below BufferLen is therefore never missed: *)
(* a queue is not full before that many slots were told.                   *)
(***************************************************************************)
Taken(i, a) == IF i = 1 /\ a \in Bidders THEN bidder[a].row ELSE -1

QueueInv(i, a) ==
  /\ Taken(i, a) <= Told(i, a)
  /\ Between(slotQ[i][a], Taken(i, a), Told(i, a))
  /\ Len(slotQ[i][a]) <= Told(i, a) + 1

\* What became of slot s.
Accounted(b, s) == s \in In(slotQ[1][b]) \/ (missed /\ s >= BufferLen)

BidderRows(b) ==
  /\ bidder[b].row \in -1 .. TraceLength - 1
  /\ bidder[b].pc = "loop" => bidder[b].row < TraceLength - 1
  /\ \A s \in bidder[b].row + 1 .. Told(1, b) : Accounted(b, s)

\* The slots whose predecessors are marked.
Closing == {m + 1 : m \in marked}

RegRows ==
  /\ Passes(Closing, taskQ, slotQ[1][Regulator], Told(1, Regulator))
  /\ \/ missed \/ reg.failed
     \/ NoneLost(Closing \cup {0}, taskQ, slotQ[1][Regulator], Told(1, Regulator))

WayInv ==
  /\ \A i \in Notifiers : \A a \in Subs(i) : QueueInv(i, a)
  /\ \A b \in Bidders : BidderRows(b)
  /\ RegRows

LifeType == ShutdownInv /\ QueueType

\* The numbers involved.
LEMMA WayTypes ==
  ASSUME LifeType, NEW i \in Notifiers, NEW a \in Subs(i)
  PROVE  /\ Told(i, a) \in Int /\ Told(i, a) >= -1 /\ Told(i, a) <= MaxSlot
         /\ Taken(i, a) \in Int
         /\ slotQ[i][a] \in Seq(Slots) /\ slotQ[i][a] \in Seq(Int)
         /\ Len(slotQ[i][a]) \in Nat /\ Len(slotQ[i][a]) <= BufferLen
<1>1. /\ sn[i].last \in -1 .. MaxSlot /\ (sn[i].left # {} => sn[i].last \in Slots)
      /\ SlotQType(i, a) /\ MaxSlot \in Nat
  BY Constants DEF LifeType, QueueType, NotifierType
<1>2. Told(i, a) \in Int /\ Told(i, a) >= -1 /\ Told(i, a) <= MaxSlot
  BY <1>1 DEF Told, Slots
<1>3. Taken(i, a) \in Int
  <2>1. \A b \in Bidders : bidder[b].row \in Int
    BY DEF LifeType, ShutdownInv, ShutdownType, AgentType
  <2> QED
    BY <2>1 DEF Taken
<1>4. slotQ[i][a] \in Seq(Slots) /\ Len(slotQ[i][a]) <= BufferLen
  BY <1>1 DEF SlotQType
<1> QED
  BY <1>2, <1>3, <1>4, SlotQueue

LEMMA SubsFacts ==
  /\ 1 \in Notifiers /\ Regulator \in Subs(1) /\ Regulator \notin Bidders
  /\ \A i \in Notifiers : Bidders \subseteq Subs(i)
  /\ \A i \in Notifiers : \A a \in Subs(i) : a \in Bidders \/ (i = 1 /\ a = Regulator)
  /\ \A i : Subs(i)' = Subs(i)
  BY Constants DEF Subs

LEMMA InitWay == Init => WayInv
<1> SUFFICES ASSUME Init PROVE WayInv
  OBVIOUS
<1>1. ASSUME NEW i \in Notifiers, NEW a \in Subs(i)
      PROVE  slotQ[i][a] = <<>> /\ Told(i, a) = -1 /\ Taken(i, a) = -1
  <2>1. sn[i] = [pc |-> "recv", last |-> -1, left |-> {}] /\ slotQ[i][a] = <<>>
    BY DEF Init
  <2>2. \A b \in Bidders : bidder[b].row = -1
    BY DEF Init, A!Start
  <2> QED
    BY <2>1, <2>2 DEF Told, Taken
<1>2. ASSUME NEW i \in Notifiers, NEW a \in Subs(i) PROVE QueueInv(i, a)
  <2>1. Len(<<>>) = 0 /\ Between(<<>>, -1, -1)
    BY BetweenEmpty
  <2> QED
    BY <1>1, <2>1 DEF QueueInv
<1>3. ASSUME NEW b \in Bidders PROVE BidderRows(b)
  <2>1. bidder[b].row = -1 /\ Told(1, b) = -1
    BY <1>1, SubsFacts DEF Taken
  <2> QED
    BY <2>1, Constants DEF BidderRows
<1>4. RegRows
  <2>1. /\ slotQ[1][Regulator] = <<>> /\ Told(1, Regulator) = -1
        /\ taskQ = <<>> /\ Closing = {}
    BY <1>1, SubsFacts DEF Init, Closing
  <2>2. 0 .. -1 = {}
    OBVIOUS
  <2>3. Passes({}, <<>>, <<>>, -1) /\ NoneLost({} \cup {0}, <<>>, <<>>, -1)
    BY <2>2, EmptyQueue DEF Passes, NoneLost, Below
  <2> QED
    BY <2>1, <2>3 DEF RegRows
<1> QED
  BY <1>2, <1>3, <1>4 DEF WayInv

\* A step after which the queues are what they were.
LEMMA SameWay ==
  ASSUME LifeType, WayInv,
         \A i \in Notifiers : \A a \in Subs(i) : Told(i, a)' = Told(i, a),
         slotQ' = slotQ, missed' = missed, taskQ' = taskQ, marked' = marked,
         reg.failed => reg'.failed,
         \A b \in Bidders : /\ bidder'[b].row = bidder[b].row
                            /\ bidder'[b].pc = "loop" => bidder[b].pc = "loop"
  PROVE  WayInv'
<1>1. ASSUME NEW i \in Notifiers, NEW a \in Subs(i) PROVE QueueInv(i, a)'
  <2>1. Taken(i, a)' = Taken(i, a) /\ Told(i, a)' = Told(i, a) /\ slotQ'[i][a] = slotQ[i][a]
    BY DEF Taken
  <2> QED
    BY <2>1 DEF WayInv, QueueInv
<1>2. ASSUME NEW b \in Bidders PROVE BidderRows(b)'
  <2>1. Told(1, b)' = Told(1, b) /\ bidder'[b].row = bidder[b].row
    BY SubsFacts
  <2> QED
    BY <2>1 DEF WayInv, BidderRows, Accounted
<1>3. RegRows'
  <2>1. Told(1, Regulator)' = Told(1, Regulator) /\ Closing' = Closing
    BY SubsFacts DEF Closing
  <2> QED
    BY <2>1 DEF WayInv, RegRows
<1> QED
  BY <1>1, <1>2, <1>3, SubsFacts DEF WayInv

\* A slot that comes up, or a notifier that leaves, changes nothing for those
\* that were told.
LEMMA NewSlotWay ==
  ASSUME LifeType, WayInv, NEW i \in Notifiers, NewSlot(i) \/ SlotNotifierQuits(i)
  PROVE  WayInv'
<1>1. /\ DOMAIN sn = Notifiers /\ sn[i].last \in Int /\ sn[i].pc = "recv"
      /\ sn[i].left = {} /\ DOMAIN sn[i] = {"pc", "last", "left"}
  BY DEF LifeType, QueueType, NotifierType, NewSlot, SlotNotifierQuits
<1>2. UNCHANGED <<slotQ, missed, taskQ, marked, bidder, reg>>
  BY DEF NewSlot, SlotNotifierQuits, bidderVars, regVars
<1>3. \/ sn' = [sn EXCEPT ![i] = [pc |-> "fan", last |-> sn[i].last + 1, left |-> Subs(i)]]
      \/ sn' = [sn EXCEPT ![i] = [sn[i] EXCEPT !.pc = "exited"]]
  BY DEF NewSlot, SlotNotifierQuits
<1>4. ASSUME NEW j \in Notifiers, NEW a \in Subs(j) PROVE Told(j, a)' = Told(j, a)
  <2>1. CASE j # i
    <3>1. sn'[j] = sn[j]
      BY <1>1, <1>3, <2>1
    <3> QED
      BY <3>1 DEF Told
  <2>2. CASE j = i
    <3>1. \/ sn'[i].last = sn[i].last + 1 /\ sn'[i].left = Subs(i)
          \/ sn'[i].last = sn[i].last /\ sn'[i].left = {}
      BY <1>1, <1>3
    <3> QED
      BY <1>1, <2>2, <3>1 DEF Told
  <2> QED
    BY <2>1, <2>2
<1> QED
  BY <1>2, <1>4, SameWay

\* The fan-out reaches a subscriber whose queue has room.
LEMMA FanOutRoom ==
  ASSUME LifeType, LifeType', WayInv, NEW i \in Notifiers, NEW a \in Subs(i),
         Told(i, a)' = Told(i, a) + 1,
         slotQ'[i][a] = Append(slotQ[i][a], Told(i, a) + 1),
         \A j \in Notifiers : \A c \in Subs(j) : j # i \/ c # a =>
           Told(j, c)' = Told(j, c) /\ slotQ'[j][c] = slotQ[j][c],
         UNCHANGED <<missed, taskQ, marked, bidder, reg>>
  PROVE  WayInv'
<1>1. \A j \in Notifiers : \A c \in Subs(j) : Taken(j, c)' = Taken(j, c)
  BY DEF Taken
<1>2. ASSUME NEW j \in Notifiers, NEW c \in Subs(j) PROVE QueueInv(j, c)'
  <2>1. QueueInv(j, c)
    BY DEF WayInv
  <2>2. CASE j # i \/ c # a
    BY <1>1, <2>1, <2>2 DEF QueueInv
  <2>3. CASE j = i /\ c = a
    <3>1. /\ Told(i, a) \in Int /\ Taken(i, a) \in Int /\ slotQ[i][a] \in Seq(Int)
          /\ Len(slotQ[i][a]) \in Nat
      BY WayTypes
    <3>2. /\ Taken(i, a) <= Told(i, a) /\ Between(slotQ[i][a], Taken(i, a), Told(i, a))
          /\ Len(slotQ[i][a]) <= Told(i, a) + 1
      BY <2>1, <2>3 DEF QueueInv
    <3>3. Between(Append(slotQ[i][a], Told(i, a) + 1), Taken(i, a), Told(i, a) + 1)
      BY <3>1, <3>2, BetweenPut
    <3>4. Len(slotQ'[i][a]) = Len(slotQ[i][a]) + 1
      BY <3>1, AppendQueue
    <3>5. Taken(i, a)' <= Told(i, a)' /\ Len(slotQ'[i][a]) <= Told(i, a)' + 1
      BY <1>1, <3>1, <3>2, <3>4
    <3> QED
      BY <1>1, <2>3, <3>3, <3>5 DEF QueueInv
  <2> QED
    BY <2>2, <2>3
<1>3. ASSUME NEW b \in Bidders PROVE BidderRows(b)'
  <2>1. 1 \in Notifiers /\ b \in Subs(1) /\ BidderRows(b)
    BY SubsFacts DEF WayInv
  <2>2. CASE 1 # i \/ b # a
    BY <2>1, <2>2 DEF BidderRows, Accounted
  <2>3. CASE 1 = i /\ b = a
    <3>1. /\ Told(1, b) \in Int /\ slotQ[1][b] \in Seq(Int)
          /\ bidder[b].row \in Int
      BY <2>1, WayTypes DEF LifeType, ShutdownInv, ShutdownType, AgentType
    <3>2. In(slotQ'[1][b]) = In(slotQ[1][b]) \cup {Told(1, b) + 1}
      <4>1. slotQ'[1][b] = Append(slotQ[1][b], Told(1, b) + 1)
        BY <2>3
      <4>2. Told(1, b) + 1 \in Int
        BY <3>1
      <4> QED
        BY <3>1, <4>1, <4>2, AppendQueue
    <3>3. ASSUME NEW s \in bidder[b].row + 1 .. Told(1, b) + 1
          PROVE  Accounted(b, s)'
      <4>1. CASE s = Told(1, b) + 1
        BY <3>2, <4>1 DEF Accounted
      <4>2. CASE s # Told(1, b) + 1
        <5>1. s \in bidder[b].row + 1 .. Told(1, b)
          BY <3>1, <4>2
        <5> QED
          BY <2>1, <3>2, <5>1 DEF BidderRows, Accounted
      <4> QED
        BY <4>1, <4>2
    <3> QED
      BY <2>1, <2>3, <3>3 DEF BidderRows
  <2> QED
    BY <2>2, <2>3
<1>4. RegRows'
  <2>1. 1 \in Notifiers /\ Regulator \in Subs(1) /\ RegRows /\ Closing' = Closing
    BY SubsFacts DEF WayInv, Closing
  <2>2. CASE 1 # i \/ Regulator # a
    BY <2>1, <2>2 DEF RegRows
  <2>3. CASE 1 = i /\ Regulator = a
    <3> DEFINE q == slotQ[1][Regulator]
               n == Told(1, Regulator)
    <3>1. q \in Seq(Int) /\ n \in Int /\ n >= -1 /\ taskQ \in Seq(Int)
      <4>1. taskQ \in Seq(Slots \ {0}) /\ Slots \ {0} \subseteq Slots
        BY DEF LifeType, QueueType, TaskType
      <4> QED
        BY <2>1, <4>1, WayTypes, SlotQueue
    <3>2. slotQ'[1][Regulator] = Append(q, n + 1) /\ Told(1, Regulator)' = n + 1
      BY <2>3
    <3>3. Passes(Closing, taskQ, q, n)
      BY <2>1 DEF RegRows
    <3> HIDE DEF q, n
    <3>4. /\ Passes(Closing, taskQ, Append(q, n + 1), n + 1)
          /\ \A E : NoneLost(E, taskQ, q, n) => NoneLost(E, taskQ, Append(q, n + 1), n + 1)
      BY <3>1, <3>3, Arrives
    <3> QED
      BY <2>1, <3>2, <3>4 DEF RegRows, q, n
  <2> QED
    BY <2>2, <2>3
<1> QED
  BY <1>2, <1>3, <1>4, SubsFacts DEF WayInv

\* It is cut short by a queue that is full: that takes BufferLen slots.
LEMMA FanOutFull ==
  ASSUME LifeType, LifeType', WayInv, NEW i \in Notifiers,
         slotQ' = slotQ, missed' = TRUE,
         sn[i].last >= BufferLen, sn[i].last \in Int,
         \A c \in Subs(i) :
           Told(i, c)' = Told(i, c) \/ (Told(i, c)' = sn[i].last /\ Told(i, c) = sn[i].last - 1),
         \A j \in Notifiers \ {i} : \A c \in Subs(j) : Told(j, c)' = Told(j, c),
         UNCHANGED <<taskQ, marked, bidder, reg>>
  PROVE  WayInv'
<1>1. \A j \in Notifiers : \A c \in Subs(j) :
        Told(j, c)' = Told(j, c) \/ Told(j, c)' = Told(j, c) + 1
  BY WayTypes
<1>2. ASSUME NEW j \in Notifiers, NEW c \in Subs(j) PROVE QueueInv(j, c)'
  <2>1. /\ QueueInv(j, c) /\ Taken(j, c)' = Taken(j, c)
        /\ Told(j, c) \in Int /\ Taken(j, c) \in Int /\ slotQ[j][c] \in Seq(Int)
        /\ Len(slotQ[j][c]) \in Nat
    BY WayTypes DEF WayInv, Taken
  <2>2. CASE Told(j, c)' = Told(j, c)
    BY <2>1, <2>2 DEF QueueInv
  <2>3. CASE Told(j, c)' = Told(j, c) + 1
    <3>1. Between(slotQ[j][c], Taken(j, c), Told(j, c) + 1)
      BY <2>1, BetweenPut DEF QueueInv
    <3>2. Taken(j, c) <= Told(j, c) + 1 /\ Len(slotQ[j][c]) <= (Told(j, c) + 1) + 1
      BY <2>1 DEF QueueInv
    <3> QED
      BY <2>1, <2>3, <3>1, <3>2 DEF QueueInv
  <2> QED
    BY <1>1, <2>2, <2>3
<1>3. ASSUME NEW b \in Bidders PROVE BidderRows(b)'
  <2>1. /\ 1 \in Notifiers /\ b \in Subs(1) /\ BidderRows(b)
        /\ Told(1, b) \in Int /\ bidder[b].row \in Int
    BY SubsFacts, WayTypes DEF WayInv, LifeType, ShutdownInv, ShutdownType, AgentType
  <2>2. ASSUME NEW s \in bidder[b].row + 1 .. Told(1, b)' PROVE Accounted(b, s)'
    <3>1. CASE s \in bidder[b].row + 1 .. Told(1, b)
      BY <2>1, <3>1 DEF BidderRows, Accounted
    <3>2. CASE s \notin bidder[b].row + 1 .. Told(1, b)
      <4>1. Told(1, b)' # Told(1, b)
        BY <3>2
      <4>2. i = 1
        BY <2>1, <4>1
      <4>3. Told(1, b)' = sn[i].last /\ Told(1, b) = sn[i].last - 1
        BY <2>1, <4>1, <4>2
      <4>4. s = sn[i].last
        BY <2>1, <3>2, <4>3
      <4> QED
        BY <4>4 DEF Accounted
    <3> QED
      BY <3>1, <3>2
  <2> QED
    BY <2>1, <2>2 DEF BidderRows
<1>4. RegRows'
  <2>1. /\ RegRows /\ Closing' = Closing
        /\ Told(1, Regulator) \in Int /\ Told(1, Regulator) >= -1
    BY SubsFacts, WayTypes DEF WayInv, Closing
  <2>2. /\ Passes(Closing, taskQ, slotQ[1][Regulator], Told(1, Regulator))
        /\ Passes(Closing, taskQ, slotQ[1][Regulator], Told(1, Regulator) + 1)
    BY <2>1, Misses DEF RegRows
  <2>3. Passes(Closing, taskQ, slotQ[1][Regulator], Told(1, Regulator)')
    BY <1>1, <2>2, SubsFacts
  <2> QED
    BY <2>1, <2>3 DEF RegRows
<1> QED
  BY <1>2, <1>3, <1>4, SubsFacts DEF WayInv

LEMMA FanOutWay ==
  ASSUME LifeType, LifeType', WayInv, NEW i \in Notifiers, NEW a \in Subs(i), FanOut(i, a)
  PROVE  WayInv'
<1>1. /\ DOMAIN sn = Notifiers /\ sn[i].last \in Int /\ a \in sn[i].left
      /\ QueueShape
  BY DEF LifeType, QueueType, NotifierType, FanOut
<1>2. /\ UNCHANGED <<taskQ, marked, bidder, reg>>
      /\ missed' = (missed \/ ~ Room(slotQ[i][a])) /\ missed \in BOOLEAN
  BY DEF FanOut, bidderVars, regVars, LifeType, QueueType
<1>3. Told(i, a) = sn[i].last - 1 /\ Told(i, a) + 1 = sn[i].last
  BY <1>1 DEF Told
<1>4. CASE Room(slotQ[i][a])
  <2>1. PICK pc : sn' = [sn EXCEPT ![i] = [pc |-> pc, last |-> sn[i].last,
                                           left |-> sn[i].left \ {a}]]
    BY <1>4 DEF FanOut
  <2>2. slotQ' = [slotQ EXCEPT ![i] = [slotQ[i] EXCEPT ![a] = Append(slotQ[i][a], sn[i].last)]]
    BY <1>4 DEF FanOut
  <2>3. /\ slotQ'[i][a] = Append(slotQ[i][a], sn[i].last)
        /\ \A j \in Notifiers : \A c \in Subs(j) :
             j # i \/ c # a => slotQ'[j][c] = slotQ[j][c]
    BY <1>1, <2>2, OneQueue
  <2>4. /\ sn'[i].last = sn[i].last /\ sn'[i].left = sn[i].left \ {a}
        /\ \A j \in Notifiers \ {i} : sn'[j] = sn[j]
    BY <1>1, <2>1
  <2>5. Told(i, a)' = sn[i].last
    BY <2>4 DEF Told
  <2>6. ASSUME NEW j \in Notifiers, NEW c \in Subs(j), j # i \/ c # a
        PROVE  Told(j, c)' = Told(j, c)
    BY <2>4, <2>6 DEF Told
  <2>7. missed' = missed
    BY <1>2, <1>4
  <2> QED
    BY <1>2, <1>3, <2>3, <2>5, <2>6, <2>7, FanOutRoom
<1>5. CASE ~ Room(slotQ[i][a])
  <2>1. PICK pc : sn' = [sn EXCEPT ![i] = [pc |-> pc, last |-> sn[i].last, left |-> {}]]
    BY <1>5 DEF FanOut
  <2>2. slotQ' = slotQ
    BY <1>5 DEF FanOut
  <2>3. /\ sn'[i].last = sn[i].last /\ sn'[i].left = {}
        /\ \A j \in Notifiers \ {i} : sn'[j] = sn[j]
    BY <1>1, <2>1
  <2>4. ASSUME NEW c \in Subs(i)
        PROVE  \/ Told(i, c)' = Told(i, c)
               \/ Told(i, c)' = sn[i].last /\ Told(i, c) = sn[i].last - 1
    BY <2>3 DEF Told
  <2>5. ASSUME NEW j \in Notifiers \ {i}, NEW c \in Subs(j)
        PROVE  Told(j, c)' = Told(j, c)
    BY <2>3 DEF Told
  <2>6. sn[i].last >= BufferLen
    <3>1. Len(slotQ[i][a]) \in Nat /\ ~ (Len(slotQ[i][a]) < BufferLen)
      BY <1>5, WayTypes DEF Room
    <3>2. Len(slotQ[i][a]) <= Told(i, a) + 1
      BY DEF WayInv, QueueInv
    <3> QED
      BY <1>1, <1>3, <3>1, <3>2, Constants
  <2>7. missed' = TRUE
    BY <1>2, <1>5
  <2> QED
    BY <1>1, <1>2, <2>2, <2>4, <2>5, <2>6, <2>7, FanOutFull
<1> QED
  BY <1>4, <1>5

\* The row a bidder takes next: with a queue as long as the trace it has been
\* told of all rows, or there is no slot past the trace.
LEMMA BidderNextRow ==
  ASSUME LifeType, WayInv, NEW b \in Bidders, slotQ[1][b] # <<>>, bidder[b].pc = "loop"
  PROVE  /\ Head(slotQ[1][b]) \in 0 .. TraceLength - 1
         /\ Head(slotQ[1][b]) > bidder[b].row
         /\ Head(slotQ[1][b]) <= Told(1, b)
         /\ Between(Tail(slotQ[1][b]), Head(slotQ[1][b]), Told(1, b))
         /\ In(slotQ[1][b]) = {Head(slotQ[1][b])} \cup In(Tail(slotQ[1][b]))
<1> DEFINE q == slotQ[1][b]
           n == Told(1, b)
           r == bidder[b].row
<1>1. /\ 1 \in Notifiers /\ b \in Subs(1) /\ BidderRows(b) /\ QueueInv(1, b)
      /\ Taken(1, b) = r
  BY SubsFacts DEF WayInv, Taken
<1>2. q \in Seq(Int) /\ n \in Int /\ n <= MaxSlot /\ r \in Int
  BY <1>1, WayTypes
<1>3. Between(q, r, n)
  BY <1>1 DEF QueueInv
<1>4. /\ r \in -1 .. TraceLength - 1 /\ r < TraceLength - 1
      /\ \A s \in r + 1 .. n : Accounted(b, s)
  BY <1>1 DEF BidderRows
<1> HIDE DEF q, n, r
<1>5. /\ Head(q) \in r + 1 .. n /\ Between(Tail(q), Head(q), n)
      /\ In(q) = {Head(q)} \cup In(Tail(q))
  BY <1>2, <1>3, BetweenTake, TailQueue DEF q
<1>6. Head(q) < TraceLength
  <2>1. CASE MaxSlot < TraceLength
    BY <1>2, <1>5, <2>1, Constants
  <2>2. CASE TraceLength <= BufferLen
    <3> SUFFICES ASSUME Head(q) >= TraceLength PROVE FALSE
      BY <1>2, <1>5, Constants
    <3>1. TraceLength - 1 \in r + 1 .. n /\ ~ (TraceLength - 1 >= BufferLen)
      BY <1>2, <1>4, <1>5, <2>2, Constants
    <3>2. TraceLength - 1 \in In(q)
      BY <1>4, <3>1 DEF Accounted, q
    <3>3. TraceLength - 1 \in Head(q) + 1 .. n
      BY <1>2, <1>5, <3>2, Constants DEF Between
    <3> QED
      BY <1>2, <1>5, <3>3, Constants
  <2> QED
    BY <2>1, <2>2, Constants
<1>7. Head(q) \in 0 .. TraceLength - 1 /\ Head(q) > r /\ Head(q) <= n
  BY <1>2, <1>4, <1>5, <1>6, Constants
<1> QED
  BY <1>5, <1>7 DEF q, n, r

\* A step that takes the head off one queue of notifier i leaves the others
\* alone.
LEMMA TailOfOne ==
  ASSUME LifeType, NEW i \in Notifiers, NEW a \in Subs(i),
         slotQ' = [slotQ EXCEPT ![i][a] = Tail(slotQ[i][a])], sn' = sn
  PROVE  /\ slotQ'[i][a] = Tail(slotQ[i][a])
         /\ \A j \in Notifiers : \A c \in Subs(j) :
              /\ Told(j, c)' = Told(j, c)
              /\ j # i \/ c # a => slotQ'[j][c] = slotQ[j][c]
<1>1. QueueShape
  BY DEF LifeType, QueueType
<1>2. /\ slotQ'[i][a] = Tail(slotQ[i][a])
      /\ \A j \in Notifiers : \A c \in Subs(j) :
           j # i \/ c # a => slotQ'[j][c] = slotQ[j][c]
  BY <1>1 DEF QueueShape
<1>3. \A j \in Notifiers : \A c \in Subs(j) : Told(j, c)' = Told(j, c)
  BY DEF Told
<1> QED
  BY <1>2, <1>3

LEMMA BidSlotWay ==
  ASSUME LifeType, LifeType', WayInv, NEW b \in Bidders, BidSlot(b)
  PROVE  WayInv'
<1> DEFINE h == Head(slotQ[1][b])
<1>1. /\ bidder[b].pc = "loop" /\ slotQ[1][b] # <<>>
      /\ slotQ' = [slotQ EXCEPT ![1][b] = Tail(slotQ[1][b])]
      /\ UNCHANGED <<sn, missed, taskQ, marked, reg>>
  BY DEF BidSlot, clockVars, regVars
<1>2. /\ 1 \in Notifiers /\ b \in Subs(1) /\ bidder[b] \in AgentType
      /\ DOMAIN bidder = Bidders
  BY SubsFacts DEF LifeType, ShutdownInv, ShutdownType
<1>3. /\ h \in 0 .. TraceLength - 1 /\ h > bidder[b].row /\ h <= Told(1, b)
      /\ Between(Tail(slotQ[1][b]), h, Told(1, b))
      /\ In(slotQ[1][b]) = {h} \cup In(Tail(slotQ[1][b]))
  BY <1>1, BidderNextRow
<1>4. /\ slotQ'[1][b] = Tail(slotQ[1][b])
      /\ \A j \in Notifiers : \A c \in Subs(j) :
           /\ Told(j, c)' = Told(j, c)
           /\ j # 1 \/ c # b => slotQ'[j][c] = slotQ[j][c]
  BY <1>1, <1>2, TailOfOne
<1>5. PICK Q \in A(b)!AfterBidSlot(h) : bidder' = [bidder EXCEPT ![b] = Q]
  BY DEF BidSlot
<1> HIDE DEF h
<1>6. Q.row = h /\ (Q.pc = "loop" => h # TraceLength - 1)
  <2>1. h \in Int
    BY <1>3
  <2> QED
    BY <1>2, <1>5, <2>1, BidSlotFields
<1>7. /\ bidder'[b] = Q
      /\ \A c \in Bidders \ {b} : bidder'[c] = bidder[c]
  BY <1>2, <1>5
<1>8. /\ Told(1, b) \in Int /\ slotQ[1][b] \in Seq(Int)
      /\ Len(slotQ[1][b]) \in Nat /\ bidder[b].row \in Int
  BY <1>2, WayTypes DEF AgentType
<1>9. ASSUME NEW j \in Notifiers, NEW c \in Subs(j) PROVE QueueInv(j, c)'
  <2>1. QueueInv(j, c)
    BY DEF WayInv
  <2>2. CASE j # 1 \/ c # b
    <3>1. Taken(j, c)' = Taken(j, c)
      BY <1>7, <2>2 DEF Taken
    <3> QED
      BY <1>4, <2>1, <2>2, <3>1 DEF QueueInv
  <2>3. CASE j = 1 /\ c = b
    <3>1. Taken(1, b)' = h
      BY <1>6, <1>7 DEF Taken
    <3>2. Len(Tail(slotQ[1][b])) = Len(slotQ[1][b]) - 1
      BY <1>1, <1>8, TailQueue
    <3>3. Len(slotQ'[1][b]) <= Told(1, b) + 1
      BY <1>4, <1>8, <2>1, <2>3, <3>2 DEF QueueInv
    <3> QED
      BY <1>2, <1>3, <1>4, <2>3, <3>1, <3>3 DEF QueueInv
  <2> QED
    BY <2>2, <2>3
<1>10. ASSUME NEW c \in Bidders PROVE BidderRows(c)'
  <2>1. c \in Subs(1) /\ BidderRows(c)
    BY <1>2, SubsFacts DEF WayInv
  <2>2. CASE c # b
    BY <1>1, <1>2, <1>4, <1>7, <2>1, <2>2 DEF BidderRows, Accounted
  <2>3. CASE c = b
    <3>1. bidder'[b].row = h /\ (bidder'[b].pc = "loop" => h # TraceLength - 1)
      BY <1>6, <1>7
    <3>2. ASSUME NEW s \in h + 1 .. Told(1, b) PROVE Accounted(b, s)'
      <4>1. s \in bidder[b].row + 1 .. Told(1, b) /\ s # h
        BY <1>3, <1>8
      <4>2. Accounted(b, s)
        BY <2>1, <2>3, <4>1 DEF BidderRows
      <4> QED
        BY <1>1, <1>3, <1>4, <4>1, <4>2 DEF Accounted
    <3>3. /\ bidder'[b].row \in -1 .. TraceLength - 1
          /\ bidder'[b].pc = "loop" => bidder'[b].row < TraceLength - 1
      BY <1>3, <3>1, Constants
    <3>4. Told(1, b)' = Told(1, b)
      BY <1>2, <1>4
    <3> QED
      BY <2>3, <3>1, <3>2, <3>3, <3>4 DEF BidderRows
  <2> QED
    BY <2>2, <2>3
<1>11. RegRows'
  <2>1. /\ Regulator \in Subs(1) /\ Regulator # b /\ Closing' = Closing /\ RegRows
    BY <1>1, SubsFacts DEF Closing, WayInv
  <2>2. slotQ'[1][Regulator] = slotQ[1][Regulator] /\ Told(1, Regulator)' = Told(1, Regulator)
    BY <1>2, <1>4, <2>1
  <2> QED
    BY <1>1, <2>1, <2>2 DEF RegRows
<1> QED
  BY <1>9, <1>10, <1>11, SubsFacts DEF WayInv

\* A step that takes the head off a queue of which nobody keeps the row.
LEMMA TailQueueInv ==
  ASSUME LifeType, WayInv, NEW i \in Notifiers, NEW a \in Subs(i),
         i # 1 \/ a = Regulator, slotQ[i][a] # <<>>,
         slotQ' = [slotQ EXCEPT ![i][a] = Tail(slotQ[i][a])], sn' = sn,
         \A b \in Bidders : bidder'[b].row = bidder[b].row
  PROVE  \A j \in Notifiers : \A c \in Subs(j) : QueueInv(j, c)'
<1>1. /\ slotQ'[i][a] = Tail(slotQ[i][a])
      /\ \A j \in Notifiers : \A c \in Subs(j) :
           /\ Told(j, c)' = Told(j, c)
           /\ j # i \/ c # a => slotQ'[j][c] = slotQ[j][c]
  BY TailOfOne
<1>2. \A j \in Notifiers : \A c \in Subs(j) : Taken(j, c)' = Taken(j, c)
  BY DEF Taken
<1> SUFFICES ASSUME NEW j \in Notifiers, NEW c \in Subs(j) PROVE QueueInv(j, c)'
  OBVIOUS
<1>3. QueueInv(j, c)
  BY DEF WayInv
<1>4. CASE j # i \/ c # a
  BY <1>1, <1>2, <1>3, <1>4 DEF QueueInv
<1>5. CASE j = i /\ c = a
  <2>1. /\ Told(i, a) \in Int /\ Taken(i, a) \in Int /\ slotQ[i][a] \in Seq(Int)
        /\ Len(slotQ[i][a]) \in Nat
    BY WayTypes
  <2>2. Between(Tail(slotQ[i][a]), Taken(i, a), Told(i, a))
    BY <1>3, <1>5, <2>1, BetweenTake DEF QueueInv
  <2>3. Len(Tail(slotQ[i][a])) = Len(slotQ[i][a]) - 1
    BY <2>1, TailQueue
  <2>4. Len(slotQ'[i][a]) <= Told(i, a) + 1 /\ Taken(i, a) <= Told(i, a)
    BY <1>1, <1>3, <1>5, <2>1, <2>3 DEF QueueInv
  <2> QED
    BY <1>1, <1>2, <1>5, <2>2, <2>4 DEF QueueInv
<1> QED
  BY <1>4, <1>5

LEMMA PostKeySlotWay ==
  ASSUME LifeType, WayInv, NEW b \in Bidders, PostKeySlot(b)
  PROVE  WayInv'
<1>1. /\ 2 \in Notifiers /\ bidder[b].pc = "loop" /\ slotQ[2][b] # <<>>
      /\ slotQ' = [slotQ EXCEPT ![2][b] = Tail(slotQ[2][b])]
      /\ UNCHANGED <<sn, missed, taskQ, marked, reg>>
  BY DEF PostKeySlot, clockVars, regVars
<1>2. /\ 1 \in Notifiers /\ b \in Subs(2) /\ bidder[b] \in AgentType
      /\ DOMAIN bidder = Bidders
  BY <1>1, SubsFacts DEF LifeType, ShutdownInv, ShutdownType
<1>3. PICK Q \in A(b)!AfterPostKeySlot : bidder' = [bidder EXCEPT ![b] = Q]
  BY DEF PostKeySlot
<1>4. Q.row = bidder[b].row /\ (Q.pc = "loop" => bidder[b].pc = "loop")
  BY <1>1, <1>2, <1>3, PostKeySlotFields
<1>5. \A c \in Bidders : /\ bidder'[c].row = bidder[c].row
                         /\ bidder'[c].pc = "loop" => bidder[c].pc = "loop"
  BY <1>2, <1>3, <1>4
<1> PICK i \in Notifiers : i = 2
  BY <1>1
<1>6. /\ b \in Subs(i) /\ i # 1 /\ slotQ[i][b] # <<>> /\ sn' = sn
      /\ slotQ' = [slotQ EXCEPT ![i][b] = Tail(slotQ[i][b])]
  BY <1>1, <1>2
<1>7. \A j \in Notifiers : \A c \in Subs(j) : QueueInv(j, c)'
  BY <1>5, <1>6, TailQueueInv
<1>8. \A j \in Notifiers : \A c \in Subs(j) :
        /\ Told(j, c)' = Told(j, c)
        /\ j # i \/ c # b => slotQ'[j][c] = slotQ[j][c]
  BY <1>6, TailOfOne
<1>9. \A c \in Subs(1) : slotQ'[1][c] = slotQ[1][c] /\ Told(1, c)' = Told(1, c)
  BY <1>2, <1>6, <1>8
<1>10. ASSUME NEW c \in Bidders PROVE BidderRows(c)'
  <2>1. /\ BidderRows(c) /\ slotQ'[1][c] = slotQ[1][c] /\ Told(1, c)' = Told(1, c)
    BY <1>2, <1>9, SubsFacts DEF WayInv
  <2> QED
    BY <1>1, <1>5, <2>1 DEF BidderRows, Accounted
<1>11. RegRows'
  <2>1. /\ slotQ'[1][Regulator] = slotQ[1][Regulator]
        /\ Told(1, Regulator)' = Told(1, Regulator)
        /\ Closing' = Closing /\ RegRows
    BY <1>1, <1>9, SubsFacts DEF Closing, WayInv
  <2> QED
    BY <1>1, <2>1 DEF RegRows
<1> QED
  BY <1>7, <1>10, <1>11, SubsFacts DEF WayInv

LEMMA RegSlotWay ==
  ASSUME LifeType, WayInv, RegSlot
  PROVE  WayInv'
<1> DEFINE q == slotQ[1][Regulator]
           n == Told(1, Regulator)
<1>1. /\ q # <<>> /\ slotQ' = [slotQ EXCEPT ![1][Regulator] = Tail(slotQ[1][Regulator])]
      /\ UNCHANGED <<sn, missed, bidder, marked>>
      /\ \/ taskQ' = Append(taskQ, Head(q)) /\ reg' = reg
         \/ taskQ' = taskQ /\ reg' = reg /\ Head(q) = 0
         \/ taskQ' = taskQ /\ reg' = [pc |-> "closing", failed |-> TRUE]
  BY DEF RegSlot, clockVars, bidderVars
<1>2. 1 \in Notifiers /\ Regulator \in Subs(1)
  BY SubsFacts
<1>3. \A j \in Notifiers : \A c \in Subs(j) : QueueInv(j, c)'
  BY <1>1, <1>2, TailQueueInv
<1>4. /\ slotQ'[1][Regulator] = Tail(q)
      /\ \A j \in Notifiers : \A c \in Subs(j) :
           /\ Told(j, c)' = Told(j, c)
           /\ j # 1 \/ c # Regulator => slotQ'[j][c] = slotQ[j][c]
  BY <1>1, <1>2, TailOfOne
<1>5. ASSUME NEW b \in Bidders PROVE BidderRows(b)'
  <2>1. /\ BidderRows(b) /\ slotQ'[1][b] = slotQ[1][b] /\ Told(1, b)' = Told(1, b)
    BY <1>2, <1>4, SubsFacts DEF WayInv
  <2> QED
    BY <1>1, <2>1 DEF BidderRows, Accounted
<1>6. /\ taskQ \in Seq(Int) /\ q \in Seq(Int) /\ n \in Int
      /\ Passes(Closing, taskQ, q, n)
  <2>1. taskQ \in Seq(Slots \ {0}) /\ Slots \ {0} \subseteq Slots
    BY DEF LifeType, QueueType, TaskType
  <2> QED
    BY <1>2, <2>1, WayTypes, SlotQueue DEF WayInv, RegRows
<1>7. /\ Closing' = Closing /\ Told(1, Regulator)' = n
      /\ missed \/ reg.failed \/ NoneLost(Closing \cup {0}, taskQ, q, n)
  BY <1>1, <1>2, <1>4 DEF Closing, WayInv, RegRows
<1> HIDE DEF q, n
<1>8. RegRows'
  <2>1. CASE taskQ' = Append(taskQ, Head(q)) /\ reg' = reg
    <3>1. /\ Passes(Closing, Append(taskQ, Head(q)), Tail(q), n)
          /\ \A E : NoneLost(E, taskQ, q, n) => NoneLost(E, Append(taskQ, Head(q)), Tail(q), n)
      BY <1>1, <1>6, Moves
    <3> QED
      BY <1>1, <1>4, <1>7, <2>1, <3>1 DEF RegRows
  <2>2. Passes(Closing, taskQ, Tail(q), n)
    BY <1>1, <1>6, Drops
  <2>3. CASE taskQ' = taskQ /\ reg' = reg /\ Head(q) = 0
    <3>1. \A E : Head(q) \in E /\ NoneLost(E, taskQ, q, n) => NoneLost(E, taskQ, Tail(q), n)
      BY <1>1, <1>6, Drops
    <3>2. Head(q) \in Closing \cup {0}
      BY <2>3
    <3>3. NoneLost(Closing \cup {0}, taskQ, q, n) => NoneLost(Closing \cup {0}, taskQ, Tail(q), n)
      BY <3>1, <3>2
    <3> QED
      BY <1>1, <1>4, <1>7, <2>2, <2>3, <3>3 DEF RegRows
  <2>4. CASE taskQ' = taskQ /\ reg' = [pc |-> "closing", failed |-> TRUE]
    <3>1. reg'.failed
      BY <2>4
    <3> QED
      BY <1>4, <1>7, <2>2, <2>4, <3>1 DEF RegRows
  <2> QED
    BY <1>1, <2>1, <2>3, <2>4
<1> QED
  BY <1>3, <1>5, <1>8, SubsFacts DEF WayInv

LEMMA TaskTakeWay ==
  ASSUME LifeType, WayInv, TaskTake
  PROVE  WayInv'
<1>1. /\ taskQ # <<>> /\ taskQ' = Tail(taskQ)
      /\ marked' = marked \cup {Head(taskQ) - 1}
      /\ UNCHANGED <<sn, slotQ, missed, bidder, reg>>
  BY DEF TaskTake, clockVars, bidderVars
<1>2. \A j \in Notifiers : \A c \in Subs(j) : Told(j, c)' = Told(j, c) /\ Taken(j, c)' = Taken(j, c)
  BY <1>1 DEF Told, Taken
<1>3. \A j \in Notifiers : \A c \in Subs(j) : QueueInv(j, c)'
  BY <1>1, <1>2 DEF WayInv, QueueInv
<1>4. ASSUME NEW b \in Bidders PROVE BidderRows(b)'
  <2>1. BidderRows(b) /\ Told(1, b)' = Told(1, b)
    BY <1>2, SubsFacts DEF WayInv
  <2> QED
    BY <1>1, <2>1 DEF BidderRows, Accounted
<1>5. taskQ \in Seq(Slots \ {0}) /\ Slots \ {0} \subseteq Slots
  BY DEF LifeType, QueueType, TaskType
<1>6. taskQ \in Seq(Int) /\ Head(taskQ) \in Int
  BY <1>1, <1>5, SlotQueue DEF Slots
<1>7. Closing' = Closing \cup {Head(taskQ)}
  <2>1. (Head(taskQ) - 1) + 1 = Head(taskQ)
    BY <1>6
  <2> QED
    BY <1>1, <2>1 DEF Closing
<1>8. RegRows'
  <2> DEFINE q == slotQ[1][Regulator]
             n == Told(1, Regulator)
  <2>1. /\ Passes(Closing, taskQ, q, n)
        /\ missed \/ reg.failed \/ NoneLost(Closing \cup {0}, taskQ, q, n)
    BY DEF WayInv, RegRows
  <2>2. slotQ'[1][Regulator] = q /\ Told(1, Regulator)' = n
    BY <1>1, <1>2, SubsFacts
  <2> HIDE DEF q, n
  <2>3. /\ Passes(Closing \cup {Head(taskQ)}, Tail(taskQ), q, n)
        /\ \A E : NoneLost(E, taskQ, q, n) => NoneLost(E \cup {Head(taskQ)}, Tail(taskQ), q, n)
    BY <1>1, <1>6, <2>1, Takes
  <2>4. (Closing \cup {0}) \cup {Head(taskQ)} = Closing' \cup {0}
    BY <1>7
  <2>5. NoneLost(Closing \cup {0}, taskQ, q, n) => NoneLost(Closing' \cup {0}, Tail(taskQ), q, n)
    BY <2>3, <2>4
  <2> QED
    BY <1>1, <1>7, <2>1, <2>2, <2>3, <2>5 DEF RegRows
<1> QED
  BY <1>3, <1>4, <1>8, SubsFacts DEF WayInv

LEMMA NextWay == LifeType /\ LifeType' /\ WayInv /\ [Next]_vars => WayInv'
<1> SUFFICES ASSUME LifeType, LifeType', WayInv, [Next]_vars PROVE WayInv'
  OBVIOUS
<1>1. ASSUME UNCHANGED <<sn, slotQ, missed, taskQ, marked>>, reg.failed => reg'.failed,
             \A b \in Bidders : /\ bidder'[b].row = bidder[b].row
                                /\ bidder'[b].pc = "loop" => bidder[b].pc = "loop"
      PROVE  WayInv'
  <2>1. \A i \in Notifiers : \A a \in Subs(i) : Told(i, a)' = Told(i, a)
    BY <1>1 DEF Told
  <2> QED
    BY <1>1, <2>1, SameWay
<1>2. CASE UNCHANGED vars \/ \E i \in Notifiers : BlockNotifier(i)
  <2>1. UNCHANGED <<sn, slotQ, missed, taskQ, marked, reg, bidder>>
    BY <1>2 DEF vars, BlockNotifier, QueryFails, QueryFailed, bidderVars, regVars
  <2> QED
    BY <1>1, <2>1
<1>3. CASE Main \/ RegErr \/ TaskFinish \/ TaskQuit
  <2>1. UNCHANGED <<sn, slotQ, missed, taskQ, marked, reg, bidder>>
    BY <1>3 DEF Main, Wg1Wait, Wg2Wait, Collect, Output, RegErr, TaskFinish, TaskQuit,
                clockVars, bidderVars, regVars
  <2> QED
    BY <1>1, <2>1
<1>4. CASE RegDone \/ RegExit
  <2>1. UNCHANGED <<sn, slotQ, missed, taskQ, marked, bidder>>
    BY <1>4 DEF RegDone, RegExit, clockVars, bidderVars
  <2>2. /\ reg \in [pc : {"loop", "closing", "exited"}, failed : BOOLEAN]
        /\ reg.pc = "loop" => reg.failed = FALSE
    BY DEF LifeType, ShutdownInv, ShutdownType, RegStages
  <2>3. reg.failed => reg'.failed
    BY <1>4, <2>2 DEF RegDone, RegExit
  <2> QED
    BY <1>1, <2>1, <2>3
<1>5. ASSUME NEW b \in Bidders, BidderDone(b) \/ BidderReturn(b) \/ BidderExit(b)
      PROVE  WayInv'
  <2>1. UNCHANGED <<sn, slotQ, missed, taskQ, marked, reg>>
    BY <1>5 DEF BidderDone, BidderReturn, BidderExit, clockVars, regVars
  <2>2. bidder[b] \in AgentType /\ DOMAIN bidder = Bidders
    BY DEF LifeType, ShutdownInv, ShutdownType
  <2>3. CASE BidderDone(b)
    <3>1. PICK R \in AgentType : R = bidder[b]
      BY <2>2
    <3>2. PICK Q : Q = A(b)!Left(R, FALSE)
      OBVIOUS
    <3>3. Q.pc = "closing" /\ Q.row = bidder[b].row
      BY <3>1, <3>2, LeftFields
    <3>4. bidder' = [bidder EXCEPT ![b] = Q]
      BY <2>3, <3>1, <3>2 DEF BidderDone
    <3> QED
      BY <1>1, <2>1, <2>2, <3>3, <3>4
  <2>4. CASE BidderReturn(b)
    <3>1. PICK Q \in A(b)!AfterReturn : bidder' = [bidder EXCEPT ![b] = Q]
      BY <2>4 DEF BidderReturn
    <3>2. Q.pc = "returned" /\ Q.row = bidder[b].row
      BY <2>2, <3>1, ReturnFields
    <3> QED
      BY <1>1, <2>1, <2>2, <3>1, <3>2
  <2>5. CASE BidderExit(b)
    <3>1. bidder' = bidder
      BY <2>5 DEF BidderExit
    <3> QED
      BY <1>1, <2>1, <3>1
  <2> QED
    BY <1>5, <2>3, <2>4, <2>5
<1> QED
  BY <1>2, <1>3, <1>4, <1>5, NewSlotWay, FanOutWay, BidSlotWay, PostKeySlotWay, RegSlotWay,
     TaskTakeWay
     DEF Next, SlotNotifier, BidderRun, RegulatorLoop, RegulatorTask

LEMMA LifeInvariant == Spec => [](LifeType /\ WayInv)
<1>1. Init => LifeType /\ WayInv
  BY InitShutdown, InitQueueType, InitWay DEF LifeType
<1>2. LifeType /\ [Next]_vars => LifeType'
  BY NextShutdown, NextQueueType DEF LifeType
<1>3. (LifeType /\ WayInv) /\ [Next]_vars => (LifeType /\ WayInv)'
  BY <1>2, NextWay
<1> QED
  BY <1>1, <1>3, PTL DEF Spec
-----------------------------------------------------------------------------
\* A bidder is never handed a row that its trace does not have.
LEMMA TypeOfWay == LifeType /\ WayInv => TypeOK
<1> SUFFICES ASSUME LifeType, WayInv PROVE TypeOK
  OBVIOUS
<1>1. /\ done \in BOOLEAN /\ main \in {"wg1", "wg2", "wg3", "end"}
      /\ collector \in {"run", "end"} /\ bn \in [Notifiers -> {"run", "failing", "failed"}]
      /\ err \in BOOLEAN /\ gone \subseteq Bidders
      /\ reg \in [pc : {"loop", "closing", "exited"}, failed : BOOLEAN]
      /\ tasker \in {"select", "busy", "err", "exited"}
  BY DEF LifeType, ShutdownInv, ShutdownType
<1>2. missed \in BOOLEAN /\ Len(taskQ) <= BufferLen /\ marked \subseteq 0 .. MaxSlot - 1
  BY DEF LifeType, QueueType, TaskType
<1>3. ASSUME NEW i \in Notifiers
      PROVE  /\ sn[i].pc \in {"recv", "fan", "exited"}
             /\ sn[i].last \in -1 .. MaxSlot
             /\ sn[i].left \subseteq Subs(i)
             /\ \A a \in Subs(i) : Len(slotQ[i][a]) <= BufferLen
  BY DEF LifeType, QueueType, NotifierType, SlotQType
<1>4. bidder \in [Bidders -> [pc : {"loop", "closing", "returned"},
                              failed : BOOLEAN, alive : BOOLEAN,
                              row : -1 .. TraceLength - 1]]
  <2>1. bidder \in [Bidders -> AgentType]
    BY DEF LifeType, ShutdownInv, ShutdownType
  <2>2. \A b \in Bidders : bidder[b].row \in -1 .. TraceLength - 1
    BY DEF WayInv, BidderRows
  <2> QED
    BY <2>1, <2>2 DEF AgentType
<1> QED
  BY <1>1, <1>2, <1>3, <1>4 DEF TypeOK

(***************************************************************************)
(* Type correctness.  The part with something to it is the row of a        *)
(* bidder: with a buffer as long as the trace, or a run that ends with it, *)
(* no bidder indexes its trace out of range, however far the others lag    *)
(* behind it (bidder.go, Run).                                             *)
(***************************************************************************)
THEOREM LifecycleTypeCorrect == Spec => []TypeOK
  BY LifeInvariant, TypeOfWay, PTL

LEMMA AscendsFollows ==
  ASSUME NEW q \in Seq(Int), NEW n \in Int, Ascends(q), \A s \in In(q) : s > n
  PROVE  Follows(q, n)
<1>1. DOMAIN q = 1 .. Len(q) /\ Len(q) \in Nat
  OBVIOUS
<1>2. ASSUME NEW j \in 1 .. Len(q) PROVE q[j] > IF j = 1 THEN n ELSE q[j - 1]
  <2>1. CASE j = 1
    BY <1>1, <2>1 DEF In
  <2>2. CASE j # 1
    <3>1. j - 1 \in 1 .. Len(q) /\ j - 1 < j /\ q[j] \in Int /\ q[j - 1] \in Int
      BY <1>1, <2>2
    <3>2. q[j - 1] < q[j]
      BY <1>1, <3>1 DEF Ascends
    <3> QED
      BY <2>2, <3>1, <3>2
  <2> QED
    BY <2>1, <2>2
<1> QED
  BY <1>1, <1>2 DEF Follows

LEMMA BidderIsTold ==
  ASSUME LifeType, WayInv, NEW b \in Bidders
  PROVE  /\ Follows(slotQ[1][b], bidder[b].row)
         /\ missed \/ Elements(slotQ[1][b]) = bidder[b].row + 1 .. Told(1, b)
<1> DEFINE q == slotQ[1][b]
           r == bidder[b].row
           n == Told(1, b)
<1>1. 1 \in Notifiers /\ b \in Subs(1)
  BY SubsFacts
<1>2. q \in Seq(Int) /\ r \in Int /\ n \in Int
  BY <1>1, WayTypes DEF LifeType, ShutdownInv, ShutdownType, AgentType
<1>3. Ascends(q) /\ In(q) \subseteq r + 1 .. n
  BY <1>1 DEF WayInv, QueueInv, Taken, Between
<1>4. missed \/ r + 1 .. n \subseteq In(q)
  BY DEF WayInv, BidderRows, Accounted
<1> HIDE DEF q, r, n
<1>5. \A s \in In(q) : s > r
  BY <1>2, <1>3
<1>6. Follows(q, r)
  BY <1>2, <1>3, <1>5, AscendsFollows
<1>7. missed \/ In(q) = r + 1 .. n
  BY <1>3, <1>4
<1> QED
  BY <1>6, <1>7 DEF q, r, n, In, Elements

LEMMA RegulatorIsTold ==
  ASSUME LifeType, WayInv, NEW q, q = taskQ \o slotQ[1][Regulator]
  PROVE  /\ Follows(q, -1)
         /\ \A s \in marked : Follows(q, s + 1)
         /\ \/ missed \/ reg.failed
            \/ marked \cup {s - 1 : s \in Elements(q) \ {0}} = 0 .. Told(1, Regulator) - 1
<1> DEFINE p == slotQ[1][Regulator]
           n == Told(1, Regulator)
<1>1. 1 \in Notifiers /\ Regulator \in Subs(1)
  BY SubsFacts
<1>2. taskQ \in Seq(Slots \ {0}) /\ Slots \ {0} \subseteq Slots
      /\ marked \subseteq 0 .. MaxSlot - 1 /\ MaxSlot \in Nat
  BY Constants DEF LifeType, QueueType, TaskType
<1>3. taskQ \in Seq(Int) /\ p \in Seq(Int) /\ n \in Int
  BY <1>1, <1>2, WayTypes, SlotQueue
<1>4. /\ Passes(Closing, taskQ, p, n)
      /\ missed \/ reg.failed \/ NoneLost(Closing \cup {0}, taskQ, p, n)
  BY DEF WayInv, RegRows
<1> HIDE DEF p, n
<1>5. /\ In(q) = In(taskQ) \cup In(p) /\ Ascends(q) /\ Below(Closing, In(q))
      /\ q \in Seq(Int)
  <2>1. q = taskQ \o p
    BY DEF p
  <2>2. q \in Seq(Int)
    BY <1>3, <2>1
  <2> QED
    BY <1>3, <1>4, <2>1, <2>2, PassesConcat
<1>6. Closing \cup In(q) \subseteq 0 .. n
  BY <1>4, <1>5 DEF Passes
<1>7. \A m \in marked : m \in Int /\ m >= 0 /\ m + 1 \in Closing
  BY <1>2 DEF Closing
<1>8. Follows(q, -1)
  <2> PICK m \in Int : m = -1
    OBVIOUS
  <2>1. \A s \in In(q) : s > m
    BY <1>3, <1>6
  <2>2. Follows(q, m)
    BY <1>5, <2>1, AscendsFollows
  <2> QED
    BY <2>2
<1>9. ASSUME NEW m \in marked PROVE Follows(q, m + 1)
  <2>1. m + 1 \in Int /\ \A s \in In(q) : s > m + 1
    BY <1>3, <1>5, <1>6, <1>7 DEF Below
  <2> QED
    BY <1>5, <2>1, AscendsFollows
<1>10. ASSUME NoneLost(Closing \cup {0}, taskQ, p, n)
       PROVE  marked \cup {s - 1 : s \in In(q) \ {0}} = 0 .. n - 1
  <2>1. ASSUME NEW m \in 0 .. n - 1
        PROVE  m \in marked \cup {s - 1 : s \in In(q) \ {0}}
    <3>1. m + 1 \in 0 .. n /\ m + 1 # 0 /\ m = (m + 1) - 1
      BY <1>3
    <3>2. m + 1 \in Closing \/ m + 1 \in In(q)
      BY <1>5, <1>10, <3>1 DEF NoneLost
    <3>3. CASE m + 1 \in Closing
      <4>1. PICK k \in marked : m + 1 = k + 1
        BY <3>3 DEF Closing
      <4>2. m = k
        BY <1>7, <4>1
      <4> QED
        BY <4>1, <4>2
    <3>4. CASE m + 1 \in In(q)
      BY <3>1, <3>4
    <3> QED
      BY <3>2, <3>3, <3>4
  <2>2. marked \subseteq 0 .. n - 1
    BY <1>3, <1>6, <1>7
  <2>3. \A s \in In(q) \ {0} : s - 1 \in 0 .. n - 1
    BY <1>3, <1>6
  <2> QED
    BY <2>1, <2>2, <2>3
<1> QED
  BY <1>4, <1>8, <1>9, <1>10 DEF In, Elements, n

(***************************************************************************)
(* Slots reach those who act on them in order, and but for a full queue    *)
(* none is lost on the way: what a bidder has queued follows the slot it   *)
(* took last without a gap, and what the regulator has queued, in both its *)
(* queues, or marked are all the slots told                                *)
(* (slotnotifier/notifier.go, Run; regulator.go, Run).                     *)
(***************************************************************************)
THEOREM EveryoneGetsTold == Spec => []EveryoneIsTold
<1>1. LifeType /\ WayInv => EveryoneIsTold
  BY BidderIsTold, RegulatorIsTold DEF EveryoneIsTold
<1> QED
  BY LifeInvariant, <1>1, PTL
=============================================================================
