------------------------------ MODULE Lifecycle ------------------------------
(***************************************************************************)
(* A run of the program from the first slot to its end (src/main.go): the  *)
(* notifiers, the bidders, the regulator with its task goroutine, the      *)
(* queues between them, and the shutdown through doneC, the kill channel   *)
(* and the wait groups.  When a slot comes up is module SlotSource's       *)
(* (SlotClock implements it), what a bidder does with it module Agent's    *)
(* (Bidder implements it).  A markEnd call is a goroutine that is busy for *)
(* a while and then succeeds or fails (the rest is module Market's).       *)
(*                                                                         *)
(* All agents are registered with their notifiers at the start: the first  *)
(* slot comes up StartFromBlock blocks into the run.                       *)
(***************************************************************************)
EXTENDS Integers, Sequences, FiniteSets

CONSTANTS Bidders,
          Regulator,
          Notifiers,     \* {1, 2}, or {1} in experiment 2
          TraceLength,   \* schema.TraceLength
          BufferLen,     \* capacity of every queue
          MaxSlot        \* bounds the exploration: the last slot told

\* A bidder whose queue is full may miss its last row; the run then has to end
\* before it is told of a row its trace does not have (bidder.go indexes the
\* trace with it).
ASSUME LifecycleAssumption ==
  /\ Regulator \notin Bidders
  /\ Notifiers \in {{1}, {1, 2}}
  /\ TraceLength \in Nat \ {0}
  /\ BufferLen \in Nat \ {0}
  /\ MaxSlot \in Nat
  /\ BufferLen < TraceLength => MaxSlot < TraceLength

\* Who registers with notifier i: bids and markEnd go by the first one,
\* postKey by the second.
Subs(i) == IF i = 1 THEN Bidders \cup {Regulator} ELSE Bidders

VARIABLES
  done,      \* doneC is closed
  main,      \* where run() is: "wg1", "wg2", "wg3" or "end"
  collector, \* the stats collector: "run" or, once it closed its channels, "end"
  bn,        \* block notifiers: "run", "failing" or "failed"
  sn,        \* slot notifiers: pc, LastVal, subscribers still to be told
  slotQ,     \* SlotQueues: notifier -> subscriber -> queue
  missed,    \* a full queue has ended a fan-out
  bidder,    \* the bidders' Run, as in module Agent
  err,       \* main.go's err, to which the goroutines of the bidders assign
  gone,      \* the bidders whose goroutine is through (wg1.Done)
  reg,       \* the regulator's main loop: pc and whether it returns an error
  taskQ,     \* TaskQueue
  tasker,    \* the goroutine that serves it
  marked     \* the slots for which it has called markEnd

vars == <<done, main, collector, bn, sn, slotQ, missed, bidder, err, gone, reg,
          taskQ, tasker, marked>>
mainVars == <<main, collector>>
clockVars == <<bn, sn, missed>>
bidderVars == <<bidder, err, gone>>
regVars == <<reg, taskQ, tasker, marked>>

A(b) == INSTANCE Agent WITH agent <- bidder[b]

Init ==
  /\ done = FALSE
  /\ main = "wg1"
  /\ collector = "run"
  /\ bn = [i \in Notifiers |-> "run"]
  /\ sn = [i \in Notifiers |-> [pc |-> "recv", last |-> -1, left |-> {}]]
  /\ slotQ = [i \in Notifiers |-> [a \in Subs(i) |-> <<>>]]
  /\ missed = FALSE
  /\ bidder = [b \in Bidders |-> A(b)!Start]
  /\ err = FALSE
  /\ gone = {}
  /\ reg = [pc |-> "loop", failed |-> FALSE]
  /\ taskQ = <<>>
  /\ tasker = "select"
  /\ marked = {}

-----------------------------------------------------------------------------
\* The notifiers.
Source == INSTANCE SlotSource WITH
            told <- [i \in Notifiers |-> sn[i].last],
            stopped <- {i \in Notifiers : bn[i] # "run" \/ sn[i].pc = "exited"}

\* A new slot comes up and is received; the fan-out begins.  A notifier that
\* was past its look at doneC may still do so once doneC is closed.
NewSlot(i) ==
  /\ main \in {"wg1", "wg2"}
  /\ Source!MayTell(i)
  /\ sn[i].pc = "recv"
  /\ sn[i].last < MaxSlot
  /\ sn' = [sn EXCEPT ![i] = [pc |-> "fan", last |-> @.last + 1, left |-> Subs(i)]]
  /\ UNCHANGED <<done, mainVars, bn, slotQ, missed, bidderVars, regVars>>

\* A block notifier cannot query the ledger: it leaves its loop ...
QueryFails(i) ==
  /\ ~ done
  /\ bn[i] = "run"
  /\ bn' = [bn EXCEPT ![i] = "failing"]
  /\ UNCHANGED <<done, mainVars, sn, slotQ, missed, bidderVars, regVars>>

\* ... and returns an error once its goroutines have, which closes doneC.
QueryFailed(i) ==
  /\ bn[i] = "failing"
  /\ bn' = [bn EXCEPT ![i] = "failed"]
  /\ done' = TRUE
  /\ UNCHANGED <<mainVars, sn, slotQ, missed, bidderVars, regVars>>

\* Mutant: off by one.
RoomForOneMore(q) == Len(q) <= BufferLen

Room(q) == Len(q) < BufferLen

\* Mutant: a subscriber that has a slot waiting is passed over.
FanOutToIdle(i, a) ==
  LET left == sn[i].left \ {a} IN
  /\ sn[i].pc = "fan"
  /\ a \in sn[i].left
  /\ sn' = [sn EXCEPT ![i] = [pc |-> IF left = {} THEN "recv" ELSE "fan",
                               last |-> @.last, left |-> left]]
  /\ slotQ' = IF slotQ[i][a] = <<>>
                THEN [slotQ EXCEPT ![i][a] = Append(@, sn[i].last)]
                ELSE slotQ
  /\ UNCHANGED <<done, mainVars, bn, missed, bidderVars, regVars>>

\* The fan-out reaches subscriber a; a full queue ends it.
FanOut(i, a) ==
  LET left == IF Room(slotQ[i][a]) THEN sn[i].left \ {a} ELSE {} IN
  /\ sn[i].pc = "fan"
  /\ a \in sn[i].left
  /\ sn' = [sn EXCEPT ![i] = [pc |-> IF left = {} THEN "recv" ELSE "fan",
                               last |-> @.last, left |-> left]]
  /\ slotQ' = IF Room(slotQ[i][a])
                THEN [slotQ EXCEPT ![i][a] = Append(@, sn[i].last)]
                ELSE slotQ
  /\ missed' = (missed \/ ~ Room(slotQ[i][a]))
  /\ UNCHANGED <<done, mainVars, bn, bidderVars, regVars>>

SlotNotifierQuits(i) ==
  /\ sn[i].pc = "recv"
  /\ done
  /\ sn' = [sn EXCEPT ![i].pc = "exited"]
  /\ UNCHANGED <<done, mainVars, bn, slotQ, missed, bidderVars, regVars>>

-----------------------------------------------------------------------------
(***************************************************************************)
(* The bidders.  That a bidder's goroutines are through some time before   *)
(* it returns makes no difference here.                                    *)
(***************************************************************************)
BidSlot(b) ==
  /\ bidder[b].pc = "loop"
  /\ slotQ[1][b] # <<>>
  /\ slotQ' = [slotQ EXCEPT ![1][b] = Tail(@)]
  /\ \E a \in A(b)!AfterBidSlot(Head(slotQ[1][b])) :
       bidder' = [bidder EXCEPT ![b] = a]
  /\ UNCHANGED <<done, mainVars, clockVars, err, gone, regVars>>

PostKeySlot(b) ==
  /\ 2 \in Notifiers
  /\ bidder[b].pc = "loop"
  /\ slotQ[2][b] # <<>>
  /\ slotQ' = [slotQ EXCEPT ![2][b] = Tail(@)]
  /\ \E a \in A(b)!AfterPostKeySlot : bidder' = [bidder EXCEPT ![b] = a]
  /\ UNCHANGED <<done, mainVars, clockVars, err, gone, regVars>>

BidderDone(b) ==
  /\ bidder[b].pc = "loop"
  /\ done
  /\ bidder' = [bidder EXCEPT ![b] = A(b)!Left(bidder[b], FALSE)]
  /\ UNCHANGED <<done, mainVars, clockVars, slotQ, err, gone, regVars>>

\* Run returns its error into a variable that the goroutines of all bidders
\* share ...
BidderReturn(b) ==
  /\ bidder[b].pc = "closing"
  /\ \E a \in A(b)!AfterReturn : bidder' = [bidder EXCEPT ![b] = a]
  /\ err' = bidder[b].failed
  /\ UNCHANGED <<done, mainVars, clockVars, slotQ, gone, regVars>>

\* Mutant: the returned error is not looked at.
BidderExitForAll(b) ==
  /\ bidder[b].pc = "returned"
  /\ b \notin gone
  /\ gone' = gone \cup {b}
  /\ done' = TRUE
  /\ UNCHANGED <<mainVars, clockVars, slotQ, bidder, err, regVars>>

\* ... and doneC is closed if there is an error in it, by then perhaps
\* another bidder's.
BidderExit(b) ==
  /\ bidder[b].pc = "returned"
  /\ b \notin gone
  /\ gone' = gone \cup {b}
  /\ done' = (done \/ err)
  /\ UNCHANGED <<mainVars, clockVars, slotQ, bidder, err, regVars>>

-----------------------------------------------------------------------------
\* The regulator.  Slot 0 closes no slot.
RegSlot ==
  LET slot == Head(slotQ[1][Regulator]) IN
  /\ reg.pc = "loop"
  /\ slotQ[1][Regulator] # <<>>
  /\ slotQ' = [slotQ EXCEPT ![1][Regulator] = Tail(@)]
  /\ IF slot = 0 THEN UNCHANGED <<taskQ, reg>>
     ELSE IF Room(taskQ) THEN taskQ' = Append(taskQ, slot) /\ UNCHANGED reg
     ELSE reg' = [pc |-> "closing", failed |-> TRUE] /\ UNCHANGED taskQ
  /\ UNCHANGED <<done, mainVars, clockVars, bidderVars, tasker, marked>>

\* The main loop receives, and logs, an error of the task goroutine.
RegErr ==
  /\ reg.pc = "loop"
  /\ tasker = "err"
  /\ tasker' = "select"
  /\ UNCHANGED <<done, mainVars, clockVars, slotQ, bidderVars, reg,
                 taskQ, marked>>

\* Mutant: doneC is looked at only when an error comes in.
RegDoneOnError ==
  /\ reg.pc = "loop"
  /\ done
  /\ tasker = "err"
  /\ reg' = [pc |-> "closing", failed |-> TRUE]
  /\ tasker' = "select"
  /\ UNCHANGED <<done, mainVars, clockVars, slotQ, bidderVars, taskQ,
                 marked>>

\* doneC is closed: leave, with the error that is waiting if there is one.
RegDone ==
  /\ reg.pc = "loop"
  /\ done
  /\ reg' = [pc |-> "closing", failed |-> tasker = "err"]
  /\ tasker' = IF tasker = "err" THEN "select" ELSE tasker
  /\ UNCHANGED <<done, mainVars, clockVars, slotQ, bidderVars, taskQ,
                 marked>>

TaskTake ==
  /\ tasker = "select"
  /\ taskQ # <<>>
  /\ tasker' = "busy"
  /\ taskQ' = Tail(taskQ)
  /\ marked' = marked \cup {Head(taskQ) - 1}
  /\ UNCHANGED <<done, mainVars, clockVars, slotQ, bidderVars, reg>>

\* The markEnd call returns; a failure is then sent to ErrChan, which is not
\* buffered.
TaskFinish ==
  /\ tasker = "busy"
  /\ tasker' \in {"select", "err"}
  /\ UNCHANGED <<done, mainVars, clockVars, slotQ, bidderVars, reg,
                 taskQ, marked>>

TaskQuit ==
  /\ tasker = "select"
  /\ reg.pc # "loop" \/ done
  /\ tasker' = "exited"
  /\ UNCHANGED <<done, mainVars, clockVars, slotQ, bidderVars, reg,
                 taskQ, marked>>

RegExit ==
  /\ reg.pc = "closing"
  /\ tasker = "exited"
  /\ reg' = [reg EXCEPT !.pc = "exited"]
  /\ done' = (done \/ reg.failed)
  /\ UNCHANGED <<mainVars, clockVars, slotQ, bidderVars, taskQ, tasker,
                 marked>>

-----------------------------------------------------------------------------
\* run(): the bidders have returned, doneC is closed ...
Wg1Wait ==
  /\ main = "wg1"
  /\ gone = Bidders
  /\ main' = "wg2"
  /\ done' = TRUE
  /\ UNCHANGED <<clockVars, collector, slotQ, bidderVars, regVars>>

\* Mutant: the regulator is not waited for.
Wg2WaitForNotifiers ==
  /\ main = "wg2"
  /\ \A i \in Notifiers : bn[i] # "failing" /\ sn[i].pc = "exited"
  /\ main' = "wg3"
  /\ UNCHANGED <<clockVars, done, collector, slotQ, bidderVars, regVars>>

\* ... the others have returned, the collector is told to stop ...
Wg2Wait ==
  /\ main = "wg2"
  /\ reg.pc = "exited"
  /\ \A i \in Notifiers : bn[i] # "failing" /\ sn[i].pc = "exited"
  /\ main' = "wg3"
  /\ UNCHANGED <<clockVars, done, collector, slotQ, bidderVars, regVars>>

\* ... it closes the channels it receives on and drains them ...
Collect ==
  /\ main = "wg3"
  /\ collector = "run"
  /\ collector' = "end"
  /\ UNCHANGED <<clockVars, done, main, slotQ, bidderVars, regVars>>

\* ... and the results are written.
Output ==
  /\ main = "wg3"
  /\ collector = "end"
  /\ main' = "end"
  /\ UNCHANGED <<clockVars, done, collector, slotQ, bidderVars, regVars>>

-----------------------------------------------------------------------------
BlockNotifier(i) == QueryFails(i) \/ QueryFailed(i)
SlotNotifier(i) ==
  NewSlot(i) \/ SlotNotifierQuits(i) \/ \E a \in Subs(i) : FanOut(i, a)
BidderRun(b) ==
  BidSlot(b) \/ PostKeySlot(b) \/ BidderDone(b) \/ BidderReturn(b)
  \/ BidderExit(b)
RegulatorLoop == RegSlot \/ RegErr \/ RegDone \/ RegExit
RegulatorTask == TaskTake \/ TaskFinish \/ TaskQuit
Main == Wg1Wait \/ Wg2Wait \/ Collect \/ Output

Next ==
  \/ \E i \in Notifiers : BlockNotifier(i) \/ SlotNotifier(i)
  \/ \E b \in Bidders : BidderRun(b)
  \/ RegulatorLoop
  \/ RegulatorTask
  \/ Main

Spec == Init /\ [][Next]_vars

(***************************************************************************)
(* Slots keep coming (SlotClock!SlotsComeUp), bidders return               *)
(* (Bidder!BidderReturns), goroutines are scheduled and markEnd calls      *)
(* return.  No query is obliged to fail, which ready branch a select takes *)
(* is left open, and wg2 may wait forever: a block notifier need not see   *)
(* doneC closed (SlotClock!NotifiersConclude does not hold).               *)
(***************************************************************************)
Fairness ==
  /\ \A i \in Notifiers : WF_vars(QueryFailed(i)) /\ WF_vars(SlotNotifier(i))
  /\ \A b \in Bidders : WF_vars(BidderRun(b))
  /\ WF_vars(RegulatorLoop)
  /\ WF_vars(RegulatorTask)
  /\ WF_vars(Wg1Wait)

FairSpec == Spec /\ Fairness

-----------------------------------------------------------------------------
\* Type correctness, the capacity of the queues included.
TypeOK ==
  /\ done \in BOOLEAN
  /\ main \in {"wg1", "wg2", "wg3", "end"}
  /\ collector \in {"run", "end"}
  /\ bn \in [Notifiers -> {"run", "failing", "failed"}]
  /\ \A i \in Notifiers :
       /\ sn[i].pc \in {"recv", "fan", "exited"}
       /\ sn[i].last \in -1 .. MaxSlot
       /\ sn[i].left \subseteq Subs(i)
       /\ \A a \in Subs(i) : Len(slotQ[i][a]) <= BufferLen
  /\ missed \in BOOLEAN
  /\ bidder \in [Bidders -> [pc : {"loop", "closing", "returned"},
                             failed : BOOLEAN, alive : BOOLEAN,
                             row : -1 .. TraceLength - 1]]
  /\ err \in BOOLEAN
  /\ gone \subseteq Bidders
  /\ reg \in [pc : {"loop", "closing", "exited"}, failed : BOOLEAN]
  /\ Len(taskQ) <= BufferLen
  /\ tasker \in {"select", "busy", "err", "exited"}
  /\ marked \subseteq 0 .. MaxSlot - 1

\* The goroutines that send to the stats collector have returned before it
\* closes the channels they send on: a later send would panic (main.go: three
\* wait groups; collector.go closes the channels on the receiving side).
SendersGone ==
  collector = "end" =>
    /\ \A b \in Bidders : ~ bidder[b].alive
    /\ tasker = "exited"

\* Without a failure somewhere, nobody is stopped before the last bidder is
\* through: the first bidder to finish its trace does not take the others
\* down with it although they share a variable for their errors
\* (main.go: the closures that may close doneC).
NobodyCutShort ==
  done => \/ gone = Bidders
          \/ \E b \in Bidders : bidder[b].failed
          \/ \E i \in Notifiers : bn[i] = "failed"
          \/ reg.failed

\* The slot that notifier i last put in the queue of subscriber a, if no
\* fan-out was cut short.
Told(i, a) == IF a \in sn[i].left THEN sn[i].last - 1 ELSE sn[i].last

\* The elements of q are above n, and in order.
Follows(q, n) == \A j \in DOMAIN q : q[j] > IF j = 1 THEN n ELSE q[j - 1]

Elements(q) == {q[j] : j \in DOMAIN q}

\* Every subscriber gets every slot, in order, through queues that a fan-out
\* of another slot may be filling meanwhile: what a bidder has queued follows
\* the slot it took last, what the regulator has queued or marked are all the
\* slots told so far; none is lost but for a full queue, and the regulator
\* leaving on one (slotnotifier/notifier.go, Run; regulator.go, Run).
EveryoneIsTold ==
  /\ \A b \in Bidders :
       LET q == slotQ[1][b] IN
       /\ Follows(q, bidder[b].row)
       /\ missed \/ Elements(q) = bidder[b].row + 1 .. Told(1, b)
  /\ LET q == taskQ \o slotQ[1][Regulator] IN
     /\ Follows(q, -1)
     /\ \A s \in marked : Follows(q, s + 1)
     /\ \/ missed \/ reg.failed
        \/ marked \cup {s - 1 : s \in Elements(q) \ {0}} = 0 .. Told(1, Regulator) - 1

\* A shutdown reaches the regulator, whose task goroutine may be at work: the
\* one thing it may wait for in vain is that somebody receives the error of
\* a markEnd call (regulator.go, Run: ErrChan is not buffered, and only the
\* main loop receives from it).
RegulatorConcludes == done ~> (reg.pc = "exited" \/ tasker = "err")

\* The run comes to its end, or to a failure: every bidder is told of the
\* last slot of its trace, and doneC is closed, unless a full queue has kept
\* a slot from somebody (main.go, run).
RunEnds == <>(done \/ missed)
=============================================================================
