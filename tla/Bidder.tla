------------------------------- MODULE Bidder --------------------------------
(***************************************************************************)
(* A bidder (src/bidder/bidder.go, Run) with its goroutines: the main loop *)
(* that moves slots to queues, the three goroutines that call Buy, Sell    *)
(* and PostKey, the updater of RecentBidKeys, and their end through doneC  *)
(* or the kill channel.  An invocation is a goroutine that is busy for a   *)
(* while and then succeeds or fails (what happens in between is module     *)
(* Market's).  The slot notifiers and doneC are the environment.           *)
(***************************************************************************)
EXTENDS Integers, Sequences, FiniteSets

CONSTANTS Notifiers,     \* {1, 2}, or {1} in experiment 2
          TraceLength,   \* schema.TraceLength
          Buys, Sells,   \* the rows of the trace with energy to buy, to sell
          BufferLen,     \* capacity of every queue
          MaxSlot        \* bounds the exploration: the last slot told

Rows == 0 .. TraceLength - 1

\* The slot that ends the run is the last one of the trace at the latest: a
\* bidder that missed that one would be told of a row its trace does not have
\* (and bidder.go indexes the trace with it).  RecentBidKeysQueue has room for
\* all the bids of a trace: two in each of 35 rows, against 100.
ASSUME BidderAssumption ==
  /\ Notifiers \in {{1}, {1, 2}}
  /\ TraceLength \in Nat \ {0}
  /\ Buys \subseteq Rows /\ Sells \subseteq Rows
  /\ BufferLen \in Nat \ {0}
  /\ MaxSlot \in Rows
  /\ Cardinality(Buys) + Cardinality(Sells) <= BufferLen

Workers == {"buy", "sell"} \cup (IF 2 \in Notifiers THEN {"postKey"} ELSE {})

\* Buy and Sell return at once if there is nothing to bid for.
Calls(w, row) == \/ w = "buy" /\ row \in Buys
                 \/ w = "sell" /\ row \in Sells
                 \/ w = "postKey"

VARIABLES
  done,      \* doneC is closed
  told,      \* notifier -> the last slot it told
  missed,    \* a slot was told when there was no room for it
  slotQ,     \* SlotQueues
  loop,      \* the main loop: pc, whether it returns an error, rowIdx
  workQ,     \* BuyQueue, SellQueue, PostKeyQueue
  worker,    \* the goroutines that serve them
  did,       \* the rows each of these has taken on
  recentQ,   \* RecentBidKeysQueue: the number of bids in it
  updater    \* the goroutine that serves it

vars == <<done, told, missed, slotQ, loop, workQ, worker, did, recentQ, updater>>
envVars == <<done, told, missed>>
workVars == <<workQ, worker, did>>
recentVars == <<recentQ, updater>>

\* The bidder is registered when the first slot comes up: that is
\* StartFromBlock blocks into the run.
Init ==
  /\ done = FALSE
  /\ told = [i \in Notifiers |-> -1]
  /\ missed = FALSE
  /\ slotQ = [i \in Notifiers |-> <<>>]
  /\ loop = [pc |-> "loop", failed |-> FALSE, row |-> -1]
  /\ workQ = [w \in Workers |-> <<>>]
  /\ worker = [w \in Workers |-> "select"]
  /\ did = [w \in Workers |-> {}]
  /\ recentQ = 0
  /\ updater = IF 2 \in Notifiers THEN "select" ELSE "exited"

-----------------------------------------------------------------------------
\* The environment.  A slot that finds the queue full is not queued; what is
\* queued once the main loop was left is of no interest.

\* Mutant: off by one.
RoomForOneMore(q) == Len(q) <= BufferLen

Room(q) == Len(q) < BufferLen

Notify(i) ==
  /\ loop.pc = "loop"
  /\ told[i] < MaxSlot
  /\ told' = [told EXCEPT ![i] = @ + 1]
  /\ slotQ' = IF Room(slotQ[i])
                THEN [slotQ EXCEPT ![i] = Append(@, told[i] + 1)]
                ELSE slotQ
  /\ missed' = (missed \/ ~ Room(slotQ[i]))
  /\ UNCHANGED <<done, loop, workVars, recentVars>>

CloseDone ==
  /\ ~ done
  /\ done' = TRUE
  /\ UNCHANGED <<told, missed, slotQ, loop, workVars, recentVars>>

-----------------------------------------------------------------------------
\* Leaving the main loop closes the kill channel.
Leave(failed, row) ==
  loop' = [pc |-> "closing", failed |-> failed, row |-> row]

\* Mutant: a full queue goes unnoticed.
BidSlotUnlessFull ==
  LET row == Head(slotQ[1])
      sells == Room(workQ["buy"]) /\ Room(workQ["sell"])
  IN  /\ loop.pc = "loop"
      /\ slotQ[1] # <<>>
      /\ slotQ' = [slotQ EXCEPT ![1] = Tail(@)]
      /\ workQ' = [workQ EXCEPT
           !["buy"] = IF sells THEN Append(@, row) ELSE @,
           !["sell"] = IF sells THEN Append(@, row) ELSE @]
      /\ IF row = TraceLength - 1 THEN Leave(FALSE, row)
         ELSE loop' = [loop EXCEPT !.row = row]
      /\ UNCHANGED <<envVars, worker, did, recentVars>>

\* A bid slot is pushed to the buy queue, then to the sell queue.  A full
\* queue is an error; the last row ends the loop.
BidSlot ==
  LET row == Head(slotQ[1])
      buys == Room(workQ["buy"])
      sells == buys /\ Room(workQ["sell"])
  IN  /\ loop.pc = "loop"
      /\ slotQ[1] # <<>>
      /\ slotQ' = [slotQ EXCEPT ![1] = Tail(@)]
      /\ workQ' = [workQ EXCEPT
           !["buy"] = IF buys THEN Append(@, row) ELSE @,
           !["sell"] = IF sells THEN Append(@, row) ELSE @]
      /\ IF ~ sells THEN Leave(TRUE, row)
         ELSE IF row = TraceLength - 1 THEN Leave(FALSE, row)
         ELSE loop' = [loop EXCEPT !.row = row]
      /\ UNCHANGED <<envVars, worker, did, recentVars>>

PostKeySlot ==
  LET row == Head(slotQ[2]) IN
  /\ 2 \in Notifiers
  /\ loop.pc = "loop"
  /\ slotQ[2] # <<>>
  /\ slotQ' = [slotQ EXCEPT ![2] = Tail(@)]
  /\ IF Room(workQ["postKey"])
       THEN /\ workQ' = [workQ EXCEPT !["postKey"] = Append(@, row)]
            /\ UNCHANGED loop
       ELSE /\ Leave(TRUE, loop.row)
            /\ UNCHANGED workQ
  /\ UNCHANGED <<envVars, worker, did, recentVars>>

LoopDone ==
  /\ loop.pc = "loop"
  /\ done
  /\ Leave(FALSE, loop.row)
  /\ UNCHANGED <<envVars, slotQ, workVars, recentVars>>

-----------------------------------------------------------------------------
\* The goroutines.
Killed == loop.pc # "loop"

\* One of them takes a row off its queue and calls Buy, Sell or PostKey ...
Take(w) ==
  LET row == Head(workQ[w]) IN
  /\ worker[w] = "select"
  /\ workQ[w] # <<>>
  /\ worker' = [worker EXCEPT ![w] = IF Calls(w, row) THEN "busy" ELSE "select"]
  /\ workQ' = [workQ EXCEPT ![w] = Tail(@)]
  /\ did' = [did EXCEPT ![w] = @ \cup {row}]
  /\ UNCHANGED <<envVars, slotQ, loop, recentVars>>

\* ... which returns, the error being nobody's concern, ...
Finish(w) ==
  /\ worker[w] = "busy"
  /\ worker' = [worker EXCEPT ![w] = "select"]
  /\ UNCHANGED <<envVars, slotQ, loop, workQ, did, recentVars>>

\* ... or has made a bid: in experiments 1 and 3 it goes to the updater ...
Succeed(w) ==
  /\ w # "postKey" /\ 2 \in Notifiers
  /\ worker[w] = "busy"
  /\ worker' = [worker EXCEPT ![w] = "push"]
  /\ UNCHANGED <<envVars, slotQ, loop, workQ, did, recentVars>>

\* Mutant: the queue is one shorter.
PushOneLess(w) ==
  /\ worker[w] = "push"
  /\ recentQ < BufferLen - 1
  /\ recentQ' = recentQ + 1
  /\ worker' = [worker EXCEPT ![w] = "select"]
  /\ UNCHANGED <<envVars, slotQ, loop, workQ, did, updater>>

\* ... as soon as its queue has room.
Push(w) ==
  /\ worker[w] = "push"
  /\ recentQ < BufferLen
  /\ recentQ' = recentQ + 1
  /\ worker' = [worker EXCEPT ![w] = "select"]
  /\ UNCHANGED <<envVars, slotQ, loop, workQ, did, updater>>

\* The kill channel, or doneC, is seen closed.
Quit(w) ==
  /\ worker[w] = "select"
  /\ Killed \/ done
  /\ worker' = [worker EXCEPT ![w] = "exited"]
  /\ UNCHANGED <<envVars, slotQ, loop, workQ, did, recentVars>>

\* The updater files a bid in RecentBidKeys.
Update ==
  /\ updater = "select"
  /\ recentQ > 0
  /\ recentQ' = recentQ - 1
  /\ UNCHANGED <<envVars, slotQ, loop, workVars, updater>>

UpdaterQuits ==
  /\ updater = "select"
  /\ Killed \/ done
  /\ updater' = "exited"
  /\ UNCHANGED <<envVars, slotQ, loop, workVars, recentQ>>

\* Mutant: Run does not wait.
ReturnAtOnce ==
  /\ loop.pc = "closing"
  /\ loop' = [loop EXCEPT !.pc = "returned"]
  /\ UNCHANGED <<envVars, slotQ, workVars, recentVars>>

\* Run returns when the goroutines have.
Return ==
  /\ loop.pc = "closing"
  /\ \A w \in Workers : worker[w] = "exited"
  /\ updater = "exited"
  /\ loop' = [loop EXCEPT !.pc = "returned"]
  /\ UNCHANGED <<envVars, slotQ, workVars, recentVars>>

-----------------------------------------------------------------------------
Loop == BidSlot \/ PostKeySlot \/ LoopDone \/ Return
Worker(w) == Take(w) \/ Finish(w) \/ Succeed(w) \/ Push(w) \/ Quit(w)
Updater == Update \/ UpdaterQuits

Next ==
  \/ \E i \in Notifiers : Notify(i)
  \/ CloseDone
  \/ Loop
  \/ \E w \in Workers : Worker(w)
  \/ Updater

Spec == Init /\ [][Next]_vars

(***************************************************************************)
(* Slots keep coming (SlotClock!SlotsComeUp), goroutines are scheduled and *)
(* invocations return.  Which of the branches that are ready a select      *)
(* takes is left open, and doneC need never be closed.                     *)
(***************************************************************************)
Fairness ==
  /\ \A i \in Notifiers : WF_vars(Notify(i))
  /\ WF_vars(Loop)
  /\ \A w \in Workers : WF_vars(Worker(w))
  /\ WF_vars(Updater)

FairSpec == Spec /\ Fairness

-----------------------------------------------------------------------------
\* Type correctness, the capacity of the queues included.
TypeOK ==
  /\ done \in BOOLEAN
  /\ told \in [Notifiers -> -1 .. MaxSlot]
  /\ missed \in BOOLEAN
  /\ slotQ \in [Notifiers -> Seq(Rows)]
  /\ \A i \in Notifiers : Len(slotQ[i]) <= BufferLen
  /\ loop \in [pc : {"loop", "closing", "returned"}, failed : BOOLEAN,
               row : -1 .. TraceLength - 1]
  /\ workQ \in [Workers -> Seq(Rows)]
  /\ \A w \in Workers : Len(workQ[w]) <= BufferLen
  /\ worker \in [Workers -> {"select", "busy", "push", "exited"}]
  /\ did \in [Workers -> SUBSET Rows]
  /\ recentQ \in 0 .. BufferLen
  /\ updater \in {"select", "exited"}

\* The rows of a goroutine's slots that are still queued, in order.
Queued(w) == workQ[w] \o slotQ[IF w = "postKey" THEN 2 ELSE 1]

\* A slot goes through two queues to the goroutine that acts on it, whatever
\* the selects on the way choose.  The rows come out in order, none twice,
\* and none is lost but for a full queue: those taken and those queued are
\* all that were told (bidder.go, Run; slotnotifier/notifier.go, Run).
RowsInOrder ==
  \A w \in Workers :
    LET q == Queued(w)
        last == told[IF w = "postKey" THEN 2 ELSE 1]
    IN  /\ \A r \in did[w], j \in DOMAIN q : r < q[j]
        /\ \A j, k \in DOMAIN q : j < k => q[j] < q[k]
        /\ missed \/ loop.failed \/ did[w] \cup {q[j] : j \in DOMAIN q} = 0 .. last

\* The bidder as run() sees it: module Agent.
Alive == \E w \in Workers : worker[w] # "exited"

TheAgent == [pc |-> loop.pc, failed |-> loop.failed, row |-> loop.row, alive |-> Alive]

A == INSTANCE Agent WITH agent <- TheAgent

\* It leaves for one of the three reasons only, and no goroutine of it makes a
\* call, and sends its outcome to the stats collector, once Run has returned
\* (bidder.go, Run: the deferred close(killChan) and waitGroup.Wait).
ImplementsAgent == A!Spec

\* Run returns unless a full queue kept a slot from it, though a bid may be
\* made while the updater, the only one to receive from RecentBidKeysQueue,
\* is gone already: that queue has room for the bids of a trace
\* (bidder.go:448; Run).
BidderReturns == <>(loop.pc = "returned" \/ missed)
=============================================================================
