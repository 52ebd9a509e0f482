------------------------------ MODULE SlotClock ------------------------------
(***************************************************************************)
(* How a run tells the time (src/blocknotifier/notifier.go): each block    *)
(* notifier has a goroutine whose clock calls keep blocks coming, polls    *)
(* the ledger's height, works out the slot and sends a new one to its slot *)
(* notifier.  Slot notifiers appear with their receiving side; what they   *)
(* do with a slot is in module Lifecycle.  Block statistics are switched   *)
(* off (schema.EnableBlockStatsCollection): the goroutine that would serve *)
(* them only waits for its kill channel here; module Stats has its work.   *)
(***************************************************************************)
EXTENDS Integers

CONSTANTS
  Notifiers,        \* {1, 2}, or {1} in experiment 2
  StartFromBlock,   \* first block of the first slot
  BlocksPerSlot,
  BlockOffset,      \* the second notifier starts so many blocks later
  MaxLag,           \* the ledger grows by at most so many blocks while a
                    \* notifier goes once round its loop
  MaxHeight         \* bounds the exploration: the last block

\* A round of the loop is short against the time between the two kinds of
\* slots: half of it at most.
ASSUME SlotClockAssumption ==
  /\ Notifiers \in {{1}, {1, 2}}
  /\ StartFromBlock \in Nat
  /\ BlocksPerSlot \in Nat \ {0}
  /\ BlockOffset \in 0 .. BlocksPerSlot
  /\ MaxLag \in Nat \ {0}
  /\ 2 * MaxLag <= BlockOffset
  /\ 2 * MaxLag <= BlocksPerSlot - BlockOffset
  /\ MaxHeight \in Nat /\ MaxLag <= MaxHeight

VARIABLES
  height,     \* number of the ledger's newest block
  pending,    \* a transaction waits to be put in a block
  done,       \* doneC is closed
  bn,         \* block notifiers: pc, LargestBlockNumberObserved (observed),
              \* LargestSlotNumberTriggered (slot), whether Run fails
  clock,      \* their clock goroutines
  sn          \* slot notifiers: pc and LastVal

vars == <<height, pending, done, bn, clock, sn>>
ledgerVars == <<height, pending>>

\* The ledger has few blocks when the notifiers start.
Init ==
  /\ height \in 0 .. MaxLag - 1
  /\ pending = FALSE
  /\ done = FALSE
  /\ bn = [i \in Notifiers |->
            [pc |-> "sleep", observed |-> -1, slot |-> -1, failed |-> FALSE]]
  /\ clock = [i \in Notifiers |-> "run"]
  /\ sn = [i \in Notifiers |-> [pc |-> "recv", last |-> -1]]

-----------------------------------------------------------------------------
\* Notifier i is going round its loop: it has not left it, and it is not
\* trying to send to somebody who has left.
Looping(i) ==
  \/ bn[i].pc \in {"sleep", "query"}
  \/ bn[i].pc = "send" /\ sn[i].pc # "exited"

\* The orderer cuts a block from what is pending.
CutBlock ==
  /\ pending
  /\ height < MaxHeight
  /\ \A i \in Notifiers : Looping(i) => height - bn[i].observed < MaxLag
  /\ height' = height + 1
  /\ pending' = FALSE
  /\ UNCHANGED <<done, bn, clock, sn>>

\* The bidders are through, or somebody else failed: doneC is closed.
CloseDone ==
  /\ ~ done
  /\ done' = TRUE
  /\ UNCHANGED <<ledgerVars, bn, clock, sn>>

-----------------------------------------------------------------------------
\* The clock goroutine.  That Invoke keeps it busy is left out: it holds up
\* Run's return, but not for longer than the client's timeout.
Killed(i) == bn[i].pc \in {"closing", "returned"}

ClockInvoke(i) ==
  /\ clock[i] = "run"
  /\ ~ pending      \* else the call ends up in the same block
  /\ pending' = TRUE
  /\ UNCHANGED <<height, done, bn, clock, sn>>

ClockQuit(i) ==
  /\ clock[i] = "run"
  /\ Killed(i) \/ done
  /\ clock' = [clock EXCEPT ![i] = "exited"]
  /\ UNCHANGED <<ledgerVars, done, bn, sn>>

-----------------------------------------------------------------------------
\* The main loop.
From(i) == StartFromBlock + (i - 1) * BlockOffset

\* Go's integer division rounds towards zero.
Quotient(a, b) == IF a < 0 THEN -((-a) \div b) ELSE a \div b

\* Mutant: blocks before the first slot are not told apart.
SlotOfAny(i, n) == Quotient(n - From(i), BlocksPerSlot)

\* The slot that block n belongs to, -1 if it comes before the first one.
SlotOf(i, n) ==
  IF n >= From(i) THEN Quotient(n - From(i), BlocksPerSlot) ELSE -1

\* Mutant: a slot is sent again with every block of it.
ObservedAgain(r, i, n) ==
  IF SlotOf(i, n) >= r.slot /\ n >= From(i)
    THEN [r EXCEPT !.pc = "send", !.observed = n, !.slot = SlotOf(i, n)]
    ELSE [r EXCEPT !.pc = "sleep", !.observed = n]

\* What is left of the loop's body once block n was observed.
Observed(r, i, n) ==
  IF SlotOf(i, n) > r.slot
    THEN [r EXCEPT !.pc = "send", !.observed = n, !.slot = SlotOf(i, n)]
    ELSE [r EXCEPT !.pc = "sleep", !.observed = n]

Wake(i) ==
  /\ bn[i].pc = "sleep"
  /\ bn' = [bn EXCEPT ![i].pc = IF done THEN "closing" ELSE "query"]
  /\ UNCHANGED <<ledgerVars, done, clock, sn>>

\* Mutant: the number of blocks is taken for the number of the last one.
QueryCount(i) ==
  /\ bn[i].pc = "query"
  /\ bn' = [bn EXCEPT ![i] =
       IF height + 1 <= @.observed THEN [@ EXCEPT !.pc = "sleep"]
       ELSE Observed(@, i, height + 1)]
  /\ UNCHANGED <<ledgerVars, done, clock, sn>>

Query(i) ==
  /\ bn[i].pc = "query"
  /\ bn' = [bn EXCEPT ![i] =
       IF height <= @.observed THEN [@ EXCEPT !.pc = "sleep"]
       ELSE Observed(@, i, height)]
  /\ UNCHANGED <<ledgerVars, done, clock, sn>>

QueryFails(i) ==
  /\ bn[i].pc = "query"
  /\ bn' = [bn EXCEPT ![i].pc = "closing", ![i].failed = TRUE]
  /\ UNCHANGED <<ledgerVars, done, clock, sn>>

\* SlotChan is not buffered: send and receive are one step.
Receive(i) ==
  /\ bn[i].pc = "send"
  /\ sn[i].pc = "recv"
  /\ bn' = [bn EXCEPT ![i].pc = "sleep"]
  /\ sn' = [sn EXCEPT ![i] =
       IF bn[i].slot > @.last THEN [pc |-> "fan", last |-> bn[i].slot] ELSE @]
  /\ UNCHANGED <<ledgerVars, done, clock>>

FannedOut(i) ==
  /\ sn[i].pc = "fan"
  /\ sn' = [sn EXCEPT ![i].pc = "recv"]
  /\ UNCHANGED <<ledgerVars, done, bn, clock>>

SlotNotifierQuits(i) ==
  /\ sn[i].pc = "recv"
  /\ done
  /\ sn' = [sn EXCEPT ![i].pc = "exited"]
  /\ UNCHANGED <<ledgerVars, done, bn, clock>>

\* Mutant: a failure is kept to itself.
ReturnQuietly(i) ==
  /\ bn[i].pc = "closing"
  /\ clock[i] = "exited"
  /\ bn' = [bn EXCEPT ![i].pc = "returned"]
  /\ UNCHANGED <<ledgerVars, done, clock, sn>>

\* The goroutines have seen the kill channel closed, and Run returns; an
\* error closes doneC.
Return(i) ==
  /\ bn[i].pc = "closing"
  /\ clock[i] = "exited"
  /\ bn' = [bn EXCEPT ![i].pc = "returned"]
  /\ done' = (done \/ bn[i].failed)
  /\ UNCHANGED <<ledgerVars, clock, sn>>

-----------------------------------------------------------------------------
Clock(i) == ClockInvoke(i) \/ ClockQuit(i)
Run(i) == Wake(i) \/ Query(i) \/ Return(i)
SlotNotifier(i) == Receive(i) \/ FannedOut(i) \/ SlotNotifierQuits(i)

Next ==
  \/ CutBlock
  \/ CloseDone
  \/ \E i \in Notifiers :
       Clock(i) \/ Run(i) \/ QueryFails(i) \/ SlotNotifier(i)

Spec == Init /\ [][Next]_vars

(***************************************************************************)
(* The orderer cuts blocks and goroutines are scheduled.  The clock's      *)
(* select sees a closed channel sooner or later: its ticker is not ready   *)
(* all the time.  Nothing obliges a query to fail, doneC to be closed or a *)
(* slot notifier to choose one of two channels that are ready.             *)
(***************************************************************************)
Fairness ==
  /\ WF_vars(CutBlock)
  /\ \A i \in Notifiers : /\ WF_vars(ClockInvoke(i))
                         /\ WF_vars(ClockQuit(i))
                         /\ WF_vars(Run(i))
                         /\ WF_vars(SlotNotifier(i))

FairSpec == Spec /\ Fairness

-----------------------------------------------------------------------------
\* Type correctness.
TypeOK ==
  /\ height \in 0 .. MaxHeight
  /\ pending \in BOOLEAN
  /\ done \in BOOLEAN
  /\ bn \in [Notifiers -> [pc : {"sleep", "query", "send", "closing",
                                 "returned"},
                           observed : -1 .. MaxHeight,
                           slot : -1 .. MaxHeight,
                           failed : BOOLEAN]]
  /\ clock \in [Notifiers -> {"run", "exited"}]
  /\ sn \in [Notifiers -> [pc : {"recv", "fan", "exited"}, last : -1 .. MaxHeight]]

\* What a notifier remembers fits together, wherever it is in its loop and
\* whoever has left: the slot triggered last is that of the block observed
\* last, the slot notifier has it unless it is just being sent, and the
\* ledger is not further ahead than one round of the loop allows
\* (notifier.go, Run: LargestBlockNumberObserved, LargestSlotNumberTriggered;
\* slotnotifier/notifier.go: LastVal).
SlotsSeenAreTold ==
  \A i \in Notifiers :
    /\ bn[i].slot = SlotOf(i, bn[i].observed)
    /\ sn[i].last = IF bn[i].pc = "send" THEN bn[i].slot - 1 ELSE bn[i].slot
    /\ Looping(i) => height - bn[i].observed <= MaxLag

\* The first block of slot s.
Start(i, s) == From(i) + s * BlocksPerSlot

\* A notifier is not ahead of the ledger, and a slot that waits to be received
\* was found soon after it began.
FoundSoon ==
  \A i \in Notifiers :
    /\ bn[i].observed <= height
    /\ bn[i].pc = "send" =>
         bn[i].slot >= 0 /\ bn[i].observed < Start(i, bn[i].slot) + MaxLag

\* The inductive invariant.
ClockInv == TypeOK /\ SlotsSeenAreTold /\ FoundSoon

\* The notifiers as those see them who register: module SlotSource.
Source == INSTANCE SlotSource WITH
            told <- [i \in Notifiers |-> sn[i].last],
            stopped <- {i \in Notifiers : ~ Looping(i) \/ sn[i].pc = "exited"}

\* No slot is left out, though a notifier only sees the height at its polls,
\* and bid slot s, postKey slot s, bid slot s+1 come in that order, though
\* two notifiers poll, and may be held up in their sends, independently
\* (notifier.go, Run: SlotChan; main.go: startFromBlock+BlockOffset).
ImplementsSource == Source!Spec

\* Every slot comes up, unless the run is stopped: the clock calls keep the
\* ledger growing and no notifier falls asleep for good, nor does one that
\* fails leave the others waiting (notifier.go, Run; main.go).
SlotsComeUp ==
  \A i \in Notifiers : \A s \in 0 .. MaxHeight :
    From(i) + s * BlocksPerSlot <= MaxHeight => <>(sn[i].last >= s \/ done)

-----------------------------------------------------------------------------
(***************************************************************************)
(* What the repository says and the code does not do.                      *)
(***************************************************************************)
\* "We then close doneC, and wait for all the other goroutines to conclude"
\* (main.go:196): the block notifiers do conclude.
NotifiersConclude == done ~> \A i \in Notifiers : bn[i].pc = "returned"
=============================================================================
