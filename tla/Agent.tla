------------------------------- MODULE Agent ---------------------------------
(***************************************************************************)
(* What run() (src/main.go) may rely on in a bidder: Bidder implements it, *)
(* Lifecycle builds on it.  A bidder takes slots until it has taken the    *)
(* last one of its trace, doneC is closed or one of its queues is full,    *)
(* and in that case only it fails.  It is alive as long as one of its      *)
(* goroutines may still send to the stats collector; when it returns, it   *)
(* is not, and never will be again.                                        *)
(***************************************************************************)
EXTENDS Integers

CONSTANT TraceLength

VARIABLES agent,   \* pc, failed, alive, and row: the last bid slot taken
          done     \* doneC is closed

Start == [pc |-> "loop", failed |-> FALSE, alive |-> TRUE, row |-> -1]

Left(a, failed) == [a EXCEPT !.pc = "closing", !.failed = failed]

\* Mutant: the end of the trace is missed by one.
AfterBidSlotOnAndOn(row) ==
  LET a == [agent EXCEPT !.row = row] IN
  {Left(a, TRUE), IF row = TraceLength THEN Left(a, FALSE) ELSE a}

\* What may have become of the agent once it has taken a bid slot, ...
AfterBidSlot(row) ==
  LET a == [agent EXCEPT !.row = row] IN
  {Left(a, TRUE), IF row = TraceLength - 1 THEN Left(a, FALSE) ELSE a}

\* ... a postKey slot, ...
AfterPostKeySlot == {agent, Left(agent, TRUE)}

\* ... or returned.
AfterReturn == {[agent EXCEPT !.pc = "returned", !.alive = FALSE]}

Init == agent = Start

Next ==
  \/ /\ agent.pc = "loop"
     /\ \E row \in 0 .. TraceLength - 1 :
          row > agent.row /\ agent' \in AfterBidSlot(row)
  \/ /\ agent.pc = "loop"
     /\ agent' \in AfterPostKeySlot
  \/ /\ agent.pc = "loop"
     /\ done
     /\ agent' = Left(agent, FALSE)
  \/ /\ agent.pc # "loop" \/ done
     /\ agent' = [agent EXCEPT !.alive = FALSE]
  \/ /\ agent.pc = "closing"
     /\ agent' \in AfterReturn

Spec == Init /\ [][Next]_agent
=============================================================================
