----------------------------- MODULE SlotSource ------------------------------
(***************************************************************************)
(* What the two notifiers of a run promise to those who register with them *)
(* (src/main.go, src/blocknotifier, src/slotnotifier): each of them counts *)
(* the slots up from 0 without leaving one out, and as long as both are in *)
(* service they take turns, the slot for bids first and the slot for keys  *)
(* second.  SlotClock implements it, Lifecycle builds on it.               *)
(***************************************************************************)
EXTENDS Integers

CONSTANT Notifiers   \* {1, 2}, or {1} in experiment 2

VARIABLES told,      \* notifier -> the last slot it told, -1 at the start
          stopped    \* the notifiers out of service

vars == <<told, stopped>>

Init ==
  /\ told = [i \in Notifiers |-> -1]
  /\ stopped = {}

\* It is not i's turn to wait for j.
InStep(i, j) == IF i < j THEN told[i] <= told[j] ELSE told[i] < told[j]

MayTell(i) ==
  /\ i \in Notifiers \ stopped
  /\ \A j \in Notifiers \ (stopped \cup {i}) : InStep(i, j)

Tell(i) ==
  /\ MayTell(i)
  /\ told' = [told EXCEPT ![i] = @ + 1]
  /\ UNCHANGED stopped

Stop(i) ==
  /\ i \in Notifiers \ stopped
  /\ stopped' = stopped \cup {i}
  /\ UNCHANGED told

Next == \E i \in Notifiers : Tell(i) \/ Stop(i)

Spec == Init /\ [][Next]_vars
=============================================================================
