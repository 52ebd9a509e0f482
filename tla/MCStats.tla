------------------------------- MODULE MCStats -------------------------------
(* An instance of Stats for TLC. *)
EXTENDS Stats, TLC

CONSTANTS buy1, buy2, sell1

Bid(energy, price) == [energy |-> energy, price |-> price]

\* Two buyers and a seller in one slot.
OneSlot == buy1 :> (0 :> Bid(1, 2)) @@ buy2 :> (0 :> Bid(1, 1))
        @@ sell1 :> (0 :> Bid(2, 1))
=============================================================================
