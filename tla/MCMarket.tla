------------------------------ MODULE MCMarket -------------------------------
(* Instances of Market for TLC. *)
EXTENDS Market, FiniteSets, TLC

R(b, a, s) == [bidder |-> b, action |-> a, slot |-> s]

CONSTANTS b1, b2, MaxFaults

\* One slot, a buyer and a seller.
BuyerSeller == {R(b1, "buy", 0), R(b2, "sell", 0)}

\* One slot, two buyers on one key.
TwoBuyers == {R(b1, "buy", 0), R(b2, "buy", 0)}

\* One bidder on both sides of the market.
BothSides == {R(b1, "buy", 0), R(b1, "sell", 0)}

\* One row.
OneBuyer == {R(b1, "buy", 0)}

\* One bidder, two slots.
TwoSlots == {R(b1, "buy", 0), R(b1, "buy", 1)}

Symmetry == Permutations(Bidders)

\* A constraint on the losses, timeouts and rejections explored: attempts
\* that are over without a verdict of the ledger against them.
Faults ==
  {t \in Txs : /\ \/ t.attempt < call[t.call].attempt
                  \/ t.attempt = call[t.call].attempt /\ call[t.call].st = "failed"
               /\ tx[t] # "invalid"}
FewFaults == Cardinality(Faults) <= MaxFaults
=============================================================================
