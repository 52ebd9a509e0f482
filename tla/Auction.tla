------------------------------- MODULE Auction -------------------------------
(***************************************************************************)
(* The double auction of src/chaincode/dauction.go: Settle finds the price *)
(* and the number of units that clear the market of a slot.                *)
(*                                                                         *)
(* The bids come in the order in which the contract came across them,      *)
(* which experiment 1 takes from ranging over a Go map, and sort.Sort is   *)
(* free to order equal elements as it likes: both orders are choices here. *)
(* Prices and units are integers, so rounding is left out; an average of   *)
(* two prices is kept as their sum.                                        *)
(***************************************************************************)
EXTENDS Integers, Sequences, SequencesExt, FiniteSetsExt, Functions

CONSTANTS Prices, Units,  \* what a bid may ask or offer
          MaxBids         \* the largest collection explored

ASSUME AuctionAssumption ==
  /\ Prices \subseteq Nat
  /\ Units \subseteq Nat \ {0}
  /\ MaxBids \in Nat \ {0}

Bid == [PricePerUnit : Prices, Units : Units]
BidCollections == UNION {[1 .. n -> Bid] : n \in 1 .. MaxBids}

VARIABLES buyers, sellers,  \* the collections handed to Settle
          sb, ss,           \* their stacks, once computed
          outcome           \* what Settle returns

vars == <<buyers, sellers, sb, ss, outcome>>

NotYet == [err |-> FALSE, PriceSum |-> -1, Units |-> -1]
ErrNoPrice == [err |-> TRUE, PriceSum |-> 0, Units |-> 0]
Panic == [err |-> TRUE, PriceSum |-> -1, Units |-> -1]

Init ==
  /\ buyers \in BidCollections
  /\ sellers \in BidCollections
  /\ sb = <<>> /\ ss = <<>>
  /\ outcome = NotYet

-----------------------------------------------------------------------------
\* The orders in which sort.Sort may leave bids s, by increasing price ...
Sorted(s) ==
  {t \in {[i \in DOMAIN s |-> s[f[i]]] : f \in Bijection(DOMAIN s, DOMAIN s)} :
     \A i \in 1 .. Len(t) - 1 : t[i].PricePerUnit <= t[i + 1].PricePerUnit}

\* ... and, with sort.Reverse, by decreasing price.
ReverseSorted(s) == {Reverse(t) : t \in Sorted(s)}

\* The units of the bids up to each position.
Cumulated(s) ==
  LET units[i \in DOMAIN s] == IF i = 1 THEN s[1].Units ELSE units[i - 1] + s[i].Units
  IN  [i \in DOMAIN s |-> [PricePerUnit |-> s[i].PricePerUnit, Units |-> units[i]]]

\* Mutant: the bids are stacked in the order they came in.
StackUnsorted(bc, group) ==
  IF group = "Buyers" THEN Sorted(Cumulated(bc)) ELSE ReverseSorted(Cumulated(bc))

Stack(bc, group) ==
  IF group = "Buyers"
    THEN UNION {Sorted(Cumulated(s)) : s \in ReverseSorted(bc)}
    ELSE UNION {ReverseSorted(Cumulated(s)) : s \in Sorted(bc)}

\* The trade of price point b of the buyers with price point s of the sellers.
Trade(b, s) == [err |-> FALSE,
                PriceSum |-> b.PricePerUnit + s.PricePerUnit,
                Units |-> Min({b.Units, s.Units})]

\* Mutant: the test for the better price is the wrong way round.
BetterCheap(r, best) ==
  \/ r.Units > best.Units
  \/ r.Units = best.Units /\ r.PriceSum < best.PriceSum

Better(r, best) ==
  \/ r.Units > best.Units
  \/ r.Units = best.Units /\ r.PriceSum > best.PriceSum

\* The best so far after the trades of buying price point b with every selling
\* price point that is not above it, in the order of the inner loop ...
Scan(b, s, best) ==
  LET scan[j \in 0 .. Len(s)] ==
        IF j = 0 THEN best
        ELSE IF b.PricePerUnit >= s[j].PricePerUnit /\ Better(Trade(b, s[j]), scan[j - 1])
          THEN Trade(b, s[j])
          ELSE scan[j - 1]
  IN  scan[Len(s)]

\* ... and after those of every buying price point, in the order of the outer
\* one.  Of no trade at all, the first cannot be taken.
BestTrade(b, s) ==
  LET row[i \in 0 .. Len(b)] == IF i = 0 THEN Panic ELSE Scan(b[i], s, row[i - 1])
  IN  row[Len(b)]

\* Mutant: the lowest price point of the buyers is compared with the highest
\* one of the sellers.
SettleFirst(b, s) ==
  IF b[1].PricePerUnit < s[1].PricePerUnit THEN ErrNoPrice ELSE BestTrade(b, s)

\* Settle, given the two stacks.
Settle(b, s) ==
  IF b[Len(b)].PricePerUnit < s[Len(s)].PricePerUnit THEN ErrNoPrice ELSE BestTrade(b, s)

-----------------------------------------------------------------------------
StackBuyers ==
  /\ sb = <<>>
  /\ sb' \in Stack(buyers, "Buyers")
  /\ UNCHANGED <<buyers, sellers, ss, outcome>>

StackSellers ==
  /\ sb # <<>> /\ ss = <<>>
  /\ ss' \in Stack(sellers, "Sellers")
  /\ UNCHANGED <<buyers, sellers, sb, outcome>>

Match ==
  /\ ss # <<>>
  /\ outcome = NotYet
  /\ outcome' = Settle(sb, ss)
  /\ UNCHANGED <<buyers, sellers, sb, ss>>

Next == StackBuyers \/ StackSellers \/ Match

Spec == Init /\ [][Next]_vars

-----------------------------------------------------------------------------
(***************************************************************************)
(* The textbook auction.  Demand at a price is what all the buyers who     *)
(* would pay it want; supply what all the sellers who would take it have.  *)
(* No order of the bids comes into it.                                     *)
(***************************************************************************)
Total(bc, I) == SumFunctionOnSet([i \in DOMAIN bc |-> bc[i].Units], I)
Demand(p2) == Total(buyers, {i \in DOMAIN buyers : 2 * buyers[i].PricePerUnit >= p2})
Supply(p2) == Total(sellers, {i \in DOMAIN sellers : 2 * sellers[i].PricePerUnit <= p2})

Asked == {buyers[i].PricePerUnit : i \in DOMAIN buyers}
Offered == {sellers[i].PricePerUnit : i \in DOMAIN sellers}
Deals == {d \in Asked \X Offered : d[1] >= d[2]}
Volume(d) == Min({Demand(2 * d[1]), Supply(2 * d[2])})

\* Whatever the order of the bids and of ties, Settle trades the largest
\* volume that any uniform price allows, at the highest midpoint of a bid and
\* an ask between which that volume can be traded.  Peers that range over a
\* map in different orders thus endorse the same result (dauction.go, Settle;
\* markend.go, newBidCollection1).
ClearsTheMarket ==
  outcome \notin {NotYet, ErrNoPrice} =>
    /\ outcome.Units = Max({Min({Demand(2 * p), Supply(2 * p)}) : p \in Prices})
    /\ outcome.PriceSum =
         Max({d[1] + d[2] : d \in {e \in Deals : Volume(e) = outcome.Units}})

\* The units traded find takers and givers at the very price they are traded
\* at: those who would pay it and those who would take it are enough.
Acceptable ==
  outcome \notin {NotYet, ErrNoPrice} =>
    /\ Demand(outcome.PriceSum) >= outcome.Units
    /\ Supply(outcome.PriceSum) >= outcome.Units

\* The error is returned exactly when no buyer meets any seller's price.
NoPriceOnlyIfApart ==
  outcome # NotYet => (outcome = ErrNoPrice <=> Deals = {})
=============================================================================
