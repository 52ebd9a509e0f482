---------------------------- MODULE AuctionProofs -----------------------------
(***************************************************************************)
(* Proofs about the double auction.  A stack is a reordering of the bids   *)
(* whose units were added up in order of price; whatever the order of      *)
(* bids of one price, it holds each point of the demand, or supply, curve, *)
(* and no point outside it.  The two loops keep the best trade so far, so  *)
(* they return the best trade of the curves, which no order comes into.    *)
(***************************************************************************)
EXTENDS Auction, DataLemmas, SequenceTheorems

-----------------------------------------------------------------------------
\* The price points of a stack, and the bids of a collection.
Point == [PricePerUnit : Nat, Units : Nat]

Outcomes == [err : BOOLEAN, PriceSum : Int, Units : Int]

LEMMA BidIsPoint == Bid \subseteq Point
  BY AuctionAssumption DEF Bid, Point

LEMMA MinIs ==
  ASSUME NEW x \in Int, NEW y \in Int
  PROVE  /\ Min({x, y}) \in Int /\ Min({x, y}) <= x /\ Min({x, y}) <= y
         /\ Min({x, y}) = x \/ Min({x, y}) = y
<1>1. \E z \in {x, y} : \A w \in {x, y} : z <= w
  <2>1. CASE x <= y
    BY <2>1
  <2>2. CASE y <= x
    BY <2>2
  <2> QED
    BY <2>1, <2>2
<1>2. Min({x, y}) \in {x, y} /\ \A w \in {x, y} : Min({x, y}) <= w
  BY <1>1 DEF Min
<1> QED
  BY <1>2

LEMMA MaxIs ==
  ASSUME NEW S, S \subseteq Int, NEW x \in S, \A y \in S : y <= x
  PROVE  Max(S) = x
<1>1. \A y \in S : (\A z \in S : y >= z) => y = x
  BY SMT
<1>2. \A y \in S : x >= y
  BY SMT
<1> QED
  BY <1>1, <1>2 DEF Max

\* v is the lesser of d and s.
Lesser(v, d, s) == v \in Nat /\ v <= d /\ v <= s /\ (v = d \/ v = s)

LEMMA TradeIs ==
  ASSUME NEW b \in Point, NEW s \in Point
  PROVE  /\ Trade(b, s) \in Outcomes
         /\ Trade(b, s).err = FALSE
         /\ Trade(b, s).PriceSum = b.PricePerUnit + s.PricePerUnit
         /\ Lesser(Trade(b, s).Units, b.Units, s.Units)
<1>1. /\ b.PricePerUnit \in Nat /\ b.Units \in Nat
      /\ s.PricePerUnit \in Nat /\ s.Units \in Nat
  BY DEF Point
<1>2. PICK u \in Nat : /\ u = Min({b.Units, s.Units})
                       /\ u <= b.Units /\ u <= s.Units /\ (u = b.Units \/ u = s.Units)
  <2>1. b.Units \in Int /\ s.Units \in Int
    BY <1>1
  <2> QED
    BY <1>1, <2>1, MinIs
<1>3. Trade(b, s) = [err |-> FALSE, PriceSum |-> b.PricePerUnit + s.PricePerUnit, Units |-> u]
  BY <1>2 DEF Trade
<1>4. b.PricePerUnit + s.PricePerUnit \in Int /\ u \in Int
  BY <1>1
<1> QED
  BY <1>2, <1>3, <1>4 DEF Outcomes, Lesser

-----------------------------------------------------------------------------
\* x is as good an outcome as y.
AsGood(x, y) == ~ Better(y, x)

LEMMA AsGoodIs ==
  ASSUME NEW x \in Outcomes, NEW y \in Outcomes
  PROVE  /\ AsGood(x, x)
         /\ Better(x, y) => AsGood(x, y)
         /\ \A z \in Outcomes : AsGood(x, y) /\ AsGood(y, z) => AsGood(x, z)
  BY DEF AsGood, Better, Outcomes

\* Price point b of the buyers can be traded with price point s of the sellers.
Open(b, s) == b.PricePerUnit >= s.PricePerUnit

\* The inner loop of Settle.
LEMMA ScanIs ==
  ASSUME NEW b \in Point, NEW n \in Nat, NEW s \in [1 .. n -> Point], Len(s) = n,
         NEW best \in Outcomes, NEW r, r = Scan(b, s, best)
  PROVE  /\ r \in Outcomes
         /\ r = best \/ \E j \in 1 .. n : Open(b, s[j]) /\ r = Trade(b, s[j])
         /\ AsGood(r, best)
         /\ \A j \in 1 .. n : Open(b, s[j]) => AsGood(r, Trade(b, s[j]))
<1> DEFINE Pick(j, x) == IF Open(b, s[j]) /\ Better(Trade(b, s[j]), x) THEN Trade(b, s[j]) ELSE x
           Scans(f) == f = [j \in 0 .. Len(s) |-> IF j = 0 THEN best
                              ELSE IF b.PricePerUnit >= s[j].PricePerUnit
                                      /\ Better(Trade(b, s[j]), f[j - 1])
                                THEN Trade(b, s[j]) ELSE f[j - 1]]
           st == [j \in 1 .. n |-> [x \in Outcomes |-> Pick(j, x)]]
<1>1. \A j \in 1 .. n : Trade(b, s[j]) \in Outcomes
  BY TradeIs
<1>2. st \in [1 .. n -> [Outcomes -> Outcomes]]
  BY <1>1
<1>3. \A j \in 1 .. n : \A x \in Outcomes : st[j][x] = Pick(j, x)
  OBVIOUS
<1> HIDE DEF st
<1>4. PICK f \in [0 .. n -> Outcomes] : f[0] = best /\ \A j \in 1 .. n : f[j] = st[j][f[j - 1]]
  <2>1. PICK f \in [0 .. n -> Outcomes] : Leads(f, best, n, st)
    BY <1>2, Iterates
  <2> QED
    BY <2>1 DEF Leads
<1>5. \A j \in 1 .. n : f[j - 1] \in Outcomes /\ f[j] = Pick(j, f[j - 1])
  BY <1>3, <1>4
<1>6. Scans(f)
  <2>1. \A j \in 0 .. n : f[j] = IF j = 0 THEN best ELSE Pick(j, f[j - 1])
    BY <1>4, <1>5
  <2>2. f = [j \in 0 .. n |-> f[j]]
    OBVIOUS
  <2>3. f = [j \in 0 .. n |-> IF j = 0 THEN best ELSE Pick(j, f[j - 1])]
    <3> HIDE DEF Pick
    <3> QED
      BY <2>1, <2>2
  <2> QED
    BY <2>3 DEF Open
<1>7. PICK h : h = CHOOSE g : Scans(g)
  OBVIOUS
<1>8. Scans(h)
  <2> HIDE DEF Scans
  <2> QED
    BY <1>6, <1>7
<1>9. r = h[n]
  BY <1>7 DEF Scan
<1>10. h[0] = best /\ \A j \in 1 .. n : h[j] = Pick(j, h[j - 1])
  <2>1. \A j \in 0 .. n : h[j] = IF j = 0 THEN best ELSE Pick(j, h[j - 1])
    BY <1>8 DEF Open
  <2> HIDE DEF Pick
  <2> QED
    BY <2>1
<1> HIDE DEF Scans
<1> DEFINE Good(m) == /\ h[m] \in Outcomes
                      /\ h[m] = best \/ \E j \in 1 .. m : Open(b, s[j]) /\ h[m] = Trade(b, s[j])
                      /\ AsGood(h[m], best)
                      /\ \A j \in 1 .. m : Open(b, s[j]) => AsGood(h[m], Trade(b, s[j]))
           B == {m \in 0 .. n : ~ Good(m)}
<1>11. Good(0)
  BY <1>10, AsGoodIs
<1>12. ASSUME NEW m \in 1 .. n, Good(m - 1) PROVE Good(m)
  <2>1. h[m] = Pick(m, h[m - 1]) /\ h[m - 1] \in Outcomes
    BY <1>10, <1>12
  <2>2. PICK x \in Outcomes : x = h[m - 1]
    BY <2>1
  <2>3. PICK t \in Outcomes : t = Trade(b, s[m])
    BY <1>1
  <2>4. PICK y \in Outcomes : y = h[m]
    BY <2>1, <2>2, <2>3
  <2>5. y = x \/ (Open(b, s[m]) /\ y = t)
    BY <2>1, <2>2, <2>3, <2>4
  <2>6. AsGood(y, x) /\ (Open(b, s[m]) => AsGood(y, t))
    <3>1. CASE Open(b, s[m]) /\ Better(t, x)
      BY <2>1, <2>2, <2>3, <2>4, <3>1, AsGoodIs
    <3>2. CASE ~ (Open(b, s[m]) /\ Better(t, x))
      <4>1. y = x
        BY <2>1, <2>2, <2>3, <2>4, <3>2
      <4> QED
        BY <3>2, <4>1, AsGoodIs DEF AsGood
    <3> QED
      BY <3>1, <3>2
  <2>7. \A j \in 1 .. m : j = m \/ j \in 1 .. m - 1
    OBVIOUS
  <2>8. \A j \in 1 .. m - 1 : j \in 1 .. m
    OBVIOUS
  <2>9. AsGood(y, best)
    BY <1>12, <2>2, <2>6, AsGoodIs
  <2>10. ASSUME NEW j \in 1 .. m, Open(b, s[j]) PROVE AsGood(y, Trade(b, s[j]))
    <3>1. CASE j = m
      BY <2>3, <2>6, <2>10, <3>1
    <3>2. CASE j \in 1 .. m - 1
      <4>1. AsGood(x, Trade(b, s[j])) /\ Trade(b, s[j]) \in Outcomes
        BY <1>1, <1>12, <2>2, <2>10, <3>2
      <4> QED
        BY <2>6, <4>1, AsGoodIs
    <3> QED
      BY <2>7, <3>1, <3>2
  <2>11. y = best \/ \E j \in 1 .. m : Open(b, s[j]) /\ y = Trade(b, s[j])
    <3>1. CASE y = x
      BY <1>12, <2>2, <2>8, <3>1
    <3>2. CASE Open(b, s[m]) /\ y = t
      BY <2>3, <3>2
    <3> QED
      BY <2>5, <3>1, <3>2
  <2> QED
    BY <2>4, <2>9, <2>10, <2>11
<1>13. Good(n)
  <2>1. ASSUME B # {} PROVE FALSE
    <3>1. B \subseteq Nat
      OBVIOUS
    <3> HIDE DEF B, Good
    <3>2. PICK m \in B : \A k \in B : m <= k
      BY <2>1, <3>1, LeastNat
    <3>3. m \in 0 .. n /\ ~ Good(m)
      BY <3>2 DEF B
    <3>4. m \in 1 .. n
      BY <1>11, <3>3
    <3>5. m - 1 \in 0 .. n /\ ~ (m <= m - 1)
      BY <3>4
    <3>6. Good(m - 1)
      BY <3>2, <3>5 DEF B
    <3> QED
      BY <1>12, <3>3, <3>4, <3>6
  <2> HIDE DEF Good
  <2> QED
    BY <2>1
<1> QED
  BY <1>9, <1>13

\* Both loops: of all the trades that are open, BestTrade is one, and as good
\* as any.
BestOf(r, b, m, s, n) ==
  /\ r = Panic \/ \E i \in 1 .. m, j \in 1 .. n : Open(b[i], s[j]) /\ r = Trade(b[i], s[j])
  /\ \A i \in 1 .. m, j \in 1 .. n : Open(b[i], s[j]) => AsGood(r, Trade(b[i], s[j]))

LEMMA BestTradeIs ==
  ASSUME NEW m \in Nat, NEW b \in [1 .. m -> Point], Len(b) = m,
         NEW n \in Nat, NEW s \in [1 .. n -> Point], Len(s) = n,
         NEW r, r = BestTrade(b, s)
  PROVE  r \in Outcomes /\ BestOf(r, b, m, s, n)
<1> DEFINE Rows(f) == f = [i \in 0 .. Len(b) |-> IF i = 0 THEN Panic ELSE Scan(b[i], s, f[i - 1])]
           st == [i \in 1 .. m |-> [x \in Outcomes |-> Scan(b[i], s, x)]]
<1>1. Panic \in Outcomes
  BY DEF Panic, Outcomes
<1>2. \A i \in 1 .. m : \A x \in Outcomes :
        /\ Scan(b[i], s, x) \in Outcomes
        /\ Scan(b[i], s, x) = x
           \/ \E j \in 1 .. n : Open(b[i], s[j]) /\ Scan(b[i], s, x) = Trade(b[i], s[j])
        /\ AsGood(Scan(b[i], s, x), x)
        /\ \A j \in 1 .. n : Open(b[i], s[j]) => AsGood(Scan(b[i], s, x), Trade(b[i], s[j]))
  <2> SUFFICES ASSUME NEW i \in 1 .. m, NEW x \in Outcomes, NEW y, y = Scan(b[i], s, x)
               PROVE  /\ y \in Outcomes
                      /\ y = x \/ \E j \in 1 .. n : Open(b[i], s[j]) /\ y = Trade(b[i], s[j])
                      /\ AsGood(y, x)
                      /\ \A j \in 1 .. n : Open(b[i], s[j]) => AsGood(y, Trade(b[i], s[j]))
    OBVIOUS
  <2>1. PICK c \in Point : c = b[i]
    OBVIOUS
  <2> QED
    BY <2>1, ScanIs
<1>3. st \in [1 .. m -> [Outcomes -> Outcomes]]
  BY <1>2
<1>4. \A i \in 1 .. m : \A x \in Outcomes : st[i][x] = Scan(b[i], s, x)
  OBVIOUS
<1> HIDE DEF st
<1>5. PICK f \in [0 .. m -> Outcomes] : f[0] = Panic /\ \A i \in 1 .. m : f[i] = st[i][f[i - 1]]
  <2>1. PICK f \in [0 .. m -> Outcomes] : Leads(f, Panic, m, st)
    BY <1>1, <1>3, Iterates
  <2> QED
    BY <2>1 DEF Leads
<1>6. \A i \in 1 .. m : f[i - 1] \in Outcomes /\ f[i] = Scan(b[i], s, f[i - 1])
  BY <1>4, <1>5
<1>7. Rows(f)
  <2>1. \A i \in 0 .. m : f[i] = IF i = 0 THEN Panic ELSE Scan(b[i], s, f[i - 1])
    BY <1>5, <1>6
  <2>2. f = [i \in 0 .. m |-> f[i]]
    OBVIOUS
  <2> QED
    BY <2>1, <2>2
<1>8. PICK h : h = CHOOSE g : Rows(g)
  OBVIOUS
<1>9. Rows(h)
  <2> HIDE DEF Rows
  <2> QED
    BY <1>7, <1>8
<1>10. r = h[m]
  BY <1>8 DEF BestTrade
<1>11. h[0] = Panic /\ \A i \in 1 .. m : h[i] = Scan(b[i], s, h[i - 1])
  BY <1>9
<1> HIDE DEF Rows
<1> DEFINE Good(k) ==
             /\ h[k] \in Outcomes
             /\ h[k] = Panic
                \/ \E i \in 1 .. k, j \in 1 .. n : Open(b[i], s[j]) /\ h[k] = Trade(b[i], s[j])
             /\ \A i \in 1 .. k, j \in 1 .. n : Open(b[i], s[j]) => AsGood(h[k], Trade(b[i], s[j]))
           B == {k \in 0 .. m : ~ Good(k)}
<1>12. Good(0)
  BY <1>1, <1>11
<1>13. ASSUME NEW k \in 1 .. m, Good(k - 1) PROVE Good(k)
  <2>1. PICK x \in Outcomes : x = h[k - 1]
    BY <1>13
  <2>2. PICK y : y = h[k] /\ y = Scan(b[k], s, x)
    BY <1>11, <2>1
  <2>3. /\ y \in Outcomes
        /\ y = x \/ \E j \in 1 .. n : Open(b[k], s[j]) /\ y = Trade(b[k], s[j])
        /\ AsGood(y, x)
        /\ \A j \in 1 .. n : Open(b[k], s[j]) => AsGood(y, Trade(b[k], s[j]))
    BY <1>2, <2>2
  <2>4. \A i \in 1 .. k : i = k \/ i \in 1 .. k - 1
    OBVIOUS
  <2>5. \A i \in 1 .. k - 1 : i \in 1 .. k
    OBVIOUS
  <2>6. ASSUME NEW i \in 1 .. k, NEW j \in 1 .. n, Open(b[i], s[j])
        PROVE  AsGood(y, Trade(b[i], s[j]))
    <3>1. CASE i = k
      BY <2>3, <2>6, <3>1
    <3>2. CASE i \in 1 .. k - 1
      <4>1. AsGood(x, Trade(b[i], s[j]))
        BY <1>13, <2>1, <2>6, <3>2
      <4>2. Trade(b[i], s[j]) \in Outcomes
        <5>1. b[i] \in Point /\ s[j] \in Point
          OBVIOUS
        <5> QED
          BY <5>1, TradeIs
      <4> QED
        BY <2>3, <4>1, <4>2, AsGoodIs
    <3> QED
      BY <2>4, <3>1, <3>2
  <2>7. y = Panic \/ \E i \in 1 .. k, j \in 1 .. n : Open(b[i], s[j]) /\ y = Trade(b[i], s[j])
    <3>1. CASE y = x
      BY <1>13, <2>1, <2>5, <3>1
    <3>2. CASE \E j \in 1 .. n : Open(b[k], s[j]) /\ y = Trade(b[k], s[j])
      BY <3>2
    <3> QED
      BY <2>3, <3>1, <3>2
  <2> QED
    BY <2>2, <2>3, <2>6, <2>7
<1>14. Good(m)
  <2>1. ASSUME B # {} PROVE FALSE
    <3>1. B \subseteq Nat
      OBVIOUS
    <3> HIDE DEF B, Good
    <3>2. PICK k \in B : \A i \in B : k <= i
      BY <2>1, <3>1, LeastNat
    <3>3. k \in 0 .. m /\ ~ Good(k)
      BY <3>2 DEF B
    <3>4. k \in 1 .. m
      BY <1>12, <3>3
    <3>5. k - 1 \in 0 .. m /\ ~ (k <= k - 1)
      BY <3>4
    <3>6. Good(k - 1)
      BY <3>2, <3>5 DEF B
    <3> QED
      BY <1>13, <3>3, <3>4, <3>6
  <2> HIDE DEF Good
  <2> QED
    BY <2>1
<1> QED
  BY <1>10, <1>14 DEF BestOf

-----------------------------------------------------------------------------
\* t has the bids, or price points, of s in another order p.
Orders(t, s, n, p) == p \in Bijection(1 .. n, 1 .. n) /\ t = [i \in 1 .. n |-> s[p[i]]]

\* The bids among the first m of an order p.
Firsts(p, m) == {p[k] : k \in 1 .. m}

LEMMA TotalIs ==
  ASSUME NEW n \in Nat, NEW bc \in [1 .. n -> Bid], NEW I, I \subseteq 1 .. n
  PROVE  /\ Total(bc, I) \in Nat
         /\ \A J : I \subseteq J /\ J \subseteq 1 .. n => Total(bc, I) <= Total(bc, J)
         /\ \A i \in (1 .. n) \ I : Total(bc, I \cup {i}) = Total(bc, I) + bc[i].Units
         /\ Total(bc, {}) = 0
<1> DEFINE f == [i \in 1 .. n |-> bc[i].Units]
<1>1. DOMAIN bc = 1 .. n /\ \A J : Total(bc, J) = SumFunctionOnSet(f, J)
  BY DEF Total
<1>2. \A i \in 1 .. n : f[i] \in Nat /\ f[i] = bc[i].Units
  BY BidIsPoint DEF Point
<1> HIDE DEF f
<1>3. \A J : J \subseteq 1 .. n => IsFiniteSet(J)
  <2>1. 1 \in Int /\ n \in Int
    OBVIOUS
  <2>2. IsFiniteSet(1 .. n)
    BY <2>1, FS_Interval
  <2> QED
    BY <2>2, FS_Subset
<1>4. \A J : J \subseteq 1 .. n => SumFunctionOnSet(f, J) \in Nat
  <2> SUFFICES ASSUME NEW J, J \subseteq 1 .. n PROVE SumFunctionOnSet(f, J) \in Nat
    OBVIOUS
  <2>1. IsFiniteSet(J) /\ \A i \in J : f[i] \in Nat
    BY <1>2, <1>3
  <2> QED
    BY <2>1, SumNat
<1>5. ASSUME NEW J, I \subseteq J, J \subseteq 1 .. n
      PROVE  SumFunctionOnSet(f, I) <= SumFunctionOnSet(f, J)
  <2>1. IsFiniteSet(J)
    BY <1>3, <1>5
  <2>2. \A i \in J : f[i] \in Nat
    BY <1>2, <1>5
  <2> QED
    BY <1>5, <2>1, <2>2, SumSubset, Zenon
<1>6. ASSUME NEW i \in (1 .. n) \ I
      PROVE  SumFunctionOnSet(f, I \cup {i}) = SumFunctionOnSet(f, I) + bc[i].Units
  <2>1. IsFiniteSet(I) /\ i \notin I /\ \A j \in I \cup {i} : f[j] \in Int
    <3>1. \A j \in I \cup {i} : j \in 1 .. n
      OBVIOUS
    <3>2. \A j \in 1 .. n : f[j] \in Int
      BY <1>2
    <3>3. IsFiniteSet(I)
      BY <1>3
    <3> QED
      BY <3>1, <3>2, <3>3
  <2>2. SumFunctionOnSet(f, I \cup {i}) = f[i] + SumFunctionOnSet(f, I)
    BY <2>1, SumAdd
  <2>3. f[i] = bc[i].Units /\ f[i] \in Nat /\ SumFunctionOnSet(f, I) \in Nat
    BY <1>2, <1>4
  <2> QED
    BY <2>2, <2>3
<1>7. SumFunctionOnSet(f, {}) = 0
  BY SumEmpty
<1> QED
  BY <1>1, <1>4, <1>5, <1>6, <1>7

\* The running sum of Stack: at each position the units of all bids up to it.
LEMMA CumulatedIs ==
  ASSUME NEW n \in Nat, NEW bc \in [1 .. n -> Bid], NEW s, NEW p, Orders(s, bc, n, p)
  PROVE  /\ Cumulated(s) \in [1 .. n -> Point]
         /\ \A m \in 1 .. n : /\ Cumulated(s)[m].PricePerUnit = s[m].PricePerUnit
                              /\ Cumulated(s)[m].Units = Total(bc, Firsts(p, m))
<1> DEFINE Adds(u) == u = [i \in 1 .. n |-> IF i = 1 THEN s[1].Units ELSE u[i - 1] + s[i].Units]
           w == [i \in 1 .. n |-> Total(bc, Firsts(p, i))]
<1>1. /\ p \in [1 .. n -> 1 .. n]
      /\ \A i, j \in 1 .. n : p[i] = p[j] => i = j
  BY DEF Orders, Bijection, Injection, IsInjective
<1>2. DOMAIN s = 1 .. n /\ \A i \in 1 .. n : s[i] = bc[p[i]] /\ s[i] \in Bid
  BY <1>1 DEF Orders
<1>3. \A m \in 0 .. n : Firsts(p, m) \subseteq 1 .. n
  BY <1>1 DEF Firsts
<1>4. ASSUME NEW m \in 1 .. n
      PROVE  Total(bc, Firsts(p, m)) = Total(bc, Firsts(p, m - 1)) + s[m].Units
  <2>1. Firsts(p, m) = Firsts(p, m - 1) \cup {p[m]}
    <3>1. \A k : k \in 1 .. m <=> k \in 1 .. m - 1 \/ k = m
      OBVIOUS
    <3> QED
      BY <3>1 DEF Firsts
  <2>2. p[m] \notin Firsts(p, m - 1)
    <3>1. \A k \in 1 .. m - 1 : k \in 1 .. n /\ k # m
      OBVIOUS
    <3> QED
      BY <1>1, <3>1 DEF Firsts
  <2>3. p[m] \in (1 .. n) \ Firsts(p, m - 1) /\ Firsts(p, m - 1) \subseteq 1 .. n
    <3>1. m - 1 \in 0 .. n /\ p[m] \in 1 .. n
      BY <1>1
    <3> QED
      BY <1>3, <2>2, <3>1
  <2>4. Total(bc, Firsts(p, m - 1) \cup {p[m]}) = Total(bc, Firsts(p, m - 1)) + bc[p[m]].Units
    <3>1. PICK I, x : I = Firsts(p, m - 1) /\ x = p[m]
      OBVIOUS
    <3>2. I \subseteq 1 .. n /\ x \in (1 .. n) \ I
      BY <2>3, <3>1
    <3>3. \A i \in (1 .. n) \ I : Total(bc, I \cup {i}) = Total(bc, I) + bc[i].Units
      BY <3>2, TotalIs
    <3> QED
      BY <3>1, <3>2, <3>3
  <2> QED
    BY <1>2, <2>1, <2>4
<1>5. Total(bc, Firsts(p, 0)) = 0
  <2>1. Firsts(p, 0) = {}
    BY DEF Firsts
  <2>2. {} \subseteq 1 .. n
    OBVIOUS
  <2> QED
    BY <2>1, <2>2, TotalIs
<1>6. \A i \in 1 .. n : w[i] = Total(bc, Firsts(p, i))
  OBVIOUS
<1>7. w = [i \in 1 .. n |-> w[i]]
  OBVIOUS
<1> HIDE DEF w
<1>8. \A i \in 1 .. n : w[i] = IF i = 1 THEN s[1].Units ELSE w[i - 1] + s[i].Units
  <2> SUFFICES ASSUME NEW i \in 1 .. n
               PROVE  w[i] = IF i = 1 THEN s[1].Units ELSE w[i - 1] + s[i].Units
    OBVIOUS
  <2>1. CASE i = 1
    <3>1. i - 1 = 0 /\ s[i].Units \in Nat
      BY <1>2, <2>1, BidIsPoint DEF Point
    <3>2. w[i] = 0 + s[i].Units
      BY <1>4, <1>5, <1>6, <3>1
    <3> QED
      BY <2>1, <3>1, <3>2
  <2>2. CASE i # 1
    <3>1. i - 1 \in 1 .. n
      BY <2>2
    <3> QED
      BY <1>4, <1>6, <2>2, <3>1
  <2> QED
    BY <2>1, <2>2
<1>9. Adds(w)
  BY <1>7, <1>8
<1>10. ASSUME NEW u, Adds(u) PROVE u = w
  <2>1. \A i \in 1 .. n : u[i] = IF i = 1 THEN s[1].Units ELSE u[i - 1] + s[i].Units
    BY <1>10
  <2>2. u = [i \in 1 .. n |-> u[i]]
    BY <1>10
  <2> HIDE DEF Adds
  <2> DEFINE B == {i \in 1 .. n : u[i] # w[i]}
  <2>3. ASSUME B # {} PROVE FALSE
    <3>1. B \subseteq Nat
      OBVIOUS
    <3> HIDE DEF B
    <3>2. PICK i \in B : \A k \in B : i <= k
      BY <2>3, <3>1, LeastNat
    <3>3. i \in 1 .. n /\ u[i] # w[i]
      BY <3>2 DEF B
    <3>4. i # 1 => i - 1 \in 1 .. n /\ ~ (i <= i - 1)
      BY <3>3
    <3>5. i # 1 => u[i - 1] = w[i - 1]
      BY <3>2, <3>4 DEF B
    <3> QED
      BY <1>8, <2>1, <3>3, <3>5
  <2>4. \A i \in 1 .. n : u[i] = w[i]
    BY <2>3
  <2> QED
    BY <1>7, <2>2, <2>4
<1>11. (CHOOSE u : Adds(u)) = w
  <2> HIDE DEF Adds
  <2> QED
    BY <1>9, <1>10
<1>12. Cumulated(s) = [i \in 1 .. n |-> [PricePerUnit |-> s[i].PricePerUnit, Units |-> w[i]]]
  <2>1. Cumulated(s) = [i \in 1 .. n |-> [PricePerUnit |-> s[i].PricePerUnit,
                                          Units |-> (CHOOSE u : Adds(u))[i]]]
    BY <1>2 DEF Cumulated
  <2> HIDE DEF Adds
  <2> QED
    BY <1>11, <2>1
<1>13. \A i \in 1 .. n : w[i] \in Nat /\ s[i].PricePerUnit \in Nat
  <2>1. \A i \in 1 .. n : Firsts(p, i) \subseteq 1 .. n
    BY <1>3
  <2>2. \A i \in 1 .. n : w[i] \in Nat
    BY <1>6, <2>1, TotalIs
  <2> QED
    BY <1>2, <2>2, BidIsPoint DEF Point
<1>14. PICK c : c = Cumulated(s)
  OBVIOUS
<1>15. \A i \in 1 .. n : /\ c[i] \in Point
                        /\ c[i].PricePerUnit = s[i].PricePerUnit /\ c[i].Units = w[i]
  BY <1>12, <1>13, <1>14 DEF Point
<1>16. c \in [1 .. n -> Point]
  <2>1. c = [i \in 1 .. n |-> c[i]]
    BY <1>12, <1>14
  <2> QED
    BY <1>15, <2>1
<1> QED
  BY <1>6, <1>14, <1>15, <1>16

-----------------------------------------------------------------------------
Rises(t, n) == \A i, j \in 1 .. n : i <= j => t[i].PricePerUnit <= t[j].PricePerUnit
Falls(t, n) == \A i, j \in 1 .. n : i <= j => t[i].PricePerUnit >= t[j].PricePerUnit

LEMMA LenIs ==
  ASSUME NEW X, NEW n \in Nat, NEW t \in [1 .. n -> X]
  PROVE  Len(t) = n
<1>1. t \in Seq(X)
  BY SeqDef
<1>2. DOMAIN t = 1 .. Len(t) /\ Len(t) \in Nat
  BY <1>1, LenProperties
<1> QED
  BY <1>2

LEMMA OrdersIs ==
  ASSUME NEW n \in Nat, NEW s \in [1 .. n -> Point], NEW p, NEW t, Orders(t, s, n, p)
  PROVE  /\ t \in [1 .. n -> Point] /\ Len(t) = n
         /\ \A i \in 1 .. n : p[i] \in 1 .. n /\ t[i] = s[p[i]]
         /\ \A i \in 1 .. n : \E k \in 1 .. n : p[k] = i /\ t[k] = s[i]
<1>1. /\ p \in [1 .. n -> 1 .. n] /\ \A i \in 1 .. n : \E k \in 1 .. n : p[k] = i
      /\ t = [i \in 1 .. n |-> s[p[i]]]
  BY DEF Orders, Bijection, Surjection
<1>2. t \in [1 .. n -> Point]
  BY <1>1
<1> QED
  BY <1>1, <1>2, LenIs

\* Sort puts them in the order of their prices.
LEMMA SortedIs ==
  ASSUME NEW n \in Nat, NEW s \in [1 .. n -> Point], NEW t \in Sorted(s)
  PROVE  Rises(t, n) /\ \E p : Orders(t, s, n, p)
<1>1. DOMAIN s = 1 .. n
  OBVIOUS
<1>2. PICK p \in Bijection(1 .. n, 1 .. n) : t = [i \in 1 .. n |-> s[p[i]]]
  BY <1>1 DEF Sorted
<1>3. Orders(t, s, n, p)
  BY <1>2 DEF Orders
<1>4. Len(t) = n /\ t \in [1 .. n -> Point]
  BY <1>3, OrdersIs
<1>5. \A i \in 1 .. n - 1 : t[i].PricePerUnit <= t[i + 1].PricePerUnit
  BY <1>4 DEF Sorted
<1>6. \A i \in 1 .. n : t[i].PricePerUnit \in Nat
  BY <1>4 DEF Point
<1>7. ASSUME NEW i \in 1 .. n, NEW j \in 1 .. n, i <= j
      PROVE  t[i].PricePerUnit <= t[j].PricePerUnit
  <2> DEFINE B == {k \in 1 .. n : i <= k /\ ~ (t[i].PricePerUnit <= t[k].PricePerUnit)}
  <2>1. ASSUME B # {} PROVE FALSE
    <3>1. B \subseteq Nat
      OBVIOUS
    <3> HIDE DEF B
    <3>2. PICK k \in B : \A m \in B : k <= m
      BY <2>1, <3>1, LeastNat
    <3>3. k \in 1 .. n /\ i <= k /\ ~ (t[i].PricePerUnit <= t[k].PricePerUnit)
      BY <3>2 DEF B
    <3>4. k # i
      BY <1>6, <3>3
    <3>5. k - 1 \in 1 .. n - 1 /\ k - 1 \in 1 .. n /\ i <= k - 1 /\ (k - 1) + 1 = k /\ ~ (k <= k - 1)
      BY <3>3, <3>4
    <3>6. t[i].PricePerUnit <= t[k - 1].PricePerUnit
      BY <3>2, <3>5 DEF B
    <3>7. t[k - 1].PricePerUnit <= t[k].PricePerUnit
      BY <1>5, <3>5
    <3> QED
      BY <1>6, <3>3, <3>5, <3>6, <3>7
  <2> QED
    BY <1>7, <2>1
<1> QED
  BY <1>3, <1>7 DEF Rises

\* sort.Reverse is the other way round.
LEMMA ReverseSortedIs ==
  ASSUME NEW n \in Nat, NEW s \in [1 .. n -> Point], NEW t \in ReverseSorted(s)
  PROVE  Falls(t, n) /\ \E p : Orders(t, s, n, p)
<1>1. PICK u \in Sorted(s) : t = Reverse(u)
  BY DEF ReverseSorted
<1>2. Rises(u, n)
  BY SortedIs
<1>3. PICK p : Orders(u, s, n, p)
  BY SortedIs
<1>4. /\ Len(u) = n /\ p \in [1 .. n -> 1 .. n]
      /\ \A i \in 1 .. n : u[i] = s[p[i]] /\ u[i] \in Point
  BY <1>3, OrdersIs DEF Orders, Bijection, Injection
<1>5. t = [i \in 1 .. n |-> u[(n - i) + 1]]
  BY <1>1, <1>4 DEF Reverse
<1>6. \A i \in 1 .. n : (n - i) + 1 \in 1 .. n /\ (n - ((n - i) + 1)) + 1 = i
  OBVIOUS
<1>7. PICK q : q = [i \in 1 .. n |-> p[(n - i) + 1]]
  OBVIOUS
<1>8. t = [i \in 1 .. n |-> s[q[i]]]
  BY <1>4, <1>5, <1>6, <1>7
<1>9. q \in Bijection(1 .. n, 1 .. n)
  <2>1. /\ \A i, j \in 1 .. n : p[i] = p[j] => i = j
        /\ \A x \in 1 .. n : \E i \in 1 .. n : p[i] = x
    BY <1>3 DEF Orders, Bijection, Injection, Surjection, IsInjective
  <2>2. q \in [1 .. n -> 1 .. n] /\ \A i \in 1 .. n : q[i] = p[(n - i) + 1]
    BY <1>4, <1>6, <1>7
  <2>3. ASSUME NEW i \in 1 .. n, NEW j \in 1 .. n, q[i] = q[j] PROVE i = j
    <3>1. p[(n - i) + 1] = p[(n - j) + 1]
      BY <2>2, <2>3
    <3>2. (n - i) + 1 = (n - j) + 1
      BY <1>6, <2>1, <3>1
    <3> QED
      BY <3>2
  <2>4. ASSUME NEW x \in 1 .. n PROVE \E i \in 1 .. n : q[i] = x
    <3>1. PICK i \in 1 .. n : p[i] = x
      BY <2>1
    <3>2. q[(n - i) + 1] = x
      BY <1>6, <2>2, <3>1
    <3> QED
      BY <1>6, <3>2
  <2> QED
    BY <2>2, <2>3, <2>4 DEF Bijection, Injection, Surjection, IsInjective
<1>10. Falls(t, n)
  <2> SUFFICES ASSUME NEW i \in 1 .. n, NEW j \in 1 .. n, i <= j
               PROVE  t[i].PricePerUnit >= t[j].PricePerUnit
    BY DEF Falls
  <2>1. (n - j) + 1 <= (n - i) + 1 /\ (n - i) + 1 \in 1 .. n /\ (n - j) + 1 \in 1 .. n
    BY <1>6
  <2>2. u[(n - j) + 1].PricePerUnit <= u[(n - i) + 1].PricePerUnit
    BY <1>2, <2>1 DEF Rises
  <2>3. \A k \in 1 .. n : u[k].PricePerUnit \in Nat
    BY <1>4 DEF Point
  <2>4. t[i] = u[(n - i) + 1] /\ t[j] = u[(n - j) + 1]
    BY <1>5
  <2> QED
    BY <2>1, <2>2, <2>3, <2>4
<1> QED
  BY <1>8, <1>9, <1>10 DEF Orders

-----------------------------------------------------------------------------
\* In an order p of 1 .. n in which the values v fall, the positions up to one
\* are among those of its value or more, and for every value that occurs they
\* are, at its last position, exactly those.
LEMMA PrefixesAre ==
  ASSUME NEW n \in Nat, NEW p \in Bijection(1 .. n, 1 .. n), NEW v \in [1 .. n -> Int],
         \A i, j \in 1 .. n : i <= j => v[p[i]] >= v[p[j]]
  PROVE  /\ \A m \in 1 .. n : Firsts(p, m) \subseteq {x \in 1 .. n : v[x] >= v[p[m]]}
         /\ \A k \in 1 .. n : \E m \in 1 .. n :
              v[p[m]] = v[k] /\ Firsts(p, m) = {x \in 1 .. n : v[x] >= v[k]}
<1>1. /\ \A i \in 1 .. n : p[i] \in 1 .. n /\ v[p[i]] \in Int /\ v[i] \in Int
      /\ \A x \in 1 .. n : \E i \in 1 .. n : p[i] = x
  BY DEF Bijection, Injection, Surjection
<1>2. \A m \in 1 .. n : Firsts(p, m) \subseteq {x \in 1 .. n : v[x] >= v[p[m]]}
  <2> SUFFICES ASSUME NEW m \in 1 .. n, NEW i \in 1 .. m
               PROVE  p[i] \in 1 .. n /\ v[p[i]] >= v[p[m]]
    BY DEF Firsts
  <2>1. i \in 1 .. n /\ i <= m
    OBVIOUS
  <2> QED
    BY <1>1, <2>1
<1>3. ASSUME NEW k \in 1 .. n
      PROVE  \E m \in 1 .. n : v[p[m]] = v[k] /\ Firsts(p, m) = {x \in 1 .. n : v[x] >= v[k]}
  <2> DEFINE T == {m \in 1 .. n : v[p[m]] >= v[k]}
  <2>1. PICK o \in 1 .. n : p[o] = k
    BY <1>1
  <2>2. o \in T /\ T \subseteq 1 .. n /\ T # {}
    <3>1. v[p[o]] >= v[k]
      BY <1>1, <2>1
    <3> QED
      BY <3>1
  <2>3. PICK m \in T : \A l \in T : l <= m
    <3> HIDE DEF T
    <3> QED
      BY <2>2, GreatestUpTo
  <2>4. m \in 1 .. n /\ v[p[m]] >= v[k]
    OBVIOUS
  <2>5. v[p[m]] = v[k]
    <3>1. o <= m /\ v[p[o]] >= v[p[m]]
      BY <2>2, <2>3, <2>4
    <3>2. v[p[o]] = v[k] /\ v[p[m]] \in Int /\ v[k] \in Int
      BY <1>1, <2>1, <2>4
    <3>3. \A a, b \in Int : a >= b /\ b >= a => a = b
      OBVIOUS
    <3> QED
      BY <2>4, <3>1, <3>2, <3>3
  <2>6. ASSUME NEW x \in 1 .. n, v[x] >= v[k] PROVE x \in Firsts(p, m)
    <3>1. PICK l \in 1 .. n : p[l] = x
      BY <1>1
    <3>2. l \in T
      BY <2>6, <3>1
    <3>3. l \in 1 .. m
      BY <2>3, <2>4, <3>1, <3>2
    <3> QED
      BY <3>1, <3>3 DEF Firsts
  <2>7. Firsts(p, m) \subseteq {x \in 1 .. n : v[x] >= v[k]}
    BY <1>2, <2>4, <2>5
  <2>8. Firsts(p, m) = {x \in 1 .. n : v[x] >= v[k]}
    BY <2>6, <2>7
  <2> QED
    BY <2>4, <2>5, <2>8
<1> QED
  BY <1>2, <1>3

\* The bids of the buyers that would pay a price, and those of the sellers that
\* would take it.
WouldPay(bc, n, price) == {x \in 1 .. n : bc[x].PricePerUnit >= price}
WouldTake(bc, n, price) == {x \in 1 .. n : bc[x].PricePerUnit <= price}

\* What Settle relies on in the stack of the buyers: every price point is at a
\* price somebody bids and has no more units than are wanted at that price, for
\* every price that is bid some price point has all of those, and the last price
\* point is at the highest price ...
BuyersStack(t, bc, n) ==
  /\ t \in [1 .. n -> Point] /\ Len(t) = n
  /\ \A i \in 1 .. n : /\ \E k \in 1 .. n : bc[k].PricePerUnit = t[i].PricePerUnit
                       /\ t[i].Units <= Total(bc, WouldPay(bc, n, t[i].PricePerUnit))
                       /\ t[i].PricePerUnit <= t[n].PricePerUnit
  /\ \A k \in 1 .. n : \E i \in 1 .. n :
       /\ t[i].PricePerUnit = bc[k].PricePerUnit
       /\ t[i].Units = Total(bc, WouldPay(bc, n, bc[k].PricePerUnit))

\* ... and, the other way round, in the stack of the sellers.
SellersStack(t, bc, n) ==
  /\ t \in [1 .. n -> Point] /\ Len(t) = n
  /\ \A i \in 1 .. n : /\ \E k \in 1 .. n : bc[k].PricePerUnit = t[i].PricePerUnit
                       /\ t[i].Units <= Total(bc, WouldTake(bc, n, t[i].PricePerUnit))
                       /\ t[n].PricePerUnit <= t[i].PricePerUnit
  /\ \A k \in 1 .. n : \E i \in 1 .. n :
       /\ t[i].PricePerUnit = bc[k].PricePerUnit
       /\ t[i].Units = Total(bc, WouldTake(bc, n, bc[k].PricePerUnit))

LEMMA BuyersStackIs ==
  ASSUME NEW n \in Nat, n # 0, NEW bc \in [1 .. n -> Bid], NEW t \in Stack(bc, "Buyers")
  PROVE  BuyersStack(t, bc, n)
<1> DEFINE v == [x \in 1 .. n |-> bc[x].PricePerUnit]
<1>1. PICK s \in ReverseSorted(bc) : t \in Sorted(Cumulated(s))
  BY DEF Stack
<1>2. /\ bc \in [1 .. n -> Point] /\ n \in Nat /\ n \in 1 .. n
      /\ \A x \in 1 .. n : bc[x].PricePerUnit \in Nat
  BY BidIsPoint DEF Point
<1>3. Falls(s, n) /\ \E p : Orders(s, bc, n, p)
  BY <1>1, <1>2, ReverseSortedIs
<1>4. PICK p : Orders(s, bc, n, p)
  BY <1>3
<1>5. p \in Bijection(1 .. n, 1 .. n) /\ s = [i \in 1 .. n |-> bc[p[i]]]
  BY <1>4 DEF Orders
<1>6. \A i \in 1 .. n : p[i] \in 1 .. n /\ s[i] = bc[p[i]]
  BY <1>5 DEF Bijection, Injection
<1>7. PICK c : c = Cumulated(s)
  OBVIOUS
<1>8. /\ c \in [1 .. n -> Point]
      /\ \A m \in 1 .. n : /\ c[m].PricePerUnit = s[m].PricePerUnit
                           /\ c[m].Units = Total(bc, Firsts(p, m))
  <2>1. /\ Cumulated(s) \in [1 .. n -> Point]
        /\ \A m \in 1 .. n : /\ Cumulated(s)[m].PricePerUnit = s[m].PricePerUnit
                             /\ Cumulated(s)[m].Units = Total(bc, Firsts(p, m))
    BY <1>2, <1>4, CumulatedIs
  <2> QED
    BY <1>7, <2>1
<1>9. /\ v \in [1 .. n -> Int]
      /\ \A x \in 1 .. n : v[x] = bc[x].PricePerUnit
      /\ \A i, j \in 1 .. n : i <= j => v[p[i]] >= v[p[j]]
  <2>1. \A i \in 1 .. n : v[p[i]] = s[i].PricePerUnit
    BY <1>6
  <2>2. \A i, j \in 1 .. n : i <= j => v[p[i]] >= v[p[j]]
    BY <1>3, <2>1 DEF Falls
  <2>3. v \in [1 .. n -> Int] /\ \A x \in 1 .. n : v[x] = bc[x].PricePerUnit
    BY <1>2
  <2> QED
    BY <2>2, <2>3
<1>10. \A price : WouldPay(bc, n, price) = {x \in 1 .. n : v[x] >= price}
  BY DEF WouldPay
<1>11. /\ \A m \in 1 .. n : Firsts(p, m) \subseteq {x \in 1 .. n : v[x] >= v[p[m]]}
       /\ \A k \in 1 .. n : \E m \in 1 .. n :
            v[p[m]] = v[k] /\ Firsts(p, m) = {x \in 1 .. n : v[x] >= v[k]}
  <2> HIDE DEF v
  <2> QED
    BY <1>2, <1>5, <1>9, PrefixesAre
<1> HIDE DEF v
<1>12. Rises(t, n) /\ \E q : Orders(t, c, n, q)
  BY <1>1, <1>2, <1>7, <1>8, SortedIs
<1>13. PICK q : Orders(t, c, n, q)
  BY <1>12
<1>14. /\ t \in [1 .. n -> Point] /\ Len(t) = n
       /\ \A i \in 1 .. n : q[i] \in 1 .. n /\ t[i] = c[q[i]]
       /\ \A i \in 1 .. n : \E k \in 1 .. n : q[k] = i /\ t[k] = c[i]
  <2>1. c \in [1 .. n -> Point]
    BY <1>8
  <2>2. t \in [1 .. n -> Point] /\ Len(t) = n
    BY <1>13, <2>1, OrdersIs
  <2>3. \A i \in 1 .. n : q[i] \in 1 .. n /\ t[i] = c[q[i]]
    BY <1>13 DEF Orders, Bijection, Injection
  <2>4. \A i \in 1 .. n : \E k \in 1 .. n : q[k] = i /\ t[k] = c[i]
    <3>1. \A i \in 1 .. n : \E k \in 1 .. n : q[k] = i
      BY <1>13 DEF Orders, Bijection, Surjection
    <3>2. ASSUME NEW i \in 1 .. n PROVE \E k \in 1 .. n : q[k] = i /\ t[k] = c[i]
      <4>1. PICK k \in 1 .. n : q[k] = i
        BY <3>1
      <4>2. t[k] = c[i]
        BY <2>3, <4>1
      <4> QED
        BY <4>1, <4>2
    <3> QED
      BY <3>2
  <2> QED
    BY <2>2, <2>3, <2>4
<1>15. ASSUME NEW i \in 1 .. n
       PROVE  /\ \E k \in 1 .. n : bc[k].PricePerUnit = t[i].PricePerUnit
              /\ t[i].Units <= Total(bc, WouldPay(bc, n, t[i].PricePerUnit))
              /\ t[i].PricePerUnit <= t[n].PricePerUnit
  <2>1. PICK m \in 1 .. n : m = q[i]
    BY <1>14
  <2>2. PICK k \in 1 .. n : k = p[m]
    BY <1>6
  <2>3. /\ t[i].PricePerUnit = bc[k].PricePerUnit
        /\ t[i].Units = Total(bc, Firsts(p, m))
    <3>1. t[i] = c[m]
      BY <1>14, <2>1
    <3>2. s[m] = bc[k]
      BY <1>6, <2>2
    <3>3. c[m].PricePerUnit = s[m].PricePerUnit /\ c[m].Units = Total(bc, Firsts(p, m))
      BY <1>8
    <3> QED
      BY <3>1, <3>2, <3>3
  <2>4. Firsts(p, m) \subseteq WouldPay(bc, n, bc[k].PricePerUnit)
    <3>1. WouldPay(bc, n, bc[k].PricePerUnit) = {x \in 1 .. n : v[x] >= v[k]}
      BY <1>9, <1>10
    <3> QED
      BY <1>11, <2>2, <3>1
  <2>5. Total(bc, Firsts(p, m)) <= Total(bc, WouldPay(bc, n, bc[k].PricePerUnit))
    <3>1. WouldPay(bc, n, bc[k].PricePerUnit) \subseteq 1 .. n
      BY DEF WouldPay
    <3> QED
      BY <1>2, <2>4, <3>1, TotalIs
  <2>6. t[i].PricePerUnit <= t[n].PricePerUnit
    BY <1>2, <1>12 DEF Rises
  <2> QED
    BY <2>3, <2>5, <2>6
<1>16. ASSUME NEW k \in 1 .. n
       PROVE  \E i \in 1 .. n : /\ t[i].PricePerUnit = bc[k].PricePerUnit
                                /\ t[i].Units = Total(bc, WouldPay(bc, n, bc[k].PricePerUnit))
  <2>1. PICK m \in 1 .. n : v[p[m]] = v[k] /\ Firsts(p, m) = {x \in 1 .. n : v[x] >= v[k]}
    BY <1>11
  <2>2. PICK i \in 1 .. n : t[i] = c[m]
    BY <1>14
  <2>3. t[i].PricePerUnit = bc[k].PricePerUnit
    <3>1. p[m] \in 1 .. n /\ s[m] = bc[p[m]] /\ t[i].PricePerUnit = s[m].PricePerUnit
      BY <1>6, <1>8, <2>2
    <3>2. bc[p[m]].PricePerUnit = bc[k].PricePerUnit
      BY <1>9, <2>1, <3>1
    <3> QED
      BY <3>1, <3>2
  <2>4. t[i].Units = Total(bc, WouldPay(bc, n, bc[k].PricePerUnit))
    BY <1>8, <1>9, <1>10, <2>1, <2>2
  <2> QED
    BY <2>3, <2>4
<1> QED
  BY <1>14, <1>15, <1>16 DEF BuyersStack

LEMMA SellersStackIs ==
  ASSUME NEW n \in Nat, n # 0, NEW bc \in [1 .. n -> Bid], NEW t \in Stack(bc, "Sellers")
  PROVE  SellersStack(t, bc, n)
<1> DEFINE v == [x \in 1 .. n |-> - bc[x].PricePerUnit]
<1>1. PICK s \in Sorted(bc) : t \in ReverseSorted(Cumulated(s))
  BY DEF Stack
<1>2. /\ bc \in [1 .. n -> Point] /\ n \in Nat /\ n \in 1 .. n
      /\ \A x \in 1 .. n : bc[x].PricePerUnit \in Nat
  BY BidIsPoint DEF Point
<1>3. Rises(s, n) /\ \E p : Orders(s, bc, n, p)
  BY <1>1, <1>2, SortedIs
<1>4. PICK p : Orders(s, bc, n, p)
  BY <1>3
<1>5. p \in Bijection(1 .. n, 1 .. n) /\ s = [i \in 1 .. n |-> bc[p[i]]]
  BY <1>4 DEF Orders
<1>6. \A i \in 1 .. n : p[i] \in 1 .. n /\ s[i] = bc[p[i]]
  BY <1>5 DEF Bijection, Injection
<1>7. PICK c : c = Cumulated(s)
  OBVIOUS
<1>8. /\ c \in [1 .. n -> Point]
      /\ \A m \in 1 .. n : /\ c[m].PricePerUnit = s[m].PricePerUnit
                           /\ c[m].Units = Total(bc, Firsts(p, m))
  <2>1. /\ Cumulated(s) \in [1 .. n -> Point]
        /\ \A m \in 1 .. n : /\ Cumulated(s)[m].PricePerUnit = s[m].PricePerUnit
                             /\ Cumulated(s)[m].Units = Total(bc, Firsts(p, m))
    BY <1>2, <1>4, CumulatedIs
  <2> QED
    BY <1>7, <2>1
<1>9. /\ v \in [1 .. n -> Int]
      /\ \A x \in 1 .. n : v[x] = - bc[x].PricePerUnit
      /\ \A i, j \in 1 .. n : i <= j => v[p[i]] >= v[p[j]]
  <2>1. \A i \in 1 .. n : v[p[i]] = - s[i].PricePerUnit
    BY <1>6
  <2>2. \A i, j \in 1 .. n : i <= j => v[p[i]] >= v[p[j]]
    <3>1. \A i \in 1 .. n : s[i].PricePerUnit \in Nat
      BY <1>2, <1>6
    <3> QED
      BY <1>3, <2>1, <3>1 DEF Rises
  <2>3. v \in [1 .. n -> Int] /\ \A x \in 1 .. n : v[x] = - bc[x].PricePerUnit
    BY <1>2
  <2> QED
    BY <2>2, <2>3
<1>10. \A price \in Nat : WouldTake(bc, n, price) = {x \in 1 .. n : v[x] >= - price}
  <2>1. \A price \in Nat, x \in 1 .. n : bc[x].PricePerUnit <= price <=> v[x] >= - price
    BY <1>2, <1>9
  <2> QED
    BY <2>1 DEF WouldTake
<1>11. /\ \A m \in 1 .. n : Firsts(p, m) \subseteq {x \in 1 .. n : v[x] >= v[p[m]]}
       /\ \A k \in 1 .. n : \E m \in 1 .. n :
            v[p[m]] = v[k] /\ Firsts(p, m) = {x \in 1 .. n : v[x] >= v[k]}
  <2> HIDE DEF v
  <2> QED
    BY <1>2, <1>5, <1>9, PrefixesAre
<1> HIDE DEF v
<1>12. Falls(t, n) /\ \E q : Orders(t, c, n, q)
  BY <1>1, <1>2, <1>7, <1>8, ReverseSortedIs
<1>13. PICK q : Orders(t, c, n, q)
  BY <1>12
<1>14. /\ t \in [1 .. n -> Point] /\ Len(t) = n
       /\ \A i \in 1 .. n : q[i] \in 1 .. n /\ t[i] = c[q[i]]
       /\ \A i \in 1 .. n : \E k \in 1 .. n : q[k] = i /\ t[k] = c[i]
  <2>1. c \in [1 .. n -> Point]
    BY <1>8
  <2>2. t \in [1 .. n -> Point] /\ Len(t) = n
    BY <1>13, <2>1, OrdersIs
  <2>3. \A i \in 1 .. n : q[i] \in 1 .. n /\ t[i] = c[q[i]]
    BY <1>13 DEF Orders, Bijection, Injection
  <2>4. \A i \in 1 .. n : \E k \in 1 .. n : q[k] = i /\ t[k] = c[i]
    <3>1. \A i \in 1 .. n : \E k \in 1 .. n : q[k] = i
      BY <1>13 DEF Orders, Bijection, Surjection
    <3>2. ASSUME NEW i \in 1 .. n PROVE \E k \in 1 .. n : q[k] = i /\ t[k] = c[i]
      <4>1. PICK k \in 1 .. n : q[k] = i
        BY <3>1
      <4>2. t[k] = c[i]
        BY <2>3, <4>1
      <4> QED
        BY <4>1, <4>2
    <3> QED
      BY <3>2
  <2> QED
    BY <2>2, <2>3, <2>4
<1>15. ASSUME NEW i \in 1 .. n
       PROVE  /\ \E k \in 1 .. n : bc[k].PricePerUnit = t[i].PricePerUnit
              /\ t[i].Units <= Total(bc, WouldTake(bc, n, t[i].PricePerUnit))
              /\ t[n].PricePerUnit <= t[i].PricePerUnit
  <2>1. PICK m \in 1 .. n : m = q[i]
    BY <1>14
  <2>2. PICK k \in 1 .. n : k = p[m]
    BY <1>6
  <2>3. /\ t[i].PricePerUnit = bc[k].PricePerUnit
        /\ t[i].Units = Total(bc, Firsts(p, m))
    <3>1. t[i] = c[m]
      BY <1>14, <2>1
    <3>2. s[m] = bc[k]
      BY <1>6, <2>2
    <3>3. c[m].PricePerUnit = s[m].PricePerUnit /\ c[m].Units = Total(bc, Firsts(p, m))
      BY <1>8
    <3> QED
      BY <3>1, <3>2, <3>3
  <2>4. Firsts(p, m) \subseteq WouldTake(bc, n, bc[k].PricePerUnit)
    <3>1. WouldTake(bc, n, bc[k].PricePerUnit) = {x \in 1 .. n : v[x] >= v[k]}
      BY <1>2, <1>9, <1>10
    <3> QED
      BY <1>11, <2>2, <3>1
  <2>5. Total(bc, Firsts(p, m)) <= Total(bc, WouldTake(bc, n, bc[k].PricePerUnit))
    <3>1. WouldTake(bc, n, bc[k].PricePerUnit) \subseteq 1 .. n
      BY DEF WouldTake
    <3> QED
      BY <1>2, <2>4, <3>1, TotalIs
  <2>6. t[n].PricePerUnit <= t[i].PricePerUnit
    BY <1>2, <1>12 DEF Falls
  <2> QED
    BY <2>3, <2>5, <2>6
<1>16. ASSUME NEW k \in 1 .. n
       PROVE  \E i \in 1 .. n : /\ t[i].PricePerUnit = bc[k].PricePerUnit
                                /\ t[i].Units = Total(bc, WouldTake(bc, n, bc[k].PricePerUnit))
  <2>1. PICK m \in 1 .. n : v[p[m]] = v[k] /\ Firsts(p, m) = {x \in 1 .. n : v[x] >= v[k]}
    BY <1>11
  <2>2. PICK i \in 1 .. n : t[i] = c[m]
    BY <1>14
  <2>3. t[i].PricePerUnit = bc[k].PricePerUnit
    <3>1. p[m] \in 1 .. n /\ s[m] = bc[p[m]] /\ t[i].PricePerUnit = s[m].PricePerUnit
      BY <1>6, <1>8, <2>2
    <3>2. bc[p[m]].PricePerUnit = bc[k].PricePerUnit
      <4>1. - bc[p[m]].PricePerUnit = - bc[k].PricePerUnit
        BY <1>9, <2>1, <3>1
      <4> QED
        BY <1>2, <3>1, <4>1
    <3> QED
      BY <3>1, <3>2
  <2>4. t[i].Units = Total(bc, WouldTake(bc, n, bc[k].PricePerUnit))
    <3>1. WouldTake(bc, n, bc[k].PricePerUnit) = {x \in 1 .. n : v[x] >= v[k]}
      BY <1>2, <1>9, <1>10
    <3> QED
      BY <1>8, <2>1, <2>2, <3>1
  <2> QED
    BY <2>3, <2>4
<1> QED
  BY <1>14, <1>15, <1>16 DEF SellersStack

-----------------------------------------------------------------------------
\* What is wanted, and offered, at a price, and what a buyer k and a seller l
\* leave to trade between their two prices.
DemandAt(bc, m, price) == Total(bc, WouldPay(bc, m, price))
SupplyAt(sc, n, price) == Total(sc, WouldTake(sc, n, price))
VolumeOf(bc, m, sc, n, k, l) ==
  Min({DemandAt(bc, m, bc[k].PricePerUnit), SupplyAt(sc, n, sc[l].PricePerUnit)})

Meet(bc, sc, k, l) == bc[k].PricePerUnit >= sc[l].PricePerUnit

\* r trades between some buyer and seller that meet, no other two that do leave
\* more, and those that leave as much have no higher prices.
Clears(r, bc, m, sc, n) ==
  /\ \E k \in 1 .. m, l \in 1 .. n :
       /\ Meet(bc, sc, k, l)
       /\ r.PriceSum = bc[k].PricePerUnit + sc[l].PricePerUnit
       /\ r.Units = VolumeOf(bc, m, sc, n, k, l)
  /\ \A k \in 1 .. m, l \in 1 .. n : Meet(bc, sc, k, l) =>
       \/ VolumeOf(bc, m, sc, n, k, l) < r.Units
       \/ /\ VolumeOf(bc, m, sc, n, k, l) = r.Units
          /\ bc[k].PricePerUnit + sc[l].PricePerUnit <= r.PriceSum

LEMMA DemandIs ==
  ASSUME NEW n \in Nat, NEW bc \in [1 .. n -> Bid], NEW x \in Nat
  PROVE  /\ DemandAt(bc, n, x) \in Nat
         /\ \A y \in Nat : x <= y => DemandAt(bc, n, y) <= DemandAt(bc, n, x)
         /\ DemandAt(bc, n, x) = 0
            \/ \E k \in 1 .. n : /\ bc[k].PricePerUnit >= x
                                 /\ DemandAt(bc, n, x) = DemandAt(bc, n, bc[k].PricePerUnit)
<1>1. \A k \in 1 .. n : bc[k].PricePerUnit \in Nat
  BY BidIsPoint DEF Point
<1>2. \A y : WouldPay(bc, n, y) \subseteq 1 .. n
  BY DEF WouldPay
<1>3. DemandAt(bc, n, x) \in Nat
  BY <1>2, TotalIs DEF DemandAt
<1>4. ASSUME NEW y \in Nat, x <= y PROVE DemandAt(bc, n, y) <= DemandAt(bc, n, x)
  <2>1. WouldPay(bc, n, y) \subseteq WouldPay(bc, n, x)
    BY <1>1, <1>4 DEF WouldPay
  <2> QED
    BY <1>2, <2>1, TotalIs DEF DemandAt
<1>5. CASE WouldPay(bc, n, x) = {}
  <2>1. DemandAt(bc, n, x) = 0
    BY <1>5, TotalIs DEF DemandAt
  <2> QED
    BY <1>3, <1>4, <2>1
<1>6. CASE WouldPay(bc, n, x) # {}
  <2> DEFINE B == {bc[k].PricePerUnit : k \in WouldPay(bc, n, x)}
  <2>1. B \subseteq Nat /\ B # {}
    BY <1>1, <1>2, <1>6
  <2>2. PICK y \in B : \A z \in B : y <= z
    <3> HIDE DEF B
    <3> QED
      BY <2>1, LeastNat
  <2>3. PICK k \in 1 .. n : bc[k].PricePerUnit = y /\ y >= x
    BY DEF WouldPay
  <2>4. WouldPay(bc, n, x) = WouldPay(bc, n, y)
    <3>1. \A l \in WouldPay(bc, n, x) : bc[l].PricePerUnit >= y
      BY <2>2
    <3>2. WouldPay(bc, n, x) \subseteq WouldPay(bc, n, y)
      BY <1>2, <3>1 DEF WouldPay
    <3>3. WouldPay(bc, n, y) \subseteq WouldPay(bc, n, x)
      BY <1>1, <2>3 DEF WouldPay
    <3> QED
      BY <3>2, <3>3
  <2> QED
    BY <1>3, <1>4, <2>3, <2>4 DEF DemandAt
<1> QED
  BY <1>5, <1>6

LEMMA SupplyIs ==
  ASSUME NEW n \in Nat, NEW sc \in [1 .. n -> Bid], NEW x \in Nat
  PROVE  /\ SupplyAt(sc, n, x) \in Nat
         /\ \A y \in Nat : x <= y => SupplyAt(sc, n, x) <= SupplyAt(sc, n, y)
         /\ SupplyAt(sc, n, x) = 0
            \/ \E l \in 1 .. n : /\ sc[l].PricePerUnit <= x
                                 /\ SupplyAt(sc, n, x) = SupplyAt(sc, n, sc[l].PricePerUnit)
<1>1. \A k \in 1 .. n : sc[k].PricePerUnit \in Nat
  BY BidIsPoint DEF Point
<1>2. \A y : WouldTake(sc, n, y) \subseteq 1 .. n
  BY DEF WouldTake
<1>3. SupplyAt(sc, n, x) \in Nat
  BY <1>2, TotalIs DEF SupplyAt
<1>4. ASSUME NEW y \in Nat, x <= y PROVE SupplyAt(sc, n, x) <= SupplyAt(sc, n, y)
  <2>1. WouldTake(sc, n, x) \subseteq WouldTake(sc, n, y)
    BY <1>1, <1>4 DEF WouldTake
  <2> QED
    BY <1>2, <2>1, TotalIs DEF SupplyAt
<1>5. CASE WouldTake(sc, n, x) = {}
  <2>1. SupplyAt(sc, n, x) = 0
    BY <1>5, TotalIs DEF SupplyAt
  <2> QED
    BY <1>3, <1>4, <2>1
<1>6. CASE WouldTake(sc, n, x) # {}
  <2> DEFINE B == {x - sc[k].PricePerUnit : k \in WouldTake(sc, n, x)}
  <2>1. B \subseteq Nat /\ B # {}
    <3>1. ASSUME NEW k \in WouldTake(sc, n, x) PROVE x - sc[k].PricePerUnit \in Nat
      BY <1>1 DEF WouldTake
    <3> QED
      BY <1>6, <3>1
  <2>2. PICK y \in B : \A z \in B : y <= z
    <3> HIDE DEF B
    <3> QED
      BY <2>1, LeastNat
  <2>3. PICK k \in WouldTake(sc, n, x) : x - sc[k].PricePerUnit = y
    OBVIOUS
  <2>4. k \in 1 .. n /\ sc[k].PricePerUnit <= x
    BY <2>3 DEF WouldTake
  <2>5. WouldTake(sc, n, x) = WouldTake(sc, n, sc[k].PricePerUnit)
    <3>1. \A l \in WouldTake(sc, n, x) : sc[l].PricePerUnit <= sc[k].PricePerUnit
      <4> SUFFICES ASSUME NEW l \in WouldTake(sc, n, x)
                   PROVE  sc[l].PricePerUnit <= sc[k].PricePerUnit
        OBVIOUS
      <4>1. x - sc[k].PricePerUnit <= x - sc[l].PricePerUnit
        BY <2>2, <2>3
      <4> QED
        BY <1>1, <1>2, <2>4, <4>1
    <3>2. WouldTake(sc, n, x) \subseteq WouldTake(sc, n, sc[k].PricePerUnit)
      BY <1>2, <3>1 DEF WouldTake
    <3>3. WouldTake(sc, n, sc[k].PricePerUnit) \subseteq WouldTake(sc, n, x)
      BY <1>1, <2>4 DEF WouldTake
    <3> QED
      BY <3>2, <3>3
  <2> QED
    BY <1>3, <1>4, <2>4, <2>5 DEF SupplyAt
<1> QED
  BY <1>5, <1>6

LEMMA VolumeIs ==
  ASSUME NEW m \in Nat, NEW bc \in [1 .. m -> Bid], NEW n \in Nat, NEW sc \in [1 .. n -> Bid],
         NEW k \in 1 .. m, NEW l \in 1 .. n
  PROVE  Lesser(VolumeOf(bc, m, sc, n, k, l),
                DemandAt(bc, m, bc[k].PricePerUnit), SupplyAt(sc, n, sc[l].PricePerUnit))
<1>1. bc[k].PricePerUnit \in Nat /\ sc[l].PricePerUnit \in Nat
  BY BidIsPoint DEF Point
<1>2. PICK d \in Nat : d = DemandAt(bc, m, bc[k].PricePerUnit)
  BY <1>1, DemandIs
<1>3. PICK s \in Nat : s = SupplyAt(sc, n, sc[l].PricePerUnit)
  BY <1>1, SupplyIs
<1>4. d \in Int /\ s \in Int /\ VolumeOf(bc, m, sc, n, k, l) = Min({d, s})
  BY <1>2, <1>3 DEF VolumeOf
<1>5. Min({d, s}) <= d /\ Min({d, s}) <= s /\ (Min({d, s}) = d \/ Min({d, s}) = s)
  BY <1>4, MinIs
<1> QED
  BY <1>2, <1>3, <1>4, <1>5 DEF Lesser

\* What Settle returns for the stacks of two collections.
LEMMA SettleIs ==
  ASSUME NEW m \in Nat, m # 0, NEW bc \in [1 .. m -> Bid],
         NEW n \in Nat, n # 0, NEW sc \in [1 .. n -> Bid],
         NEW b, BuyersStack(b, bc, m), NEW s, SellersStack(s, sc, n),
         NEW r, r = Settle(b, s)
  PROVE  \/ r = ErrNoPrice /\ \A k \in 1 .. m, l \in 1 .. n : ~ Meet(bc, sc, k, l)
         \/ r # ErrNoPrice /\ r.Units \in Nat /\ r.PriceSum \in Nat /\ Clears(r, bc, m, sc, n)
<1>1. /\ b \in [1 .. m -> Point] /\ Len(b) = m
      /\ s \in [1 .. n -> Point] /\ Len(s) = n
      /\ m \in 1 .. m /\ n \in 1 .. n
  <2>1. m \in 1 .. m /\ n \in 1 .. n
    OBVIOUS
  <2> QED
    BY <2>1 DEF BuyersStack, SellersStack
<1>2. /\ \A i \in 1 .. m : b[i] \in Point /\ b[i].PricePerUnit \in Nat /\ b[i].Units \in Nat
      /\ \A i \in 1 .. n : s[i] \in Point /\ s[i].PricePerUnit \in Nat /\ s[i].Units \in Nat
  BY <1>1 DEF Point
<1>3. /\ \A k \in 1 .. m : bc[k].PricePerUnit \in Nat
      /\ \A l \in 1 .. n : sc[l].PricePerUnit \in Nat
  BY BidIsPoint DEF Point
<1>4. CASE b[m].PricePerUnit < s[n].PricePerUnit
  <2>1. r = ErrNoPrice
    BY <1>1, <1>4 DEF Settle
  <2>2. ASSUME NEW k \in 1 .. m, NEW l \in 1 .. n PROVE ~ Meet(bc, sc, k, l)
    <3>1. PICK i \in 1 .. m : b[i].PricePerUnit = bc[k].PricePerUnit
      BY DEF BuyersStack
    <3>2. PICK j \in 1 .. n : s[j].PricePerUnit = sc[l].PricePerUnit
      BY DEF SellersStack
    <3>3. b[i].PricePerUnit <= b[m].PricePerUnit /\ s[n].PricePerUnit <= s[j].PricePerUnit
      BY DEF BuyersStack, SellersStack
    <3> QED
      BY <1>1, <1>2, <1>3, <1>4, <3>1, <3>2, <3>3 DEF Meet
  <2> QED
    BY <2>1, <2>2
<1>5. CASE ~ (b[m].PricePerUnit < s[n].PricePerUnit)
  <2>1. r = BestTrade(b, s)
    BY <1>1, <1>5 DEF Settle
  <2>2. /\ r \in Outcomes
        /\ r = Panic \/ \E i \in 1 .. m, j \in 1 .. n : Open(b[i], s[j]) /\ r = Trade(b[i], s[j])
        /\ \A i \in 1 .. m, j \in 1 .. n : Open(b[i], s[j]) => AsGood(r, Trade(b[i], s[j]))
    <3>1. r \in Outcomes
      BY <1>1, <2>1, BestTradeIs
    <3>2. BestOf(r, b, m, s, n)
      BY <1>1, <2>1, BestTradeIs
    <3> QED
      BY <3>1, <3>2 DEF BestOf
  <2>3. r # Panic
    <3>1. Open(b[m], s[n])
      BY <1>1, <1>2, <1>5 DEF Open
    <3>2. AsGood(r, Trade(b[m], s[n]))
      BY <1>1, <2>2, <3>1
    <3>3. Trade(b[m], s[n]).Units \in Nat
      BY <1>1, <1>2, TradeIs DEF Lesser
    <3>4. Panic.Units = -1
      BY DEF Panic
    <3> QED
      BY <3>2, <3>3, <3>4 DEF AsGood, Better
  <2>4. PICK i \in 1 .. m, j \in 1 .. n : Open(b[i], s[j]) /\ r = Trade(b[i], s[j])
    BY <2>2, <2>3
  <2>5. /\ r.err = FALSE /\ r.Units \in Nat
        /\ r.PriceSum = b[i].PricePerUnit + s[j].PricePerUnit
        /\ r.Units <= b[i].Units /\ r.Units <= s[j].Units
    <3>1. b[i] \in Point /\ s[j] \in Point
      BY <1>2
    <3>2. Lesser(r.Units, b[i].Units, s[j].Units)
      BY <2>4, <3>1, TradeIs
    <3>3. r.err = FALSE
      BY <2>4 DEF Trade
    <3>4. r.PriceSum = b[i].PricePerUnit + s[j].PricePerUnit
      BY <2>4, <3>1, TradeIs
    <3> QED
      BY <3>2, <3>3, <3>4 DEF Lesser
  <2>6. r # ErrNoPrice
    BY <2>5 DEF ErrNoPrice
  \* What two that meet leave to trade is among the trades of the stacks.
  <2>7. ASSUME NEW k \in 1 .. m, NEW l \in 1 .. n, Meet(bc, sc, k, l)
        PROVE  \/ VolumeOf(bc, m, sc, n, k, l) < r.Units
               \/ /\ VolumeOf(bc, m, sc, n, k, l) = r.Units
                  /\ bc[k].PricePerUnit + sc[l].PricePerUnit <= r.PriceSum
    <3>1. PICK g \in 1 .. m : /\ b[g].PricePerUnit = bc[k].PricePerUnit
                              /\ b[g].Units = DemandAt(bc, m, bc[k].PricePerUnit)
      BY DEF BuyersStack, DemandAt
    <3>2. PICK h \in 1 .. n : /\ s[h].PricePerUnit = sc[l].PricePerUnit
                              /\ s[h].Units = SupplyAt(sc, n, sc[l].PricePerUnit)
      BY DEF SellersStack, SupplyAt
    <3>3. Open(b[g], s[h])
      BY <2>7, <3>1, <3>2 DEF Open, Meet
    <3>4. AsGood(r, Trade(b[g], s[h]))
      BY <2>2, <3>3
    <3>5. PICK v : v = VolumeOf(bc, m, sc, n, k, l)
      OBVIOUS
    <3>6. v \in Nat /\ Trade(b[g], s[h]).Units = v
      <4>1. b[g] \in Point /\ s[h] \in Point
        BY <1>2
      <4>2. Lesser(Trade(b[g], s[h]).Units, b[g].Units, s[h].Units)
        BY <4>1, TradeIs
      <4>3. Lesser(v, b[g].Units, s[h].Units)
        <5>1. Lesser(v, DemandAt(bc, m, bc[k].PricePerUnit), SupplyAt(sc, n, sc[l].PricePerUnit))
          BY <3>5, VolumeIs
        <5> QED
          BY <3>1, <3>2, <5>1
      <4> QED
        BY <1>2, <4>2, <4>3 DEF Lesser
    <3>7. /\ Trade(b[g], s[h]).PriceSum = bc[k].PricePerUnit + sc[l].PricePerUnit
          /\ bc[k].PricePerUnit + sc[l].PricePerUnit \in Nat
      <4>1. b[g] \in Point /\ s[h] \in Point
        BY <1>2
      <4>2. Trade(b[g], s[h]).PriceSum = b[g].PricePerUnit + s[h].PricePerUnit
        BY <4>1, TradeIs
      <4> QED
        BY <1>3, <3>1, <3>2, <4>2
    <3>8. r.PriceSum \in Nat
      BY <1>2, <2>5
    <3>9. ~ (v > r.Units) /\ ~ (v = r.Units /\ bc[k].PricePerUnit + sc[l].PricePerUnit > r.PriceSum)
      BY <3>4, <3>6, <3>7 DEF AsGood, Better
    <3> QED
      BY <2>5, <3>5, <3>6, <3>7, <3>8, <3>9
  <2>8. PICK k \in 1 .. m : /\ bc[k].PricePerUnit = b[i].PricePerUnit
                            /\ b[i].Units <= DemandAt(bc, m, b[i].PricePerUnit)
    BY DEF BuyersStack, DemandAt
  <2>9. PICK l \in 1 .. n : /\ sc[l].PricePerUnit = s[j].PricePerUnit
                            /\ s[j].Units <= SupplyAt(sc, n, s[j].PricePerUnit)
    BY DEF SellersStack, SupplyAt
  <2>10. Meet(bc, sc, k, l) /\ r.PriceSum = bc[k].PricePerUnit + sc[l].PricePerUnit
    BY <2>4, <2>5, <2>8, <2>9 DEF Open, Meet
  <2>11. r.Units = VolumeOf(bc, m, sc, n, k, l)
    <3>1. PICK v : v = VolumeOf(bc, m, sc, n, k, l)
      OBVIOUS
    <3>2. PICK d \in Nat : d = DemandAt(bc, m, bc[k].PricePerUnit)
      BY <1>3, DemandIs
    <3>3. PICK c \in Nat : c = SupplyAt(sc, n, sc[l].PricePerUnit)
      BY <1>3, SupplyIs
    <3>4. v \in Nat /\ (v = d \/ v = c)
      <4>1. Lesser(v, d, c)
        BY <3>1, <3>2, <3>3, VolumeIs
      <4> QED
        BY <4>1 DEF Lesser
    <3>5. r.Units <= d /\ r.Units <= c
      <4>1. b[i].Units <= d /\ s[j].Units <= c
        BY <2>8, <2>9, <3>2, <3>3
      <4> QED
        BY <1>2, <2>5, <4>1
    <3>6. v < r.Units \/ v = r.Units
      BY <2>7, <2>10, <3>1
    <3> QED
      BY <2>5, <3>1, <3>4, <3>5, <3>6
  <2>12. Clears(r, bc, m, sc, n)
    BY <2>7, <2>10, <2>11 DEF Clears
  <2>13. r.PriceSum \in Nat
    BY <1>3, <2>10
  <2> QED
    BY <2>5, <2>6, <2>12, <2>13
<1> QED
  BY <1>4, <1>5

-----------------------------------------------------------------------------
\* The stacks are stacks of the collections, and the outcome, once there is one,
\* is what Settle returns for them.
AuctionInv ==
  /\ buyers \in BidCollections /\ sellers \in BidCollections
  /\ sb # <<>> => sb \in Stack(buyers, "Buyers")
  /\ ss # <<>> => sb # <<>> /\ ss \in Stack(sellers, "Sellers")
  /\ outcome # NotYet => ss # <<>> /\ outcome = Settle(sb, ss)

LEMMA InitAuctionInv == Init => AuctionInv
  BY DEF Init, AuctionInv

LEMMA NextAuctionInv == AuctionInv /\ [Next]_vars => AuctionInv'
<1> SUFFICES ASSUME AuctionInv, [Next]_vars PROVE AuctionInv'
  OBVIOUS
<1> USE DEF AuctionInv
<1>1. CASE StackBuyers
  BY <1>1 DEF StackBuyers
<1>2. CASE StackSellers
  BY <1>2 DEF StackSellers
<1>3. CASE Match
  BY <1>3 DEF Match
<1>4. CASE UNCHANGED vars
  BY <1>4 DEF vars
<1> QED
  BY <1>1, <1>2, <1>3, <1>4 DEF Next

LEMMA AuctionInvHolds == Spec => []AuctionInv
  BY InitAuctionInv, NextAuctionInv, PTL DEF Spec

\* An outcome is the error, when nobody meets, or clears the market.
Settled(m, n) ==
  /\ buyers \in [1 .. m -> Bid] /\ sellers \in [1 .. n -> Bid]
  /\ \/ outcome = ErrNoPrice /\ \A k \in 1 .. m, l \in 1 .. n : ~ Meet(buyers, sellers, k, l)
     \/ /\ outcome # ErrNoPrice /\ outcome.Units \in Nat /\ outcome.PriceSum \in Nat
        /\ Clears(outcome, buyers, m, sellers, n)

LEMMA OutcomeIsSettled ==
  ASSUME AuctionInv, outcome # NotYet
  PROVE  \E m, n \in Nat : Settled(m, n)
<1>1. /\ buyers \in BidCollections /\ sellers \in BidCollections
      /\ sb \in Stack(buyers, "Buyers") /\ ss \in Stack(sellers, "Sellers")
      /\ outcome = Settle(sb, ss)
  BY DEF AuctionInv
<1>2. PICK m \in 1 .. MaxBids : buyers \in [1 .. m -> Bid]
  BY <1>1 DEF BidCollections
<1>3. PICK n \in 1 .. MaxBids : sellers \in [1 .. n -> Bid]
  BY <1>1 DEF BidCollections
<1>4. m \in Nat /\ m # 0 /\ n \in Nat /\ n # 0
  BY AuctionAssumption
<1>5. BuyersStack(sb, buyers, m)
  BY <1>1, <1>2, <1>4, BuyersStackIs
<1>6. SellersStack(ss, sellers, n)
  BY <1>1, <1>3, <1>4, SellersStackIs
<1>7. \/ outcome = ErrNoPrice /\ \A k \in 1 .. m, l \in 1 .. n : ~ Meet(buyers, sellers, k, l)
      \/ /\ outcome # ErrNoPrice /\ outcome.Units \in Nat /\ outcome.PriceSum \in Nat
         /\ Clears(outcome, buyers, m, sellers, n)
  BY <1>1, <1>2, <1>3, <1>4, <1>5, <1>6, SettleIs
<1> QED
  BY <1>2, <1>3, <1>4, <1>7 DEF Settled

\* The textbook's curves are those of the stacks.
LEMMA CurvesAre ==
  ASSUME NEW m \in Nat, NEW n \in Nat, Settled(m, n)
  PROVE  /\ \A k \in 1 .. m : buyers[k].PricePerUnit \in Prices /\ buyers[k].PricePerUnit \in Nat
         /\ \A l \in 1 .. n : sellers[l].PricePerUnit \in Prices /\ sellers[l].PricePerUnit \in Nat
         /\ \A x \in Nat : /\ Demand(2 * x) = DemandAt(buyers, m, x)
                           /\ Supply(2 * x) = SupplyAt(sellers, n, x)
<1>1. /\ buyers \in [1 .. m -> Bid] /\ sellers \in [1 .. n -> Bid]
      /\ DOMAIN buyers = 1 .. m /\ DOMAIN sellers = 1 .. n
  BY DEF Settled
<1>2. /\ \A k \in 1 .. m : buyers[k].PricePerUnit \in Prices /\ buyers[k].PricePerUnit \in Nat
      /\ \A l \in 1 .. n : sellers[l].PricePerUnit \in Prices /\ sellers[l].PricePerUnit \in Nat
  BY <1>1, AuctionAssumption DEF Bid
<1>3. ASSUME NEW x \in Nat
      PROVE  Demand(2 * x) = DemandAt(buyers, m, x) /\ Supply(2 * x) = SupplyAt(sellers, n, x)
  <2>1. {k \in DOMAIN buyers : 2 * buyers[k].PricePerUnit >= 2 * x} = WouldPay(buyers, m, x)
    <3>1. \A k \in 1 .. m : 2 * buyers[k].PricePerUnit >= 2 * x <=> buyers[k].PricePerUnit >= x
      BY <1>2
    <3> QED
      BY <1>1, <3>1 DEF WouldPay
  <2>2. {l \in DOMAIN sellers : 2 * sellers[l].PricePerUnit <= 2 * x} = WouldTake(sellers, n, x)
    <3>1. \A l \in 1 .. n : 2 * sellers[l].PricePerUnit <= 2 * x <=> sellers[l].PricePerUnit <= x
      BY <1>2
    <3> QED
      BY <1>1, <3>1 DEF WouldTake
  <2> QED
    BY <2>1, <2>2 DEF Demand, Supply, DemandAt, SupplyAt
<1> QED
  BY <1>2, <1>3

-----------------------------------------------------------------------------
LEMMA SettledApart ==
  ASSUME NEW m \in Nat, NEW n \in Nat, Settled(m, n)
  PROVE  outcome = ErrNoPrice <=> Deals = {}
<1>1. /\ DOMAIN buyers = 1 .. m /\ DOMAIN sellers = 1 .. n
  BY DEF Settled
<1>2. Deals = {} <=> \A k \in 1 .. m, l \in 1 .. n : ~ Meet(buyers, sellers, k, l)
  <2>1. ASSUME NEW k \in 1 .. m, NEW l \in 1 .. n, Meet(buyers, sellers, k, l)
        PROVE  Deals # {}
    <3>1. <<buyers[k].PricePerUnit, sellers[l].PricePerUnit>> \in Deals
      BY <1>1, <2>1 DEF Deals, Asked, Offered, Meet
    <3> QED
      BY <3>1
  <2>2. ASSUME NEW d \in Deals
        PROVE  \E k \in 1 .. m, l \in 1 .. n : Meet(buyers, sellers, k, l)
    <3>1. d[1] \in Asked /\ d[2] \in Offered /\ d[1] >= d[2]
      BY DEF Deals
    <3>2. PICK k \in 1 .. m : d[1] = buyers[k].PricePerUnit
      BY <1>1, <3>1 DEF Asked
    <3>3. PICK l \in 1 .. n : d[2] = sellers[l].PricePerUnit
      BY <1>1, <3>1 DEF Offered
    <3> QED
      BY <3>1, <3>2, <3>3 DEF Meet
  <2> QED
    BY <2>1, <2>2
<1> QED
  BY <1>2 DEF Settled, Clears

\* The error is returned exactly when no buyer meets any seller's price: the two
\* price points Settle compares are the highest of the buyers and the lowest of
\* the sellers (dauction.go, Settle).
THEOREM ErrorMeansApart == Spec => []NoPriceOnlyIfApart
<1>1. AuctionInv => NoPriceOnlyIfApart
  BY OutcomeIsSettled, SettledApart DEF NoPriceOnlyIfApart
<1> QED
  BY <1>1, AuctionInvHolds, PTL

\* Nobody is left to trade more at any price than the outcome does.
LEMMA NoPriceTradesMore ==
  ASSUME NEW m \in Nat, NEW n \in Nat, Settled(m, n), outcome # ErrNoPrice, NEW x \in Nat
  PROVE  Lesser(Min({Demand(2 * x), Supply(2 * x)}), Demand(2 * x), Supply(2 * x))
         /\ Min({Demand(2 * x), Supply(2 * x)}) <= outcome.Units
<1>1. /\ buyers \in [1 .. m -> Bid] /\ sellers \in [1 .. n -> Bid]
      /\ outcome.Units \in Nat /\ Clears(outcome, buyers, m, sellers, n)
  BY DEF Settled
<1>2. /\ \A k \in 1 .. m : buyers[k].PricePerUnit \in Nat
      /\ \A l \in 1 .. n : sellers[l].PricePerUnit \in Nat
      /\ Demand(2 * x) = DemandAt(buyers, m, x) /\ Supply(2 * x) = SupplyAt(sellers, n, x)
  BY CurvesAre
<1>3. PICK d \in Nat : d = Demand(2 * x)
  BY <1>1, <1>2, DemandIs
<1>4. PICK s \in Nat : s = Supply(2 * x)
  BY <1>1, <1>2, SupplyIs
<1>5. PICK u : u = Min({d, s})
  OBVIOUS
<1>6. Lesser(u, d, s)
  BY <1>5, MinIs DEF Lesser
<1>7. u <= outcome.Units
  <2>1. CASE d = 0 \/ s = 0
    BY <1>1, <1>6, <2>1 DEF Lesser
  <2>2. CASE d # 0 /\ s # 0
    <3>1. PICK k \in 1 .. m : /\ buyers[k].PricePerUnit >= x
                              /\ d = DemandAt(buyers, m, buyers[k].PricePerUnit)
      <4>1. d = DemandAt(buyers, m, x) /\ d # 0
        BY <1>2, <1>3, <2>2
      <4>2. \E k \in 1 .. m : /\ buyers[k].PricePerUnit >= x
                             /\ DemandAt(buyers, m, x) = DemandAt(buyers, m, buyers[k].PricePerUnit)
        BY <1>1, <4>1, DemandIs
      <4> QED
        BY <4>1, <4>2
    <3>2. PICK l \in 1 .. n : /\ sellers[l].PricePerUnit <= x
                              /\ s = SupplyAt(sellers, n, sellers[l].PricePerUnit)
      <4>1. s = SupplyAt(sellers, n, x) /\ s # 0
        BY <1>2, <1>4, <2>2
      <4>2. \E l \in 1 .. n : /\ sellers[l].PricePerUnit <= x
                             /\ SupplyAt(sellers, n, x) = SupplyAt(sellers, n, sellers[l].PricePerUnit)
        BY <1>1, <4>1, SupplyIs
      <4> QED
        BY <4>1, <4>2
    <3>3. Meet(buyers, sellers, k, l)
      BY <1>2, <3>1, <3>2 DEF Meet
    <3>4. u = VolumeOf(buyers, m, sellers, n, k, l)
      BY <1>5, <3>1, <3>2 DEF VolumeOf
    <3>5. u < outcome.Units \/ u = outcome.Units
      BY <1>1, <3>3, <3>4 DEF Clears
    <3> QED
      BY <1>1, <1>6, <3>5 DEF Lesser
  <2> QED
    BY <2>1, <2>2
<1> QED
  BY <1>3, <1>4, <1>5, <1>6, <1>7

\* The pair that trades, in the textbook's terms.
LEMMA TradesADeal ==
  ASSUME NEW m \in Nat, NEW n \in Nat, Settled(m, n), outcome # ErrNoPrice
  PROVE  \E k \in 1 .. m, l \in 1 .. n :
           /\ Meet(buyers, sellers, k, l)
           /\ outcome.PriceSum = buyers[k].PricePerUnit + sellers[l].PricePerUnit
           /\ Lesser(outcome.Units, Demand(2 * buyers[k].PricePerUnit),
                     Supply(2 * sellers[l].PricePerUnit))
           /\ outcome.Units = Min({Demand(2 * buyers[k].PricePerUnit),
                                   Supply(2 * sellers[l].PricePerUnit)})
<1>1. buyers \in [1 .. m -> Bid] /\ sellers \in [1 .. n -> Bid]
  BY DEF Settled
<1>2. PICK k \in 1 .. m, l \in 1 .. n :
        /\ Meet(buyers, sellers, k, l)
        /\ outcome.PriceSum = buyers[k].PricePerUnit + sellers[l].PricePerUnit
        /\ outcome.Units = VolumeOf(buyers, m, sellers, n, k, l)
  BY DEF Settled, Clears
<1>3. /\ DemandAt(buyers, m, buyers[k].PricePerUnit) = Demand(2 * buyers[k].PricePerUnit)
      /\ SupplyAt(sellers, n, sellers[l].PricePerUnit) = Supply(2 * sellers[l].PricePerUnit)
  BY CurvesAre
<1>4. Lesser(outcome.Units, Demand(2 * buyers[k].PricePerUnit),
             Supply(2 * sellers[l].PricePerUnit))
  BY <1>1, <1>2, <1>3, VolumeIs
<1> QED
  BY <1>2, <1>3, <1>4 DEF VolumeOf

\* The units traded find takers and givers at the very price they are traded at:
\* whoever would pay a price would pay the midpoint with a lower one.
THEOREM TradesAreAcceptable == Spec => []Acceptable
<1>1. ASSUME AuctionInv, outcome \notin {NotYet, ErrNoPrice}
      PROVE  Demand(outcome.PriceSum) >= outcome.Units /\ Supply(outcome.PriceSum) >= outcome.Units
  <2>1. PICK m \in Nat, n \in Nat : Settled(m, n)
    BY <1>1, OutcomeIsSettled
  <2>2. /\ buyers \in [1 .. m -> Bid] /\ sellers \in [1 .. n -> Bid]
        /\ DOMAIN buyers = 1 .. m /\ DOMAIN sellers = 1 .. n
        /\ outcome.Units \in Nat
    BY <1>1, <2>1 DEF Settled
  <2>3. /\ \A i \in 1 .. m : buyers[i].PricePerUnit \in Nat
        /\ \A i \in 1 .. n : sellers[i].PricePerUnit \in Nat
    BY <2>1, CurvesAre
  <2>4. PICK k \in 1 .. m, l \in 1 .. n :
          /\ Meet(buyers, sellers, k, l)
          /\ outcome.PriceSum = buyers[k].PricePerUnit + sellers[l].PricePerUnit
          /\ Lesser(outcome.Units, Demand(2 * buyers[k].PricePerUnit),
                    Supply(2 * sellers[l].PricePerUnit))
    BY <1>1, <2>1, TradesADeal
  <2>5. PICK x \in Nat, y \in Nat : /\ x = buyers[k].PricePerUnit /\ y = sellers[l].PricePerUnit
                                    /\ x >= y /\ outcome.PriceSum = x + y
    BY <2>3, <2>4 DEF Meet
  <2>6. Demand(x + y) >= outcome.Units
    <3> DEFINE I(z) == {i \in 1 .. m : 2 * buyers[i].PricePerUnit >= z}
    <3>1. I(2 * x) \subseteq I(x + y) /\ I(x + y) \subseteq 1 .. m
      <4>1. \A i \in 1 .. m : 2 * buyers[i].PricePerUnit >= 2 * x => 2 * buyers[i].PricePerUnit >= x + y
        BY <2>3, <2>5
      <4> QED
        BY <4>1
    <3>2. \A z : Demand(z) = Total(buyers, I(z))
      BY <2>2 DEF Demand
    <3>3. Total(buyers, I(2 * x)) <= Total(buyers, I(x + y)) /\ Total(buyers, I(x + y)) \in Nat
      <4> HIDE DEF I
      <4>1. I(2 * x) \subseteq 1 .. m
        BY <3>1
      <4> QED
        BY <2>2, <3>1, <4>1, TotalIs
    <3>4. Lesser(outcome.Units, Demand(2 * x), Supply(2 * y))
      BY <2>4, <2>5
    <3>5. outcome.Units <= Demand(2 * x)
      BY <3>4 DEF Lesser
    <3>6. Demand(2 * x) = Total(buyers, I(2 * x)) /\ Demand(x + y) = Total(buyers, I(x + y))
      BY <3>2
    <3>7. Total(buyers, I(2 * x)) \in Nat
      <4> HIDE DEF I
      <4>1. I(2 * x) \subseteq 1 .. m
        BY <3>1
      <4> QED
        BY <2>2, <4>1, TotalIs
    <3> HIDE DEF I
    <3> QED
      BY <2>2, <3>3, <3>5, <3>6, <3>7
  <2>7. Supply(x + y) >= outcome.Units
    <3> DEFINE I(z) == {i \in 1 .. n : 2 * sellers[i].PricePerUnit <= z}
    <3>1. I(2 * y) \subseteq I(x + y) /\ I(x + y) \subseteq 1 .. n
      <4>1. \A i \in 1 .. n : 2 * sellers[i].PricePerUnit <= 2 * y => 2 * sellers[i].PricePerUnit <= x + y
        BY <2>3, <2>5
      <4> QED
        BY <4>1
    <3>2. \A z : Supply(z) = Total(sellers, I(z))
      BY <2>2 DEF Supply
    <3>3. Total(sellers, I(2 * y)) <= Total(sellers, I(x + y)) /\ Total(sellers, I(x + y)) \in Nat
      <4> HIDE DEF I
      <4>1. I(2 * y) \subseteq 1 .. n
        BY <3>1
      <4> QED
        BY <2>2, <3>1, <4>1, TotalIs
    <3>4. Lesser(outcome.Units, Demand(2 * x), Supply(2 * y))
      BY <2>4, <2>5
    <3>5. outcome.Units <= Supply(2 * y)
      BY <3>4 DEF Lesser
    <3>6. Supply(2 * y) = Total(sellers, I(2 * y)) /\ Supply(x + y) = Total(sellers, I(x + y))
      BY <3>2
    <3>7. Total(sellers, I(2 * y)) \in Nat
      <4> HIDE DEF I
      <4>1. I(2 * y) \subseteq 1 .. n
        BY <3>1
      <4> QED
        BY <2>2, <4>1, TotalIs
    <3> HIDE DEF I
    <3> QED
      BY <2>2, <3>3, <3>5, <3>6, <3>7
  <2> QED
    BY <2>5, <2>6, <2>7
<1>2. AuctionInv => Acceptable
  BY <1>1 DEF Acceptable
<1> QED
  BY <1>2, AuctionInvHolds, PTL

\* Whatever the order of the bids and of ties, Settle trades the largest volume
\* that any one price allows, at the highest midpoint at which that volume can
\* be traded (dauction.go, Settle): the textbook's auction knows no order, so two
\* peers that range over their maps differently return the same.
THEOREM SettleClearsTheMarket == Spec => []ClearsTheMarket
<1>1. ASSUME AuctionInv, outcome \notin {NotYet, ErrNoPrice}
      PROVE  /\ outcome.Units = Max({Min({Demand(2 * p), Supply(2 * p)}) : p \in Prices})
             /\ outcome.PriceSum =
                  Max({d[1] + d[2] : d \in {e \in Deals : Volume(e) = outcome.Units}})
  <2>1. PICK m \in Nat, n \in Nat : Settled(m, n)
    BY <1>1, OutcomeIsSettled
  <2>2. /\ buyers \in [1 .. m -> Bid] /\ sellers \in [1 .. n -> Bid]
        /\ DOMAIN buyers = 1 .. m /\ DOMAIN sellers = 1 .. n
        /\ outcome.Units \in Nat /\ outcome.PriceSum \in Nat
        /\ Clears(outcome, buyers, m, sellers, n)
    BY <1>1, <2>1 DEF Settled
  <2>3. /\ \A i \in 1 .. m : buyers[i].PricePerUnit \in Prices /\ buyers[i].PricePerUnit \in Nat
        /\ \A i \in 1 .. n : sellers[i].PricePerUnit \in Prices /\ sellers[i].PricePerUnit \in Nat
        /\ \A x \in Nat : /\ Demand(2 * x) = DemandAt(buyers, m, x)
                          /\ Supply(2 * x) = SupplyAt(sellers, n, x)
    BY <2>1, CurvesAre
  <2>4. PICK k \in 1 .. m, l \in 1 .. n :
          /\ Meet(buyers, sellers, k, l)
          /\ outcome.PriceSum = buyers[k].PricePerUnit + sellers[l].PricePerUnit
          /\ Lesser(outcome.Units, Demand(2 * buyers[k].PricePerUnit),
                    Supply(2 * sellers[l].PricePerUnit))
          /\ outcome.Units = Min({Demand(2 * buyers[k].PricePerUnit),
                                  Supply(2 * sellers[l].PricePerUnit)})
    BY <1>1, <2>1, TradesADeal
  <2>5. PICK x \in Nat, y \in Nat : /\ x = buyers[k].PricePerUnit /\ y = sellers[l].PricePerUnit
                                    /\ x >= y /\ outcome.PriceSum = x + y /\ x \in Prices
    BY <2>3, <2>4 DEF Meet
  <2>6. outcome.Units = Max({Min({Demand(2 * p), Supply(2 * p)}) : p \in Prices})
    <3> DEFINE V(p) == Min({Demand(2 * p), Supply(2 * p)})
               S == {V(p) : p \in Prices}
    <3>1. \A p \in Nat : Lesser(V(p), Demand(2 * p), Supply(2 * p)) /\ V(p) <= outcome.Units
      BY <1>1, <2>1, NoPriceTradesMore
    <3>2. V(x) = outcome.Units
      <4>1. SupplyAt(sellers, n, y) <= SupplyAt(sellers, n, x)
        BY <2>2, <2>5, SupplyIs
      <4>2. SupplyAt(sellers, n, x) \in Nat /\ SupplyAt(sellers, n, y) \in Nat
        BY <2>2, SupplyIs
      <4>3. Lesser(V(x), Demand(2 * x), SupplyAt(sellers, n, x)) /\ V(x) <= outcome.Units
        BY <2>3, <3>1
      <4>4. Lesser(outcome.Units, Demand(2 * x), SupplyAt(sellers, n, y))
        <5>1. Lesser(outcome.Units, Demand(2 * x), Supply(2 * y))
          BY <2>4, <2>5
        <5>2. Supply(2 * y) = SupplyAt(sellers, n, y)
          BY <2>3
        <5> QED
          BY <5>1, <5>2
      <4>5. Demand(2 * x) \in Nat
        <5>1. DemandAt(buyers, m, x) \in Nat
          BY <2>2, DemandIs
        <5> QED
          BY <2>3, <5>1
      <4>6. PICK v, d, s, c : /\ v = V(x) /\ d = Demand(2 * x)
                              /\ s = SupplyAt(sellers, n, x) /\ c = SupplyAt(sellers, n, y)
        OBVIOUS
      <4>7. Lesser(v, d, s) /\ Lesser(outcome.Units, d, c)
        BY <4>3, <4>4, <4>6
      <4>8. d \in Nat /\ s \in Nat /\ c \in Nat /\ c <= s /\ v <= outcome.Units
        BY <4>1, <4>2, <4>3, <4>5, <4>6
      <4>9. v = outcome.Units
        BY <4>7, <4>8 DEF Lesser
      <4> QED
        BY <4>6, <4>9
    <3> HIDE DEF V
    <3>3. \A p \in Prices : V(p) \in Int /\ V(p) <= outcome.Units
      BY <3>1, AuctionAssumption DEF Lesser
    <3>4. S \subseteq Int /\ outcome.Units \in S /\ \A z \in S : z <= outcome.Units
      BY <2>5, <3>2, <3>3
    <3>5. Max(S) = outcome.Units
      <4> HIDE DEF S
      <4> QED
        BY <3>4, MaxIs
    <3> QED
      BY <3>5 DEF V
  <2>7. outcome.PriceSum =
          Max({d[1] + d[2] : d \in {e \in Deals : Volume(e) = outcome.Units}})
    <3> DEFINE E == {e \in Deals : Volume(e) = outcome.Units}
               S == {d[1] + d[2] : d \in E}
    <3>1. ASSUME NEW d \in E PROVE d[1] + d[2] \in Int /\ d[1] + d[2] <= outcome.PriceSum
      <4>1. d[1] \in Asked /\ d[2] \in Offered /\ d[1] >= d[2] /\ Volume(d) = outcome.Units
        BY DEF Deals
      <4>2. PICK i \in 1 .. m : d[1] = buyers[i].PricePerUnit
        BY <2>2, <4>1 DEF Asked
      <4>3. PICK j \in 1 .. n : d[2] = sellers[j].PricePerUnit
        BY <2>2, <4>1 DEF Offered
      <4>4. Meet(buyers, sellers, i, j)
        BY <4>1, <4>2, <4>3 DEF Meet
      <4>5. VolumeOf(buyers, m, sellers, n, i, j) = outcome.Units
        BY <2>3, <4>1, <4>2, <4>3 DEF Volume, VolumeOf
      <4>6. buyers[i].PricePerUnit + sellers[j].PricePerUnit <= outcome.PriceSum
        BY <2>2, <4>4, <4>5 DEF Clears
      <4> QED
        BY <2>3, <4>2, <4>3, <4>6
    <3>2. <<x, y>> \in E
      BY <2>2, <2>4, <2>5 DEF Deals, Asked, Offered, Volume
    <3>3. <<x, y>>[1] + <<x, y>>[2] = outcome.PriceSum
      BY <2>5
    <3> HIDE DEF E
    <3>4. S \subseteq Int /\ outcome.PriceSum \in S /\ \A z \in S : z <= outcome.PriceSum
      BY <3>1, <3>2, <3>3
    <3>5. Max(S) = outcome.PriceSum
      <4> HIDE DEF S
      <4> QED
        BY <3>4, MaxIs
    <3> QED
      BY <3>5 DEF E
  <2> QED
    BY <2>6, <2>7
<1>2. AuctionInv => ClearsTheMarket
  BY <1>1 DEF ClearsTheMarket
<1> QED
  BY <1>2, AuctionInvHolds, PTL
=============================================================================
