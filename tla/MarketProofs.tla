---------------------------- MODULE MarketProofs -----------------------------
(***************************************************************************)
(* Proofs about module Market, for every experiment, trace, number of      *)
(* slots, bidders and retries.                                             *)
(***************************************************************************)
EXTENDS Market, TLAPS

-----------------------------------------------------------------------------
(***************************************************************************)
(* The shapes of calls, transactions and keys.                             *)
(***************************************************************************)
LEMMA BidShape ==
  ASSUME NEW t \in BidTxs
  PROVE  /\ t \in Txs /\ t.call \in BidCalls /\ t.call.op = "bid"
         /\ t.call.row \in Trace /\ Row(t.call) = t.call.row
         /\ t.call.row.slot \in Slots /\ t.call.row.action \in Actions
         /\ t.call.row.bidder \in Bidders
         /\ BidKey(t) \in Keys /\ BidKey(t).priv = FALSE
         /\ BidKey(t).slot = t.call.row.slot
         /\ BidKey(t).action = t.call.row.action
         /\ SlotOf(t.call) = t.call.row.slot
  BY ConstantsAssumption
     DEF BidTxs, BidCalls, Calls, Txs, BidKey, Key, Keys, Actions, Row, SlotOf

LEMMA CallShape ==
  ASSUME NEW c \in Calls
  PROVE  /\ c.op = "bid" => c \in BidCalls
         /\ c.op = "postKey" => c \in PostKeyCalls /\ c.bid \in BidTxs
         /\ c.op = "markEnd" => c \in MarkEndCalls /\ c.slot \in Slots
         /\ c.op \in {"bid", "postKey", "markEnd"}
         /\ SlotOf(c) \in Slots
         /\ c.op # "markEnd" => Row(c) \in Trace /\ Row(c).bidder \in Bidders
  BY ConstantsAssumption, BidShape
     DEF Calls, BidCalls, PostKeyCalls, MarkEndCalls, SlotOf, Row, BidTxs

LEMMA TxShape ==
  ASSUME NEW t \in Txs
  PROVE  /\ t.call \in Calls /\ t.attempt \in Attempts
         /\ t.call.op = "bid" => t \in BidTxs
         /\ t = [call |-> t.call, attempt |-> t.attempt]
  BY CallShape DEF Txs, BidTxs

LEMMA PrivShape ==
  ASSUME NEW k \in Keys
  PROVE  /\ PrivKeyOf(k) \in Keys /\ PrivKeyOf(k).priv = TRUE
         /\ PrivKeyOf(k).slot = k.slot /\ PrivKeyOf(k).action = k.action
         /\ PrivKeyOf(k).tx = k.tx
  BY DEF Keys, PrivKeyOf

LEMMA WriteKeyType ==
  ASSUME NEW t \in Txs
  PROVE  WriteKey(t) \in Keys
<1>1. CASE t.call.op = "bid"
  BY <1>1, TxShape, BidShape DEF WriteKey
<1>2. CASE t.call.op = "postKey"
  BY <1>2, TxShape, CallShape, BidShape, PrivShape DEF WriteKey
<1>3. CASE t.call.op = "markEnd"
  BY <1>3, TxShape, CallShape DEF WriteKey, MarkEndKey, Key, Keys
<1> QED
  BY <1>1, <1>2, <1>3, TxShape, CallShape

LEMMA InvokeKey ==
  ASSUME NEW t \in Txs, NEW st
  PROVE  Invoke(st, t).key = WriteKey(t)
<1>1. CASE t.call.op = "bid"
  BY <1>1 DEF Invoke, Bid, WriteRow, WriteKey
<1>2. CASE t.call.op = "postKey"
  BY <1>2 DEF Invoke, PostKey, WriteRow, WriteKey
<1>3. CASE t.call.op = "markEnd"
  BY <1>3 DEF Invoke, MarkEnd, WriteKey
<1> QED
  BY <1>1, <1>2, <1>3, TxShape, CallShape

-----------------------------------------------------------------------------
(***************************************************************************)
(* Type correctness.                                                       *)
(***************************************************************************)
LEMMA MoveType ==
  ASSUME TypeOK, NEW c \in Calls, NEW s \in CallStates, NEW n \in Attempts,
         Move(c, s, n)
  PROVE  call' \in [Calls -> [st : CallStates, attempt : Attempts]]
<1>1. [st |-> s, attempt |-> n] \in [st : CallStates, attempt : Attempts]
  OBVIOUS
<1> QED
  BY <1>1 DEF Move, TypeOK

LEMMA FailType ==
  ASSUME TypeOK, NEW c \in Calls, Fail(c)
  PROVE  /\ call' \in [Calls -> [st : CallStates, attempt : Attempts]]
         /\ poster' \in [Bidders -> [slot : Nat, busy : BOOLEAN,
                             owed : SUBSET BidTxs, done : SUBSET BidTxs]]
<1>1. call[c].attempt \in Attempts /\ call[c].attempt \in Nat
  BY ConstantsAssumption DEF TypeOK, Attempts
<1>2. MaxAttempts(c) \in Nat /\ MaxAttempts(c) <= RetryCount + 1
  BY ConstantsAssumption DEF MaxAttempts
<1>3. ASSUME NEW b \in Bidders
      PROVE  NextSlot(poster[b]) \in [slot : Nat, busy : BOOLEAN,
                             owed : SUBSET BidTxs, done : SUBSET BidTxs]
  BY DEF NextSlot, TypeOK
<1>4. CASE call[c].attempt < MaxAttempts(c)
  <2>1. call[c].attempt + 1 \in Attempts
    BY <1>1, <1>2, <1>4, ConstantsAssumption DEF Attempts
  <2>2. Move(c, "ready", call[c].attempt + 1) /\ UNCHANGED poster
    BY <1>4 DEF Fail
  <2>3. call' \in [Calls -> [st : CallStates, attempt : Attempts]]
    BY <2>1, <2>2, MoveType DEF CallStates
  <2> QED
    BY <2>2, <2>3 DEF TypeOK
<1>5. CASE ~ (call[c].attempt < MaxAttempts(c))
  <2>1. Move(c, "failed", call[c].attempt)
    BY <1>5 DEF Fail
  <2>2. call' \in [Calls -> [st : CallStates, attempt : Attempts]]
    BY <1>1, <2>1, MoveType DEF CallStates
  <2>3. poster' \in [Bidders -> [slot : Nat, busy : BOOLEAN,
                             owed : SUBSET BidTxs, done : SUBSET BidTxs]]
    <3>1. poster \in [Bidders -> [slot : Nat, busy : BOOLEAN,
                             owed : SUBSET BidTxs, done : SUBSET BidTxs]]
      BY DEF TypeOK
    <3>2. poster' = IF c.op = "postKey"
                      THEN [poster EXCEPT ![Row(c).bidder] = NextSlot(@)]
                      ELSE poster
      BY <1>5 DEF Fail
    <3>3. c.op = "postKey" => Row(c).bidder \in Bidders
      BY CallShape
    <3> QED
      BY <1>3, <3>1, <3>2, <3>3
  <2> QED
    BY <2>2, <2>3
<1> QED
  BY <1>4, <1>5

LEMMA TxType ==
  ASSUME TypeOK, NEW c \in Calls
  PROVE  /\ Tx(c) \in Txs /\ Tx(c).call = c /\ Tx(c).attempt = call[c].attempt
         /\ c \in BidCalls => Tx(c) \in BidTxs
  BY DEF TypeOK, Tx, Txs, BidTxs

LEMMA TypeStep ==
  ASSUME TypeOK, [Next]_vars
  PROVE  TypeOK'
<1> USE DEF CallStates, Move
<1>1. CASE Notify
  BY <1>1, ConstantsAssumption DEF Notify, TypeOK
<1>2. ASSUME NEW c \in BidCalls, StartBid(c) PROVE TypeOK'
  BY <1>2, ConstantsAssumption
     DEF StartBid, Start, TypeOK, ledgerVars, agentVars, Calls, Attempts
<1>3. ASSUME NEW c \in MarkEndCalls, StartMarkEnd(c) PROVE TypeOK'
  BY <1>3, ConstantsAssumption
     DEF StartMarkEnd, Start, TypeOK, ledgerVars, agentVars, Calls, Attempts
<1>4. ASSUME NEW b \in Bidders, Record(b) PROVE TypeOK'
  BY <1>4 DEF Record, TypeOK, ledgerVars
<1>5. ASSUME NEW b \in Bidders, PostKeyBegin(b) PROVE TypeOK'
  BY <1>5 DEF PostKeyBegin, TypeOK, ledgerVars, NextSlot, Recorded
<1>6. ASSUME NEW b \in Bidders, PostKeyEnd(b) PROVE TypeOK'
  BY <1>6 DEF PostKeyEnd, TypeOK, ledgerVars, NextSlot
<1>7. ASSUME NEW b \in Bidders, NEW t \in recent[b], PostKeyNext(b, t)
      PROVE  TypeOK'
  <2>1. t \in BidTxs
    BY DEF TypeOK
  <2>2. [op |-> "postKey", bid |-> t] \in Calls
    BY <2>1 DEF Calls, PostKeyCalls
  <2> QED
    BY <1>7, <2>1, <2>2, ConstantsAssumption
       DEF PostKeyNext, Start, TypeOK, ledgerVars, Attempts
<1>8. ASSUME NEW c \in Calls, Endorse(c) PROVE TypeOK'
  <2>1. Tx(c) \in Txs /\ Invoke(store, Tx(c)).key \in Keys
    BY TxType, InvokeKey, WriteKeyType
  <2>2. call' \in [Calls -> [st : CallStates, attempt : Attempts]]
    <3>1. call[c].attempt \in Attempts /\ Move(c, "waiting", call[c].attempt)
      BY <1>8 DEF Endorse, TypeOK
    <3> QED
      BY <3>1, MoveType DEF CallStates
  <2>3. \A t \in Txs : tx'[t] = "flight" => sim'[t].key \in Keys
    BY <1>8, <2>1 DEF Endorse, TypeOK
  <2> QED
    BY <1>8, <2>1, <2>2, <2>3 DEF Endorse, TypeOK, agentVars
<1>9. ASSUME NEW c \in Calls, Reject(c) PROVE TypeOK'
  BY <1>9, FailType DEF Reject, Fail, TypeOK
<1>10. ASSUME NEW c \in Calls, LoseProposal(c) PROVE TypeOK'
  BY <1>10, FailType DEF LoseProposal, Fail, TypeOK, ledgerVars
<1>11. ASSUME NEW t \in Txs, Commit(t) PROVE TypeOK'
  BY <1>11 DEF Commit, TypeOK, agentVars, Put
<1>12. ASSUME NEW c \in Calls, Return(c) PROVE TypeOK'
  <2>1. CASE Fail(c)
    BY <1>12, <2>1, FailType DEF Return, Fail, TypeOK, ledgerVars
  <2>2. CASE Succeed(c)
    <3>1. recentQ' \in [Bidders -> Seq(BidTxs)]
      BY <2>2, TxType, CallShape DEF Succeed, TypeOK, Row
    <3> QED
      BY <1>12, <2>2, <3>1 DEF Return, Succeed, TypeOK, ledgerVars
  <2> QED
    BY <1>12, <2>1, <2>2 DEF Return
<1>13. ASSUME NEW c \in Calls, Timeout(c) PROVE TypeOK'
  BY <1>13, FailType DEF Timeout, Fail, TypeOK, ledgerVars
<1>14. CASE UNCHANGED vars
  BY <1>14 DEF vars, TypeOK
<1> QED
  BY <1>1, <1>2, <1>3, <1>4, <1>5, <1>6, <1>7, <1>8, <1>9, <1>10, <1>11,
     <1>12, <1>13, <1>14 DEF Next, Step, Poster

\* The ledger and the agents' state keep their types, for every trace and
\* every number of retries.
THEOREM TypeCorrect == Spec => []TypeOK
<1>1. Init => TypeOK
  BY ConstantsAssumption DEF Init, TypeOK, CallStates, Attempts
<1> QED
  BY <1>1, TypeStep, PTL DEF Spec

-----------------------------------------------------------------------------
(***************************************************************************)
(* What a simulation depends on.  A store that differs from st at most     *)
(* under key k, where k is neither read nor in a range iterated by the     *)
(* simulation on st, gives the same simulation.                            *)
(***************************************************************************)
Differ(st, su, k) ==
  /\ DOMAIN su = DOMAIN st \cup {k}
  /\ \A x \in DOMAIN st : x # k => su[x] = st[x]

LEMMA SameLookup ==
  ASSUME NEW st, NEW su, NEW k, Differ(st, su, k), NEW x, x # k
  PROVE  /\ x \in DOMAIN su <=> x \in DOMAIN st
         /\ Version(su, x) = Version(st, x)
         /\ Value(su, x) = Value(st, x)
  BY DEF Differ, Version, Value

LEMMA SameGet ==
  ASSUME NEW st, NEW su, NEW k, Differ(st, su, k), NEW ks, k \notin ks
  PROVE  Get(su, ks) = Get(st, ks)
<1>1. \A x \in ks : Version(su, x) = Version(st, x)
  BY SameLookup
<1> QED
  BY <1>1 DEF Get

LEMMA SameIter ==
  ASSUME NEW st, NEW su, NEW k, Differ(st, su, k), NEW slot, NEW action,
         ~ (k.slot = slot /\ k.action = action)
  PROVE  Iter(su, slot, action) = Iter(st, slot, action)
  BY DEF Differ, Iter

LEMMA SameWriteRow ==
  ASSUME NEW st, NEW su, NEW k, Differ(st, su, k), NEW t, NEW key,
         k \notin DOMAIN WriteRow(st, t, key).reads
  PROVE  WriteRow(su, t, key) = WriteRow(st, t, key)
<1> DEFINE shared == IF ExpNum = 1 THEN {key} ELSE {}
           read == {MarkerKey(SlotOf(t.call))} \cup shared
<1>1. DOMAIN WriteRow(st, t, key).reads = read
  BY DEF WriteRow, Get
<1>2. Get(su, read) = Get(st, read)
  BY <1>1, SameGet
<1>3. Late(su, t) <=> Late(st, t)
  BY <1>1, SameLookup DEF Late
<1>4. ExpNum = 1 => Value(su, key) = Value(st, key)
  BY <1>1, SameLookup
<1> QED
  BY <1>2, <1>3, <1>4 DEF WriteRow

LEMMA SameCollection1 ==
  ASSUME NEW st, NEW su, NEW k, Differ(st, su, k), NEW slot, NEW action,
         k \notin NewBidCollection1(st, slot, action).reads
  PROVE  NewBidCollection1(su, slot, action) = NewBidCollection1(st, slot, action)
<1> DEFINE key == Key(slot, action, NoTx)
           pk == PrivKeyOf(key)
<1>1. key # k
  BY DEF NewBidCollection1
<1>2. /\ key \in DOMAIN su <=> key \in DOMAIN st
      /\ Value(su, key) = Value(st, key)
  BY <1>1, SameLookup
<1>3. CASE key \in DOMAIN st
  <2>1. pk # k
    BY <1>3 DEF NewBidCollection1
  <2>2. /\ pk \in DOMAIN su <=> pk \in DOMAIN st
        /\ Value(su, pk) = Value(st, pk)
    BY <2>1, SameLookup
  <2> QED
    BY <1>2, <2>2 DEF NewBidCollection1
<1>4. CASE key \notin DOMAIN st
  <2>1. Value(st, key) = {} /\ Value(su, key) = {}
    BY <1>2, <1>4 DEF Value
  <2>2. \A rows : Entries(key, {} \cap rows) = {} /\ Entries(key, {} \ rows) = {}
    BY DEF Entries
  <2> QED
    BY <1>2, <1>4, <2>1, <2>2 DEF NewBidCollection1
<1> QED
  BY <1>3, <1>4

LEMMA SameCollection2 ==
  ASSUME NEW st, NEW su, NEW k, Differ(st, su, k), NEW slot, NEW action,
         ~ (k.slot = slot /\ k.action = action)
  PROVE  NewBidCollection2(su, slot, action) = NewBidCollection2(st, slot, action)
<1>1. Iter(su, slot, action) = Iter(st, slot, action)
  BY SameIter
<1>2. \A x \in Iter(st, slot, action) : Value(su, x) = Value(st, x)
  BY SameLookup DEF Iter
<1>3. UNION {Entries(x, Value(su, x)) : x \in Iter(su, slot, action)}
        = UNION {Entries(x, Value(st, x)) : x \in Iter(st, slot, action)}
  BY <1>1, <1>2
<1> QED
  BY <1>3 DEF NewBidCollection2

LEMMA SameCollection3 ==
  ASSUME NEW st, NEW su, NEW k, Differ(st, su, k), NEW slot, NEW action,
         ~ (k.slot = slot /\ k.action = action),
         k \notin NewBidCollection3(st, slot, action).reads
  PROVE  NewBidCollection3(su, slot, action) = NewBidCollection3(st, slot, action)
<1> DEFINE found == {x \in Iter(st, slot, action) : ~ x.priv}
           opened(sv) == {x \in found : PrivKeyOf(x) \in DOMAIN sv}
<1>1. Iter(su, slot, action) = Iter(st, slot, action)
  BY SameIter
<1>2. \A x \in found : Value(su, x) = Value(st, x)
  BY SameLookup DEF Iter
<1>3. \A x \in found : PrivKeyOf(x) # k
  BY DEF NewBidCollection3
<1>4. opened(su) = opened(st)
  BY <1>3, SameLookup
<1>5. UNION {Entries(x, Value(su, x)) : x \in opened(su)}
        = UNION {Entries(x, Value(st, x)) : x \in opened(st)}
  BY <1>2, <1>4
<1>6. UNION {Entries(x, Value(su, x)) : x \in found \ opened(su)}
        = UNION {Entries(x, Value(st, x)) : x \in found \ opened(st)}
  BY <1>2, <1>4
<1> QED
  BY <1>1, <1>5, <1>6 DEF NewBidCollection3

LEMMA SameMarkEnd ==
  ASSUME NEW st, NEW su, NEW k, Differ(st, su, k), NEW t,
         k \notin DOMAIN MarkEnd(st, t).reads,
         \A p \in MarkEnd(st, t).ranges : ~ (k.slot = p[1] /\ k.action = p[2])
  PROVE  MarkEnd(su, t) = MarkEnd(st, t)
<1> DEFINE slot == t.call.slot
           Coll(sv, a) == NewBidCollection(sv, slot, a)
           matched(sv) == UNION {Iter(sv, slot, a) : a \in Iterated}
           read(sv) == Coll(sv, "buy").reads \cup Coll(sv, "sell").reads
                         \cup matched(sv)
<1>1. /\ DOMAIN MarkEnd(st, t).reads = read(st)
      /\ MarkEnd(st, t).ranges = {<<slot, a>> : a \in Iterated}
  BY DEF MarkEnd, Get
<1>2. ASSUME NEW a \in Iterated PROVE ~ (k.slot = slot /\ k.action = a)
  <2>1. <<slot, a>> \in MarkEnd(st, t).ranges
    BY <1>1
  <2>2. <<slot, a>>[1] = slot /\ <<slot, a>>[2] = a
    OBVIOUS
  <2> HIDE DEF slot
  <2> QED
    BY <2>1, <2>2
<1>3. \A a \in Iterated : Iter(su, slot, a) = Iter(st, slot, a)
  BY <1>2, SameIter
<1>4. matched(su) = matched(st)
  BY <1>3
<1>5. k \notin Coll(st, "buy").reads /\ k \notin Coll(st, "sell").reads
  BY <1>1
<1>6. ASSUME NEW a \in Actions PROVE Coll(su, a) = Coll(st, a)
  <2>1. CASE ExpNum = 1
    BY <1>5, <2>1, SameCollection1 DEF NewBidCollection, Actions
  <2>2. CASE ExpNum = 2
    BY <1>2, <2>2, SameCollection2 DEF NewBidCollection, Iterated
  <2>3. CASE ExpNum # 1 /\ ExpNum # 2
    BY <1>2, <1>5, <2>3, SameCollection3
       DEF NewBidCollection, Actions, Iterated
  <2> QED
    BY <2>1, <2>2, <2>3
<1>7. Coll(su, "buy") = Coll(st, "buy") /\ Coll(su, "sell") = Coll(st, "sell")
  BY <1>6 DEF Actions
<1>8. Get(su, read(su)) = Get(st, read(st))
  <2>1. read(su) = read(st)
    BY <1>4, <1>7
  <2>2. k \notin read(st)
    BY <1>1
  <2> HIDE DEF read
  <2> QED
    BY <2>1, <2>2, SameGet
<1> HIDE DEF Coll, matched, read
<1> QED
  BY <1>4, <1>7, <1>8 DEF MarkEnd, Coll, matched, read

LEMMA SameInvoke ==
  ASSUME NEW st, NEW su, NEW k, Differ(st, su, k), NEW t,
         k \notin DOMAIN Invoke(st, t).reads,
         \A p \in Invoke(st, t).ranges : ~ (k.slot = p[1] /\ k.action = p[2])
  PROVE  Invoke(su, t) = Invoke(st, t)
<1>1. CASE t.call.op = "bid"
  BY <1>1, SameWriteRow DEF Invoke, Bid
<1>2. CASE t.call.op = "postKey"
  BY <1>2, SameWriteRow DEF Invoke, PostKey
<1>3. CASE t.call.op # "bid" /\ t.call.op # "postKey"
  BY <1>3, SameMarkEnd DEF Invoke
<1> QED
  BY <1>1, <1>2, <1>3

-----------------------------------------------------------------------------
(***************************************************************************)
(* The inductive invariant of the ledger.  Only Endorse and Commit touch   *)
(* the transactions and the store.                                         *)
(***************************************************************************)
LEMMA LedgerSteps ==
  ASSUME [Next]_vars
  PROVE  \/ \E c \in Calls : Endorse(c)
         \/ \E t \in Txs : Commit(t)
         \/ UNCHANGED <<store, tx, sim>>
<1>1. CASE Notify
  BY <1>1 DEF Notify
<1>2. CASE \E c \in BidCalls : StartBid(c)
  BY <1>2 DEF StartBid, ledgerVars
<1>3. CASE \E c \in MarkEndCalls : StartMarkEnd(c)
  BY <1>3 DEF StartMarkEnd, ledgerVars
<1>4. CASE \E b \in Bidders : Record(b) \/ Poster(b)
  BY <1>4 DEF Record, Poster, PostKeyBegin, PostKeyEnd, PostKeyNext, ledgerVars
<1>5. ASSUME NEW c \in Calls, Reject(c) \/ Return(c) \/ Timeout(c) \/ LoseProposal(c)
      PROVE  UNCHANGED <<store, tx, sim>>
  BY <1>5 DEF Reject, Return, Timeout, LoseProposal, ledgerVars
<1>6. CASE UNCHANGED vars
  BY <1>6 DEF vars
<1> QED
  BY <1>1, <1>2, <1>3, <1>4, <1>5, <1>6 DEF Next, Step

LEMMA FreshMove ==
  ASSUME TypeOK, FreshAttempts, NEW c \in Calls, NEW s, NEW n, Move(c, s, n),
         UNCHANGED tx, s # "idle",
         \/ call[c].st = "idle" /\ n = 1
         \/ n \in Attempts /\ n > call[c].attempt
         \/ n = call[c].attempt /\ s \in {"waiting", "acked", "failed"}
  PROVE  FreshAttempts'
<1>1. \A d \in Calls : call'[d] = IF d = c THEN [st |-> s, attempt |-> n] ELSE call[d]
  BY DEF Move, TypeOK
<1>2. \A d \in Calls : call'[d].st = "idle" => call'[d].attempt = 1
  BY <1>1 DEF FreshAttempts
<1>3. ASSUME NEW t \in Txs, tx'[t] # "none"
      PROVE  \/ t.attempt < call'[t.call].attempt
             \/ /\ t.attempt = call'[t.call].attempt
                /\ call'[t.call].st \in {"waiting", "acked", "failed"}
  <2>1. \/ t.attempt < call[t.call].attempt
        \/ /\ t.attempt = call[t.call].attempt
           /\ call[t.call].st \in {"waiting", "acked", "failed"}
    BY <1>3 DEF FreshAttempts
  <2>2. CASE t.call # c
    BY <1>1, <2>1, <2>2, TxShape
  <2>3. CASE t.call = c
    <3>1. /\ call'[c].st = s /\ call'[c].attempt = n
          /\ t.attempt \in Int /\ t.attempt >= 1 /\ call[c].attempt \in Int
      BY <1>1, TxShape DEF Attempts, TypeOK
    <3>2. ~ (call[c].st = "idle" /\ n = 1)
      BY <2>1, <2>3, <3>1 DEF FreshAttempts
    <3>3. CASE n \in Attempts /\ n > call[c].attempt
      BY <2>1, <2>3, <3>1, <3>3 DEF Attempts
    <3>4. CASE n = call[c].attempt /\ s \in {"waiting", "acked", "failed"}
      BY <2>1, <2>3, <3>1, <3>4
    <3> QED
      BY <3>2, <3>3, <3>4
  <2> QED
    BY <2>2, <2>3
<1> QED
  BY <1>2, <1>3 DEF FreshAttempts

LEMMA FreshFail ==
  ASSUME TypeOK, FreshAttempts, NEW c \in Calls, Fail(c), UNCHANGED tx
  PROVE  FreshAttempts'
<1>1. call[c].attempt \in Attempts /\ call[c].attempt \in Int
  BY DEF TypeOK, Attempts
<1>2. MaxAttempts(c) \in Int /\ MaxAttempts(c) <= RetryCount + 1
  BY ConstantsAssumption DEF MaxAttempts
<1>3. CASE call[c].attempt < MaxAttempts(c)
  <2>1. /\ call[c].attempt + 1 \in Attempts
        /\ call[c].attempt + 1 > call[c].attempt
    BY <1>1, <1>2, <1>3, ConstantsAssumption DEF Attempts
  <2>2. Move(c, "ready", call[c].attempt + 1)
    BY <1>3 DEF Fail
  <2> QED
    BY <2>1, <2>2, FreshMove
<1>4. CASE ~ (call[c].attempt < MaxAttempts(c))
  BY <1>4, FreshMove DEF Fail
<1> QED
  BY <1>3, <1>4

LEMMA FreshStep ==
  ASSUME TypeOK, FreshAttempts, [Next]_vars
  PROVE  FreshAttempts'
<1>1. ASSUME NEW c \in Calls, Start(c), UNCHANGED tx PROVE FreshAttempts'
  BY <1>1, FreshMove DEF Start
<1>2. ASSUME NEW c \in BidCalls, StartBid(c) PROVE FreshAttempts'
  BY <1>1, <1>2 DEF StartBid, ledgerVars, Calls
<1>3. ASSUME NEW c \in MarkEndCalls, StartMarkEnd(c) PROVE FreshAttempts'
  BY <1>1, <1>3 DEF StartMarkEnd, ledgerVars, Calls
<1>4. ASSUME NEW b \in Bidders, NEW t \in recent[b], PostKeyNext(b, t)
      PROVE  FreshAttempts'
  <2>1. [op |-> "postKey", bid |-> t] \in Calls
    BY DEF TypeOK, Calls, PostKeyCalls
  <2> QED
    BY <1>1, <1>4, <2>1 DEF PostKeyNext, ledgerVars
<1>5. ASSUME NEW c \in Calls, Endorse(c) PROVE FreshAttempts'
  <2>1. /\ Tx(c) \in Txs /\ Tx(c).call = c /\ Tx(c).attempt = call[c].attempt
    BY TxType
  <2>2. \A d \in Calls : call'[d] = IF d = c
                           THEN [st |-> "waiting", attempt |-> call[c].attempt]
                           ELSE call[d]
    BY <1>5 DEF Endorse, Move, TypeOK
  <2>3. \A t \in Txs : t # Tx(c) => tx'[t] = tx[t]
    BY <1>5, <2>1 DEF Endorse, TypeOK
  <2> QED
    BY <2>1, <2>2, <2>3, TxShape DEF FreshAttempts
<1>6. ASSUME NEW c \in Calls, Reject(c) \/ Timeout(c) \/ LoseProposal(c)
      PROVE  FreshAttempts'
  BY <1>6, FreshFail DEF Reject, Timeout, LoseProposal, ledgerVars
<1>7. ASSUME NEW c \in Calls, Return(c) PROVE FreshAttempts'
  <2>1. CASE Fail(c)
    BY <1>7, <2>1, FreshFail DEF Return, ledgerVars
  <2>2. CASE Succeed(c)
    BY <1>7, <2>2, FreshMove DEF Return, Succeed, ledgerVars
  <2> QED
    BY <1>7, <2>1, <2>2 DEF Return
<1>8. ASSUME NEW t \in Txs, Commit(t) PROVE FreshAttempts'
  <2>1. \A u \in Txs : tx'[u] # "none" => tx[u] # "none"
    BY <1>8 DEF Commit, TypeOK
  <2>2. call' = call
    BY <1>8 DEF Commit
  <2> QED
    BY <2>1, <2>2 DEF FreshAttempts
<1>9. ASSUME UNCHANGED <<call, tx>> PROVE FreshAttempts'
  BY <1>9 DEF FreshAttempts
<1>10. ASSUME NEW b \in Bidders, Record(b) \/ PostKeyBegin(b) \/ PostKeyEnd(b)
       PROVE  FreshAttempts'
  BY <1>9, <1>10 DEF Record, PostKeyBegin, PostKeyEnd, ledgerVars
<1>11. CASE Notify \/ UNCHANGED vars
  BY <1>9, <1>11 DEF Notify, vars
<1> QED
  BY <1>2, <1>3, <1>4, <1>5, <1>6, <1>7, <1>8, <1>10, <1>11
     DEF Next, Step, Poster

LEMMA InvokeReads ==
  ASSUME NEW st, NEW t
  PROVE  /\ \A k \in DOMAIN Invoke(st, t).reads :
              Invoke(st, t).reads[k] = Version(st, k)
         /\ Invoke(st, t).matched \subseteq DOMAIN Invoke(st, t).reads
<1>1. ASSUME NEW key
      PROVE  /\ \A k \in DOMAIN WriteRow(st, t, key).reads :
                  WriteRow(st, t, key).reads[k] = Version(st, k)
             /\ WriteRow(st, t, key).matched = {}
  BY DEF WriteRow, Get
<1>2. /\ \A k \in DOMAIN MarkEnd(st, t).reads :
           MarkEnd(st, t).reads[k] = Version(st, k)
      /\ MarkEnd(st, t).matched \subseteq DOMAIN MarkEnd(st, t).reads
  BY DEF MarkEnd, Get
<1> QED
  BY <1>1, <1>2 DEF Invoke, Bid, PostKey

LEMMA EndorseFacts ==
  ASSUME TypeOK, FreshAttempts, NEW c \in Calls, Endorse(c)
  PROVE  /\ Tx(c) \in Txs /\ tx[Tx(c)] = "none" /\ store' = store
         /\ tx'[Tx(c)] = "flight" /\ sim'[Tx(c)] = Invoke(store, Tx(c))
         /\ \A t \in Txs : t # Tx(c) => tx'[t] = tx[t] /\ sim'[t] = sim[t]
<1>1. /\ Tx(c) \in Txs /\ Tx(c).call = c /\ Tx(c).attempt = call[c].attempt
      /\ call[c].attempt \in Int
  BY TxType DEF TypeOK, Attempts
<1>2. tx[Tx(c)] = "none"
  BY <1>1 DEF Endorse, FreshAttempts
<1> QED
  BY <1>1, <1>2 DEF Endorse, TypeOK

LEMMA CommitFacts ==
  ASSUME TypeOK, Serializable, NEW u \in Txs, Commit(u)
  PROVE  /\ tx[u] = "flight"
         /\ \A t \in Txs : t # u => tx'[t] = tx[t] /\ sim'[t] = sim[t]
         /\ \/ tx'[u] = "invalid" /\ store' = store
            \/ /\ tx'[u] = "valid"
               /\ Differ(store, store', WriteKey(u))
               /\ WriteKey(u) \in DOMAIN store'
               /\ store'[WriteKey(u)].ver = u
               /\ store'[WriteKey(u)].val = Invoke(store, u).val
<1>1. /\ tx[u] = "flight"
      /\ \A t \in Txs : t # u => tx'[t] = tx[t] /\ sim'[t] = sim[t]
  BY DEF Commit, TypeOK
<1>2. CASE Validates(store, sim[u])
  <2>1. sim[u] = Invoke(store, u) /\ sim[u].key = WriteKey(u)
    BY <1>1, <1>2, InvokeKey DEF Serializable
  <2>2. /\ tx'[u] = "valid"
        /\ store' = Put(store, u, WriteKey(u), Invoke(store, u).val)
    BY <1>2, <2>1 DEF Commit, TypeOK
  <2> QED
    BY <1>1, <2>2 DEF Put, Differ
<1>3. CASE ~ Validates(store, sim[u])
  BY <1>1, <1>3 DEF Commit, TypeOK
<1> QED
  BY <1>2, <1>3

LEMMA VersionsStep ==
  ASSUME TypeOK, FreshAttempts, ValidVersions, Serializable, [Next]_vars
  PROVE  ValidVersions'
<1>1. ASSUME NEW c \in Calls, Endorse(c) PROVE ValidVersions'
  <2>1. /\ Tx(c) \in Txs /\ tx[Tx(c)] = "none" /\ store' = store
        /\ tx'[Tx(c)] = "flight" /\ sim'[Tx(c)] = Invoke(store, Tx(c))
        /\ \A t \in Txs : t # Tx(c) => tx'[t] = tx[t] /\ sim'[t] = sim[t]
    BY <1>1, EndorseFacts
  <2>2. \A t \in Txs : tx[t] = "valid" => tx'[t] = "valid"
    BY <2>1
  <2>3. \A k \in DOMAIN store : store[k].ver \in Txs /\ tx[store[k].ver] = "valid"
    BY DEF TypeOK, ValidVersions
  <2>4. \A k \in DOMAIN sim'[Tx(c)].reads :
          \/ sim'[Tx(c)].reads[k] = NoTx
          \/ sim'[Tx(c)].reads[k] \in Txs /\ tx'[sim'[Tx(c)].reads[k]] = "valid"
    BY <2>1, <2>2, <2>3, InvokeReads DEF Version
  <2>5. sim'[Tx(c)].matched \subseteq DOMAIN sim'[Tx(c)].reads
    BY <2>1, InvokeReads
  <2>6. ASSUME NEW t \in Txs, tx'[t] = "flight", t # Tx(c)
        PROVE  /\ \A k \in DOMAIN sim'[t].reads :
                    \/ sim'[t].reads[k] = NoTx
                    \/ sim'[t].reads[k] \in Txs /\ tx'[sim'[t].reads[k]] = "valid"
               /\ sim'[t].matched \subseteq DOMAIN sim'[t].reads
    BY <2>1, <2>2, <2>6 DEF ValidVersions
  <2>7. \A k \in DOMAIN store' : /\ tx'[store'[k].ver] = "valid"
                                 /\ k = WriteKey(store'[k].ver)
    BY <2>1, <2>2, <2>3 DEF ValidVersions
  <2> QED
    BY <2>4, <2>5, <2>6, <2>7 DEF ValidVersions
<1>2. ASSUME NEW u \in Txs, Commit(u) PROVE ValidVersions'
  <2>1. /\ tx[u] = "flight"
        /\ \A t \in Txs : t # u => tx'[t] = tx[t] /\ sim'[t] = sim[t]
        /\ \/ tx'[u] = "invalid" /\ store' = store
           \/ /\ tx'[u] = "valid"
              /\ Differ(store, store', WriteKey(u))
              /\ WriteKey(u) \in DOMAIN store'
              /\ store'[WriteKey(u)].ver = u
    BY <1>2, CommitFacts
  <2>2. \A t \in Txs : tx[t] = "valid" => tx'[t] = "valid"
    BY <2>1
  <2>3. ASSUME NEW t \in Txs, tx'[t] = "flight"
        PROVE  /\ \A k \in DOMAIN sim'[t].reads :
                    \/ sim'[t].reads[k] = NoTx
                    \/ sim'[t].reads[k] \in Txs /\ tx'[sim'[t].reads[k]] = "valid"
               /\ sim'[t].matched \subseteq DOMAIN sim'[t].reads
    BY <2>1, <2>2, <2>3 DEF ValidVersions
  <2>4. ASSUME NEW k \in DOMAIN store'
        PROVE  tx'[store'[k].ver] = "valid" /\ k = WriteKey(store'[k].ver)
    BY <2>1, <2>2 DEF ValidVersions, Differ, TypeOK
  <2> QED
    BY <2>3, <2>4 DEF ValidVersions
<1>3. CASE UNCHANGED <<store, tx, sim>>
  BY <1>3 DEF ValidVersions
<1> QED
  BY <1>1, <1>2, <1>3, LedgerSteps

LEMMA SerializableStep ==
  ASSUME TypeOK, FreshAttempts, ValidVersions, Serializable, [Next]_vars
  PROVE  Serializable'
<1>1. ASSUME NEW c \in Calls, Endorse(c) PROVE Serializable'
  <2>1. /\ Tx(c) \in Txs /\ tx[Tx(c)] = "none" /\ store' = store
        /\ tx'[Tx(c)] = "flight" /\ sim'[Tx(c)] = Invoke(store, Tx(c))
        /\ \A t \in Txs : t # Tx(c) => tx'[t] = tx[t] /\ sim'[t] = sim[t]
    BY <1>1, EndorseFacts
  <2> QED
    BY <2>1 DEF Serializable
<1>2. ASSUME NEW u \in Txs, Commit(u) PROVE Serializable'
  <2> SUFFICES ASSUME NEW t \in Txs, tx'[t] = "flight",
                      Validates(store', sim'[t])
               PROVE  sim'[t] = Invoke(store', t)
    BY DEF Serializable
  <2> DEFINE k == WriteKey(u)
  <2>1. /\ tx[u] = "flight"
        /\ \A v \in Txs : v # u => tx'[v] = tx[v] /\ sim'[v] = sim[v]
        /\ \/ tx'[u] = "invalid" /\ store' = store
           \/ /\ tx'[u] = "valid"
              /\ Differ(store, store', k)
              /\ k \in DOMAIN store'
              /\ store'[k].ver = u
    BY <1>2, CommitFacts
  <2>2. t # u /\ tx[t] = "flight" /\ sim'[t] = sim[t]
    BY <2>1
  <2>3. CASE store' = store
    BY <2>2, <2>3 DEF Serializable
  <2>4. CASE /\ Differ(store, store', k) /\ k \in DOMAIN store'
             /\ store'[k].ver = u
    <3> HIDE DEF k
    <3>1. k \notin DOMAIN sim[t].reads
      <4>1. Version(store', k) = u
        BY <2>4 DEF Version
      <4> QED
        BY <2>1, <2>2, <4>1, NoTxAssumption DEF Validates, ValidVersions
    <3>2. \A p \in sim[t].ranges : ~ (k.slot = p[1] /\ k.action = p[2])
      <4>1. UNION {Iter(store', p[1], p[2]) : p \in sim[t].ranges} = sim[t].matched
        BY <2>2 DEF Validates
      <4>2. k \notin sim[t].matched
        BY <2>2, <3>1 DEF ValidVersions
      <4> QED
        BY <2>4, <4>1, <4>2 DEF Iter
    <3>3. Validates(store, sim[t])
      <4>1. \A x \in DOMAIN sim[t].reads : Version(store, x) = sim[t].reads[x]
        BY <2>2, <2>4, <3>1, SameLookup DEF Validates
      <4>2. \A p \in sim[t].ranges :
              Iter(store', p[1], p[2]) = Iter(store, p[1], p[2])
        BY <2>4, <3>2, SameIter
      <4>3. UNION {Iter(store', p[1], p[2]) : p \in sim[t].ranges}
              = UNION {Iter(store, p[1], p[2]) : p \in sim[t].ranges}
        BY <4>2
      <4> QED
        BY <2>2, <4>1, <4>3 DEF Validates
    <3>4. sim[t] = Invoke(store, t)
      BY <2>2, <3>3 DEF Serializable
    <3>5. Invoke(store', t) = Invoke(store, t)
      BY <2>4, <3>1, <3>2, <3>4, SameInvoke
    <3> QED
      BY <2>2, <3>4, <3>5
  <2> QED
    BY <2>1, <2>3, <2>4
<1>3. CASE UNCHANGED <<store, tx, sim>>
  BY <1>3 DEF Serializable
<1>4. CASE \E c \in Calls : Endorse(c)
  BY <1>1, <1>4
<1>5. CASE \E u \in Txs : Commit(u)
  BY <1>2, <1>5
<1>6. \/ \E c \in Calls : Endorse(c)
      \/ \E u \in Txs : Commit(u)
      \/ UNCHANGED <<store, tx, sim>>
  BY LedgerSteps
<1> QED
  BY <1>3, <1>4, <1>5, <1>6

-----------------------------------------------------------------------------
(***************************************************************************)
(* No update is lost.                                                      *)
(***************************************************************************)
LEMMA KeyInjective ==
  ASSUME NEW s \in BidTxs, NEW t \in BidTxs, ExpNum # 1, BidKey(s) = BidKey(t)
  PROVE  s = t
  BY DEF BidKey, Key

LEMMA PrivInjective ==
  ASSUME NEW k \in Keys, NEW l \in Keys, k.priv = l.priv,
         PrivKeyOf(k) = PrivKeyOf(l)
  PROVE  k = l
<1>1. k.slot = l.slot /\ k.action = l.action /\ k.tx = l.tx
  BY PrivShape, ZenonT(40)
<1> QED
  BY <1>1 DEF Keys

LEMMA WriteKeyKind ==
  ASSUME NEW u \in Txs
  PROVE  /\ u.call.op = "markEnd" => WriteKey(u).action \notin Actions
         /\ u.call.op # "markEnd" => WriteKey(u).action \in Actions
         /\ u.call.op = "postKey" => WriteKey(u).priv = TRUE
         /\ u.call.op # "postKey" => WriteKey(u).priv = FALSE
<1>1. CASE u.call.op = "bid"
  BY <1>1, TxShape, BidShape DEF WriteKey
<1>2. CASE u.call.op = "postKey"
  <2>1. u.call.bid \in BidTxs
    BY <1>2, TxShape, CallShape
  <2>2. BidKey(u.call.bid) \in Keys /\ BidKey(u.call.bid).action \in Actions
    BY <2>1, BidShape
  <2> QED
    BY <1>2, <2>2, PrivShape DEF WriteKey
<1>3. CASE u.call.op = "markEnd"
  BY <1>3 DEF WriteKey, MarkEndKey, Key, Actions
<1> QED
  BY <1>1, <1>2, <1>3, TxShape, CallShape

LEMMA InvokeVal ==
  ASSUME NEW u \in Txs, NEW st, u.call.op # "markEnd"
  PROVE  Invoke(st, u).val =
           (IF ExpNum = 1 THEN Value(st, WriteKey(u)) ELSE {}) \cup {Row(u.call)}
<1>1. ASSUME NEW k
      PROVE  WriteRow(st, u, k).val =
               (IF ExpNum = 1 THEN Value(st, k) ELSE {}) \cup {Row(u.call)}
  BY DEF WriteRow
<1>2. CASE u.call.op = "bid"
  BY <1>1, <1>2 DEF Invoke, Bid, WriteKey
<1>3. CASE u.call.op = "postKey"
  BY <1>1, <1>3 DEF Invoke, PostKey, WriteKey
<1> QED
  BY <1>2, <1>3, TxShape, CallShape

LEMMA NoLostCommit ==
  ASSUME TypeOK, Serializable, NoLostUpdate, NEW u \in Txs, Commit(u),
         tx'[u] = "valid"
  PROVE  NoLostUpdate'
<1> DEFINE w == WriteKey(u)
<1>1. /\ tx[u] = "flight"
      /\ \A v \in Txs : v # u => tx'[v] = tx[v]
      /\ Differ(store, store', w)
      /\ w \in DOMAIN store'
      /\ store'[w].val = Invoke(store, u).val
  BY CommitFacts
<1>2. Value(store', w) = Invoke(store, u).val
  BY <1>1 DEF Value
<1>3. \A v \in Txs : tx'[v] = "valid" <=> tx[v] = "valid" \/ v = u
  BY <1>1
<1> SUFFICES ASSUME NEW t \in BidTxs
             PROVE  /\ Value(store', BidKey(t)) =
                         {Row(v.call) : v \in {x \in Valid("bid")' :
                                                 BidKey(x) = BidKey(t)}}
                    /\ Value(store', PrivKeyOf(BidKey(t))) =
                         {Row(v.call) : v \in {x \in Valid("postKey")' :
                                                 BidKey(x.call.bid) = BidKey(t)}}
  BY DEF NoLostUpdate
<1> DEFINE k == BidKey(t)
           pk == PrivKeyOf(k)
           H(v) == v \in Valid("bid") /\ BidKey(v) = k
           G(v) == v \in Valid("postKey") /\ BidKey(v.call.bid) = k
<1>4. /\ Value(store, k) = {Row(v.call) : v \in {x \in Valid("bid") : BidKey(x) = k}}
      /\ Value(store, pk) =
           {Row(v.call) : v \in {x \in Valid("postKey") : BidKey(x.call.bid) = k}}
  BY DEF NoLostUpdate
<1>5. /\ k \in Keys /\ k.priv = FALSE /\ k.action \in Actions
      /\ pk \in Keys /\ pk.priv = TRUE
  BY BidShape, PrivShape
<1>6. Value(store', k) =
        {Row(v.call) : v \in {x \in Valid("bid")' : BidKey(x) = k}}
  <2>1. CASE w # k
    <3>1. Value(store', k) = Value(store, k)
      BY <1>1, <2>1, SameLookup
    <3>2. {x \in Valid("bid")' : BidKey(x) = k} = {x \in Valid("bid") : BidKey(x) = k}
      BY <1>3, <2>1 DEF Valid, WriteKey
    <3> QED
      BY <1>4, <3>1, <3>2
  <2>2. CASE w = k
    <3>1. u.call.op = "bid" /\ BidKey(u) = k /\ u \in BidTxs
      BY <1>5, <2>2, WriteKeyKind, TxShape, CallShape DEF WriteKey
    <3>2. {x \in Valid("bid")' : BidKey(x) = k}
            = {x \in Valid("bid") : BidKey(x) = k} \cup {u}
      BY <1>3, <3>1 DEF Valid
    <3>3. ExpNum # 1 => {x \in Valid("bid") : BidKey(x) = k} = {}
      BY <1>1, <3>1, KeyInjective, TxShape DEF Valid
    <3>4. Value(store', k) =
            (IF ExpNum = 1 THEN Value(store, k) ELSE {}) \cup {Row(u.call)}
      BY <1>2, <2>2, <3>1, InvokeVal
    <3> QED
      BY <1>4, <3>2, <3>3, <3>4
  <2> QED
    BY <2>1, <2>2
<1>7. Value(store', pk) =
        {Row(v.call) : v \in {x \in Valid("postKey")' : BidKey(x.call.bid) = k}}
  <2>1. CASE w # pk
    <3>1. Value(store', pk) = Value(store, pk)
      BY <1>1, <2>1, SameLookup
    <3>2. {x \in Valid("postKey")' : BidKey(x.call.bid) = k}
            = {x \in Valid("postKey") : BidKey(x.call.bid) = k}
      BY <1>3, <2>1 DEF Valid, WriteKey
    <3> QED
      BY <1>4, <3>1, <3>2
  <2>2. CASE w = pk
    <3>1. u.call.op = "postKey"
      BY <1>5, <2>2, WriteKeyKind
    <3>2. u.call.bid \in BidTxs /\ w = PrivKeyOf(BidKey(u.call.bid))
      BY <3>1, TxShape, CallShape DEF WriteKey
    <3>3. BidKey(u.call.bid) = k
      BY <1>5, <2>2, <3>2, BidShape, PrivInjective
    <3>4. {x \in Valid("postKey")' : BidKey(x.call.bid) = k}
            = {x \in Valid("postKey") : BidKey(x.call.bid) = k} \cup {u}
      BY <1>3, <3>1, <3>3 DEF Valid
    <3>5. ASSUME ExpNum # 1, NEW v \in Valid("postKey"), BidKey(v.call.bid) = k
          PROVE  Row(v.call) = Row(u.call)
      <4>1. v.call.bid \in BidTxs /\ v.call.op = "postKey"
        BY TxShape, CallShape DEF Valid
      <4>2. v.call.bid = u.call.bid
        BY <3>2, <3>3, <3>5, <4>1, KeyInjective
      <4> QED
        BY <3>1, <4>1, <4>2 DEF Row
    <3>6. Value(store', pk) =
            (IF ExpNum = 1 THEN Value(store, pk) ELSE {}) \cup {Row(u.call)}
      BY <1>2, <2>2, <3>1, InvokeVal
    <3> QED
      BY <1>4, <3>4, <3>5, <3>6
  <2> QED
    BY <2>1, <2>2
<1> QED
  BY <1>6, <1>7

LEMMA NoLostStep ==
  ASSUME TypeOK, FreshAttempts, Serializable, NoLostUpdate, [Next]_vars
  PROVE  NoLostUpdate'
<1>1. ASSUME store' = store,
             \A t \in Txs : tx'[t] = "valid" <=> tx[t] = "valid"
      PROVE  NoLostUpdate'
  <2>1. \A op : Valid(op)' = Valid(op)
    BY <1>1 DEF Valid
  <2> QED
    BY <1>1, <2>1 DEF NoLostUpdate
<1>2. ASSUME NEW c \in Calls, Endorse(c) PROVE NoLostUpdate'
  BY <1>1, <1>2, EndorseFacts
<1>3. ASSUME NEW u \in Txs, Commit(u) PROVE NoLostUpdate'
  BY <1>1, <1>3, CommitFacts, NoLostCommit
<1>4. CASE UNCHANGED <<store, tx, sim>>
  BY <1>1, <1>4
<1> QED
  BY <1>2, <1>3, <1>4, LedgerSteps

LedgerInv ==
  TypeOK /\ FreshAttempts /\ ValidVersions /\ Serializable /\ NoLostUpdate

LEMMA LedgerInit == Init => LedgerInv
<1> SUFFICES ASSUME Init PROVE LedgerInv
  OBVIOUS
<1>1. TypeOK
  BY ConstantsAssumption DEF Init, TypeOK, CallStates, Attempts
<1>2. \A t \in Txs : tx[t] = "none"
  BY DEF Init
<1>3. DOMAIN store = {}
  BY DEF Init
<1>4. FreshAttempts /\ ValidVersions /\ Serializable
  BY <1>2, <1>3 DEF FreshAttempts, ValidVersions, Serializable, Init
<1>5. NoLostUpdate
  <2>1. \A op : Valid(op) = {}
    BY <1>2 DEF Valid
  <2>2. \A k : Value(store, k) = {}
    BY <1>3 DEF Value
  <2> QED
    BY <2>1, <2>2 DEF NoLostUpdate
<1> QED
  BY <1>1, <1>4, <1>5 DEF LedgerInv

LEMMA LedgerStep ==
  ASSUME LedgerInv, [Next]_vars
  PROVE  LedgerInv'
  BY TypeStep, FreshStep, VersionsStep, SerializableStep, NoLostStep DEF LedgerInv

LEMMA LedgerInvariant == Spec => []LedgerInv
  BY LedgerInit, LedgerStep, PTL DEF Spec

\* Endorsement against a committed state and validation by version make the
\* contract's transactions serializable, for every interleaving of agents.
THEOREM LedgerSerializable == Spec => []Serializable
<1>1. LedgerInv => Serializable
  BY DEF LedgerInv
<1> QED
  BY <1>1, LedgerInvariant, PTL

\* The map under a shared key holds exactly the rows of the valid
\* transactions on it: no concurrent update overwrites another.
THEOREM LedgerKeepsUpdates == Spec => []NoLostUpdate
<1>1. LedgerInv => NoLostUpdate
  BY DEF LedgerInv
<1> QED
  BY <1>1, LedgerInvariant, PTL

-----------------------------------------------------------------------------
(***************************************************************************)
(* What markEnd settles.  In experiment 2 no private keys are posted, so   *)
(* that an iteration meets bids only.                                      *)
(***************************************************************************)
LEMMA PostingStep ==
  ASSUME TypeOK, NoPosting, [Next]_vars
  PROVE  NoPosting'
<1> SUFFICES ASSUME ExpNum = 2
             PROVE  /\ \A b \in Bidders : ~ poster'[b].busy
                    /\ \A c \in PostKeyCalls : call'[c].st = "idle"
  BY DEF NoPosting
<1>1. /\ \A b \in Bidders : ~ poster[b].busy
      /\ \A c \in PostKeyCalls : call[c].st = "idle"
  BY DEF NoPosting
<1>2. PostKeyCalls \subseteq Calls
  BY DEF Calls
<1>3. ASSUME NEW c \in Calls, c \notin PostKeyCalls, NEW s, NEW n, Move(c, s, n)
      PROVE  \A d \in PostKeyCalls : call'[d].st = "idle"
  BY <1>1, <1>2, <1>3 DEF Move, TypeOK
<1>4. ASSUME NEW c \in Calls, Fail(c), call[c].st # "idle"
      PROVE  /\ \A d \in PostKeyCalls : call'[d].st = "idle"
             /\ poster' = poster
  <2>1. c \notin PostKeyCalls /\ c.op # "postKey"
    BY <1>1, <1>4, CallShape
  <2> QED
    BY <1>3, <1>4, <2>1 DEF Fail
<1>5. ASSUME NEW c \in BidCalls \cup MarkEndCalls, Start(c), poster' = poster
      PROVE  NoPosting'
  <2>1. c \in Calls /\ c \notin PostKeyCalls
    BY DEF Calls, BidCalls, MarkEndCalls, PostKeyCalls
  <2> QED
    BY <1>1, <1>3, <1>5, <2>1 DEF Start, NoPosting
<1>6. CASE \E c \in BidCalls : StartBid(c)
  BY <1>5, <1>6 DEF StartBid, agentVars, NoPosting
<1>7. CASE \E c \in MarkEndCalls : StartMarkEnd(c)
  BY <1>5, <1>7 DEF StartMarkEnd, agentVars, NoPosting
<1>8. CASE \E b \in Bidders : Record(b) \/ Poster(b)
  BY <1>1, <1>8 DEF Record, Poster, PostKeyBegin, PostKeyEnd, PostKeyNext, Between
<1>9. ASSUME NEW c \in Calls, Endorse(c) PROVE NoPosting'
  BY <1>1, <1>3, <1>9 DEF Endorse, agentVars, NoPosting
<1>10. ASSUME NEW c \in Calls, Reject(c) \/ LoseProposal(c) \/ Timeout(c)
       PROVE  NoPosting'
  BY <1>1, <1>4, <1>10 DEF Reject, LoseProposal, Timeout, NoPosting
<1>11. ASSUME NEW c \in Calls, Return(c) PROVE NoPosting'
  BY <1>1, <1>3, <1>4, <1>11 DEF Return, Succeed, NoPosting
<1>12. CASE Notify \/ (\E t \in Txs : Commit(t)) \/ UNCHANGED vars
  BY <1>1, <1>12 DEF Notify, Commit, vars, agentVars
<1> QED
  BY <1>6, <1>7, <1>8, <1>9, <1>10, <1>11, <1>12 DEF Next, Step, NoPosting

\* The store seen through the history: the rows under a bid key and under
\* its private-key companion.
LEMMA BidAt ==
  ASSUME LedgerInv, NEW k \in Keys, k.action \in Actions, k.priv = FALSE, NEW r
  PROVE  /\ r \in Value(store, k) <=>
              \E u \in Valid("bid") : BidKey(u) = k /\ Row(u.call) = r
         /\ k \in DOMAIN store <=> \E u \in Valid("bid") : BidKey(u) = k
<1>1. \A u \in Valid("bid") : u \in BidTxs
  BY TxShape DEF Valid
<1>2. ASSUME k \in DOMAIN store
      PROVE  store[k].ver \in Valid("bid") /\ BidKey(store[k].ver) = k
  <2>1. /\ store[k].ver \in Txs /\ tx[store[k].ver] = "valid"
        /\ k = WriteKey(store[k].ver)
    BY <1>2 DEF LedgerInv, TypeOK, ValidVersions
  <2>2. store[k].ver.call.op = "bid"
    BY <2>1, WriteKeyKind, TxShape, CallShape
  <2> QED
    BY <2>1, <2>2 DEF Valid, WriteKey
<1>3. ASSUME NEW u \in Valid("bid"), BidKey(u) = k
      PROVE  Value(store, k) =
               {Row(v.call) : v \in {x \in Valid("bid") : BidKey(x) = k}}
  BY <1>1, <1>3 DEF LedgerInv, NoLostUpdate
<1>4. ASSUME NEW u \in Valid("bid"), BidKey(u) = k
      PROVE  Row(u.call) \in Value(store, k) /\ k \in DOMAIN store
  BY <1>3, <1>4 DEF Value
<1>5. r \in Value(store, k) => k \in DOMAIN store
  BY DEF Value
<1> QED
  BY <1>2, <1>3, <1>4, <1>5

LEMMA PrivAt ==
  ASSUME LedgerInv, NEW k \in Keys, k.action \in Actions, k.priv = FALSE, NEW r
  PROVE  /\ r \in Value(store, PrivKeyOf(k)) <=>
              \E p \in Valid("postKey") : BidKey(p.call.bid) = k /\ Row(p.call) = r
         /\ PrivKeyOf(k) \in DOMAIN store <=>
              \E p \in Valid("postKey") : BidKey(p.call.bid) = k
<1> DEFINE pk == PrivKeyOf(k)
<1>1. \A p \in Valid("postKey") : p.call.bid \in BidTxs
  BY TxShape, CallShape DEF Valid
<1>2. ASSUME pk \in DOMAIN store
      PROVE  store[pk].ver \in Valid("postKey") /\ BidKey(store[pk].ver.call.bid) = k
  <2>1. /\ store[pk].ver \in Txs /\ tx[store[pk].ver] = "valid"
        /\ pk = WriteKey(store[pk].ver)
    BY <1>2 DEF LedgerInv, TypeOK, ValidVersions
  <2>2. store[pk].ver.call.op = "postKey"
    BY <2>1, WriteKeyKind, PrivShape
  <2>3. store[pk].ver \in Valid("postKey")
    BY <2>1, <2>2 DEF Valid
  <2>4. pk = PrivKeyOf(BidKey(store[pk].ver.call.bid))
    BY <2>1, <2>2 DEF WriteKey
  <2> QED
    BY <1>1, <2>3, <2>4, BidShape, PrivInjective
<1>3. ASSUME NEW p \in Valid("postKey"), BidKey(p.call.bid) = k
      PROVE  Value(store, pk) =
               {Row(v.call) : v \in {x \in Valid("postKey") : BidKey(x.call.bid) = k}}
  BY <1>1, <1>3 DEF LedgerInv, NoLostUpdate
<1>4. ASSUME NEW p \in Valid("postKey"), BidKey(p.call.bid) = k
      PROVE  Row(p.call) \in Value(store, pk) /\ pk \in DOMAIN store
  BY <1>3, <1>4 DEF Value
<1>5. r \in Value(store, pk) => pk \in DOMAIN store
  BY DEF Value
<1> QED
  BY <1>2, <1>3, <1>4, <1>5

\* Membership in the bids that can be settled.
LEMMA Settled ==
  ASSUME NEW slot, NEW a, NEW e
  PROVE  e \in {f \in Bids(slot, a) : Unlocked(f)} <=>
           /\ \E u \in Valid("bid") :
                /\ Row(u.call).slot = slot /\ Row(u.call).action = a
                /\ e = [key |-> BidKey(u), row |-> Row(u.call)]
           /\ Unlocked(e)
  BY DEF Bids

LEMMA Collects1 ==
  ASSUME LedgerInv, ExpNum = 1, NEW slot \in Slots, NEW a \in Actions
  PROVE  NewBidCollection1(store, slot, a).bids
           = {e \in Bids(slot, a) : Unlocked(e)}
<1> DEFINE k == Key(slot, a, NoTx)
           pk == PrivKeyOf(k)
<1>1. k \in Keys /\ k.action \in Actions /\ k.priv = FALSE
  BY DEF Key, Keys
<1>2. \A u \in Valid("bid") :
        BidKey(u) = k <=> Row(u.call).slot = slot /\ Row(u.call).action = a
  BY TxShape, BidShape DEF Valid, BidKey, Key
<1>3. NewBidCollection1(store, slot, a).bids
        = {[key |-> k, row |-> r] : r \in Value(store, k) \cap Value(store, pk)}
  BY DEF NewBidCollection1, Entries
<1> HIDE DEF k
<1>4. ASSUME NEW e PROVE e \in NewBidCollection1(store, slot, a).bids <=>
                           e \in {f \in Bids(slot, a) : Unlocked(f)}
  <2>1. ASSUME NEW r \in Value(store, k) \cap Value(store, pk),
               e = [key |-> k, row |-> r]
        PROVE  e \in {f \in Bids(slot, a) : Unlocked(f)}
    <3>1. \E u \in Valid("bid") : BidKey(u) = k /\ Row(u.call) = r
      BY <1>1, BidAt
    <3>2. \E p \in Valid("postKey") : BidKey(p.call.bid) = k /\ Row(p.call) = r
      BY <1>1, PrivAt
    <3>3. Unlocked(e)
      BY <2>1, <3>2 DEF Unlocked
    <3> QED
      BY <1>2, <2>1, <3>1, <3>3, Settled
  <2>2. ASSUME NEW u \in Valid("bid"), Row(u.call).slot = slot,
               Row(u.call).action = a, Unlocked(e),
               e = [key |-> BidKey(u), row |-> Row(u.call)]
        PROVE  e \in NewBidCollection1(store, slot, a).bids
    <3>1. BidKey(u) = k /\ e.key = k /\ e.row = Row(u.call)
      BY <1>2, <2>2
    <3>2. e.row \in Value(store, k)
      BY <1>1, <3>1, BidAt
    <3>3. PICK p \in Valid("postKey") :
            Row(p.call) = e.row /\ BidKey(p.call.bid) = e.key
      BY <2>2 DEF Unlocked
    <3>4. Value(store, PrivKeyOf(k)) =
            {Row(v.call) : v \in {w \in Valid("postKey") : BidKey(w.call.bid) = k}}
      BY <1>1, PrivAt
    <3>5. e.row \in Value(store, pk)
      BY <3>1, <3>3, <3>4
    <3> QED
      BY <1>3, <2>2, <3>1, <3>2, <3>5
  <2> QED
    BY <1>3, <2>1, <2>2, Settled
<1> QED
  BY <1>4

LEMMA Collects2 ==
  ASSUME LedgerInv, NoPosting, ExpNum = 2, NEW slot \in Slots, NEW a \in Actions
  PROVE  NewBidCollection2(store, slot, a).bids
           = {e \in Bids(slot, a) : Unlocked(e)}
<1>1. Valid("postKey") = {}
  <2> SUFFICES ASSUME NEW t \in Txs, t.call.op = "postKey", tx[t] = "valid"
               PROVE  FALSE
    BY DEF Valid
  <2>1. call[t.call].st = "idle" /\ call[t.call].attempt = 1 /\ t.attempt >= 1
    BY TxShape, CallShape DEF NoPosting, LedgerInv, FreshAttempts, Attempts
  <2> QED
    BY <2>1, TxShape DEF LedgerInv, FreshAttempts, Attempts
<1>2. ASSUME NEW k \in Iter(store, slot, a)
      PROVE  k \in Keys /\ k.action \in Actions /\ k.priv = FALSE
             /\ k.slot = slot /\ k.action = a
  <2>1. /\ k \in DOMAIN store /\ k \in Keys /\ k.slot = slot /\ k.action = a
        /\ store[k].ver \in Txs /\ tx[store[k].ver] = "valid"
        /\ k = WriteKey(store[k].ver)
    BY DEF Iter, LedgerInv, TypeOK, ValidVersions
  <2>2. store[k].ver.call.op # "postKey"
    BY <1>1, <2>1 DEF Valid
  <2> QED
    BY <2>1, <2>2, WriteKeyKind
<1>3. ASSUME NEW e PROVE e \in NewBidCollection2(store, slot, a).bids <=>
                           e \in {f \in Bids(slot, a) : Unlocked(f)}
  <2>1. ASSUME NEW k \in Iter(store, slot, a), NEW r \in Value(store, k),
               e = [key |-> k, row |-> r]
        PROVE  e \in {f \in Bids(slot, a) : Unlocked(f)}
    <3>1. PICK u \in Valid("bid") : BidKey(u) = k /\ Row(u.call) = r
      BY <1>2, BidAt
    <3>2. Row(u.call).slot = slot /\ Row(u.call).action = a
      BY <1>2, <3>1, TxShape, BidShape DEF Valid
    <3> QED
      BY <2>1, <3>1, <3>2, Settled DEF Unlocked
  <2>2. ASSUME NEW u \in Valid("bid"), Row(u.call).slot = slot,
               Row(u.call).action = a,
               e = [key |-> BidKey(u), row |-> Row(u.call)]
        PROVE  /\ BidKey(u) \in Iter(store, slot, a)
               /\ Row(u.call) \in Value(store, BidKey(u))
    <3>1. /\ BidKey(u) \in Keys /\ BidKey(u).action = a /\ BidKey(u).slot = slot
          /\ BidKey(u).priv = FALSE
      BY <2>2, TxShape, BidShape DEF Valid
    <3> QED
      BY <2>2, <3>1, BidAt DEF Iter
  <2> QED
    BY <2>1, <2>2, Settled DEF NewBidCollection2, Entries
<1> QED
  BY <1>3

LEMMA Collects3 ==
  ASSUME LedgerInv, ExpNum = 3, NEW slot \in Slots, NEW a \in Actions
  PROVE  NewBidCollection3(store, slot, a).bids
           = {e \in Bids(slot, a) : Unlocked(e)}
<1> DEFINE Open(k) == /\ k \in Iter(store, slot, a) /\ ~ k.priv
                      /\ PrivKeyOf(k) \in DOMAIN store
<1>1. ASSUME NEW e
      PROVE  e \in NewBidCollection3(store, slot, a).bids <=>
               \E k : Open(k) /\ \E r \in Value(store, k) : e = [key |-> k, row |-> r]
  BY DEF NewBidCollection3, Entries
<1>2. ASSUME NEW k, Open(k)
      PROVE  /\ k \in Keys /\ k.action \in Actions /\ k.priv = FALSE
             /\ k.slot = slot /\ k.action = a
  BY <1>2 DEF Iter, LedgerInv, TypeOK, Keys
<1>3. ASSUME NEW u \in Valid("bid"), NEW p \in Valid("postKey"),
             BidKey(p.call.bid) = BidKey(u)
      PROVE  Row(p.call) = Row(u.call)
  <2>1. /\ u \in BidTxs /\ p.call.bid \in BidTxs /\ p.call.op = "postKey"
    BY TxShape, CallShape DEF Valid
  <2>2. p.call.bid = u
    BY <1>3, <2>1, KeyInjective
  <2> QED
    BY <2>1, <2>2, BidShape DEF Row
<1>4. ASSUME NEW e PROVE e \in NewBidCollection3(store, slot, a).bids <=>
                           e \in {f \in Bids(slot, a) : Unlocked(f)}
  <2>1. ASSUME NEW k, Open(k), NEW r \in Value(store, k),
               e = [key |-> k, row |-> r]
        PROVE  e \in {f \in Bids(slot, a) : Unlocked(f)}
    <3>1. PICK u \in Valid("bid") : BidKey(u) = k /\ Row(u.call) = r
      BY <1>2, <2>1, BidAt
    <3>2. PICK p \in Valid("postKey") : BidKey(p.call.bid) = k
      BY <1>2, <2>1, PrivAt
    <3>3. Row(u.call).slot = slot /\ Row(u.call).action = a
      BY <1>2, <2>1, <3>1, TxShape, BidShape DEF Valid
    <3>4. Unlocked(e)
      <4>1. Row(p.call) = e.row /\ BidKey(p.call.bid) = e.key
        BY <1>3, <2>1, <3>1, <3>2
      <4> QED
        BY <4>1 DEF Unlocked
    <3> QED
      BY <2>1, <3>1, <3>3, <3>4, Settled
  <2>2. ASSUME NEW u \in Valid("bid"), Row(u.call).slot = slot,
               Row(u.call).action = a, Unlocked(e),
               e = [key |-> BidKey(u), row |-> Row(u.call)]
        PROVE  Open(BidKey(u)) /\ Row(u.call) \in Value(store, BidKey(u))
    <3>1. /\ BidKey(u) \in Keys /\ BidKey(u).action = a /\ BidKey(u).slot = slot
          /\ BidKey(u).priv = FALSE
      BY <2>2, TxShape, BidShape DEF Valid
    <3>2. \E p \in Valid("postKey") : BidKey(p.call.bid) = BidKey(u)
      BY <2>2 DEF Unlocked
    <3> QED
      BY <2>2, <3>1, <3>2, BidAt, PrivAt DEF Iter
  <2> HIDE DEF Open
  <2> QED
    BY <1>1, <2>1, <2>2, Settled
<1> QED
  BY <1>4

LEMMA MarkSettles ==
  ASSUME LedgerInv, NoPosting, [Next]_vars, NEW t \in Txs, Marks(t),
         NEW a \in Actions
  PROVE  store'[MarkEndKey(t)].val[a]
           = {e \in Bids(t.call.slot, a) : Unlocked(e)}
<1>1. Commit(t)
  <2>1. ASSUME NEW c \in Calls, Endorse(c) PROVE FALSE
    BY <2>1, EndorseFacts DEF LedgerInv, Marks
  <2>2. ASSUME NEW u \in Txs, Commit(u), u # t PROVE FALSE
    BY <2>2, CommitFacts DEF LedgerInv, Marks
  <2> QED
    BY <2>1, <2>2, LedgerSteps DEF Marks
<1>2. t.call.op = "markEnd" /\ t.call.slot \in Slots
  BY TxShape, CallShape DEF Marks
<1>3. store'[MarkEndKey(t)].val = MarkEnd(store, t).val
  BY <1>1, <1>2, CommitFacts DEF LedgerInv, Marks, WriteKey, Invoke
<1>4. MarkEnd(store, t).val[a] = NewBidCollection(store, t.call.slot, a).bids
  BY DEF MarkEnd, Actions
<1>5. NewBidCollection(store, t.call.slot, a).bids
        = {e \in Bids(t.call.slot, a) : Unlocked(e)}
  <2>1. CASE ExpNum = 1
    BY <1>2, <2>1, Collects1 DEF NewBidCollection
  <2>2. CASE ExpNum = 2
    BY <1>2, <2>2, Collects2 DEF NewBidCollection
  <2>3. CASE ExpNum = 3
    BY <1>2, <2>3, Collects3 DEF NewBidCollection
  <2> QED
    BY <2>1, <2>2, <2>3, ConstantsAssumption
<1> QED
  BY <1>3, <1>4, <1>5

\* In every experiment, a markEnd that commits has settled exactly the bids
\* that the ledger holds together with their private keys at that moment.
THEOREM MarkEndSettlesTheLedger == Spec => SettlesTheLedger
<1>1. Init => NoPosting
  BY DEF Init, NoPosting, Calls
<1>2. LedgerInv /\ NoPosting /\ [Next]_vars => NoPosting'
  BY PostingStep DEF LedgerInv
<1>3. LedgerInv /\ NoPosting /\ [Next]_vars
        => [\A t \in Txs : Marks(t) =>
              \A a \in Actions : store'[MarkEndKey(t)].val[a]
                = {e \in Bids(t.call.slot, a) : Unlocked(e)}]_vars
  BY MarkSettles
<1> QED
  BY <1>1, <1>2, <1>3, LedgerInvariant, PTL DEF Spec, SettlesTheLedger
-----------------------------------------------------------------------------
(***************************************************************************)
(* The write-keys that bidders file, and what they post keys for: the bid  *)
(* transaction that ended its call with a success.  There is one for each  *)
(* call, and it stays the one.                                             *)
(***************************************************************************)
Filed(t) == tx[t] = "valid" /\ call[t.call].st = "acked" /\ t = Tx(t.call)

KeysInv ==
  /\ \A b \in Bidders : \A t \in recent[b] : Filed(t)
  /\ \A b \in Bidders : \A i \in DOMAIN recentQ[b] : Filed(recentQ[b][i])
  /\ \A c \in PostKeyCalls : call[c].st # "idle" => Filed(c.bid)

LEMMA ValidStays ==
  ASSUME LedgerInv, [Next]_vars, NEW t \in Txs, tx[t] = "valid"
  PROVE  tx'[t] = "valid"
<1>1. ASSUME NEW c \in Calls, Endorse(c) PROVE tx'[t] = "valid"
  BY <1>1, EndorseFacts DEF LedgerInv
<1>2. ASSUME NEW u \in Txs, Commit(u) PROVE tx'[t] = "valid"
  BY <1>2, CommitFacts DEF LedgerInv
<1> QED
  BY <1>1, <1>2, LedgerSteps

\* A call is moved by its own goroutine, never once it has succeeded, and
\* never back to the start.
LEMMA CallMoves ==
  ASSUME LedgerInv, [Next]_vars
  PROVE  \/ call' = call
         \/ \E c \in Calls, s \in CallStates \ {"idle"}, n \in Attempts :
              call[c].st # "acked" /\ Move(c, s, n)
<1>1. ASSUME NEW c \in Calls, NEW s \in CallStates \ {"idle"}, NEW n \in Attempts,
             call[c].st # "acked", Move(c, s, n)
      PROVE  \E d \in Calls, r \in CallStates \ {"idle"}, m \in Attempts :
               call[d].st # "acked" /\ Move(d, r, m)
  BY <1>1
<1>2. 1 \in Attempts /\ \A c \in Calls : call[c].attempt \in Attempts
  BY ConstantsAssumption DEF Attempts, LedgerInv, TypeOK
<1>3. \A s \in {"ready", "waiting", "acked", "failed"} : s \in CallStates \ {"idle"}
  BY DEF CallStates
<1>4. ASSUME NEW c \in Calls, Start(c)
      PROVE  \E d \in Calls, r \in CallStates \ {"idle"}, m \in Attempts :
               call[d].st # "acked" /\ Move(d, r, m)
  BY <1>1, <1>2, <1>3, <1>4 DEF Start
<1>5. ASSUME NEW c \in Calls, Fail(c), call[c].st # "acked"
      PROVE  \E d \in Calls, r \in CallStates \ {"idle"}, m \in Attempts :
               call[d].st # "acked" /\ Move(d, r, m)
  <2>1. CASE call[c].attempt < MaxAttempts(c)
    <3>1. call[c].attempt + 1 \in Attempts
      BY <1>2, <2>1, ConstantsAssumption DEF MaxAttempts, Attempts
    <3> QED
      BY <1>1, <1>3, <1>5, <2>1, <3>1 DEF Fail
  <2>2. CASE ~ (call[c].attempt < MaxAttempts(c))
    BY <1>1, <1>2, <1>3, <1>5, <2>2 DEF Fail
  <2> QED
    BY <2>1, <2>2
<1>6. CASE \E c \in BidCalls : StartBid(c)
  BY <1>4, <1>6 DEF StartBid, Calls
<1>7. CASE \E c \in MarkEndCalls : StartMarkEnd(c)
  BY <1>4, <1>7 DEF StartMarkEnd, Calls
<1>8. ASSUME NEW b \in Bidders, NEW t \in recent[b], PostKeyNext(b, t)
      PROVE  \E d \in Calls, r \in CallStates \ {"idle"}, m \in Attempts :
               call[d].st # "acked" /\ Move(d, r, m)
  <2>1. [op |-> "postKey", bid |-> t] \in Calls
    BY DEF LedgerInv, TypeOK, Calls, PostKeyCalls
  <2> QED
    BY <1>4, <1>8, <2>1 DEF PostKeyNext
<1>9. ASSUME NEW c \in Calls, Endorse(c)
      PROVE  \E d \in Calls, r \in CallStates \ {"idle"}, m \in Attempts :
               call[d].st # "acked" /\ Move(d, r, m)
  BY <1>1, <1>2, <1>3, <1>9 DEF Endorse
<1>10. ASSUME NEW c \in Calls, Reject(c) \/ LoseProposal(c) \/ Timeout(c)
       PROVE  \E d \in Calls, r \in CallStates \ {"idle"}, m \in Attempts :
                call[d].st # "acked" /\ Move(d, r, m)
  BY <1>5, <1>10 DEF Reject, LoseProposal, Timeout
<1>11. ASSUME NEW c \in Calls, Return(c)
       PROVE  \E d \in Calls, r \in CallStates \ {"idle"}, m \in Attempts :
                call[d].st # "acked" /\ Move(d, r, m)
  BY <1>1, <1>2, <1>3, <1>5, <1>11 DEF Return, Succeed
<1>12. ASSUME NEW b \in Bidders, Record(b) \/ PostKeyBegin(b) \/ PostKeyEnd(b)
       PROVE  call' = call
  BY <1>12 DEF Record, PostKeyBegin, PostKeyEnd
<1>13. CASE Notify \/ (\E t \in Txs : Commit(t)) \/ UNCHANGED vars
  BY <1>13 DEF Notify, Commit, vars
<1> QED
  BY <1>6, <1>7, <1>8, <1>9, <1>10, <1>11, <1>12, <1>13 DEF Next, Step, Poster

LEMMA AckedStays ==
  ASSUME LedgerInv, [Next]_vars, NEW c \in Calls, call[c].st = "acked"
  PROVE  call'[c] = call[c]
  BY CallMoves DEF Move, LedgerInv, TypeOK

LEMMA FiledStays ==
  ASSUME LedgerInv, [Next]_vars, NEW t \in BidTxs, Filed(t)
  PROVE  Filed(t)'
<1>1. t \in Txs /\ t.call \in Calls
  BY BidShape, TxShape
<1>2. tx'[t] = "valid"
  BY <1>1, ValidStays DEF Filed
<1>3. call'[t.call] = call[t.call]
  BY <1>1, AckedStays DEF Filed
<1> QED
  BY <1>2, <1>3 DEF Filed, Tx
LEMMA KeysStep ==
  ASSUME LedgerInv, KeysInv, [Next]_vars
  PROVE  KeysInv'
<1>1. ASSUME NEW b \in Bidders
      PROVE  /\ recent[b] \subseteq BidTxs
             /\ recentQ[b] \in Seq(BidTxs)
             /\ \A i \in DOMAIN recentQ[b] : recentQ[b][i] \in BidTxs
             /\ DOMAIN recent = Bidders /\ DOMAIN recentQ = Bidders
  BY DEF LedgerInv, TypeOK
<1>2. PostKeyCalls \subseteq Calls /\ \A c \in PostKeyCalls : c.bid \in BidTxs
  BY DEF Calls, PostKeyCalls
<1>3. ASSUME recent' = recent PROVE \A b \in Bidders : \A t \in recent'[b] : Filed(t)'
  BY <1>1, <1>3, FiledStays DEF KeysInv
<1>4. ASSUME recentQ' = recentQ
      PROVE  \A b \in Bidders : \A i \in DOMAIN recentQ'[b] : Filed(recentQ[b][i])'
  BY <1>1, <1>4, FiledStays DEF KeysInv
<1>5. ASSUME \A c \in PostKeyCalls : call'[c].st # "idle" => call[c].st # "idle"
      PROVE  \A c \in PostKeyCalls : call'[c].st # "idle" => Filed(c.bid)'
  BY <1>2, <1>5, FiledStays DEF KeysInv
<1>6. ASSUME NEW c \in Calls, NEW s, NEW n, Move(c, s, n),
             c \notin PostKeyCalls \/ call[c].st # "idle"
      PROVE  \A d \in PostKeyCalls : call'[d].st # "idle" => call[d].st # "idle"
  BY <1>2, <1>6 DEF Move, LedgerInv, TypeOK
<1>7. ASSUME NEW c \in Calls, Fail(c), call[c].st # "idle"
      PROVE  recentQ' = recentQ
             /\ \A d \in PostKeyCalls : call'[d].st # "idle" => call[d].st # "idle"
  BY <1>6, <1>7 DEF Fail
<1>8. ASSUME NEW c \in BidCalls \cup MarkEndCalls, Start(c), recent' = recent,
             recentQ' = recentQ
      PROVE  KeysInv'
  <2>1. c \in Calls /\ c \notin PostKeyCalls
    BY DEF Calls, BidCalls, MarkEndCalls, PostKeyCalls
  <2> QED
    BY <1>3, <1>4, <1>5, <1>6, <1>8, <2>1 DEF Start, KeysInv
<1>9. CASE \E c \in BidCalls : StartBid(c)
  BY <1>8, <1>9 DEF StartBid, agentVars
<1>10. CASE \E c \in MarkEndCalls : StartMarkEnd(c)
  BY <1>8, <1>10 DEF StartMarkEnd, agentVars
<1>11. ASSUME NEW b \in Bidders, Record(b) PROVE KeysInv'
  <2>1. /\ recentQ[b] # <<>> /\ call' = call
        /\ recent' = [recent EXCEPT ![b] = recent[b] \cup {Head(recentQ[b])}]
        /\ recentQ' = [recentQ EXCEPT ![b] = Tail(recentQ[b])]
    BY <1>11 DEF Record
  <2>2. /\ Head(recentQ[b]) = recentQ[b][1] /\ 1 \in DOMAIN recentQ[b]
        /\ \A i \in DOMAIN Tail(recentQ[b]) :
             i + 1 \in DOMAIN recentQ[b] /\ Tail(recentQ[b])[i] = recentQ[b][i + 1]
    BY <1>1, <2>1
  <2>3. \A d \in Bidders : \A i \in DOMAIN recentQ[d] :
          \A t : t = recentQ[d][i] => Filed(t)'
    BY <1>1, FiledStays DEF KeysInv
  <2>4. \A d \in Bidders : \A t \in recent[d] : Filed(t)'
    BY <1>1, FiledStays DEF KeysInv
  <2>5. \A d \in Bidders : \A t \in recent'[d] : Filed(t)'
    BY <1>1, <2>1, <2>2, <2>3, <2>4
  <2>6. \A d \in Bidders : \A i \in DOMAIN recentQ'[d] : Filed(recentQ[d][i])'
    BY <1>1, <2>1, <2>2, <2>3
  <2> QED
    BY <1>5, <2>1, <2>5, <2>6 DEF KeysInv
<1>12. ASSUME NEW b \in Bidders, PostKeyBegin(b) \/ PostKeyEnd(b) PROVE KeysInv'
  BY <1>3, <1>4, <1>5, <1>12 DEF PostKeyBegin, PostKeyEnd, KeysInv
<1>13. ASSUME NEW b \in Bidders, NEW t \in recent[b], PostKeyNext(b, t) PROVE KeysInv'
  <2> DEFINE c == [op |-> "postKey", bid |-> t]
  <2>1. c \in PostKeyCalls /\ t \in BidTxs
    BY <1>1 DEF PostKeyCalls
  <2>2. Filed(t)'
    BY <2>1, FiledStays DEF KeysInv
  <2>3. \A d \in PostKeyCalls : d # c => call'[d] = call[d]
    BY <1>2, <1>13, <2>1 DEF PostKeyNext, Start, Move, LedgerInv, TypeOK
  <2>4. ASSUME NEW d \in PostKeyCalls, call'[d].st # "idle" PROVE Filed(d.bid)'
    <3>1. CASE d = c
      BY <2>2, <3>1
    <3>2. CASE d # c
      BY <1>2, <2>3, <2>4, <3>2, FiledStays DEF KeysInv
    <3> QED
      BY <3>1, <3>2
  <2> QED
    BY <1>3, <1>4, <1>13, <2>4 DEF PostKeyNext, KeysInv
<1>14. ASSUME NEW c \in Calls, Endorse(c) PROVE KeysInv'
  BY <1>3, <1>4, <1>5, <1>6, <1>14 DEF Endorse, agentVars, KeysInv
<1>15. ASSUME NEW c \in Calls, Reject(c) \/ LoseProposal(c) \/ Timeout(c) PROVE KeysInv'
  BY <1>3, <1>4, <1>5, <1>7, <1>15 DEF Reject, LoseProposal, Timeout, KeysInv
<1>16. ASSUME NEW c \in Calls, Return(c) PROVE KeysInv'
  <2>1. call[c].st = "waiting" /\ recent' = recent /\ tx' = tx
    BY <1>16 DEF Return, ledgerVars
  <2>2. CASE Fail(c)
    BY <1>3, <1>4, <1>5, <1>7, <2>1, <2>2 DEF KeysInv
  <2>3. CASE tx[Tx(c)] = "valid" /\ Succeed(c)
    <3>1. Move(c, "acked", call[c].attempt)
      BY <2>3 DEF Succeed
    <3>2. \A d \in PostKeyCalls : call'[d].st # "idle" => call[d].st # "idle"
      BY <1>6, <2>1, <3>1
    <3>3. \A t : t = Tx(c) => Filed(t)'
      <4>1. Tx(c).call = c /\ Tx(c)' = Tx(c) /\ call'[c].st = "acked"
        BY <3>1, TxType DEF LedgerInv, TypeOK, Move, Tx
      <4> QED
        BY <2>1, <2>3, <4>1 DEF Filed, Tx
    <3>4. \A d \in Bidders : \A i \in DOMAIN recentQ[d] :
            \A t : t = recentQ[d][i] => Filed(t)'
      BY <1>1, FiledStays DEF KeysInv
    <3>5. \/ recentQ' = recentQ
          \/ /\ c.op = "bid"
             /\ recentQ' = [recentQ EXCEPT ![c.row.bidder] = Append(recentQ[c.row.bidder], Tx(c))]
      BY <2>3 DEF Succeed
    <3>6. CASE recentQ' = recentQ
      BY <1>3, <1>4, <1>5, <2>1, <3>2, <3>6 DEF KeysInv
    <3>7. CASE /\ c.op = "bid"
               /\ recentQ' = [recentQ EXCEPT ![c.row.bidder] = Append(recentQ[c.row.bidder], Tx(c))]
      <4> DEFINE b == c.row.bidder
      <4>1. b \in Bidders /\ Tx(c) \in BidTxs
        BY <3>7, CallShape, TxType DEF LedgerInv, Row
      <4>2. recentQ'[b] = Append(recentQ[b], Tx(c)) /\ recentQ[b] \in Seq(BidTxs)
            /\ \A d \in Bidders : d # b => recentQ'[d] = recentQ[d]
        BY <1>1, <3>7, <4>1
      <4> HIDE DEF b
      <4>3. \A i \in DOMAIN recentQ'[b] :
              \/ i \in DOMAIN recentQ[b] /\ recentQ'[b][i] = recentQ[b][i]
              \/ recentQ'[b][i] = Tx(c)
        BY <4>1, <4>2
      <4>4. \A d \in Bidders : \A i \in DOMAIN recentQ'[d] : Filed(recentQ[d][i])'
        BY <3>3, <3>4, <4>1, <4>2, <4>3
      <4> QED
        BY <1>3, <1>5, <2>1, <3>2, <4>4 DEF KeysInv
    <3> QED
      BY <3>5, <3>6, <3>7
  <2> QED
    BY <1>16, <2>2, <2>3 DEF Return
<1>17. CASE Notify \/ (\E t \in Txs : Commit(t)) \/ UNCHANGED vars
  BY <1>3, <1>4, <1>5, <1>17 DEF Notify, Commit, vars, agentVars, KeysInv
<1> QED
  BY <1>9, <1>10, <1>11, <1>12, <1>13, <1>14, <1>15, <1>16, <1>17 DEF Next, Step, Poster

LEMMA KeysInvariant == Spec => [](LedgerInv /\ KeysInv)
<1>1. Init => KeysInv
  BY DEF Init, KeysInv, Calls
<1> QED
  BY <1>1, KeysStep, LedgerInit, LedgerStep, PTL DEF Spec

\* A private key is posted for a bid transaction that its bidder has filed.
LEMMA PostedIsFiled ==
  ASSUME LedgerInv, KeysInv, NEW p \in Txs, p.call.op = "postKey", tx[p] # "none"
  PROVE  p.call.bid \in BidTxs /\ Filed(p.call.bid)
<1>1. p.call \in PostKeyCalls /\ p.call \in Calls /\ p.call.bid \in BidTxs
  BY TxShape, CallShape
<1>2. p.attempt \in Int /\ p.attempt >= 1
  BY TxShape DEF Attempts
<1>3. call[p.call].st # "idle"
  BY <1>1, <1>2 DEF LedgerInv, FreshAttempts
<1> QED
  BY <1>1, <1>3 DEF KeysInv

(***************************************************************************)
(* A private key leaves its bidder only for a bid that is on the ledger,   *)
(* under the key it is posted for: what a timed-out attempt may yet become *)
(* is never filed (bidder.go: RecentBidKeys feeds PostKey).                *)
(***************************************************************************)
THEOREM KeysFollowBids == Spec => []KeyOnlyAfterBid
<1>1. LedgerInv /\ KeysInv => KeyOnlyAfterBid
  BY PostedIsFiled DEF KeyOnlyAfterBid, Filed
<1> QED
  BY <1>1, KeysInvariant, PTL
(***************************************************************************)
(* What has been settled: bids that their bidders have filed, so one of    *)
(* each call.  In experiment 2 nothing is filed and nothing posted, and a  *)
(* bid that made it to the ledger twice is settled twice.                  *)
(***************************************************************************)
Entry(u) == [key |-> BidKey(u), row |-> Row(u.call)]

SettledInv ==
  \A k \in DOMAIN store : k.action = "markEnd" =>
    \A a \in Actions : \A e \in store[k].val[a] :
      \E u \in BidTxs : Filed(u) /\ e = Entry(u)

LEMMA SettledStep ==
  ASSUME LedgerInv, KeysInv, SettledInv, ExpNum # 2, [Next]_vars
  PROVE  SettledInv'
<1>1. \A u \in BidTxs : Filed(u) => Filed(u)'
  BY FiledStays
<1>2. \A u : Entry(u)' = Entry(u)
  BY DEF Entry, BidKey, Key, Row
<1>3. ASSUME NEW k \in DOMAIN store, k.action = "markEnd", NEW a \in Actions,
             NEW e \in store[k].val[a]
      PROVE  \E u \in BidTxs : Filed(u)' /\ e = Entry(u)
  BY <1>1, <1>3 DEF SettledInv
<1>4. CASE store' = store
  BY <1>2, <1>3, <1>4 DEF SettledInv
<1>5. ASSUME NEW t \in Txs, Commit(t), tx'[t] = "valid" PROVE SettledInv'
  <2>1. /\ tx[t] = "flight" /\ Differ(store, store', WriteKey(t))
        /\ WriteKey(t) \in DOMAIN store'
    BY <1>5, CommitFacts DEF LedgerInv
  <2> SUFFICES ASSUME NEW k \in DOMAIN store', k.action = "markEnd", NEW a \in Actions,
                      NEW e \in store'[k].val[a]
               PROVE  \E u \in BidTxs : Filed(u)' /\ e = Entry(u)
    BY <1>2 DEF SettledInv
  <2>2. CASE k # WriteKey(t)
    <3>1. k \in DOMAIN store /\ store'[k] = store[k]
      BY <2>1, <2>2 DEF Differ
    <3> QED
      BY <1>3, <3>1
  <2>3. CASE k = WriteKey(t)
    <3>1. t.call.op = "markEnd"
      BY <2>3, WriteKeyKind DEF Actions
    <3>2. k = MarkEndKey(t) /\ Marks(t)
      BY <1>5, <2>1, <2>3, <3>1 DEF WriteKey, Marks
    <3>3. NoPosting
      BY DEF NoPosting
    <3>4. e \in {f \in Bids(t.call.slot, a) : Unlocked(f)}
      BY <3>2, <3>3, MarkSettles
    <3>5. Unlocked(e)
      BY <3>4
    <3>6. PICK p \in Valid("postKey") : Row(p.call) = e.row /\ BidKey(p.call.bid) = e.key
      BY <3>5 DEF Unlocked
    <3>7. p \in Txs /\ p.call.op = "postKey" /\ tx[p] # "none"
      BY <3>6 DEF Valid
    <3>8. p.call.bid \in BidTxs /\ Filed(p.call.bid)
      BY <3>7, PostedIsFiled
    <3>9. e = [key |-> e.key, row |-> e.row]
      BY <3>4, Settled
    <3>10. e = Entry(p.call.bid)
      <4>1. Row(p.call) = Row(p.call.bid.call)
        BY <3>7, <3>8, BidShape DEF Row
      <4> QED
        BY <3>6, <3>9, <4>1 DEF Entry
    <3> QED
      BY <1>1, <3>8, <3>10
  <2> QED
    BY <2>2, <2>3
<1>6. ASSUME NEW t \in Txs, Commit(t), tx'[t] # "valid" PROVE store' = store
  BY <1>6, CommitFacts DEF LedgerInv
<1>7. ASSUME NEW c \in Calls, Endorse(c) PROVE store' = store
  BY <1>7 DEF Endorse
<1> QED
  BY <1>4, <1>5, <1>6, <1>7, LedgerSteps

LEMMA FiledOnce ==
  ASSUME NEW u \in BidTxs, NEW v \in BidTxs, Filed(u), Filed(v), Row(u.call) = Row(v.call)
  PROVE  u = v
<1>1. u.call.row = v.call.row
  BY BidShape
<1>2. u.call = v.call
  BY <1>1 DEF BidTxs, BidCalls
<1> QED
  BY <1>2 DEF Filed

(***************************************************************************)
(* No bid is counted twice in a clearing, even when a timed-out attempt    *)
(* and its retry both made it to the ledger (markend.go,                   *)
(* newBidCollection).  Experiment 2 is out: there it does happen.          *)
(***************************************************************************)
THEOREM BidsClearOnce ==
  ASSUME ExpNum # 2
  PROVE  Spec => []ClearedOnce
<1>1. Init => SettledInv
  BY DEF Init, SettledInv
<1>2. LedgerInv /\ KeysInv /\ SettledInv /\ [Next]_vars => SettledInv'
  BY SettledStep
<1>3. SettledInv => ClearedOnce
  <2> SUFFICES ASSUME SettledInv, NEW k \in DOMAIN store, k.action = "markEnd",
                      NEW a \in Actions, NEW e \in store[k].val[a],
                      NEW f \in store[k].val[a], e.row = f.row
               PROVE  e = f
    BY DEF ClearedOnce
  <2>1. PICK u \in BidTxs : Filed(u) /\ e = Entry(u)
    BY DEF SettledInv
  <2>2. PICK v \in BidTxs : Filed(v) /\ f = Entry(v)
    BY DEF SettledInv
  <2>3. u = v
    BY <2>1, <2>2, FiledOnce DEF Entry
  <2> QED
    BY <2>1, <2>2, <2>3
<1> QED
  BY <1>1, <1>2, <1>3, KeysInvariant, PTL DEF Spec
-----------------------------------------------------------------------------
(***************************************************************************)
(* What markEnd counts as problematic decryptions: the bids on the ledger  *)
(* that it does not settle.                                                *)
(***************************************************************************)
LEMMA BidsOnLedger ==
  ASSUME LedgerInv, NEW slot \in Slots, NEW a \in Actions, NEW e
  PROVE  e \in Bids(slot, a) <=>
           \E k \in Iter(store, slot, a) :
             ~ k.priv /\ \E r \in Value(store, k) : e = [key |-> k, row |-> r]
<1>1. ASSUME NEW k \in Iter(store, slot, a), ~ k.priv, NEW r \in Value(store, k),
             e = [key |-> k, row |-> r]
      PROVE  e \in Bids(slot, a)
  <2>1. k \in Keys /\ k.action \in Actions /\ k.priv = FALSE /\ k.slot = slot /\ k.action = a
    BY <1>1 DEF Iter, LedgerInv, TypeOK, Keys
  <2>2. PICK u \in Valid("bid") : BidKey(u) = k /\ Row(u.call) = r
    BY <1>1, <2>1, BidAt
  <2>3. Row(u.call).slot = slot /\ Row(u.call).action = a
    BY <2>1, <2>2, TxShape, BidShape DEF Valid
  <2> QED
    BY <1>1, <2>2, <2>3 DEF Bids
<1>2. ASSUME e \in Bids(slot, a)
      PROVE  \E k \in Iter(store, slot, a) :
               ~ k.priv /\ \E r \in Value(store, k) : e = [key |-> k, row |-> r]
  <2>1. PICK u \in Valid("bid") : /\ Row(u.call).slot = slot /\ Row(u.call).action = a
                                  /\ e = [key |-> BidKey(u), row |-> Row(u.call)]
    BY <1>2 DEF Bids
  <2>2. /\ BidKey(u) \in Keys /\ BidKey(u).action = a /\ BidKey(u).slot = slot
        /\ BidKey(u).priv = FALSE
    BY <2>1, TxShape, BidShape DEF Valid
  <2>3. BidKey(u) \in Iter(store, slot, a) /\ Row(u.call) \in Value(store, BidKey(u))
    BY <2>2, BidAt DEF Iter
  <2> QED
    BY <2>1, <2>2, <2>3
<1> QED
  BY <1>1, <1>2

LEMMA Skips1 ==
  ASSUME LedgerInv, ExpNum = 1, NEW slot \in Slots, NEW a \in Actions,
         ~ NewBidCollection1(store, slot, a).err
  PROVE  NewBidCollection1(store, slot, a).skipped
           = Bids(slot, a) \ NewBidCollection1(store, slot, a).bids
<1> DEFINE k == Key(slot, a, NoTx)
           pk == PrivKeyOf(k)
<1>1. k \in Keys /\ k.action \in Actions /\ k.priv = FALSE
  BY DEF Key, Keys
<1>2. \A u \in Valid("bid") :
        BidKey(u) = k <=> Row(u.call).slot = slot /\ Row(u.call).action = a
  BY TxShape, BidShape DEF Valid, BidKey, Key
<1>3. /\ NewBidCollection1(store, slot, a).bids
           = {[key |-> k, row |-> r] : r \in Value(store, k) \cap Value(store, pk)}
      /\ NewBidCollection1(store, slot, a).skipped
           = IF pk \in DOMAIN store
               THEN {[key |-> k, row |-> r] : r \in Value(store, k) \ Value(store, pk)}
               ELSE {}
      /\ k \in DOMAIN store => pk \in DOMAIN store
  BY DEF NewBidCollection1, Entries
<1> HIDE DEF k
<1>4. Bids(slot, a) = {[key |-> k, row |-> r] : r \in Value(store, k)}
  <2>1. ASSUME NEW e \in Bids(slot, a)
        PROVE  \E r \in Value(store, k) : e = [key |-> k, row |-> r]
    <3>1. PICK u \in Valid("bid") : /\ Row(u.call).slot = slot /\ Row(u.call).action = a
                                    /\ e = [key |-> BidKey(u), row |-> Row(u.call)]
      BY DEF Bids
    <3> QED
      BY <1>1, <1>2, <3>1, BidAt
  <2>2. ASSUME NEW r \in Value(store, k) PROVE [key |-> k, row |-> r] \in Bids(slot, a)
    <3>1. PICK u \in Valid("bid") : BidKey(u) = k /\ Row(u.call) = r
      BY <1>1, BidAt
    <3> QED
      BY <1>2, <3>1 DEF Bids
  <2> QED
    BY <2>1, <2>2
<1>5. pk \notin DOMAIN store => Value(store, k) = {}
  BY <1>3 DEF Value
<1> QED
  BY <1>3, <1>4, <1>5

LEMMA Skips2 ==
  ASSUME LedgerInv, NoPosting, ExpNum = 2, NEW slot \in Slots, NEW a \in Actions
  PROVE  NewBidCollection2(store, slot, a).skipped
           = Bids(slot, a) \ NewBidCollection2(store, slot, a).bids
<1>1. NewBidCollection2(store, slot, a).skipped = {}
  BY DEF NewBidCollection2
<1>2. \A e : Unlocked(e)
  BY DEF Unlocked
<1> QED
  BY <1>1, <1>2, Collects2

LEMMA Skips3 ==
  ASSUME LedgerInv, NEW slot \in Slots, NEW a \in Actions
  PROVE  NewBidCollection3(store, slot, a).skipped
           = Bids(slot, a) \ NewBidCollection3(store, slot, a).bids
<1> DEFINE Found(k) == k \in Iter(store, slot, a) /\ ~ k.priv
           Open(k) == PrivKeyOf(k) \in DOMAIN store
           Holds(k, e) == \E r \in Value(store, k) : e = [key |-> k, row |-> r]
<1> SUFFICES ASSUME NEW e
             PROVE  e \in NewBidCollection3(store, slot, a).skipped <=>
                      /\ e \in Bids(slot, a)
                      /\ e \notin NewBidCollection3(store, slot, a).bids
  OBVIOUS
<1>1. e \in NewBidCollection3(store, slot, a).bids <=>
        \E k : Found(k) /\ Open(k) /\ Holds(k, e)
  BY DEF NewBidCollection3, Entries
<1>2. e \in NewBidCollection3(store, slot, a).skipped <=>
        \E k : Found(k) /\ ~ Open(k) /\ Holds(k, e)
  BY DEF NewBidCollection3, Entries
<1>3. e \in Bids(slot, a) <=> \E k : Found(k) /\ Holds(k, e)
  BY BidsOnLedger
<1>4. \A k, l : Holds(k, e) /\ Holds(l, e) => k = l
  OBVIOUS
<1> QED
  BY <1>1, <1>2, <1>3, <1>4

LEMMA Skips ==
  ASSUME LedgerInv, NoPosting, NEW slot \in Slots, NEW a \in Actions,
         ~ NewBidCollection(store, slot, a).err
  PROVE  NewBidCollection(store, slot, a).skipped
           = Bids(slot, a) \ NewBidCollection(store, slot, a).bids
<1>1. CASE ExpNum = 1
  BY <1>1, Skips1 DEF NewBidCollection
<1>2. CASE ExpNum = 2
  BY <1>2, Skips2 DEF NewBidCollection
<1>3. CASE ExpNum = 3
  BY <1>3, Skips3 DEF NewBidCollection
<1> QED
  BY <1>1, <1>2, <1>3, ConstantsAssumption

\* A skipped bid is one of the slot and of the action that are collected.
LEMMA SkippedSlot ==
  ASSUME NEW st, NEW slot, NEW a, NEW e \in NewBidCollection(st, slot, a).skipped
  PROVE  e.key.slot = slot /\ e.key.action = a
<1>1. CASE ExpNum = 1
  BY <1>1 DEF NewBidCollection, NewBidCollection1, Entries, Key
<1>2. CASE ExpNum = 2
  BY <1>2 DEF NewBidCollection, NewBidCollection2
<1>3. CASE ExpNum = 3
  BY <1>3 DEF NewBidCollection, NewBidCollection3, Entries, Iter
<1> QED
  BY <1>1, <1>2, <1>3, ConstantsAssumption

LEMMA InvokeCounts ==
  ASSUME NEW st, NEW t \in Txs
  PROVE  /\ t.call.op # "markEnd" => Invoke(st, t).metrics.decrypt = {}
         /\ t.call.op = "markEnd" =>
              \A e \in Invoke(st, t).metrics.decrypt : e.key.slot = t.call.slot
<1>1. ASSUME NEW k PROVE WriteRow(st, t, k).metrics.decrypt = {}
  BY DEF WriteRow
<1>2. t.call.op # "markEnd" => Invoke(st, t).metrics.decrypt = {}
  BY <1>1, TxShape, CallShape DEF Invoke, Bid, PostKey
<1>3. ASSUME t.call.op = "markEnd", NEW e \in Invoke(st, t).metrics.decrypt
      PROVE  e.key.slot = t.call.slot
  <2>1. \/ e \in NewBidCollection(st, t.call.slot, "buy").skipped
        \/ e \in NewBidCollection(st, t.call.slot, "sell").skipped
    BY <1>3 DEF Invoke, MarkEnd
  <2> QED
    BY <2>1, SkippedSlot
<1> QED
  BY <1>2, <1>3
(***************************************************************************)
(* markEnd is tried once for each slot, so what is counted for a slot is   *)
(* what this one simulation has skipped.                                   *)
(***************************************************************************)
CountedFor(s) == {e \in metrics.decrypt : e.key.slot = s}

MarksOnce(c) ==
  /\ call[c].attempt = 1
  /\ call[c].st \in {"idle", "ready"} => CountedFor(c.slot) = {}

CountsOwn(t) == sim[t].ok /\ CountedFor(t.call.slot) = sim[t].metrics.decrypt

CountInv ==
  /\ \A c \in MarkEndCalls : MarksOnce(c)
  /\ \A t \in Txs : t.call.op = "markEnd" /\ tx[t] = "flight" => CountsOwn(t)

LEMMA CountChange ==
  ASSUME LedgerInv, NEW c \in Calls, Count(Invoke(store, Tx(c)).metrics)
  PROVE  /\ \A s : (c.op = "markEnd" => s # c.slot) => CountedFor(s)' = CountedFor(s)
         /\ c.op = "markEnd" =>
              CountedFor(c.slot)' = CountedFor(c.slot) \cup Invoke(store, Tx(c)).metrics.decrypt
<1>1. Tx(c) \in Txs /\ Tx(c).call = c
  BY TxType DEF LedgerInv
<1>2. metrics'.decrypt = metrics.decrypt \cup Invoke(store, Tx(c)).metrics.decrypt
  BY DEF Count
<1>3. /\ c.op # "markEnd" => Invoke(store, Tx(c)).metrics.decrypt = {}
      /\ c.op = "markEnd" =>
           \A e \in Invoke(store, Tx(c)).metrics.decrypt : e.key.slot = c.slot
  BY <1>1, InvokeCounts
<1> QED
  BY <1>2, <1>3 DEF CountedFor

LEMMA CountStep ==
  ASSUME LedgerInv, CountInv, [Next]_vars
  PROVE  CountInv'
<1>1. /\ MarkEndCalls \subseteq Calls
      /\ \A c \in MarkEndCalls : c.op = "markEnd"
      /\ \A c, d \in MarkEndCalls : c.slot = d.slot => c = d
  BY DEF Calls, MarkEndCalls
<1>2. \A t \in Txs : t.call.op = "markEnd" => t.call \in MarkEndCalls
  BY TxShape, CallShape
<1>3. ASSUME metrics' = metrics PROVE \A s : CountedFor(s)' = CountedFor(s)
  BY <1>3 DEF CountedFor
<1>4. ASSUME metrics' = metrics,
             \A t \in Txs : tx'[t] = "flight" => tx[t] = "flight" /\ sim'[t] = sim[t],
             \A c \in MarkEndCalls :
               \/ call'[c] = call[c]
               \/ /\ call'[c].attempt = 1
                  /\ call'[c].st \in {"idle", "ready"} => call[c].st \in {"idle", "ready"}
      PROVE  CountInv'
  <2>1. ASSUME NEW c \in MarkEndCalls PROVE MarksOnce(c)'
    <3>1. MarksOnce(c) /\ CountedFor(c.slot)' = CountedFor(c.slot)
      BY <1>3, <1>4 DEF CountInv
    <3> QED
      BY <1>4, <3>1 DEF MarksOnce
  <2>2. ASSUME NEW t \in Txs, t.call.op = "markEnd", tx'[t] = "flight" PROVE CountsOwn(t)'
    <3>1. CountsOwn(t) /\ sim'[t] = sim[t]
      BY <1>4, <2>2 DEF CountInv
    <3> QED
      BY <1>3, <1>4, <3>1 DEF CountsOwn
  <2> QED
    BY <2>1, <2>2 DEF CountInv
<1>5. ASSUME NEW c \in Calls, NEW s, NEW n, Move(c, s, n),
             c \in MarkEndCalls =>
               n = 1 /\ (s \in {"idle", "ready"} => call[c].st \in {"idle", "ready"})
      PROVE  \A d \in MarkEndCalls :
               \/ call'[d] = call[d]
               \/ /\ call'[d].attempt = 1
                  /\ call'[d].st \in {"idle", "ready"} => call[d].st \in {"idle", "ready"}
  BY <1>1, <1>5 DEF Move, LedgerInv, TypeOK
<1>6. ASSUME NEW c \in Calls, Fail(c), c \in MarkEndCalls
      PROVE  Move(c, "failed", 1)
  <2>1. call[c].attempt = 1 /\ MaxAttempts(c) = 1
    BY <1>1, <1>6 DEF CountInv, MarksOnce, MaxAttempts
  <2> QED
    BY <1>6, <2>1 DEF Fail
<1>7. ASSUME NEW c \in Calls, Fail(c)
      PROVE  \A d \in MarkEndCalls :
               \/ call'[d] = call[d]
               \/ /\ call'[d].attempt = 1
                  /\ call'[d].st \in {"idle", "ready"} => call[d].st \in {"idle", "ready"}
  BY <1>5, <1>6, <1>7 DEF Fail
<1>8. ASSUME NEW c \in Calls, Start(c), UNCHANGED <<metrics, tx, sim>> PROVE CountInv'
  BY <1>4, <1>5, <1>8 DEF Start
<1>9. ASSUME NEW c \in BidCalls, StartBid(c) PROVE CountInv'
  BY <1>8, <1>9 DEF StartBid, ledgerVars, Calls
<1>10. ASSUME NEW c \in MarkEndCalls, StartMarkEnd(c) PROVE CountInv'
  BY <1>8, <1>10 DEF StartMarkEnd, ledgerVars, Calls
<1>11. ASSUME NEW b \in Bidders, NEW t \in recent[b], PostKeyNext(b, t) PROVE CountInv'
  <2>1. [op |-> "postKey", bid |-> t] \in Calls
    BY DEF LedgerInv, TypeOK, Calls, PostKeyCalls
  <2> QED
    BY <1>8, <1>11, <2>1 DEF PostKeyNext, ledgerVars
<1>12. ASSUME NEW b \in Bidders, Record(b) \/ PostKeyBegin(b) \/ PostKeyEnd(b) PROVE CountInv'
  BY <1>4, <1>12 DEF Record, PostKeyBegin, PostKeyEnd, ledgerVars
<1>13. ASSUME NEW c \in Calls, LoseProposal(c) \/ Timeout(c) PROVE CountInv'
  BY <1>4, <1>7, <1>13 DEF LoseProposal, Timeout, ledgerVars
<1>14. ASSUME NEW c \in Calls, Return(c) PROVE CountInv'
  <2>1. CASE Fail(c)
    BY <1>4, <1>7, <1>14, <2>1 DEF Return, ledgerVars
  <2>2. CASE Succeed(c)
    <3>1. c \in MarkEndCalls => call[c].attempt = 1
      BY DEF CountInv, MarksOnce
    <3>2. \A d \in MarkEndCalls :
            \/ call'[d] = call[d]
            \/ /\ call'[d].attempt = 1
               /\ call'[d].st \in {"idle", "ready"} => call[d].st \in {"idle", "ready"}
      BY <1>5, <2>2, <3>1 DEF Succeed
    <3> QED
      BY <1>4, <1>14, <3>2 DEF Return, ledgerVars
  <2> QED
    BY <1>14, <2>1, <2>2 DEF Return
<1>15. ASSUME NEW t \in Txs, Commit(t) PROVE CountInv'
  <2>1. \A u \in Txs : tx'[u] = "flight" => tx[u] = "flight" /\ sim'[u] = sim[u]
    BY <1>15 DEF Commit, LedgerInv, TypeOK
  <2> QED
    BY <1>4, <1>15, <2>1 DEF Commit
<1>16. CASE Notify \/ UNCHANGED vars
  BY <1>4, <1>16 DEF Notify, vars
<1>17. ASSUME NEW c \in Calls, Endorse(c) PROVE CountInv'
  <2>1. /\ Tx(c) \in Txs /\ Tx(c).call = c /\ Tx(c).attempt = call[c].attempt
        /\ sim'[Tx(c)] = Invoke(store, Tx(c)) /\ Invoke(store, Tx(c)).ok
        /\ \A t \in Txs : t # Tx(c) => tx'[t] = tx[t] /\ sim'[t] = sim[t]
        /\ Move(c, "waiting", call[c].attempt) /\ call[c].st = "ready"
        /\ Count(Invoke(store, Tx(c)).metrics)
    BY <1>17, EndorseFacts, TxType DEF Endorse, LedgerInv
  <2>2. /\ \A s : (c.op = "markEnd" => s # c.slot) => CountedFor(s)' = CountedFor(s)
        /\ c.op = "markEnd" =>
             CountedFor(c.slot)' = CountedFor(c.slot) \cup Invoke(store, Tx(c)).metrics.decrypt
    BY <2>1, CountChange
  <2>3. ASSUME NEW d \in MarkEndCalls PROVE MarksOnce(d)'
    <3>1. MarksOnce(d) /\ d.op = "markEnd" /\ d \in Calls
      BY <1>1 DEF CountInv
    <3>2. CASE d = c
      <4>1. call'[d].st = "waiting" /\ call'[d].attempt = call[d].attempt
        BY <2>1, <3>2 DEF Move, LedgerInv, TypeOK
      <4> QED
        BY <3>1, <4>1 DEF MarksOnce
    <3>3. CASE d # c
      <4>1. call'[d] = call[d]
        BY <2>1, <3>1, <3>3 DEF Move, LedgerInv, TypeOK
      <4>2. c.op = "markEnd" => d.slot # c.slot
        BY <1>1, <3>3, CallShape
      <4> QED
        BY <2>2, <3>1, <4>1, <4>2 DEF MarksOnce
    <3> QED
      BY <3>2, <3>3
  <2>4. ASSUME NEW t \in Txs, t.call.op = "markEnd", tx'[t] = "flight" PROVE CountsOwn(t)'
    <3>1. CASE t = Tx(c)
      <4>1. c \in MarkEndCalls /\ c.op = "markEnd" /\ t.call = c
        BY <2>1, <2>4, <3>1, CallShape
      <4>2. CountedFor(c.slot) = {}
        BY <2>1, <4>1 DEF CountInv, MarksOnce
      <4> QED
        BY <2>1, <2>2, <3>1, <4>1, <4>2 DEF CountsOwn
    <3>2. CASE t # Tx(c)
      <4>1. tx[t] = "flight" /\ sim'[t] = sim[t]
        BY <2>1, <2>4, <3>2
      <4>2. CountsOwn(t)
        BY <2>4, <4>1 DEF CountInv
      <4>3. t.call # c
        <5>1. SUFFICES ASSUME t.call = c PROVE FALSE
          OBVIOUS
        <5>2. call[c].attempt = 1
          BY <1>2, <2>4, <5>1 DEF CountInv, MarksOnce
        <5>3. t.attempt \in Int /\ t.attempt >= 1
          BY TxShape DEF Attempts
        <5> QED
          BY <2>1, <4>1, <5>1, <5>2, <5>3 DEF LedgerInv, FreshAttempts
      <4>4. c.op = "markEnd" => t.call.slot # c.slot
        BY <1>1, <1>2, <2>4, <4>3, CallShape
      <4> QED
        BY <2>2, <4>1, <4>2, <4>4 DEF CountsOwn
    <3> QED
      BY <3>1, <3>2
  <2> QED
    BY <2>3, <2>4 DEF CountInv
<1>18. ASSUME NEW c \in Calls, Reject(c) PROVE CountInv'
  <2>1. /\ UNCHANGED <<tx, sim>> /\ Fail(c) /\ call[c].st = "ready"
        /\ Count(Invoke(store, Tx(c)).metrics)
    BY <1>18 DEF Reject
  <2>2. \A s : (c.op = "markEnd" => s # c.slot) => CountedFor(s)' = CountedFor(s)
    BY <2>1, CountChange
  <2>3. ASSUME NEW d \in MarkEndCalls PROVE MarksOnce(d)'
    <3>1. MarksOnce(d) /\ d.op = "markEnd" /\ d \in Calls
      BY <1>1 DEF CountInv
    <3>2. CASE d = c
      <4>1. Move(c, "failed", 1)
        BY <1>6, <2>1, <3>2
      <4>2. call'[d].st = "failed" /\ call'[d].attempt = 1
        BY <3>1, <3>2, <4>1 DEF Move, LedgerInv, TypeOK
      <4> QED
        BY <4>2 DEF MarksOnce
    <3>3. CASE d # c
      <4>1. call'[d] = call[d]
        BY <2>1, <3>1, <3>3 DEF Fail, Move, LedgerInv, TypeOK
      <4>2. c.op = "markEnd" => d.slot # c.slot
        BY <1>1, <3>3, CallShape
      <4> QED
        BY <2>2, <3>1, <4>1, <4>2 DEF MarksOnce
    <3> QED
      BY <3>2, <3>3
  <2>4. ASSUME NEW t \in Txs, t.call.op = "markEnd", tx'[t] = "flight" PROVE CountsOwn(t)'
    <3>1. CountsOwn(t) /\ tx[t] = "flight" /\ sim'[t] = sim[t]
      BY <2>1, <2>4 DEF CountInv
    <3>2. t.call # c
      <4>1. t.attempt \in Int /\ t.attempt >= 1
        BY TxShape DEF Attempts
      <4>2. t.call = c => call[c].attempt = 1
        BY <1>2, <2>4 DEF CountInv, MarksOnce
      <4> QED
        BY <2>1, <3>1, <4>1, <4>2 DEF LedgerInv, FreshAttempts
    <3>3. c.op = "markEnd" => t.call.slot # c.slot
      BY <1>1, <1>2, <2>4, <3>2, CallShape
    <3> QED
      BY <2>2, <3>1, <3>3 DEF CountsOwn
  <2> QED
    BY <2>3, <2>4 DEF CountInv
<1> QED
  BY <1>9, <1>10, <1>11, <1>12, <1>13, <1>14, <1>15, <1>16, <1>17, <1>18
     DEF Next, Step, Poster

LEMMA MarkAccounts ==
  ASSUME LedgerInv, NoPosting, CountInv, [Next]_vars, NEW t \in Txs, Marks(t),
         NEW a \in Actions
  PROVE  {e \in metrics.decrypt : e.key.slot = t.call.slot /\ e.key.action = a}
           = Bids(t.call.slot, a) \ store'[MarkEndKey(t)].val[a]
<1> DEFINE slot == t.call.slot
           Of(b) == NewBidCollection(store, slot, b)
<1>1. /\ t.call.op = "markEnd" /\ slot \in Slots /\ tx[t] = "flight"
      /\ tx'[t] = "valid"
  BY TxShape, CallShape DEF Marks
<1>2. Commit(t)
  <2>1. ASSUME NEW c \in Calls, Endorse(c) PROVE FALSE
    BY <1>1, <2>1, EndorseFacts DEF LedgerInv
  <2>2. ASSUME NEW u \in Txs, Commit(u), u # t PROVE FALSE
    BY <1>1, <2>2, CommitFacts DEF LedgerInv
  <2> QED
    BY <1>1, <2>1, <2>2, LedgerSteps
<1>3. sim[t] = Invoke(store, t)
  <2>1. Validates(store, sim[t])
    BY <1>1, <1>2 DEF Commit, LedgerInv, TypeOK
  <2> QED
    BY <1>1, <2>1 DEF LedgerInv, Serializable
<1>4. Invoke(store, t) = MarkEnd(store, t)
  BY <1>1 DEF Invoke
<1>5. /\ MarkEnd(store, t).ok
      /\ CountedFor(slot) = MarkEnd(store, t).metrics.decrypt
  BY <1>1, <1>3, <1>4 DEF CountInv, CountsOwn
<1>6. /\ ~ Of("buy").err /\ ~ Of("sell").err
      /\ CountedFor(slot) = Of("buy").skipped \cup Of("sell").skipped
  BY <1>5 DEF MarkEnd
<1>7. store'[MarkEndKey(t)].val[a] = Of(a).bids
  <2>1. store'[MarkEndKey(t)].val = MarkEnd(store, t).val
    BY <1>1, <1>2, <1>4, CommitFacts DEF LedgerInv, WriteKey
  <2> QED
    BY <2>1 DEF MarkEnd, Actions
<1>8. Of(a).skipped = Bids(slot, a) \ Of(a).bids
  BY <1>1, <1>6, Skips DEF Actions
<1>9. \A b \in Actions : \A e \in Of(b).skipped : e.key.action = b
  BY SkippedSlot
<1>10. {e \in CountedFor(slot) : e.key.action = a} = Of(a).skipped
  BY <1>6, <1>9 DEF Actions
<1> QED
  BY <1>7, <1>8, <1>10 DEF CountedFor

(***************************************************************************)
(* When a markEnd commits, each bid of its slot on the ledger has been     *)
(* settled or counted as a problematic decryption, never both or neither,  *)
(* although the counter is bumped on endorsement and the bids are settled  *)
(* on commitment (markend.go).                                             *)
(***************************************************************************)
THEOREM MarkEndAccountsForAll == Spec => AccountedFor
<1>1. Init => NoPosting /\ CountInv
  <2> SUFFICES ASSUME Init PROVE NoPosting /\ CountInv
    OBVIOUS
  <2>1. NoPosting
    BY DEF Init, NoPosting, Calls
  <2>2. \A c \in MarkEndCalls : MarksOnce(c)
    BY DEF Init, MarksOnce, CountedFor, Calls
  <2>3. \A t \in Txs : tx[t] # "flight"
    BY DEF Init
  <2> QED
    BY <2>1, <2>2, <2>3 DEF CountInv
<1>2. LedgerInv /\ NoPosting /\ CountInv /\ [Next]_vars => NoPosting' /\ CountInv'
  BY PostingStep, CountStep DEF LedgerInv
<1>3. LedgerInv /\ NoPosting /\ CountInv /\ [Next]_vars
        => [\A t \in Txs : Marks(t) =>
              \A a \in Actions :
                {e \in metrics.decrypt : e.key.slot = t.call.slot /\ e.key.action = a}
                  = Bids(t.call.slot, a) \ store'[MarkEndKey(t)].val[a]]_vars
  BY MarkAccounts
<1> QED
  BY <1>1, <1>2, <1>3, LedgerInvariant, PTL DEF Spec, AccountedFor
=============================================================================
