------------------------------ MODULE Chaincode ------------------------------
(***************************************************************************)
(* The smart contract of the island market (src/chaincode): what each of   *)
(* its operations reads from and writes to the peer's key-value store.     *)
(*                                                                         *)
(* Fabric runs an operation twice over, in effect: the peer SIMULATES it   *)
(* against the committed state, which only yields the set of versions read *)
(* and the value to write; the write is applied later, when the ordered    *)
(* transaction is VALIDATED against those versions.  So an operation is    *)
(* an operator from the store and a transaction to a simulation result;    *)
(* module Market gives it its two steps.                                   *)
(***************************************************************************)
EXTENDS Integers

CONSTANTS ExpNum,       \* schema.ExpNum, the experiment: 1, 2 or 3
          SlotCount,    \* slots considered, the last of the trace left out
          RetryCount,   \* schema.RetryCount, retries of a failed invocation
          Bidders,
          Trace,        \* the trace rows with Use > 0 (buy) or Gen > 0 (sell)
          NoTx          \* the version of a key that was never written

Slots == 0 .. SlotCount - 1
Actions == {"buy", "sell"}
Attempts == 1 .. RetryCount + 1

ASSUME ConstantsAssumption ==
  /\ ExpNum \in 1 .. 3
  /\ SlotCount \in Nat \ {0}
  /\ RetryCount \in Nat
  /\ Trace \subseteq [bidder : Bidders, action : Actions, slot : Slots]

(***************************************************************************)
(* A bid is one trace row: Buy and Sell draw one event ID per row and      *)
(* encrypt the bid once, before their retry loop, so row, event ID and     *)
(* encrypted payload determine each other.  A call to the contract is one  *)
(* pass through such a loop; a transaction is one attempt of it, with a    *)
(* transaction ID of its own.  A postKey call is made for the write-key    *)
(* that a successful bid transaction returned.                             *)
(***************************************************************************)
BidCalls == [op : {"bid"}, row : Trace]
BidTxs == [call : BidCalls, attempt : Attempts]
PostKeyCalls == [op : {"postKey"}, bid : BidTxs]
MarkEndCalls == [op : {"markEnd"}, slot : Slots]
Calls == BidCalls \cup PostKeyCalls \cup MarkEndCalls
Txs == [call : Calls, attempt : Attempts]

Row(c) == IF c.op = "bid" THEN c.row ELSE c.bid.call.row
SlotOf(c) == IF c.op = "markEnd" THEN c.slot ELSE Row(c).slot

ASSUME NoTxAssumption == NoTx \notin Txs

-----------------------------------------------------------------------------
(***************************************************************************)
(* Composite keys.  <slot>-<action>, <slot>-<action>-<txid>, and either    *)
(* with the suffix -privkey.  A partial key <slot>-<action> matches all of *)
(* them.                                                                   *)
(***************************************************************************)
Keys == [slot : Slots, action : Actions \cup {"markEnd"},
         tx : Txs \cup {NoTx}, priv : BOOLEAN]

Key(slot, action, tx) ==
  [slot |-> slot, action |-> action, tx |-> tx, priv |-> FALSE]

PrivKeyOf(k) == [k EXCEPT !.priv = TRUE]

\* The key under which the markEnd marker of a slot is looked up ...
MarkerKey(slot) == Key(slot, "markEnd", NoTx)

\* ... and the one to which transaction t writes it.
MarkEndKey(t) == Key(t.call.slot, "markEnd", t)

\* Where bid transaction t writes.
BidKey(t) ==
  Key(t.call.row.slot, t.call.row.action, IF ExpNum = 1 THEN NoTx ELSE t)

(***************************************************************************)
(* The store maps the keys present to the transaction that wrote them last *)
(* (their version) and to their value: a set of rows, which is the map     *)
(* from event IDs of experiment 1 or the single payload of experiments 2   *)
(* and 3; or, for a markEnd key, the two bid collections that were settled.*)
(***************************************************************************)
Version(st, k) == IF k \in DOMAIN st THEN st[k].ver ELSE NoTx
Value(st, k) == IF k \in DOMAIN st THEN st[k].val ELSE {}

\* Get: a read, recorded with the version it saw.
Get(st, ks) == [k \in ks |-> Version(st, k)]

\* Iter: the keys that match the partial key <slot>-<action>.
Iter(st, slot, action) ==
  {k \in DOMAIN st : k.slot = slot /\ k.action = action}

\* Put, once the transaction is valid.
Put(st, t, k, v) ==
  [x \in DOMAIN st \cup {k} |->
     IF x = k THEN [ver |-> t, val |-> v] ELSE st[x]]

-----------------------------------------------------------------------------
(***************************************************************************)
(* The operations.  A simulation result says whether the response is a     *)
(* success, the versions read key by key, the partial keys iterated with   *)
(* the keys they matched, the write, and the metrics bumped on the way.    *)
(* A metric is the set of causes of its increments.                        *)
(***************************************************************************)
\* bid and postKey look the marker up first; a hit is counted as late.
Late(st, t) == MarkerKey(SlotOf(t.call)) \in DOMAIN st

\* Mutant: the map under the key is kept in the contract's memory, not read
\* from the ledger.
WriteRowBlind(st, t, k) ==
  [ok |-> ~ Late(st, t),
   reads |-> Get(st, {MarkerKey(SlotOf(t.call))}),
   ranges |-> {}, matched |-> {},
   key |-> k,
   val |-> (IF ExpNum = 1 THEN Value(st, k) ELSE {}) \cup {Row(t.call)},
   metrics |-> [late |-> IF Late(st, t) THEN {t} ELSE {},
                decrypt |-> {}, bidCalc |-> {}]]

\* bid and postKey add their row to the map under the key in experiment 1,
\* which they read first; in experiment 3 (and 2, for bids) they own the key.
WriteRow(st, t, k) ==
  LET marker == MarkerKey(SlotOf(t.call))
      shared == IF ExpNum = 1 THEN {k} ELSE {}
  IN  [ok |-> ~ Late(st, t),
       reads |-> Get(st, {marker} \cup shared),
       ranges |-> {}, matched |-> {},
       key |-> k,
       val |-> (IF ExpNum = 1 THEN Value(st, k) ELSE {}) \cup {Row(t.call)},
       metrics |-> [late |-> IF Late(st, t) THEN {t} ELSE {},
                    decrypt |-> {}, bidCalc |-> {}]]

Bid(st, t) == WriteRow(st, t, BidKey(t))

\* Invoked in experiments 1 and 3 only.
PostKey(st, t) == WriteRow(st, t, PrivKeyOf(BidKey(t.call.bid)))

(***************************************************************************)
(* The bid collections of markEnd: the bids that could be decrypted, the   *)
(* bids skipped, the keys read one by one, and the error return.           *)
(***************************************************************************)
Entries(k, rows) == {[key |-> k, row |-> r] : r \in rows}

\* Mutant: the key map comes from a cache, so its version is not recorded.
NewBidCollection1Cached(st, slot, action) ==
  LET k == Key(slot, action, NoTx)
      pk == PrivKeyOf(k)
      found == k \in DOMAIN st
  IN  [err |-> found /\ pk \notin DOMAIN st,
       bids |-> Entries(k, Value(st, k) \cap Value(st, pk)),
       skipped |-> IF pk \in DOMAIN st
                     THEN Entries(k, Value(st, k) \ Value(st, pk)) ELSE {},
       reads |-> {k}]

\* Mutant: a bid without its key is skipped and not counted.
NewBidCollection1Silent(st, slot, action) ==
  LET k == Key(slot, action, NoTx)
      pk == PrivKeyOf(k)
      found == k \in DOMAIN st
  IN  [err |-> found /\ pk \notin DOMAIN st,
       bids |-> Entries(k, Value(st, k) \cap Value(st, pk)),
       skipped |-> {},
       reads |-> IF found THEN {k, pk} ELSE {k}]

\* Experiment 1: one map of bids, one map of keys.  A map of bids without a
\* map of keys is an error: the empty value cannot be decoded.
NewBidCollection1(st, slot, action) ==
  LET k == Key(slot, action, NoTx)
      pk == PrivKeyOf(k)
      found == k \in DOMAIN st
  IN  [err |-> found /\ pk \notin DOMAIN st,
       bids |-> Entries(k, Value(st, k) \cap Value(st, pk)),
       skipped |-> IF pk \in DOMAIN st
                     THEN Entries(k, Value(st, k) \ Value(st, pk)) ELSE {},
       reads |-> IF found THEN {k, pk} ELSE {k}]

\* Experiment 2: the regulator's key decrypts every value iterated.
NewBidCollection2(st, slot, action) ==
  [err |-> FALSE,
   bids |-> UNION {Entries(k, Value(st, k)) : k \in Iter(st, slot, action)},
   skipped |-> {},
   reads |-> {}]

\* Mutant: the regulator's key decrypts, as in experiment 2.
NewBidCollection3Open(st, slot, action) ==
  LET found == {k \in Iter(st, slot, action) : ~ k.priv}
  IN  [err |-> FALSE,
       bids |-> UNION {Entries(k, Value(st, k)) : k \in found},
       skipped |-> {},
       reads |-> {PrivKeyOf(k) : k \in found}]

\* Mutant: a bid without its key is skipped and not counted.
NewBidCollection3Silent(st, slot, action) ==
  LET found == {k \in Iter(st, slot, action) : ~ k.priv}
      open == {k \in found : PrivKeyOf(k) \in DOMAIN st}
  IN  [err |-> FALSE,
       bids |-> UNION {Entries(k, Value(st, k)) : k \in open},
       skipped |-> {},
       reads |-> {PrivKeyOf(k) : k \in found}]

\* Experiment 3: each bid needs the key posted beside it; a bid without one
\* is skipped, as is each posted key that the iteration comes across.
NewBidCollection3(st, slot, action) ==
  LET found == {k \in Iter(st, slot, action) : ~ k.priv}
      open == {k \in found : PrivKeyOf(k) \in DOMAIN st}
  IN  [err |-> FALSE,
       bids |-> UNION {Entries(k, Value(st, k)) : k \in open},
       skipped |-> UNION {Entries(k, Value(st, k)) : k \in found \ open},
       reads |-> {PrivKeyOf(k) : k \in found}]

NewBidCollection(st, slot, action) ==
  IF ExpNum = 1 THEN NewBidCollection1(st, slot, action)
  ELSE IF ExpNum = 2 THEN NewBidCollection2(st, slot, action)
  ELSE NewBidCollection3(st, slot, action)

\* Mutant: the collections come from a query that leaves no trace in the read
\* set.
IteratedNone == {}

\* The actions whose bids are collected through Iter.
Iterated == IF ExpNum = 1 THEN {} ELSE Actions

\* markEnd settles what it could decrypt (the price is a function of the two
\* collections: module Auction) and fails when a collection is in error.
MarkEnd(st, t) ==
  LET slot == t.call.slot
      buy == NewBidCollection(st, slot, "buy")
      sell == NewBidCollection(st, slot, "sell")
      err == buy.err \/ sell.err
  IN  [ok |-> ~ err,
       reads |-> Get(st, buy.reads \cup sell.reads
                         \cup UNION {Iter(st, slot, a) : a \in Iterated}),
       ranges |-> {<<slot, a>> : a \in Iterated},
       matched |-> UNION {Iter(st, slot, a) : a \in Iterated},
       key |-> MarkEndKey(t),
       val |-> [buy |-> buy.bids, sell |-> sell.bids],
       metrics |-> [late |-> {},
                    decrypt |-> IF buy.err THEN {}
                                  ELSE buy.skipped \cup sell.skipped,
                    bidCalc |-> IF err THEN {t} ELSE {}]]

\* The dispatch on the action of the call.
Invoke(st, t) ==
  IF t.call.op = "bid" THEN Bid(st, t)
  ELSE IF t.call.op = "postKey" THEN PostKey(st, t)
  ELSE MarkEnd(st, t)

-----------------------------------------------------------------------------
\* The peer's validation of a transaction (Fabric): every version read is
\* still current, and no key has appeared in a range that was iterated.
Validates(st, s) ==
  /\ \A k \in DOMAIN s.reads : Version(st, k) = s.reads[k]
  /\ UNION {Iter(st, p[1], p[2]) : p \in s.ranges} = s.matched
=============================================================================
