------------------------------- MODULE Market --------------------------------
(***************************************************************************)
(* The agents of the market and the ledger between them.  Every bidder has *)
(* three goroutines that invoke the contract (buy, sell, postKey), each    *)
(* with its retry loop, and one that maintains RecentBidKeys; the          *)
(* regulator has one (markEnd, not retried).  An invocation is endorsed    *)
(* (simulated), ordered and validated in separate steps, so invocations of *)
(* all agents interleave in between, and the caller may stop waiting for a *)
(* transaction that is still under way.                                    *)
(***************************************************************************)
EXTENDS Chaincode, Sequences

CONSTANT NoSim          \* a transaction that is not under way

VARIABLES
  store,     \* the committed key-value store of the peer
  metrics,   \* metricsOutputVal, the contract's counters in memory
  tx,        \* transaction -> "none", "flight", "valid", "invalid"
  sim,       \* transaction in flight -> its simulation result
  call,      \* call -> progress of the retry loop that makes it
  clock,     \* notifications so far: bid slot s is 2s+1, postKey slot s 2s+2
  recentQ,   \* RecentBidKeysQueue of each bidder
  recent,    \* RecentBidKeys of each bidder: the bid transactions recorded
  poster     \* the postKey goroutine of each bidder

vars == <<store, metrics, tx, sim, call, clock, recentQ, recent, poster>>
ledgerVars == <<store, metrics, tx, sim>>
agentVars == <<clock, recentQ, recent, poster>>

-----------------------------------------------------------------------------
CallStates == {"idle", "ready", "waiting", "acked", "failed"}
Concluded(c) == call[c].st \in {"acked", "failed"}

\* The attempt that call c is at, as a transaction.
Tx(c) == [call |-> c, attempt |-> call[c].attempt]

\* The regulator makes one attempt; bidders retry.
MaxAttempts(c) == IF c.op = "markEnd" THEN 1 ELSE RetryCount + 1

\* The bid transactions whose write-keys bidder b has on record for slot s.
Recorded(b, s) == {t \in recent[b] : t.call.row.slot = s}

Init ==
  /\ store = [k \in {} |-> NoTx]
  /\ metrics = [late |-> {}, decrypt |-> {}, bidCalc |-> {}]
  /\ tx = [t \in Txs |-> "none"]
  /\ sim = [t \in Txs |-> NoSim]
  /\ call = [c \in Calls |-> [st |-> "idle", attempt |-> 1]]
  /\ clock = 0
  /\ recentQ = [b \in Bidders |-> <<>>]
  /\ recent = [b \in Bidders |-> {}]
  /\ poster = [b \in Bidders |->
                 [slot |-> 0, busy |-> FALSE, owed |-> {}, done |-> {}]]

-----------------------------------------------------------------------------
\* The two slot notifiers.  Bid slot s comes up, half a slot later postKey
\* slot s; the slot after the last one still reaches the regulator.
Notify ==
  /\ clock < 2 * SlotCount + 1
  /\ clock' = clock + 1
  /\ UNCHANGED <<store, metrics, tx, sim, call, recentQ, recent, poster>>

\* Call c goes to state s, at attempt n.
Move(c, s, n) == call' = [call EXCEPT ![c] = [st |-> s, attempt |-> n]]

Start(c) == call[c].st = "idle" /\ Move(c, "ready", 1)

\* Buy and Sell: one goroutine each, rows in the order of their slots.
StartBid(c) ==
  /\ clock > 2 * c.row.slot
  /\ \A d \in BidCalls :
       (/\ d.row.bidder = c.row.bidder
        /\ d.row.action = c.row.action
        /\ d.row.slot < c.row.slot) => Concluded(d)
  /\ Start(c)
  /\ UNCHANGED <<ledgerVars, agentVars>>

\* The regulator, told of slot s + 1, marks the end of slot s.
StartMarkEnd(c) ==
  /\ clock > 2 * (c.slot + 1)
  /\ \A d \in MarkEndCalls : d.slot < c.slot => Concluded(d)
  /\ Start(c)
  /\ UNCHANGED <<ledgerVars, agentVars>>

\* The updater goroutine of bidder b files the next write-key.
Record(b) ==
  /\ recentQ[b] # <<>>
  /\ recent' = [recent EXCEPT ![b] = @ \cup {Head(recentQ[b])}]
  /\ recentQ' = [recentQ EXCEPT ![b] = Tail(@)]
  /\ UNCHANGED <<ledgerVars, call, clock, poster>>

-----------------------------------------------------------------------------
(***************************************************************************)
(* PostKey.  It ranges over the map recorded for its slot, which the       *)
(* updater may still be adding to: an entry added during the iteration may *)
(* be visited or not.  It gives up on the slot at the first entry whose    *)
(* retries run out.                                                        *)
(***************************************************************************)
NextSlot(p) == [slot |-> p.slot + 1, busy |-> FALSE, owed |-> {}, done |-> {}]

\* Mutant: a slot without recorded bids is not passed over.
PostKeyBeginStuck(b) ==
  LET p == poster[b] IN
  /\ ExpNum # 2
  /\ ~ p.busy
  /\ p.slot \in Slots
  /\ clock > 2 * p.slot + 1
  /\ Recorded(b, p.slot) # {}
  /\ poster' = [poster EXCEPT ![b] =
       [slot |-> p.slot, busy |-> TRUE,
        owed |-> Recorded(b, p.slot), done |-> {}]]
  /\ UNCHANGED <<ledgerVars, call, clock, recentQ, recent>>

PostKeyBegin(b) ==
  LET p == poster[b] IN
  /\ ExpNum # 2
  /\ ~ p.busy
  /\ p.slot \in Slots
  /\ clock > 2 * p.slot + 1
  /\ poster' = [poster EXCEPT ![b] =
       IF Recorded(b, p.slot) = {}
         THEN NextSlot(p)
         ELSE [slot |-> p.slot, busy |-> TRUE,
               owed |-> Recorded(b, p.slot), done |-> {}]]
  /\ UNCHANGED <<ledgerVars, call, clock, recentQ, recent>>

\* The goroutine is between two entries.
Between(b) ==
  /\ poster[b].busy
  /\ \A t \in poster[b].done : Concluded([op |-> "postKey", bid |-> t])

PostKeyNext(b, t) ==
  LET p == poster[b] IN
  /\ Between(b)
  /\ t \in Recorded(b, p.slot) \ p.done
  /\ poster' = [poster EXCEPT ![b] =
       [slot |-> p.slot, busy |-> TRUE,
        owed |-> p.owed, done |-> p.done \cup {t}]]
  /\ Start([op |-> "postKey", bid |-> t])
  /\ UNCHANGED <<ledgerVars, clock, recentQ, recent>>

PostKeyEnd(b) ==
  /\ Between(b)
  /\ poster[b].owed \subseteq poster[b].done
  /\ poster' = [poster EXCEPT ![b] = NextSlot(@)]
  /\ UNCHANGED <<ledgerVars, call, clock, recentQ, recent>>

-----------------------------------------------------------------------------
(***************************************************************************)
(* What an invocation comes back with.  A success ends the call; the       *)
(* write-key of a bid goes to the updater's queue.  An error starts the    *)
(* next attempt or, after the last one, ends the call (and with it the     *)
(* iteration of PostKey).                                                  *)
(***************************************************************************)
Succeed(c) ==
  /\ Move(c, "acked", call[c].attempt)
  /\ recentQ' = IF c.op = "bid" /\ ExpNum # 2
                  THEN [recentQ EXCEPT ![c.row.bidder] = Append(@, Tx(c))]
                  ELSE recentQ
  /\ UNCHANGED poster

\* Mutant: one retry too many.
FailOnceMore(c) ==
  /\ UNCHANGED <<recentQ, poster>>
  /\ IF call[c].attempt <= MaxAttempts(c)
       THEN Move(c, "ready", call[c].attempt + 1)
       ELSE Move(c, "failed", call[c].attempt)

\* Mutant: the write-key is filed although the bid's outcome is unknown.
FailFiled(c) ==
  /\ IF call[c].attempt < MaxAttempts(c)
       THEN Move(c, "ready", call[c].attempt + 1)
       ELSE Move(c, "failed", call[c].attempt)
  /\ recentQ' = IF c.op = "bid" /\ ExpNum # 2
                  THEN [recentQ EXCEPT ![c.row.bidder] = Append(@, Tx(c))]
                  ELSE recentQ
  /\ UNCHANGED poster

Fail(c) ==
  /\ UNCHANGED recentQ
  /\ IF call[c].attempt < MaxAttempts(c)
       THEN /\ Move(c, "ready", call[c].attempt + 1)
            /\ UNCHANGED poster
       ELSE /\ Move(c, "failed", call[c].attempt)
            /\ poster' = IF c.op = "postKey"
                           THEN [poster EXCEPT ![Row(c).bidder] = NextSlot(@)]
                           ELSE poster

Count(m) ==
  metrics' = [late |-> metrics.late \cup m.late,
              decrypt |-> metrics.decrypt \cup m.decrypt,
              bidCalc |-> metrics.bidCalc \cup m.bidCalc]

\* The peer simulates the attempt and endorses it; it is sent for ordering.
Endorse(c) ==
  LET t == Tx(c)
      s == Invoke(store, t)
  IN  /\ call[c].st = "ready"
      /\ s.ok
      /\ Count(s.metrics)
      /\ tx' = [tx EXCEPT ![t] = "flight"]
      /\ sim' = [sim EXCEPT ![t] = s]
      /\ Move(c, "waiting", call[c].attempt)
      /\ UNCHANGED <<store, agentVars>>

\* The contract answers with an error.
Reject(c) ==
  LET s == Invoke(store, Tx(c))
  IN  /\ call[c].st = "ready"
      /\ ~ s.ok
      /\ Count(s.metrics)
      /\ Fail(c)
      /\ UNCHANGED <<store, tx, sim, clock, recent>>

\* The proposal never reaches the contract.
LoseProposal(c) ==
  /\ call[c].st = "ready"
  /\ Fail(c)
  /\ UNCHANGED <<ledgerVars, clock, recent>>

\* A block delivers transaction t to the peer, which validates it and, if it
\* is valid, applies its write.
Commit(t) ==
  LET valid == Validates(store, sim[t])
  IN  /\ tx[t] = "flight"
      /\ tx' = [tx EXCEPT ![t] = IF valid THEN "valid" ELSE "invalid"]
      /\ sim' = [sim EXCEPT ![t] = NoSim]
      /\ store' = IF valid THEN Put(store, t, sim[t].key, sim[t].val)
                           ELSE store
      /\ UNCHANGED <<metrics, call, agentVars>>

\* The invocation returns with the verdict on its transaction.
Return(c) ==
  /\ call[c].st = "waiting"
  /\ \/ tx[Tx(c)] = "valid" /\ Succeed(c)
     \/ tx[Tx(c)] = "invalid" /\ Fail(c)
  /\ UNCHANGED <<ledgerVars, clock, recent>>

\* The invocation gives up waiting; its transaction lives on.
Timeout(c) ==
  /\ call[c].st = "waiting"
  /\ tx[Tx(c)] # "invalid"
  /\ Fail(c)
  /\ UNCHANGED <<ledgerVars, clock, recent>>

-----------------------------------------------------------------------------
Step(c) == Endorse(c) \/ Reject(c) \/ Return(c) \/ Timeout(c)

Poster(b) ==
  PostKeyBegin(b) \/ PostKeyEnd(b) \/ \E t \in recent[b] : PostKeyNext(b, t)

Next ==
  \/ Notify
  \/ \E c \in BidCalls : StartBid(c)
  \/ \E c \in MarkEndCalls : StartMarkEnd(c)
  \/ \E b \in Bidders : Record(b) \/ Poster(b)
  \/ \E c \in Calls : Step(c) \/ LoseProposal(c)
  \/ \E t \in Txs : Commit(t)

Spec == Init /\ [][Next]_vars

\* The notifiers keep polling, goroutines are scheduled, and an invocation
\* returns: with a verdict, or because the client's timer runs out.  Nothing
\* is assumed of the ordering of transactions.
Fairness ==
  /\ WF_vars(Notify)
  /\ \A c \in BidCalls : WF_vars(StartBid(c))
  /\ \A c \in MarkEndCalls : WF_vars(StartMarkEnd(c))
  /\ \A b \in Bidders : WF_vars(Record(b)) /\ WF_vars(Poster(b))
  /\ \A c \in Calls : WF_vars(Step(c))

FairSpec == Spec /\ Fairness

-----------------------------------------------------------------------------
(***************************************************************************)
(* Properties.  The ledger is judged by the history of transactions, which *)
(* no operation of the contract reads.                                     *)
(***************************************************************************)
Valid(op) == {t \in Txs : t.call.op = op /\ tx[t] = "valid"}

\* The bids of a slot and action on the ledger, one per key they sit under.
Bids(slot, action) ==
  {[key |-> BidKey(t), row |-> Row(t.call)] :
     t \in {u \in Valid("bid") : /\ Row(u.call).slot = slot
                                 /\ Row(u.call).action = action}}

\* A private key for bid entry e is on the ledger.
Unlocked(e) ==
  \/ ExpNum = 2
  \/ \E t \in Valid("postKey") : /\ Row(t.call) = e.row
                                 /\ BidKey(t.call.bid) = e.key

\* Transaction t is a markEnd that commits in this step.
Marks(t) ==
  t.call.op = "markEnd" /\ tx[t] = "flight" /\ tx'[t] = "valid"

\* Type correctness of the ledger and of the agents' state.
TypeOK ==
  /\ DOMAIN store \subseteq Keys
  /\ \A k \in DOMAIN store : store[k].ver \in Txs
  /\ tx \in [Txs -> {"none", "flight", "valid", "invalid"}]
  /\ DOMAIN sim = Txs
  /\ \A t \in Txs : tx[t] = "flight" => sim[t].key \in Keys
  /\ call \in [Calls -> [st : CallStates, attempt : Attempts]]
  /\ clock \in 0 .. 2 * SlotCount + 1
  /\ recentQ \in [Bidders -> Seq(BidTxs)]
  /\ recent \in [Bidders -> SUBSET BidTxs]
  /\ poster \in [Bidders -> [slot : Nat, busy : BOOLEAN,
                             owed : SUBSET BidTxs, done : SUBSET BidTxs]]

(***************************************************************************)
(* The inductive invariant behind the properties of the ledger.            *)
(***************************************************************************)
\* The key that a transaction writes, whatever the store.
WriteKey(t) ==
  IF t.call.op = "bid" THEN BidKey(t)
  ELSE IF t.call.op = "postKey" THEN PrivKeyOf(BidKey(t.call.bid))
  ELSE MarkEndKey(t)

\* A transaction exists only once its attempt is under way: an attempt about
\* to be endorsed never reuses a transaction ID.
FreshAttempts ==
  /\ \A c \in Calls : call[c].st = "idle" => call[c].attempt = 1
  /\ \A t \in Txs : tx[t] # "none" =>
       \/ t.attempt < call[t.call].attempt
       \/ /\ t.attempt = call[t.call].attempt
          /\ call[t.call].st \in {"waiting", "acked", "failed"}

\* Every version, in the store or in the reads of a transaction in flight,
\* is a valid transaction, and a key in the store is one its writer writes.
ValidVersions ==
  /\ \A k \in DOMAIN store :
       /\ tx[store[k].ver] = "valid"
       /\ k = WriteKey(store[k].ver)
  /\ \A t \in Txs : tx[t] = "flight" =>
       /\ \A k \in DOMAIN sim[t].reads :
            \/ sim[t].reads[k] = NoTx
            \/ sim[t].reads[k] \in Txs /\ tx[sim[t].reads[k]] = "valid"
       /\ sim[t].matched \subseteq DOMAIN sim[t].reads

\* Experiment 2 posts no private keys.
NoPosting ==
  ExpNum = 2 => /\ \A b \in Bidders : ~ poster[b].busy
                /\ \A c \in PostKeyCalls : call[c].st = "idle"

\* Serializability: a transaction that the peer would find valid now is one
\* whose simulation would come out the same now, so its write, computed
\* against an older state, is the write it would make in commit order.  It
\* rests on the contract reading all that its result depends on
\* (chaincode/wrappers.go: Get and Iter leave a trace in the read set).
Serializable ==
  \A t \in Txs : tx[t] = "flight" /\ Validates(store, sim[t])
                   => sim[t] = Invoke(store, t)

\* No update is lost.  In experiment 1 all bids of a slot and action share a
\* key, as do their private keys, and each transaction rewrites the map it
\* read; still the map under a key holds exactly the rows of the valid
\* transactions on it (chaincode/bid.go, chaincode/postkey.go).
NoLostUpdate ==
  \A t \in BidTxs :
    LET k == BidKey(t) IN
    /\ Value(store, k) =
         {Row(u.call) : u \in {v \in Valid("bid") : BidKey(v) = k}}
    /\ Value(store, PrivKeyOf(k)) =
         {Row(u.call) : u \in {v \in Valid("postKey") : BidKey(v.call.bid) = k}}

\* A private key leaves its bidder only after the bid it opens is on the
\* ledger under the very key it is posted for, whatever was retried, timed
\* out or reordered before (bidder.go: RecentBidKeys feeds PostKey).
KeyOnlyAfterBid ==
  \A t \in Txs : t.call.op = "postKey" /\ tx[t] # "none"
                   => tx[t.call.bid] = "valid"

\* No bid is counted twice in a clearing, even when a timed-out attempt and
\* its retry both made it to the ledger (markend.go, newBidCollection).
ClearedOnce ==
  \A k \in DOMAIN store : k.action = "markEnd" =>
    \A a \in Actions : \A e, f \in store[k].val[a] : e.row = f.row => e = f

\* A markEnd that commits has settled exactly the bids that are on the
\* ledger with their private keys at that moment, although it collected
\* them at an earlier one (markend.go).
SettlesTheLedger ==
  [][\A t \in Txs : Marks(t) =>
       \A a \in Actions :
         store'[MarkEndKey(t)].val[a] = {e \in Bids(t.call.slot, a) : Unlocked(e)}
    ]_vars

\* When a markEnd commits, each bid of its slot is in the clearing or has
\* been counted as a problematic decryption, never both or neither
\* (markend.go: the metrics are bumped on endorsement).
AccountedFor ==
  [][\A t \in Txs : Marks(t) =>
       \A a \in Actions :
         {e \in metrics.decrypt : e.key.slot = t.call.slot /\ e.key.action = a}
           = Bids(t.call.slot, a) \ store'[MarkEndKey(t)].val[a]
    ]_vars

\* Every goroutine gets to the end of its work: each bid and each markEnd is
\* acknowledged or given up, and PostKey passes every slot, whatever was
\* lost, rejected or timed out on the way (bidder.go, regulator.go).
WorkConcludes ==
  <>[](/\ \A c \in BidCalls \cup MarkEndCalls : Concluded(c)
       /\ ExpNum # 2 => \A b \in Bidders : poster[b].slot = SlotCount)

-----------------------------------------------------------------------------
(***************************************************************************)
(* What the repository says and the code does not do.                      *)
(***************************************************************************)
\* "Looks up read-key <slot_number>-<markend> and returns error if read-key
\* is found" (bid.go:12): no bid is endorsed once its slot is marked.
LateBidRefused ==
  [][\A c \in BidCalls :
       call[c].st = "ready" /\ call'[c].st = "waiting"
         => ~ \E t \in Valid("markEnd") : t.call.slot = SlotOf(c)]_vars
=============================================================================
