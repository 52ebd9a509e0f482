# A TLA+ development of the island energy market

*island* simulates a local energy market on a permissioned ledger (Hyperledger
Fabric). Households bid for energy in time slots; bids are encrypted; at the end
of a slot a regulator has a smart contract decrypt the bids and compute the
clearing price. The program compares three ways to organise the bids
(*experiments* 1, 2, 3). This directory models the program's own logic in TLA+,
checks it with TLC on small instances and proves with TLAPS, for all instances,
every safety property and refinement that these runs check.

## 1. Inventory

| part | source | state | operations | hard because |
|---|---|---|---|---|
| smart contract | `chaincode/{bid,postkey,markend,invoke,wrappers,context}.go` | the peer's key-value store, counters in memory | `buy`/`sell`, `postKey`, `markEnd` | simulated against one state, committed against another; in experiment 1 all bids of a slot and side share a key |
| double auction | `chaincode/dauction.go` | none | `Stack`, `Settle` | the order of bids and of ties is arbitrary, the result must not be |
| ledger client | `blockchain/invoke.go` | none | `Invoke` | loss, rejection, late commit after a timeout |
| bidder | `bidder/bidder.go` | slot, buy, sell, postKey and recent-key queues, `RecentBidKeys` | `Run`, `Buy`, `Sell`, `PostKey`, the updater | a main loop and four goroutines, retries, a map ranged over while it grows, a kill channel |
| regulator | `regulator/regulator.go` | slot and task queue, `ErrChan` | `Run` and its task goroutine | an unbuffered error channel at shutdown |
| block notifiers | `blocknotifier/notifier.go` | largest block and slot seen, largest block fetched | `Run`, `GetBlock`, the clock goroutine | polling, an unbuffered send, two notifiers that have to stay in step |
| slot notifiers | `slotnotifier/notifier.go` | subscribers, `LastVal` | `Register`, `Run` | fan-out stops at a full queue |
| run loop | `main.go`, `vars.go` | `doneC`, `once`, three wait groups, a shared `err` | `run` | who waits for whom, data race on `err` |
| capped map | `cmap/*.go` | map, linked list, counter | `New`, `Get`, `Put`, `Delete` | counter against contents; `Get` relinks under the read lock |
| statistics | `stats/collector.go`, `metrics.go` | aggregates | `Run`, `SlotCalc`, `metrics` | closes channels it receives on; order of lines |
| trace, crypto, SDK set-up, queries, `clock` | `trace/`, `crypto/`, `blockchain/{setup,query}.go`, `chaincode/{clock,query,metrics,slotvalues}.go` | - | - | sequential, or read-only |

How they interact. A block notifier polls the ledger and hands each new slot to
its slot notifier over an unbuffered channel; the slot notifier puts it in the
queue of every subscriber. A bidder moves a bid slot to its buy and sell queues
and a postKey slot (half a slot later, experiments 1 and 3) to its postKey
queue; one goroutine serves each and calls the contract, with retries. A bid
that succeeds puts its write-key in `RecentBidKeysQueue`; the updater files it
in `RecentBidKeys`, where `PostKey` finds it. The regulator, told of slot N,
marks the end of slot N-1. When all bidders have returned, `run` closes `doneC`,
waits for the others, stops the collector and writes the results.

What makes it correct: no acknowledged bid is lost; a clearing reflects the
ledger it is recorded on; keys go out after bids; nothing is cleared twice; the
price is the auction's whatever the order of bids; no slot is lost between
notifier and goroutine; a shutdown reaches everyone, in the right order, and is
not triggered without cause; everything started comes to an end.

## 2. Modules

| module | models | composes |
|---|---|---|
| `Chaincode` | the contract's operations as operators from a store and a transaction to a simulation result: success, versions read, ranges iterated, the write, the metrics bumped | - |
| `Market` | bidders, regulator and ledger: retry loops, updater, `PostKey`; endorse / commit / return / timeout / loss | extends `Chaincode` |
| `SlotSource` | what the notifiers promise: slots 0, 1, 2, ... of each kind, taking turns | - |
| `SlotClock` | block and slot notifiers: clock calls, polls, block arithmetic, the send, failure and shutdown | implements `SlotSource` |
| `Agent` | what `run` may rely on in a bidder | - |
| `Bidder` | one bidder's `Run`: main loop, queues, goroutines, kill channel | implements `Agent` |
| `Lifecycle` | a run from first slot to written results: notifiers, fan-out, bidders, regulator, wait groups, shutdown | uses `SlotSource` and one `Agent` per bidder |
| `Stats` | the lines, transactions and blocks sent to the collector, `SlotCalc`, `GetBlock`, the draining | - |
| `Auction` | `Stack` and `Settle`, and the textbook auction they are compared with | - |
| `Lru` | the map in order of use that the capped map promises to be | - |
| `Cmap` | the capped map's nodes and pointers, with concurrent `Get`s | implements `Lru`, with exceptions |
| `MCMarket`, `MCStats`, `MCCmap` | instances: traces, symmetry, the bound on faults | |
| `MarketProofs`, `SlotClockProofs`, `BidderProofs`, `LifecycleProofs`, `StatsProofs`, `CmapProofs`, `AuctionProofs` | theorems about a module, with their proofs | each extends that module |
| `DataLemmas` | lemmas about data, of use in several proofs: least and greatest elements, recursion along a range, queues (what a push and a take do to the elements, their order and their completeness), sums over a finite set | - |

`Lifecycle` does not contain the details of notifiers and bidders; it uses the
very operators (`SlotSource!MayTell`, `Agent!AfterBidSlot`, ...) that `SlotClock`
and `Bidder` are shown to implement. The liveness it assumes of them are their
checked properties `SlotsComeUp` and `BidderReturns`.

### Chaincode and Market

*Data.* `Buy` and `Sell` draw one event ID and encrypt the bid once, before the
retry loop, so a trace row stands for bid, event ID and payload. A *call* is one
pass through a retry loop, a *transaction* one attempt. A value in the store is a
set of rows: the JSON map of experiment 1, or the singleton payload of 2 and 3.
A markEnd value holds the two collections that were settled; the price is a
function of those (module `Auction`). Encryption is what it does: a bid can be
decrypted exactly when its key was posted (1, 3) or always (2, the regulator's
key comes with markEnd). Because all agents share one key pair (`vars.go`), every
key that is found fits.

*Read sets.* `Get` records the version seen, `Iter` the range and what it
matched; that is what Fabric validates (`Validates`, external). A metric is the
set of causes of its increments, so that "counted" can be related to a bid; the
counters are bumped on endorsement, also of transactions that never commit.

*Steps.* `Endorse`, `Commit` and `Return` are separate, so everything may happen
in between; `Timeout` leaves the transaction under way, which may commit later;
`LoseProposal` stands for an SDK error before the contract ran; `Reject` for an
error response. `Commit` picks any transaction in flight: the orderer may
reorder. The random delay before an attempt (experiment 1) is the scheduler's.
The clock of `Market` counts notifications, bid slot s being 2s+1 and postKey
slot s 2s+2, the order `SlotSource` promises; consumers lag behind arbitrarily.
`PostKey` ranges over the live Go map: entries added meanwhile may be visited or
not. (Go may also abort the process when it notices; that ends a behaviour, so
safety is unaffected; `WorkConcludes` assumes it does not happen.) Marshalling
errors and failing `GetState` calls on well-formed data are left out. `Market`
has no shutdown; that is `Bidder`'s and `Lifecycle`'s.

### SlotClock and SlotSource

Height is counted in blocks. `ClockInvoke` makes a transaction pending,
`CutBlock` (the orderer, external) puts it in a block. A poll reads the height,
computes the slot with Go's division, and enters the send if the slot is new.
The send is a step of its own, joint with the slot notifier's receive, so a
notifier may be held up in it while the ledger grows.

*The one timing assumption.* The ledger grows by at most `MaxLag` blocks while a
notifier goes once round its loop, and `2 * MaxLag` is at most `BlockOffset` and
at most `BlocksPerSlot - BlockOffset`. The shipped values are 70 and 70 blocks of
200 ms against a sleep of 100 ms, so a round may take up to 7 s. With
`MaxLag` above the bound, the order of bid and postKey slots is lost (the
notifiers are up to one round out of step on either side); above `BlocksPerSlot`,
slots are lost. A notifier that is stuck in a send nobody receives is no longer
bound by the assumption and counts as out of service in `SlotSource`.

### Bidder and Agent

One action per branch of each `select` and per return. `BidSlot` is the whole
branch: the push to buy, the push to sell, the end-of-trace test. A worker takes
a row, is busy, and finishes or, in experiments 1 and 3, pushes its write-key to
`RecentBidKeysQueue`, which blocks when full. Leaving the main loop is "closing"
(the kill channel is closed); `Return` waits for all goroutines. `Notify` and
`CloseDone` are the environment. `Agent` keeps of this the last slot taken,
whether the loop was left and why, and whether any goroutine may still send.

### Lifecycle

`NewSlot` is the joint send and receive of a slot, `FanOut` one iteration of
`Subs.Range`, in any order, ended by a full queue. `BidderReturn` assigns `err`,
`BidderExit` tests `err`: between the two, another bidder may have assigned it,
which is the data race of `main.go:138`. `RegErr` is the joint step on the
unbuffered `ErrChan`. `Wg2Wait` may be delayed forever: a block notifier that is
stuck (finding 2) is one that never lets it happen. Registration is done before
the first slot (`startFromBlock` blocks into the run).

### Stats

A bidder's goroutine sends its line, *then* invokes, then sends the outcome; that
order is `After`. `Tradable` is any volume that does not exceed what may be on
the ledger on either side, where a bid counts `Copies` times (2: a timed-out bid
of experiment 2 settled twice). `PriceTraded` is overwritten together with
`EnergyTraded` and left out. Of the transactions only the number is kept,
because the collector just appends them. `EnableBlockStatsCollection` is `false`
in the shipped constants; the block part models the code as it works when it is
set. When the senders stop is left open: any time, but before the collector is
stopped, which is what `Lifecycle` shows.

### Auction, Cmap, Lru

`Settle` works on floats; here prices and units are integers and a midpoint is
kept as a sum, so rounding is left out. `sort.Sort` is not stable: `Stack`
yields the set of results it may leave. Of the list `result` only the best trade
so far is kept (`Scan` is the inner loop, `BestTrade` both), which starts below
every trade; `Panic` is what `result[0]` would do to an empty list.

In `Cmap` a node is the number of the `Put` that made it, and also the value it
holds. `Put` and `Delete` are one step each, under the lock. A `Get` is ten
accesses to pointers, in the order of `dll.go`, interleaved with those of another
`Get`; each access is atomic and all goroutines see the same memory (weaker
outcomes of Go's memory model are left out). `raced`, `shown` and `resp` are
history: `shown` is the list as `Lru` sees it, until two `Get`s have met.
`Lru!Spec` is the documented promise, `Lru!LossySpec` what is left of it: the
same entry is evicted, but at any time.

## 3. Runs

| run | instance | checks |
|---|---|---|
| `market1` | experiment 1, two buyers on one key, one retry, at most one fault (loss, timeout, rejection) | `TypeOK`, `Serializable`, `NoLostUpdate`, `KeyOnlyAfterBid`, `SettlesTheLedger`, `AccountedFor` |
| `market2` | experiment 2, a buyer and a seller, two retries, up to three faults | `Serializable`, `SettlesTheLedger` |
| `market3` | experiment 3, one row, two slots, one retry, all faults, fair | `Serializable`, `KeyOnlyAfterBid`, `ClearedOnce`, `SettlesTheLedger`, `AccountedFor`, `WorkConcludes` |
| `slot_clock` | two notifiers, slots of eight blocks, offset four, `MaxLag` two, ten blocks, fair | `TypeOK`, `SlotsSeenAreTold`, `ImplementsSource`, `SlotsComeUp` |
| `bidder` | one bidder, both notifiers, three rows (one to buy, one to sell, one empty), queues of two, fair | `TypeOK`, `RowsInOrder`, `ImplementsAgent`, `BidderReturns` |
| `lifecycle` | two bidders, one notifier, one row, slots 0 to 2, queues of one, fair | `TypeOK`, `NobodyCutShort`, `RegulatorConcludes` |
| `lifecycle_keys` | one bidder, both notifiers, two rows, queues of one, fair | `SendersGone`, `EveryoneIsTold`, `RunEnds` |
| `stats` | two buyers and a seller in one slot, bids that settle twice, channels of one, two blocks | `GridBalance`, `TradedUnlessLate`, `AllCounted`, `BlocksFedOnce` |
| `auction` | all collections of 1 to 3 bids a side, three prices, two quantities | `ClearsTheMarket`, `Acceptable`, `NoPriceOnlyIfApart` |
| `cmap` | three keys, two readers, capacity two, four puts, three relinking gets | `Consistent`, `OnlyEvictionPanics`, `ImplementsLossyLru` |
| `late_bid` | violated: `LateBidRefused` | finding 1 |
| `stuck_notifier` | violated: `NotifiersConclude` | finding 2 |

Why the bounds suffice for the questions asked.

* *Market.* A lost update takes two writers of one key and a reader (`market1`);
  a phantom takes an iteration and one bid (`market2`, `market3`); a duplicate
  takes one retry; a PostKey that meets a slot without bids takes a second slot.
* *SlotClock.* Offset and lag sit exactly on the assumption (4 = 2 x 2), so each
  notifier can be as far behind as allowed. Ten blocks are a bid slot, a postKey
  slot and the next bid slot.
* *Bidder.* Three rows and queues of two: every queue can fill, in any order, and
  the two bids just fit in `RecentBidKeysQueue`, as the 70 bids of a trace of 35
  rows fit in the shipped 100.
* *Lifecycle.* With queues of one, every push can fail. In `lifecycle` two
  bidders race on `err`, and `MaxSlot` 2 lets the regulator mark a slot and have
  another waiting; in `lifecycle_keys` a trace of two rows has a row that is not
  the last one. `LifecycleAssumption` ends the exploration before a bidder that
  missed its last row would index past its trace.
* *Stats.* Two lines on one side and one on the other, with markEnd's line before,
  between and after them; channels of one make every sender wait.
* *Auction.* Prices {1, 2, 4} have distinct midpoints; three bids a side give
  ties, partial fills and chains.
* *Cmap.* Four puts over a capacity of two give an update, an eviction, and an
  eviction at a wrong moment; two overlapping gets and a third one after them
  read a list that is mixed up.

Deadlock is not checked: a run may end, the explored counters are bounded, and a
stuck shutdown is the subject of `stuck_notifier`.

### Findings

1. *Late bids are accepted.* `bid` and `postKey` look the marker up under
   `<slot>-markEnd`, markEnd writes it to `<slot>-markEnd-<tx_id>`. The check
   never fires and the late counters stay zero.
2. *The shutdown may hang.* A block notifier that has found a new slot sends it
   on an unbuffered channel, outside of any `select`; if the slot notifier has
   seen `doneC` first, nobody receives, and `wg2.Wait()` waits forever.

Other things a reader of the models should know; they are behaviours of the
models, and the properties are stated so as to allow them:

* The regulator's task goroutine can hang at `ErrChan` in the same way;
  `RegulatorConcludes` says that nothing else can keep the regulator.
* A bidder closes its kill channel right after queueing its last row, so rows
  still queued then may never be bid (`main.go:195`: "will run their entire
  trace"); `RowsInOrder` speaks of rows taken *or queued*.
* In experiments 2 and 3 a timed-out bid and its retry may both be on the ledger
  (README of the repository: "maximum of one `buy` _and_ one `sell` bid");
  experiment 2 settles both. `EnergyTraded` may then exceed what was asked for,
  and the collector's grid figures become negative; `GridBalance` holds all the
  same.
* markEnd is not retried (a TODO in the code).
* Along a stack the units need not decrease, as the comment on `Stack` has it
  (`dauction.go:104`): among bids of one price they may rise, because the second
  sort looks at prices only. `Settle` does not depend on it (section 5, The
  auction).
* A bid's line that comes after markEnd's wipes out the energy traded of its slot
  (`TradedUnlessLate`).
* The regulator may mark slots past the end of the trace while a bidder takes
  more than a slot to return; `SlotStats` has no entry for them. `Stats` assumes
  slots of the trace.
* The output lists the slots below the largest one seen, not those with a
  markEnd (`metrics.go:168`).
* The capped map outgrows its capacity once keys are updated, because `Put`
  counts an update as an insertion (`cmap.go:7`); a bidder makes too few puts to
  notice. Two overlapping `Get`s may leave a list in which an entry is missing or
  a node precedes itself.

## 4. Fairness

* `Market!FairSpec`: notifiers keep polling, goroutines are scheduled, an
  invocation returns, with a verdict or because the SDK's timer runs out (`Step`
  is weakly fair as a whole). Nothing is assumed of `Commit`: the orderer may
  drop a transaction.
* `SlotClock!FairSpec`: the orderer cuts a block when something is pending (its
  batch timeout), goroutines are scheduled. `ClockQuit` is fair by itself: the
  clock's ticker is ready only once in 100 ms, so a closed channel is seen.
* `Bidder!FairSpec`: slots keep coming (`SlotsComeUp`), goroutines are scheduled,
  invocations return.
* `Lifecycle!FairSpec`: slots keep coming, bidders return (`BidderReturns`),
  markEnd calls return, goroutines are scheduled. `Wg2Wait` is not fair (finding
  2).

Queries may fail but are not obliged to; nothing obliges `doneC` to be closed.
Weak fairness of a goroutine's disjunction does not force a `select` to take one
particular branch; the liveness properties hold without it. The properties
`BidderReturns` and `RunEnds` except the case that a full queue kept a slot from
somebody, because the code has no remedy for it.

## 5. Proofs

Every theorem is for all values of the constants that satisfy the module's named
`ASSUME`; `P` below is a property of section 3, and each theorem states
`Spec => []P`, or `Spec => P` for an action property or a refinement.

| module | theorem | property |
|---|---|---|
| `MarketProofs` | `TypeCorrect` | `TypeOK` |
| | `LedgerSerializable` | `Serializable` |
| | `LedgerKeepsUpdates` | `NoLostUpdate` |
| | `MarkEndSettlesTheLedger` | `SettlesTheLedger` (action) |
| | `KeysFollowBids` | `KeyOnlyAfterBid` |
| | `BidsClearOnce` (experiments 1 and 3) | `ClearedOnce` |
| | `MarkEndAccountsForAll` | `AccountedFor` (action) |
| `SlotClockProofs` | `ClockTypeCorrect` | `TypeOK` |
| | `NotifiersRemember` | `SlotsSeenAreTold` |
| | `ClockImplementsSource` | `ImplementsSource` (refinement) |
| `BidderProofs` | `BidderTypeCorrect` | `TypeOK` |
| | `RowsStayInOrder` | `RowsInOrder` |
| | `BidderImplementsAgent` | `ImplementsAgent` (refinement) |
| `LifecycleProofs` | `LifecycleTypeCorrect` | `TypeOK` |
| | `EveryoneGetsTold` | `EveryoneIsTold` |
| | `SendersAreGone` | `SendersGone` |
| | `DoneHasCause` | `NobodyCutShort` |
| `StatsProofs` | `EverythingIsCounted` | `AllCounted` |
| | `BlocksAreFedOnce` | `BlocksFedOnce` |
| | `GridIsBalanced` | `GridBalance` |
| | `TradedIsKept` | `TradedUnlessLate` |
| `CmapProofs` | `NilIsNotFollowed` | `OnlyEvictionPanics` |
| | `ContainerIsConsistent` | `Consistent` |
| | `ContainerIsLru` | `ImplementsLossyLru` (refinement) |
| `AuctionProofs` | `ErrorMeansApart` | `NoPriceOnlyIfApart` |
| | `TradesAreAcceptable` | `Acceptable` |
| | `SettleClearsTheMarket` | `ClearsTheMarket` |

### Data (`DataLemmas`)

The library's induction theorems take an operator as a parameter, which none of
the provers can instantiate. Where a proof needs induction it is written out: the
set of counterexamples is stated, and a least one (`LeastNat`, or `Smallest` for
finite sets) leads to a contradiction. That a recursive function exists is shown
the same way (`Iterates`), and so are the laws of `SumFunctionOnSet` (`SumAdd`,
`SumRemove`, `SumSubset`, ...), which the community modules define by recursion.

### The ledger (`MarketProofs`)

From `ConstantsAssumption` and `NoTxAssumption`: any set of bidders, any trace,
any number of slots and retries.

*Serializability.* `Serializable` is not inductive alone. Suppose t is in flight
and a commit changes key k. If t read k, the version it saw is now stale, *unless*
the committing transaction has the version t saw; so one needs that versions in
read sets are already valid transactions, and that the committing one is not
(`ValidVersions`), and that no transaction ID is used twice (`FreshAttempts`).
If k is in a range t iterated and was absent, the range no longer matches
(`sim.matched`). Otherwise t's simulation does not depend on k: lemmas
`SameGet` ... `SameInvoke`, one per operator of the contract; this is where a
contract that used something it did not read would break the proof.
`NoLostUpdate` then follows: the valid transaction writes the value computed
from the current map plus its row, which is the set of rows of valid
transactions on that key, including the new one. The inductive invariant is
`LedgerInv == TypeOK /\ FreshAttempts /\ ValidVersions /\ Serializable /\
NoLostUpdate`. For `SettlesTheLedger`, `NoPosting` (experiment 2 posts no keys)
is added; the collections of each experiment are shown to be the unlocked bids
(`Collects1`, `Collects2`, `Collects3`), using that the store's value under a
key is that of the history (`NoLostUpdate`).

*Keys.* `KeyOnlyAfterBid` says nothing of where PostKey's keys come from.
`KeysInv` does: what is in `recentQ`, in `recent`, or in a postKey call that was
made is *filed*, that is, the acknowledged attempt of its bid call, and valid. A call has one acknowledged attempt, and keeps it.

*Clearing once.* Two copies of a bid on the ledger are two attempts of one call.
Only the acknowledged one is filed, so only its key is posted and only it is
unlocked (`SettledInv`). That argument needs keys to be posted, hence the
hypothesis `ExpNum # 2`: in experiment 2 the property is false, a bid that timed
out, was retried and committed twice being settled twice (section 3, findings).

*Accounting.* The counters are bumped on endorsement, and the property compares
them with one commit; it holds because markEnd is endorsed at most once per slot
(`MarksOnce`: no retries) and the transaction that commits carries the counts of
its own simulation (`CountsOwn`), which serializability makes those of the
current state. A markEnd with retries would break this proof.

### The notifiers (`SlotClockProofs`)

From `SlotClockAssumption`, that is, the timing assumption of section 2 and
bounds that leave room for one round (`MaxLag <= MaxHeight`). `ClockInv ==
TypeOK /\ SlotsSeenAreTold /\ FoundSoon`; `FoundSoon` says that a slot being sent
was found within `MaxLag` blocks of its first block. A notifier in its loop is at
most `MaxLag` blocks behind the ledger, so when the send succeeds the ledger is
fewer than `2 * MaxLag` blocks past the slot's first one, and the other notifier's
next slot has not begun; its previous one began `2 * MaxLag` blocks or more before
this one, so the other notifier, at most `MaxLag` blocks behind, is past the
blocks in which it would still be sending it. Both halves of `MayTell` come from
this. That slots are not left out is arithmetic of Go's
division (`SlotOf`) with `MaxLag < BlocksPerSlot`.

### The bidder (`BidderProofs`)

From `BidderAssumption`. `BidderInv` says for each goroutine that what it has
done, what is in its queue, and what is in the slot queue are ascending and in
this order (`Passes`), and together complete up to the last slot told
(`NoneLost`), unless a queue was full. The lemmas of `DataLemmas` say what one
push, one take and one move do to these two relations. The refinement maps a
bidder to `TheAgent`, in which `alive` is whether any goroutine is left; each
action is a step of `Agent` or leaves `TheAgent` alone.

### A run (`LifecycleProofs`)

From `LifecycleAssumption`. Two invariants. `ShutdownInv` does not look at the
queues: how far each bidder is (`BidderStages`), that `err` is set only if some
bidder failed (`ErrHasCause`; it is why the race on it does not matter), the
regulator with its task goroutine (`RegStages`), and what each wait group has
seen (`MainStages`). `SendersGone` and `NobodyCutShort` follow.

`WayInv` is about a slot's way: `QueueInv` for each subscriber of each notifier,
`BidderRows`, `RegRows`. The type invariant needs it: that a bidder takes no row
past its trace is not obvious, because a bidder that misses its last slot goes on
and indexes past the trace at the next one. A queue never holds more slots than
were told, so one of `BufferLen` places refuses no slot below `BufferLen`; with
`BufferLen >= TraceLength`, as shipped (100 against 35), the last row is not
missed, for any number of slots. With shorter queues, `LifecycleAssumption` ends
the exploration before that slot.

### Statistics (`StatsProofs`)

From `StatsAssumption`, of which the finite number of bidders and a name for
markEnd's lines that is no bidder's are part. `LinesInv`: the lines sent are those
counted and those in the channel. `DrainInv`: past the main loop the senders are gone, and a channel
that was drained stays empty. `BlockInv` ties the numbers waiting for the
getter, the interval it works on and the largest block queried together
(`NumbersInv`: ascending and disjoint) and says that statistics and channel hold,
in order, what was asked for up to now but for what was lost (`FeedInv`).

For the two properties about the figures, `CollectInv == LinesInv /\ OrderInv /\
SenderInv /\ SlotInv`. `SlotInv` has the figures of a slot as sums over the lines
counted (`Balanced`). `SlotCalc` keeps that (`SlotCalcBalanced`) but for one case:
a markEnd line that settled something and is the first of its slot would be taken
as it is, undeducted. It never is the first: what it settled was bid for, a bid's
line is sent before the bid is invoked (`SenderInv`), and the channel keeps the
order of the lines (`OrderInv`: what each line needs to have before it is counted
or further ahead in the channel). The same order gives `TradedUnlessLate`: a line
that follows its slot's markEnd line when it is counted did so when it was sent,
and was recorded as late. A `Buy` that sent its line after the call would break
the first proof.

### The capped map (`CmapProofs`)

From `CmapAssumption`, for any number of concurrent `Get`s. Nothing can be said of
the list's shape once two of them have met. `PointerInv` says what survives: of
every node made, `next` leads to a node made or to `fakeTail`, `prev` to one made
or to `fakeHead`, even of nodes taken out, because `removeNode` leaves their
pointers alone; and so do the local variables of a `Get` under way. Then only
`fakeTail` has a nil pointer that an operation may follow, in an eviction.

As long as no two `Get`s have met, the list does have a shape. `ListInv`: at most
one `Get` is under way (`Alone`); some list spells `shown` in both directions
(`Spells`: `next` and `prev` of neighbours); and the actual list is that one but
for the accesses the `Get` has made so far (`Moving`, one clause per access of
`dll.go`). Each access keeps `Moving`, and after the last one the list is
`addToTail(removeNode(l, v), v)`, which spells `shown` with v's entry moved to its
end. `Put` and `Delete` are compositions of the same two operators. The entries
are the map's (`Content`) and the counter is not behind them. `Consistent` walks
along `next`; with `Spells`, the walk visits the entries of `shown` in order
(`ListIsConsistent`). The refinement to `Lru` comes from the same steps: each
changes `shown` as an action of `Lru` does, or not at all (`LruStep`).

### The auction (`AuctionProofs`)

From `AuctionAssumption`, for any number of bids, prices and quantities.

* *The sorts.* A sorted collection is the collection in another order
  (`Orders`), rising or falling between any two positions (`SortedIs`,
  `ReverseSortedIs`).
* *The stack.* The cumulated units at a position are the sum over the bids up to
  there (`CumulatedIs`). In falling order of price they are bids that would pay
  that position's price; at the *last* position of a price they are exactly those
  (`PrefixesAre`). So for buyers every price point lies on or below the demand
  curve, every point of the curve at a price that was bid is among them, and the
  last one after the second sort has the highest price (`BuyersStackIs`; the
  sellers' mirror image is `SellersStackIs`). That is all `Settle` needs, whatever
  the order of ties.
* *The loops.* `BestTrade` returns a trade of two price points that meet, as good
  as any of them, or `Panic` if there is none (`ScanIs`, `BestTradeIs`). If the
  last price points meet there is one, so the `Panic` is never returned.
* *Together* (`SettleIs`): the outcome is the error if nobody meets, and otherwise
  has the volume and midpoint of a buyer and a seller that meet, such that no two
  others leave more, or as much at a higher midpoint.
* *The textbook.* At a price at which both sides are not empty, take the lowest
  bid not below it and the highest ask not above it (`DemandIs`, `SupplyIs`): they
  meet and leave as much, so no price allows more than the outcome
  (`NoPriceTradesMore`).

`AuctionInv` carries this to the behaviours: the stacks are stacks of the two
collections and the outcome is `Settle`'s.

### Only model-checked

* The liveness properties `WorkConcludes`, `SlotsComeUp`, `BidderReturns`,
  `RunEnds`, `RegulatorConcludes`: fairness and `ENABLED` are out of the prover's
  reach.
* What the theorems leave out by their hypotheses: `BidsClearOnce` excludes
  experiment 2, where the property is false.

## 6. Not modelled

* Trace parsing, cryptography, SDK set-up, configuration: run once, before or
  beside the concurrent part, without state of their own.
* The contract's read-only queries (`metrics`, `slotvalues`) and the dispatch of
  queries; `clock` writes a key nobody reads, and its effect on the ledger is
  `SlotClock!ClockInvoke`.
* The results' formatting and files (`metrics.go`), including `LargestSlotSeen`,
  which nothing else uses.
* Floating-point rounding in `Settle`; the random source shared by the bidders'
  goroutines; the runtime's detection of concurrent map accesses.
* `Register` of the slot notifiers: all of it happens before the first slot.

## 7. Plan

All components with concurrent or stateful logic have their modules, and the
safety properties and refinements that the runs check are proved. What is left
needs another model rather than another proof:

1. `Auction` with rounding: a midpoint as the float the code computes, and sums of
   units that depend on the order in which they are added, which two peers that
   range over a map differently need not share.
2. `Stats` with slots past the end of the trace, once the code handles them.
