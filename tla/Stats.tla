-------------------------------- MODULE Stats --------------------------------
(***************************************************************************)
(* The statistics of a run: the lines that the bidders' goroutines and the *)
(* regulator's task goroutine send, the blocks that a block notifier's     *)
(* second goroutine fetches (src/blocknotifier/notifier.go, GetBlock, if   *)
(* schema.EnableBlockStatsCollection is set), and the collector that adds  *)
(* them up (src/stats/collector.go) until main.go stops it and has the     *)
(* results written (src/metrics.go).                                       *)
(*                                                                         *)
(* Energy comes in whole units.  PriceTraded goes with EnergyTraded.       *)
(***************************************************************************)
EXTENDS Integers, Sequences, FiniteSetsExt

CONSTANTS
  Trace,         \* goroutine -> the row, energy and price of each of its bids
  Buyers,        \* the goroutines that call Buy; the others call Sell
  TraceLength,   \* schema.TraceLength
  Copies,        \* how often the same bid may be settled: in experiment 2 as
                 \* often as it was tried, otherwise once (Market!ClearedOnce)
  BufferLen,     \* capacity of every channel
  MaxBlock       \* bounds the exploration: the last block

Slots == 0 .. TraceLength - 1
Bidders == DOMAIN Trace

\* Buy and Sell return at once if there is nothing to bid for.
ASSUME StatsAssumption ==
  /\ TraceLength \in Nat \ {0}
  /\ IsFiniteSet(Bidders) /\ "markEnd" \notin Bidders
  /\ Buyers \subseteq Bidders
  /\ \A b \in Bidders : \A row \in DOMAIN Trace[b] :
       /\ row \in Slots
       /\ Trace[b][row] \in [energy : Nat \ {0}, price : Nat]
  /\ Copies \in Nat \ {0}
  /\ BufferLen \in Nat \ {0}
  /\ MaxBlock \in Nat

Zero == [Number |-> 0, EnergyUse |-> 0, PricePaid |-> 0, EnergyGen |-> 0,
         PriceSold |-> 0, EnergyTraded |-> 0]

VARIABLES
  bidder,     \* the goroutines: pc and row
  called,     \* the bids, as <<goroutine, row>>, that may be on the ledger
  reg,        \* the task goroutine: pc, slot, and the answer to its markEnd
  slotC, tranC, blockC,     \* the channels; of tranC the number of entries:
                            \* TransactionStats is just the list of them
  collector,                \* "run", the channel it drains, or "end"
  SlotStats, BlockStats,
  lines, counted,           \* history: the lines sent, and added up
  late,                     \* history: slots with a bid's line after markEnd's
  numC,       \* BlockNumberChan
  observed,   \* LargestBlockNumberObserved
  getter,     \* the goroutine: pc, LargestBlockNumberQueried, the block it is
              \* at and the last one it was asked for
  lost        \* history: the blocks it could not get or deliver

workVars == <<bidder, called, reg>>
statVars == <<SlotStats, BlockStats>>
histVars == <<lines, counted, late>>
blockVars == <<blockC, numC, observed, getter, lost>>
vars == <<workVars, slotC, tranC, collector, statVars, histVars, blockVars>>

Init ==
  /\ bidder = [b \in Bidders |-> [pc |-> "select", row |-> -1]]
  /\ called = {}
  /\ reg = [pc |-> "select", slot |-> -1, traded |-> 0]
  /\ slotC = <<>> /\ tranC = 0 /\ blockC = <<>>
  /\ collector = "run"
  /\ SlotStats = [s \in Slots |-> Zero]
  /\ BlockStats = <<>>
  /\ lines = {} /\ counted = {} /\ late = {}
  /\ numC = <<>>
  /\ observed = -1
  /\ getter = [pc |-> "select", queried |-> -1, at |-> 0, upTo |-> -1]
  /\ lost = {}

-----------------------------------------------------------------------------
\* Mutant: the line is sent when the call is back.
AfterSwapped == [select |-> "invoke", invoke |-> "line", line |-> "tran"]

\* What Buy and Sell do next: send the line, then try to place the bid.
After == [select |-> "line", line |-> "invoke", invoke |-> "tran"]

\* A bidder's goroutine takes a row with something to bid for.
TakeRow(b, row) ==
  /\ bidder[b].pc = "select"
  /\ row \in DOMAIN Trace[b] /\ row > bidder[b].row
  /\ bidder' = [bidder EXCEPT ![b] = [pc |-> After["select"], row |-> row]]
  /\ UNCHANGED <<called, reg, slotC, tranC, collector, statVars, histVars,
                 blockVars>>

\* The line that Buy and Sell send before anything else.
BidLine(b) ==
  LET row == bidder[b].row
      bid == Trace[b][row]
      line == [Zero EXCEPT !.Number = row]
  IN  IF b \in Buyers
        THEN [line EXCEPT !.EnergyUse = bid.energy, !.PricePaid = bid.price]
        ELSE [line EXCEPT !.EnergyGen = bid.energy, !.PriceSold = bid.price]

MarkEndLine == [Zero EXCEPT !.Number = reg.slot, !.EnergyTraded = reg.traded]

\* A line of sender x goes into the channel as soon as that has room.
Send(x, line) ==
  /\ Len(slotC) < BufferLen
  /\ slotC' = Append(slotC, <<x, line>>)
  /\ lines' = lines \cup {<<x, line>>}
  /\ LET after == \E l \in lines : l[1] = "markEnd" /\ l[2].Number = line.Number
     IN  late' = IF x # "markEnd" /\ after THEN late \cup {line.Number} ELSE late

SendBidLine(b) ==
  /\ bidder[b].pc = "line"
  /\ Send(b, BidLine(b))
  /\ bidder' = [bidder EXCEPT ![b].pc = After["line"]]
  /\ UNCHANGED <<called, reg, tranC, collector, statVars, counted,
                 blockVars>>

\* An attempt: from here on the bid may be on the ledger.
Invoke(b) ==
  /\ bidder[b].pc = "invoke"
  /\ called' = called \cup {<<b, bidder[b].row>>}
  /\ bidder' = [bidder EXCEPT ![b].pc = After["invoke"]]
  /\ UNCHANGED <<reg, slotC, tranC, collector, statVars, histVars, blockVars>>

\* Its outcome is sent; after a failure there may be another one (how many
\* there are, and what PostKey does in the same way, is module Market's).
SendTran ==
  /\ tranC < BufferLen
  /\ tranC' = tranC + 1

SendBidTran(b) ==
  /\ bidder[b].pc = "tran"
  /\ SendTran
  /\ \/ bidder' = [bidder EXCEPT ![b].pc = "select"]
     \/ bidder' = [bidder EXCEPT ![b].pc = "invoke"]
  /\ UNCHANGED <<called, reg, slotC, collector, statVars, lines, counted,
                 late, blockVars>>

\* doneC, or the bidder's kill channel, is seen closed, which may be any time
\* here; the same holds for the others below.
BidderQuits(b) ==
  /\ bidder[b].pc = "select"
  /\ bidder' = [bidder EXCEPT ![b].pc = "exited"]
  /\ UNCHANGED <<called, reg, slotC, tranC, collector, statVars, histVars,
                 blockVars>>

-----------------------------------------------------------------------------
\* The energy of the bids of slot s that may be on the ledger.
Energy(s, bidders) ==
  LET bids == {b \in bidders : <<b, s>> \in called}
  IN  SumFunctionOnSet([b \in bids |-> Copies * Trace[b][s].energy], bids)

\* What markEnd may report: no more than is both asked for and offered.
Tradable(s) ==
  0 .. Min({Energy(s, Buyers), Energy(s, Bidders \ Buyers)})

\* The task goroutine calls markEnd for a slot.  It fails, or has settled some
\* of the bids on the ledger.
MarkEnd(slot) ==
  /\ reg.pc = "select"
  /\ slot \in Slots /\ slot > reg.slot
  /\ \/ reg' = [reg EXCEPT !.pc = "failed", !.slot = slot]
     \/ \E traded \in Tradable(slot) :
          reg' = [pc |-> "tran", slot |-> slot, traded |-> traded]
  /\ UNCHANGED <<bidder, called, slotC, tranC, collector, statVars, histVars,
                 blockVars>>

SendMarkEndTran ==
  /\ reg.pc \in {"tran", "failed"}
  /\ SendTran
  /\ reg' = [reg EXCEPT !.pc = IF reg.pc = "tran" THEN "line" ELSE "select"]
  /\ UNCHANGED <<bidder, called, slotC, collector, statVars, lines,
                 counted, late, blockVars>>

SendMarkEndLine ==
  /\ reg.pc = "line"
  /\ Send("markEnd", MarkEndLine)
  /\ reg' = [reg EXCEPT !.pc = "select", !.traded = 0]
  /\ UNCHANGED <<bidder, called, tranC, collector, statVars, counted,
                 blockVars>>

RegulatorQuits ==
  /\ reg.pc = "select"
  /\ reg' = [reg EXCEPT !.pc = "exited"]
  /\ UNCHANGED <<bidder, called, slotC, tranC, collector, statVars, histVars,
                 blockVars>>

-----------------------------------------------------------------------------
\* The block notifier has observed block n, and hands the number on.
Observe(n) ==
  /\ n > observed
  /\ Len(numC) < BufferLen
  /\ numC' = Append(numC, n)
  /\ observed' = n
  /\ UNCHANGED <<workVars, slotC, tranC, collector, statVars, histVars, blockC,
                 getter, lost>>

\* GetBlock begins with the block after the last one queried.
TakeNumber ==
  /\ getter.pc = "select"
  /\ numC # <<>>
  /\ numC' = Tail(numC)
  /\ getter' = [getter EXCEPT !.pc = "get", !.at = getter.queried + 1,
                              !.upTo = Head(numC)]
  /\ UNCHANGED <<workVars, slotC, tranC, collector, statVars, histVars, blockC,
                 observed, lost>>

\* A block cannot be queried, or is pushed unless the channel is full.
GetBlock ==
  /\ getter.pc = "get" /\ getter.at <= getter.upTo
  /\ getter' = [getter EXCEPT !.at = @ + 1]
  /\ \/ /\ Len(blockC) < BufferLen
        /\ blockC' = Append(blockC, getter.at)
        /\ UNCHANGED lost
     \/ /\ lost' = lost \cup {getter.at}
        /\ UNCHANGED blockC
  /\ UNCHANGED <<workVars, slotC, tranC, collector, statVars, histVars, numC,
                 observed>>

\* Mutant: the last block queried is not noted.
GotBlocksAgain ==
  /\ getter.pc = "get" /\ getter.at > getter.upTo
  /\ getter' = [getter EXCEPT !.pc = "select"]
  /\ UNCHANGED <<workVars, slotC, tranC, collector, statVars, histVars, blockC,
                 numC, observed, lost>>

GotBlocks ==
  /\ getter.pc = "get" /\ getter.at > getter.upTo
  /\ getter' = [getter EXCEPT !.pc = "select", !.queried = getter.upTo]
  /\ UNCHANGED <<workVars, slotC, tranC, collector, statVars, histVars, blockC,
                 numC, observed, lost>>

GetterQuits ==
  /\ getter.pc = "select"
  /\ getter' = [getter EXCEPT !.pc = "exited"]
  /\ UNCHANGED <<workVars, slotC, tranC, collector, statVars, histVars, blockC,
                 numC, observed, lost>>

-----------------------------------------------------------------------------
\* Mutant: the energy traded is deducted but not noted.
SlotCalcSilent(cur, new) ==
  IF cur = Zero THEN new
  ELSE [Number |-> cur.Number,
        EnergyUse |-> cur.EnergyUse + new.EnergyUse - new.EnergyTraded,
        EnergyGen |-> cur.EnergyGen + new.EnergyGen - new.EnergyTraded,
        PricePaid |-> Max({cur.PricePaid, new.PricePaid}),
        PriceSold |-> Max({cur.PriceSold, new.PriceSold}),
        EnergyTraded |-> cur.EnergyTraded]

\* The collector adds a line to those of its slot.
SlotCalc(cur, new) ==
  IF cur = Zero THEN new
  ELSE [Number |-> cur.Number,
        EnergyUse |-> cur.EnergyUse + new.EnergyUse - new.EnergyTraded,
        EnergyGen |-> cur.EnergyGen + new.EnergyGen - new.EnergyTraded,
        PricePaid |-> Max({cur.PricePaid, new.PricePaid}),
        PriceSold |-> Max({cur.PriceSold, new.PriceSold}),
        EnergyTraded |-> new.EnergyTraded]

\* It receives on its channels in any order, and drains one after the other
\* once doneStatsC is closed.
Receives(chan) == collector \in {"run", chan}

ReceiveSlot ==
  LET line == Head(slotC)[2] IN
  /\ Receives("slot")
  /\ slotC # <<>>
  /\ slotC' = Tail(slotC)
  /\ SlotStats' = [SlotStats EXCEPT ![line.Number] = SlotCalc(@, line)]
  /\ counted' = counted \cup {Head(slotC)}
  /\ UNCHANGED <<workVars, tranC, collector, BlockStats, lines, late, blockVars>>

ReceiveTransaction ==
  /\ Receives("tran")
  /\ tranC > 0
  /\ tranC' = tranC - 1
  /\ UNCHANGED <<workVars, slotC, collector, statVars, histVars, blockVars>>

ReceiveBlock ==
  /\ Receives("block")
  /\ blockC # <<>>
  /\ blockC' = Tail(blockC)
  /\ BlockStats' = Append(BlockStats, Head(blockC))
  /\ UNCHANGED <<workVars, slotC, tranC, collector, SlotStats, histVars, numC,
                 observed, getter, lost>>

\* main.go closes doneStatsC when the senders have returned (Lifecycle's
\* SendersGone).
SendersGone ==
  /\ \A b \in Bidders : bidder[b].pc = "exited"
  /\ reg.pc = "exited"
  /\ getter.pc = "exited"

Stop ==
  /\ collector = "run"
  /\ SendersGone
  /\ collector' = "block"
  /\ UNCHANGED <<workVars, slotC, tranC, statVars, histVars, blockVars>>

\* Mutant: what is left of the slots' lines is dropped.
DrainedButSlots ==
  /\ \/ collector = "block" /\ blockC = <<>> /\ collector' = "tran"
     \/ collector = "tran" /\ tranC = 0 /\ collector' = "end"
  /\ UNCHANGED <<workVars, slotC, tranC, statVars, histVars, blockVars>>

Drained ==
  /\ \/ collector = "block" /\ blockC = <<>> /\ collector' = "tran"
     \/ collector = "tran" /\ tranC = 0 /\ collector' = "slot"
     \/ collector = "slot" /\ slotC = <<>> /\ collector' = "end"
  /\ UNCHANGED <<workVars, slotC, tranC, statVars, histVars, blockVars>>

-----------------------------------------------------------------------------
Next ==
  \/ \E b \in Bidders :
       \/ \E row \in Slots : TakeRow(b, row)
       \/ SendBidLine(b) \/ Invoke(b) \/ SendBidTran(b) \/ BidderQuits(b)
  \/ \E slot \in Slots : MarkEnd(slot)
  \/ SendMarkEndTran \/ SendMarkEndLine \/ RegulatorQuits
  \/ \E n \in 0 .. MaxBlock : Observe(n)
  \/ TakeNumber \/ GetBlock \/ GotBlocks \/ GetterQuits
  \/ ReceiveSlot \/ ReceiveTransaction \/ ReceiveBlock
  \/ Stop \/ Drained

Spec == Init /\ [][Next]_vars

-----------------------------------------------------------------------------
\* The lines added up so far for slot s, and what they say of it.
Of(s) == {l \in counted : l[2].Number = s}
Total(s, field) == SumFunctionOnSet([l \in Of(s) |-> l[2][field]], Of(s))
Largest(s, field) == Max({0} \cup {l[2][field] : l \in Of(s)})

\* The collector treats the first line of a slot differently, and lines come
\* in any order; yet what it has for a slot is what the bidders asked for and
\* offered less what was traded.  It works because a bid is sent to the
\* collector before it is sent to the ledger: a markEnd line that is the first
\* of its slot has nothing to deduct (collector.go, SlotCalc; bidder.go, Buy
\* and Sell; regulator.go, Run).
GridBalance ==
  \A s \in Slots :
    LET stat == SlotStats[s]
        traded == Total(s, "EnergyTraded")
    IN  /\ stat.EnergyUse = Total(s, "EnergyUse") - traded
        /\ stat.EnergyGen = Total(s, "EnergyGen") - traded
        /\ stat.PricePaid = Largest(s, "PricePaid")
        /\ stat.PriceSold = Largest(s, "PriceSold")

\* The energy reported as traded is markEnd's, unless the line of a bid for
\* that slot was sent after markEnd's line: such a line wipes it out
\* (collector.go, SlotCalc: EnergyTraded is overwritten).
TradedUnlessLate ==
  \A s \in Slots \ late :
    SlotStats[s].EnergyTraded = Total(s, "EnergyTraded")

\* Nothing that was sent is lost, though senders and collector are stopped at
\* any time, in any order of channels (collector.go, Run; main.go, metrics.go:
\* doneStatsC is closed last).
AllCounted ==
  collector = "end" => counted = lines /\ tranC = 0 /\ blockC = <<>>

\* The blocks are fed to the collector in order and none of them twice, while
\* the notifier observes new ones; those that are missing could not be got or
\* delivered (blocknotifier/notifier.go, GetBlock).
BlocksFedOnce ==
  LET fed == BlockStats \o blockC
      last == IF getter.pc = "get" THEN getter.at - 1 ELSE getter.queried
  IN  /\ \A i, j \in DOMAIN fed : i < j => fed[i] < fed[j]
      /\ {fed[i] : i \in DOMAIN fed} = 0 .. last \ lost
=============================================================================
