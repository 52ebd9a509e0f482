-------------------------- MODULE SlotClockProofs ---------------------------
(***************************************************************************)
(* Proofs about module SlotClock, for every choice of the block numbers    *)
(* that SlotClockAssumption allows: what the notifiers remember fits       *)
(* together, and they implement SlotSource.                                *)
(***************************************************************************)
EXTENDS SlotClock, TLAPS

-----------------------------------------------------------------------------
(***************************************************************************)
(* Blocks and slots.                                                       *)
(***************************************************************************)
LEMMA Bounds ==
  /\ BlocksPerSlot \in Nat /\ BlockOffset \in Nat
  /\ MaxLag \in Nat \ {0} /\ MaxHeight \in Nat /\ MaxLag <= MaxHeight
  /\ 2 * MaxLag <= BlockOffset /\ 2 * MaxLag <= BlocksPerSlot - BlockOffset
  BY SlotClockAssumption

LEMMA Division ==
  ASSUME NEW a \in Nat, NEW d \in Nat \ {0}
  PROVE  /\ a \div d \in Nat
         /\ a \div d <= a
         /\ (a \div d) * d <= a
         /\ a < (a \div d + 1) * d
OBVIOUS

LEMMA StartFacts ==
  ASSUME NEW i \in Notifiers, NEW s \in Int
  PROVE  /\ From(i) \in Nat
         /\ Start(i, s) \in Int
         /\ Start(i, 0) = From(i)
         /\ Start(i, s + 1) = Start(i, s) + BlocksPerSlot
  BY SlotClockAssumption DEF Start, From

LEMMA StartMonotone ==
  ASSUME NEW i \in Notifiers, NEW s \in Int, NEW t \in Int, s <= t
  PROVE  Start(i, s) <= Start(i, t)
<1>1. s * BlocksPerSlot <= t * BlocksPerSlot
  BY SlotClockAssumption
<1> QED
  BY <1>1, SlotClockAssumption DEF Start, From

\* The second notifier's slots begin BlockOffset blocks later.
LEMMA StartOffset ==
  ASSUME NEW s \in Int, 2 \in Notifiers
  PROVE  Start(2, s) = Start(1, s) + BlockOffset
  BY SlotClockAssumption DEF Start, From

LEMMA SlotBounds ==
  ASSUME NEW i \in Notifiers, NEW n \in Int
  PROVE  /\ SlotOf(i, n) \in Int
         /\ SlotOf(i, n) >= -1
         /\ n >= -1 => SlotOf(i, n) <= n
         /\ SlotOf(i, n) = -1 <=> n < From(i)
         /\ SlotOf(i, n) >= 0 => Start(i, SlotOf(i, n)) <= n
         /\ n < Start(i, SlotOf(i, n) + 1)
<1>1. From(i) \in Nat
  BY StartFacts
<1>2. CASE n < From(i)
  <2>1. SlotOf(i, n) = -1
    BY <1>1, <1>2 DEF SlotOf
  <2> QED
    BY <1>1, <1>2, <2>1, StartFacts
<1>3. CASE n >= From(i)
  <2>1. n - From(i) \in Nat /\ BlocksPerSlot \in Nat \ {0}
    BY <1>1, <1>3, SlotClockAssumption
  <2>2. SlotOf(i, n) = (n - From(i)) \div BlocksPerSlot
    BY <1>1, <1>3, <2>1 DEF SlotOf, Quotient
  <2>3. /\ SlotOf(i, n) \in Nat
        /\ SlotOf(i, n) <= n - From(i)
        /\ SlotOf(i, n) * BlocksPerSlot <= n - From(i)
        /\ n - From(i) < (SlotOf(i, n) + 1) * BlocksPerSlot
    BY <2>1, <2>2, Division
  <2> QED
    BY <1>1, <1>3, <2>1, <2>3 DEF Start
<1> QED
  BY <1>1, <1>2, <1>3

\* No slot is jumped over while the ledger grows by less than a slot.
LEMMA NextSlot ==
  ASSUME NEW i \in Notifiers, NEW m \in Int, NEW n \in Int,
         m <= n, n <= m + MaxLag, SlotOf(i, n) > SlotOf(i, m)
  PROVE  /\ SlotOf(i, n) = SlotOf(i, m) + 1
         /\ SlotOf(i, n) >= 0
         /\ n < Start(i, SlotOf(i, n)) + MaxLag
<1> DEFINE s == SlotOf(i, m)
           t == SlotOf(i, n)
<1>1. /\ s \in Int /\ s >= -1 /\ m < Start(i, s + 1)
      /\ t \in Int /\ t >= -1 /\ (t >= 0 => Start(i, t) <= n)
  BY SlotBounds
<1>2. /\ MaxLag \in Nat /\ BlocksPerSlot \in Nat /\ MaxLag <= BlocksPerSlot
  BY SlotClockAssumption
<1>3. /\ Start(i, s + 1) \in Int /\ Start(i, t) \in Int
      /\ Start(i, s + 2) = Start(i, s + 1) + BlocksPerSlot
  <2>1. Start(i, (s + 1) + 1) = Start(i, s + 1) + BlocksPerSlot
    BY <1>1, StartFacts
  <2> QED
    BY <1>1, <2>1, StartFacts
<1>4. s + 2 <= t => Start(i, s + 2) <= Start(i, t)
  BY <1>1, StartMonotone
<1>5. t = s + 1
  BY <1>1, <1>2, <1>3, <1>4
<1> QED
  BY <1>1, <1>2, <1>3, <1>5

-----------------------------------------------------------------------------
(***************************************************************************)
(* The invariant.                                                          *)
(***************************************************************************)
LEMMA ClockInit == Init => ClockInv
<1> SUFFICES ASSUME Init PROVE ClockInv
  OBVIOUS
<1>1. TypeOK
  <2>1. height \in 0 .. MaxHeight
    BY Bounds DEF Init
  <2>2. bn \in [Notifiers -> [pc : {"sleep", "query", "send", "closing",
                                   "returned"},
                             observed : -1 .. MaxHeight,
                             slot : -1 .. MaxHeight,
                             failed : BOOLEAN]]
    BY Bounds DEF Init
  <2>3. sn \in [Notifiers -> [pc : {"recv", "fan", "exited"},
                             last : -1 .. MaxHeight]]
    BY Bounds DEF Init
  <2> QED
    BY <2>1, <2>2, <2>3 DEF Init, TypeOK
<1>2. ASSUME NEW i \in Notifiers
      PROVE  SlotOf(i, -1) = -1
  BY StartFacts, SlotBounds
<1>3. ASSUME NEW i \in Notifiers
      PROVE  /\ bn[i].pc = "sleep" /\ bn[i].observed = -1 /\ bn[i].slot = -1
             /\ sn[i].last = -1
             /\ height \in Nat /\ height - (-1) <= MaxLag /\ -1 <= height
  BY Bounds DEF Init
<1>4. SlotsSeenAreTold
  BY <1>2, <1>3 DEF SlotsSeenAreTold
<1>5. FoundSoon
  BY <1>3 DEF FoundSoon
<1> QED
  BY <1>1, <1>4, <1>5 DEF ClockInv

\* The fields of what notifier i remembers.
LEMMA Fields ==
  ASSUME TypeOK, NEW i \in Notifiers
  PROVE  /\ height \in Int /\ MaxHeight \in Int /\ MaxLag \in Int
         /\ bn[i].pc \in {"sleep", "query", "send", "closing", "returned"}
         /\ bn[i].observed \in -1 .. MaxHeight
         /\ bn[i].slot \in -1 .. MaxHeight
         /\ bn[i].failed \in BOOLEAN
         /\ sn[i].pc \in {"recv", "fan", "exited"}
         /\ sn[i].last \in -1 .. MaxHeight
         /\ Start(i, bn[i].slot) \in Int
<1>1. bn[i].slot \in Int
  BY SlotClockAssumption DEF TypeOK
<1> QED
  BY <1>1, StartFacts, SlotClockAssumption DEF TypeOK

\* What goes for notifier i once its poll has seen a new block.
LEMMA QueryObserves ==
  ASSUME ClockInv, NEW i \in Notifiers, bn[i].pc = "query",
         height > bn[i].observed
  PROVE  LET r == Observed(bn[i], i, height) IN
         /\ r.observed = height
         /\ r.slot = SlotOf(i, height)
         /\ r.slot \in -1 .. MaxHeight
         /\ r.failed = bn[i].failed
         /\ \/ r.pc = "sleep" /\ r.slot = bn[i].slot
            \/ /\ r.pc = "send" /\ r.slot = bn[i].slot + 1
               /\ r.slot >= 0 /\ height < Start(i, r.slot) + MaxLag
<1>1. /\ height \in Int /\ bn[i].observed \in Int
      /\ bn[i].slot = SlotOf(i, bn[i].observed)
      /\ height <= bn[i].observed + MaxLag
      /\ bn[i].slot \in Int
  BY Fields DEF ClockInv, SlotsSeenAreTold, Looping
<1>2. SlotOf(i, height) \in Int /\ SlotOf(i, height) \in -1 .. MaxHeight
  BY <1>1, SlotBounds, Bounds DEF ClockInv, TypeOK
<1>3. DOMAIN bn[i] = {"pc", "observed", "slot", "failed"}
  BY DEF ClockInv, TypeOK
<1>4. CASE SlotOf(i, height) > bn[i].slot
  <2>1. /\ SlotOf(i, height) = bn[i].slot + 1
        /\ SlotOf(i, height) >= 0
        /\ height < Start(i, SlotOf(i, height)) + MaxLag
    BY <1>1, <1>4, NextSlot
  <2>2. Observed(bn[i], i, height)
          = [bn[i] EXCEPT !.pc = "send", !.observed = height, !.slot = SlotOf(i, height)]
    BY <1>4 DEF Observed
  <2> QED
    BY <1>2, <1>3, <2>1, <2>2
<1>5. CASE ~ (SlotOf(i, height) > bn[i].slot)
  <2>1. SlotOf(i, height) >= bn[i].slot
    <3>1. /\ bn[i].slot >= -1
          /\ bn[i].slot >= 0 => Start(i, bn[i].slot) <= bn[i].observed
          /\ height < Start(i, SlotOf(i, height) + 1)
      BY <1>1, SlotBounds
    <3>2. /\ SlotOf(i, height) + 1 <= bn[i].slot
             => Start(i, SlotOf(i, height) + 1) <= Start(i, bn[i].slot)
          /\ Start(i, SlotOf(i, height) + 1) \in Int
          /\ Start(i, bn[i].slot) \in Int
      <4>1. SlotOf(i, height) + 1 \in Int
        BY <1>2
      <4>2. /\ Start(i, SlotOf(i, height) + 1) \in Int
            /\ Start(i, bn[i].slot) \in Int
        BY <1>1, <4>1, StartFacts
      <4> QED
        BY <1>1, <4>1, <4>2, StartMonotone
    <3> QED
      BY <1>1, <1>2, <3>1, <3>2
  <2>2. SlotOf(i, height) = bn[i].slot
    BY <1>1, <1>2, <1>5, <2>1
  <2>3. Observed(bn[i], i, height)
          = [bn[i] EXCEPT !.pc = "sleep", !.observed = height]
    BY <1>5 DEF Observed
  <2> QED
    BY <1>2, <1>3, <2>2, <2>3
<1> QED
  BY <1>4, <1>5

\* The types of what a block and a slot notifier remember.
BlockNotifierType ==
  [pc : {"sleep", "query", "send", "closing", "returned"},
   observed : -1 .. MaxHeight, slot : -1 .. MaxHeight, failed : BOOLEAN]
SlotNotifierType ==
  [pc : {"recv", "fan", "exited"}, last : -1 .. MaxHeight]

\* The invariant for notifier i alone, with b for bn[i] and n for sn[i], at
\* height h.
Fits(i, h, b, n) ==
  /\ b \in BlockNotifierType /\ n \in SlotNotifierType
  /\ b.slot = SlotOf(i, b.observed)
  /\ n.last = IF b.pc = "send" THEN b.slot - 1 ELSE b.slot
  /\ (b.pc \in {"sleep", "query"} \/ (b.pc = "send" /\ n.pc # "exited"))
       => h - b.observed <= MaxLag
  /\ b.observed <= h
  /\ b.pc = "send" =>
       b.slot >= 0 /\ b.observed < Start(i, b.slot) + MaxLag

LEMMA ClockInvSplit ==
  ASSUME ClockInv
  PROVE  /\ \A i \in Notifiers : Fits(i, height, bn[i], sn[i])
         /\ DOMAIN bn = Notifiers /\ DOMAIN sn = Notifiers
         /\ height \in 0 .. MaxHeight
         /\ pending \in BOOLEAN /\ done \in BOOLEAN
         /\ clock \in [Notifiers -> {"run", "exited"}]
  BY DEF ClockInv, TypeOK, SlotsSeenAreTold, FoundSoon, Looping, Fits,
         BlockNotifierType, SlotNotifierType

LEMMA ClockInvJoin ==
  ASSUME \A i \in Notifiers : Fits(i, height', bn'[i], sn'[i]),
         bn' = [i \in Notifiers |-> bn'[i]],
         sn' = [i \in Notifiers |-> sn'[i]],
         height' \in 0 .. MaxHeight,
         pending' \in BOOLEAN, done' \in BOOLEAN,
         clock' \in [Notifiers -> {"run", "exited"}]
  PROVE  ClockInv'
<1>1. TypeOK'
  <2>1. bn' \in [Notifiers -> BlockNotifierType]
    BY DEF Fits
  <2>2. sn' \in [Notifiers -> SlotNotifierType]
    BY DEF Fits
  <2> QED
    BY <2>1, <2>2 DEF TypeOK, BlockNotifierType, SlotNotifierType
<1>2. SlotsSeenAreTold'
  BY DEF Fits, SlotsSeenAreTold, Looping
<1>3. FoundSoon'
  BY DEF Fits, FoundSoon
<1> QED
  BY <1>1, <1>2, <1>3 DEF ClockInv

\* A step that concerns notifier i alone.
LEMMA OneNotifier ==
  ASSUME ClockInv, NEW i \in Notifiers, NEW b, NEW n,
         bn' = [bn EXCEPT ![i] = b], sn' = [sn EXCEPT ![i] = n],
         Fits(i, height, b, n),
         height' = height, pending' \in BOOLEAN, done' \in BOOLEAN,
         clock' \in [Notifiers -> {"run", "exited"}]
  PROVE  ClockInv'
<1>1. /\ \A j \in Notifiers : Fits(j, height, bn[j], sn[j])
      /\ DOMAIN bn = Notifiers /\ DOMAIN sn = Notifiers
      /\ height \in 0 .. MaxHeight
  BY ClockInvSplit
<1>2. \A j \in Notifiers : /\ bn'[j] = IF j = i THEN b ELSE bn[j]
                          /\ sn'[j] = IF j = i THEN n ELSE sn[j]
  BY <1>1
<1>3. \A j \in Notifiers : Fits(j, height', bn'[j], sn'[j])
  BY <1>1, <1>2
<1>4. /\ bn' = [j \in Notifiers |-> bn'[j]]
      /\ sn' = [j \in Notifiers |-> sn'[j]]
  BY <1>1
<1> HIDE DEF Fits
<1> QED
  BY <1>1, <1>3, <1>4, ClockInvJoin

LEMMA ClockStep ==
  ASSUME ClockInv, [Next]_vars
  PROVE  ClockInv'
<1>1. /\ \A j \in Notifiers : Fits(j, height, bn[j], sn[j])
      /\ DOMAIN bn = Notifiers /\ DOMAIN sn = Notifiers
      /\ height \in 0 .. MaxHeight
      /\ pending \in BOOLEAN /\ done \in BOOLEAN
      /\ clock \in [Notifiers -> {"run", "exited"}]
  BY ClockInvSplit
<1>2. /\ MaxHeight \in Nat /\ MaxLag \in Nat
      /\ \A j \in Notifiers : \A s \in Int : Start(j, s) \in Int
  BY Bounds, StartFacts
<1>3. /\ bn = [j \in Notifiers |-> bn[j]]
      /\ sn = [j \in Notifiers |-> sn[j]]
  BY DEF ClockInv, TypeOK
<1>4. CASE CutBlock
  <2>1. /\ bn' = bn /\ sn' = sn /\ height' = height + 1 /\ height < MaxHeight
        /\ pending' = FALSE /\ done' = done /\ clock' = clock
        /\ \A i \in Notifiers : Looping(i) => height - bn[i].observed < MaxLag
    BY <1>4 DEF CutBlock
  <2>2. height' \in 0 .. MaxHeight
    BY <1>1, <1>2, <2>1
  <2>3. \A i \in Notifiers : Fits(i, height', bn'[i], sn'[i])
    BY <1>1, <1>2, <2>1 DEF Fits, Looping, BlockNotifierType
  <2> QED
    BY <1>1, <1>3, <2>1, <2>2, <2>3, ClockInvJoin
<1>5. CASE CloseDone
  BY <1>1, <1>3, <1>5, ClockInvJoin DEF CloseDone, ledgerVars
<1>6. ASSUME NEW i \in Notifiers, Clock(i)
      PROVE  ClockInv'
  <2>1. /\ bn' = bn /\ sn' = sn /\ height' = height /\ done' = done
        /\ pending' \in BOOLEAN
        /\ clock' \in [Notifiers -> {"run", "exited"}]
    BY <1>1, <1>6 DEF Clock, ClockInvoke, ClockQuit, ledgerVars
  <2> QED
    BY <1>1, <1>3, <2>1, ClockInvJoin
<1>7. ASSUME NEW i \in Notifiers, Run(i) \/ QueryFails(i) \/ SlotNotifier(i)
      PROVE  ClockInv'
  <2> DEFINE b == bn[i]
             n == sn[i]
  <2>1. /\ Fits(i, height, b, n)
        /\ b \in BlockNotifierType /\ n \in SlotNotifierType
    BY <1>1 DEF Fits
  <2>2. CASE Wake(i)
    <3>1. PICK to \in {"closing", "query"} :
            bn' = [bn EXCEPT ![i] = [b EXCEPT !.pc = to]]
      BY <2>2 DEF Wake
    <3>2. Fits(i, height, [b EXCEPT !.pc = to], n)
      BY <1>2, <2>1, <2>2 DEF Wake, Fits, BlockNotifierType
    <3>3. sn' = [sn EXCEPT ![i] = n]
      BY <1>3, <2>2 DEF Wake
    <3>4. height' = height /\ pending' = pending /\ done' = done /\ clock' = clock
      BY <2>2 DEF Wake, ledgerVars
    <3> QED
      BY <1>1, <3>1, <3>2, <3>3, <3>4, OneNotifier
  <2>3. CASE Query(i)
    <3>1. sn' = [sn EXCEPT ![i] = n] /\ b.pc = "query"
      BY <1>3, <2>3 DEF Query
    <3>2. height' = height /\ pending' = pending /\ done' = done /\ clock' = clock
      BY <2>3 DEF Query, ledgerVars
    <3>3. CASE height <= b.observed
      <4>1. bn' = [bn EXCEPT ![i] = [b EXCEPT !.pc = "sleep"]]
        BY <2>3, <3>3 DEF Query
      <4>2. Fits(i, height, [b EXCEPT !.pc = "sleep"], n)
        BY <1>2, <2>1, <3>1 DEF Fits, BlockNotifierType
      <4> QED
        BY <1>1, <3>1, <3>2, <4>1, <4>2, OneNotifier
    <3>4. CASE height > b.observed
      <4> DEFINE r == Observed(b, i, height)
      <4>1. bn' = [bn EXCEPT ![i] = r]
        <5>1. ~ (height <= b.observed)
          BY <1>1, <1>2, <2>1, <3>4 DEF BlockNotifierType
        <5> QED
          BY <2>3, <5>1 DEF Query
      <4>2. /\ r.observed = height /\ r.slot = SlotOf(i, height)
            /\ r.slot \in -1 .. MaxHeight
            /\ r.failed = b.failed
            /\ \/ r.pc = "sleep" /\ r.slot = b.slot
               \/ /\ r.pc = "send" /\ r.slot = b.slot + 1
                  /\ r.slot >= 0 /\ height < Start(i, r.slot) + MaxLag
        BY <3>1, <3>4, QueryObserves
      <4>3. r \in BlockNotifierType
        <5>1. \/ r = [b EXCEPT !.pc = "send", !.observed = height,
                               !.slot = SlotOf(i, height)]
              \/ r = [b EXCEPT !.pc = "sleep", !.observed = height]
          BY DEF Observed
        <5>2. /\ height \in -1 .. MaxHeight
              /\ SlotOf(i, height) \in -1 .. MaxHeight
          BY <1>1, <1>2, <4>2
        <5> QED
          BY <2>1, <5>1, <5>2 DEF BlockNotifierType
      <4> HIDE DEF r
      <4>4. n.last = b.slot
        BY <2>1, <3>1 DEF Fits
      <4>5. Fits(i, height, r, n)
        BY <1>1, <1>2, <2>1, <4>2, <4>3, <4>4
           DEF Fits, BlockNotifierType, SlotNotifierType
      <4> QED
        BY <1>1, <3>1, <3>2, <4>1, <4>5, OneNotifier
    <3> QED
      BY <1>1, <1>2, <2>1, <3>3, <3>4 DEF BlockNotifierType
  <2>4. CASE Return(i)
    <3>1. /\ bn' = [bn EXCEPT ![i] = [b EXCEPT !.pc = "returned"]]
          /\ b.pc = "closing"
      BY <2>4 DEF Return
    <3>2. Fits(i, height, [b EXCEPT !.pc = "returned"], n)
      BY <1>2, <2>1, <3>1 DEF Fits, BlockNotifierType
    <3>3. sn' = [sn EXCEPT ![i] = n]
      BY <1>3, <2>4 DEF Return
    <3>4. done' \in BOOLEAN
      BY <2>4 DEF Return
    <3> QED
      BY <1>1, <2>4, <3>1, <3>2, <3>3, <3>4, OneNotifier DEF Return, ledgerVars
  <2>5. CASE QueryFails(i)
    <3>1. /\ bn' = [bn EXCEPT ![i] = [b EXCEPT !.pc = "closing", !.failed = TRUE]]
          /\ b.pc = "query"
      BY <2>5 DEF QueryFails
    <3>2. Fits(i, height, [b EXCEPT !.pc = "closing", !.failed = TRUE], n)
      BY <1>2, <2>1, <3>1 DEF Fits, BlockNotifierType
    <3>3. sn' = [sn EXCEPT ![i] = n]
      BY <1>3, <2>5 DEF QueryFails
    <3>4. height' = height /\ pending' = pending /\ done' = done /\ clock' = clock
      BY <2>5 DEF QueryFails, ledgerVars
    <3> QED
      BY <1>1, <3>1, <3>2, <3>3, <3>4, OneNotifier
  <2>6. CASE Receive(i)
    <3> DEFINE q == [pc |-> "fan", last |-> b.slot]
    <3>1. b.pc = "send" /\ n.pc = "recv" /\ b.slot > n.last
      BY <1>2, <2>1, <2>6 DEF Receive, Fits, BlockNotifierType
    <3>2. /\ bn' = [bn EXCEPT ![i] = [b EXCEPT !.pc = "sleep"]]
          /\ sn' = [sn EXCEPT ![i] = q]
      BY <2>6, <3>1 DEF Receive
    <3>3. Fits(i, height, [b EXCEPT !.pc = "sleep"], q)
      BY <1>2, <2>1, <3>1 DEF Fits, BlockNotifierType, SlotNotifierType
    <3>4. height' = height /\ pending' = pending /\ done' = done /\ clock' = clock
      BY <2>6 DEF Receive, ledgerVars
    <3> QED
      BY <1>1, <3>2, <3>3, <3>4, OneNotifier
  <2>7. CASE FannedOut(i) \/ SlotNotifierQuits(i)
    <3>1. PICK to \in {"recv", "exited"} :
            sn' = [sn EXCEPT ![i] = [n EXCEPT !.pc = to]] /\ n.pc # "exited"
      BY <2>7 DEF FannedOut, SlotNotifierQuits
    <3>2. Fits(i, height, b, [n EXCEPT !.pc = to])
      BY <1>2, <2>1, <3>1 DEF Fits, SlotNotifierType
    <3>3. bn' = [bn EXCEPT ![i] = b]
      BY <1>3, <2>7 DEF FannedOut, SlotNotifierQuits
    <3>4. height' = height /\ pending' = pending /\ done' = done /\ clock' = clock
      BY <2>7 DEF FannedOut, SlotNotifierQuits, ledgerVars
    <3> QED
      BY <1>1, <3>1, <3>2, <3>3, <3>4, OneNotifier
  <2> QED
    BY <1>7, <2>2, <2>3, <2>4, <2>5, <2>6, <2>7 DEF Run, SlotNotifier
<1>8. CASE UNCHANGED vars
  BY <1>1, <1>3, <1>8, ClockInvJoin DEF vars
<1> QED
  BY <1>4, <1>5, <1>6, <1>7, <1>8 DEF Next

LEMMA ClockInvariant == Spec => []ClockInv
<1>1. ClockInv /\ [Next]_vars => ClockInv'
  BY ClockStep
<1> QED
  BY ClockInit, <1>1, PTL DEF Spec

(***************************************************************************)
(* Type correctness of the notifiers' state, the ledger's height included  *)
(* (notifier.go, Run).                                                     *)
(***************************************************************************)
THEOREM ClockTypeCorrect == Spec => []TypeOK
<1>1. ClockInv => TypeOK
  BY DEF ClockInv
<1> QED
  BY ClockInvariant, <1>1, PTL

(***************************************************************************)
(* The slot triggered last is that of the block observed last, and the     *)
(* slot notifier has it unless it is being sent: no poll jumps over a slot *)
(* and nothing is sent twice (notifier.go, Run).                           *)
(***************************************************************************)
THEOREM NotifiersRemember == Spec => []SlotsSeenAreTold
<1>1. ClockInv => SlotsSeenAreTold
  BY DEF ClockInv
<1> QED
  BY ClockInvariant, <1>1, PTL

-----------------------------------------------------------------------------
(***************************************************************************)
(* The refinement: SlotClock implements SlotSource.                        *)
(***************************************************************************)
OutOfService(i) == ~ Looping(i) \/ sn[i].pc = "exited"

\* What notifier i has told is not far behind the ledger: it told its last
\* slot, and the next one began less than 2 * MaxLag blocks ago, if at all.
LEMMA ToldInTime ==
  ASSUME ClockInv, NEW i \in Notifiers, ~ OutOfService(i)
  PROVE  /\ sn[i].last \in Int /\ sn[i].last >= -1
         /\ height < Start(i, sn[i].last + 1) + 2 * MaxLag
<1>1. /\ Fits(i, height, bn[i], sn[i])
      /\ height \in Int /\ MaxLag \in Nat /\ MaxHeight \in Nat
  BY ClockInvSplit, Bounds
<1>2. /\ bn[i].observed \in Int /\ bn[i].slot \in Int /\ bn[i].slot >= -1
      /\ bn[i].slot = SlotOf(i, bn[i].observed)
      /\ height - bn[i].observed <= MaxLag
  BY <1>1 DEF Fits, BlockNotifierType, OutOfService, Looping
<1>3. CASE bn[i].pc = "send"
  <2>1. /\ sn[i].last = bn[i].slot - 1 /\ bn[i].slot >= 0
        /\ bn[i].observed < Start(i, bn[i].slot) + MaxLag
    BY <1>1, <1>3 DEF Fits
  <2>2. sn[i].last + 1 = bn[i].slot /\ Start(i, bn[i].slot) \in Int
    BY <1>2, <2>1, StartFacts
  <2> QED
    BY <1>1, <1>2, <2>1, <2>2
<1>4. CASE bn[i].pc # "send"
  <2>1. sn[i].last = bn[i].slot
    BY <1>1, <1>4 DEF Fits
  <2>2. bn[i].observed < Start(i, bn[i].slot + 1)
    BY <1>2, SlotBounds
  <2>3. Start(i, bn[i].slot + 1) \in Int
    BY <1>2, StartFacts
  <2> QED
    BY <1>1, <1>2, <2>1, <2>2, <2>3
<1> QED
  BY <1>3, <1>4

\* A notifier about to hand over a slot does not get ahead of the other.
LEMMA TakesTurns ==
  ASSUME ClockInv, NEW i \in Notifiers, NEW j \in Notifiers, i # j,
         bn[i].pc = "send", ~ OutOfService(i), ~ OutOfService(j)
  PROVE  IF i < j THEN sn[i].last <= sn[j].last ELSE sn[i].last < sn[j].last
<1> DEFINE s == bn[i].slot
           t == sn[j].last
<1>1. /\ Fits(i, height, bn[i], sn[i])
      /\ height \in Int /\ MaxLag \in Nat /\ MaxHeight \in Nat
      /\ BlocksPerSlot \in Nat /\ BlockOffset \in Nat
      /\ 2 * MaxLag <= BlockOffset /\ 2 * MaxLag <= BlocksPerSlot - BlockOffset
  BY ClockInvSplit, Bounds
<1>2. /\ bn[i].observed \in Int /\ s \in Int /\ s >= 0
      /\ s = SlotOf(i, bn[i].observed)
      /\ sn[i].last = s - 1
      /\ bn[i].observed <= height
  BY <1>1 DEF Fits, BlockNotifierType
<1>3. Start(i, s) <= height /\ Start(i, s) \in Int
  <2>1. SlotOf(i, bn[i].observed) >= 0
          => Start(i, SlotOf(i, bn[i].observed)) <= bn[i].observed
    BY <1>2, SlotBounds
  <2>2. Start(i, s) \in Int
    BY <1>2, StartFacts
  <2>3. Start(i, s) <= bn[i].observed
    BY <1>2, <2>1
  <2> QED
    BY <1>1, <1>2, <2>2, <2>3
<1>4. t \in Int /\ t >= -1 /\ height < Start(j, t + 1) + 2 * MaxLag
  BY ToldInTime
<1>5. /\ Start(j, t + 1) \in Int /\ Start(i, t + 1) \in Int
      /\ Start(i, t + 2) = Start(i, t + 1) + BlocksPerSlot
  <2>1. Start(i, (t + 1) + 1) = Start(i, t + 1) + BlocksPerSlot
    BY <1>4, StartFacts
  <2> QED
    BY <1>4, <2>1, StartFacts
<1>6. (i = 1 /\ j = 2) \/ (i = 2 /\ j = 1)
  BY SlotClockAssumption
<1>7. 2 \in Notifiers /\ Start(2, t + 1) = Start(1, t + 1) + BlockOffset
  BY <1>4, <1>6, StartOffset
<1>8. CASE i = 1 /\ j = 2
  <2>1. t + 2 <= s => Start(i, t + 2) <= Start(i, s)
    BY <1>2, <1>4, StartMonotone
  <2>2. Start(i, s) < Start(i, t + 2)
    BY <1>1, <1>3, <1>4, <1>5, <1>7, <1>8
  <2> QED
    BY <1>2, <1>3, <1>4, <1>5, <1>1, <2>1, <2>2, <1>8
<1>9. CASE i = 2 /\ j = 1
  <2>1. t + 1 <= s => Start(i, t + 1) <= Start(i, s)
    BY <1>2, <1>4, StartMonotone
  <2>2. Start(i, s) < Start(i, t + 1)
    BY <1>1, <1>3, <1>4, <1>5, <1>7, <1>9
  <2> QED
    BY <1>2, <1>3, <1>4, <1>5, <2>1, <2>2, <1>9
<1> QED
  BY <1>6, <1>8, <1>9

\* The state of SlotSource.
Told == [i \in Notifiers |-> sn[i].last]
Stopped == {i \in Notifiers : OutOfService(i)}

LEMMA SourceVars ==
  /\ Source!vars = <<Told, Stopped>>
  /\ (Source!vars)' = <<Told', Stopped'>>
  BY DEF Source!vars, Told, Stopped, OutOfService

\* A step that tells nobody a slot, and takes at most notifier i out of service.
LEMMA QuietStep ==
  ASSUME NEW i \in Notifiers,
         \A j \in Notifiers : sn'[j].last = sn[j].last,
         \A j \in Notifiers \ {i} : OutOfService(j)' <=> OutOfService(j),
         OutOfService(i) => OutOfService(i)'
  PROVE  [Source!Next]_(Source!vars)
<1>1. Told' = Told
  BY DEF Told
<1>2. CASE OutOfService(i) \/ ~ OutOfService(i)'
  <2>1. Stopped' = Stopped
    BY <1>2 DEF Stopped
  <2> QED
    BY <1>1, <2>1, SourceVars
<1>3. CASE ~ OutOfService(i) /\ OutOfService(i)'
  <2>1. Stopped' = Stopped \cup {i} /\ i \notin Stopped
    BY <1>3 DEF Stopped
  <2>2. Source!Stop(i)
    BY <1>1, <2>1 DEF Source!Stop, Told, Stopped, OutOfService
  <2> QED
    BY <2>2 DEF Source!Next
<1> QED
  BY <1>2, <1>3

\* A slot is handed over.
LEMMA TellStep ==
  ASSUME ClockInv, NEW i \in Notifiers, Receive(i)
  PROVE  [Source!Next]_(Source!vars)
<1>1. /\ Fits(i, height, bn[i], sn[i])
      /\ DOMAIN bn = Notifiers /\ DOMAIN sn = Notifiers
      /\ MaxHeight \in Nat
  BY ClockInvSplit, Bounds
<1>2. bn[i].pc = "send" /\ sn[i].pc = "recv"
  BY DEF Receive
<1>3. /\ sn[i].last \in Int /\ bn[i].slot \in Int
      /\ bn[i].slot = sn[i].last + 1
  BY <1>1, <1>2 DEF Fits, BlockNotifierType, SlotNotifierType
<1>4. /\ bn' = [bn EXCEPT ![i] = [bn[i] EXCEPT !.pc = "sleep"]]
      /\ sn' = [sn EXCEPT ![i] = [pc |-> "fan", last |-> bn[i].slot]]
  <2>1. bn[i].slot > sn[i].last
    BY <1>3
  <2> QED
    BY <2>1 DEF Receive
<1>5. \A j \in Notifiers \ {i} : bn'[j] = bn[j] /\ sn'[j] = sn[j]
  BY <1>1, <1>4
<1>6. DOMAIN bn[i] = {"pc", "observed", "slot", "failed"}
  BY <1>1 DEF Fits, BlockNotifierType
<1>7. bn'[i].pc = "sleep" /\ sn'[i].pc = "fan" /\ sn'[i].last = sn[i].last + 1
  BY <1>1, <1>3, <1>4, <1>6
<1>8. ~ OutOfService(i) /\ ~ OutOfService(i)'
  BY <1>2, <1>7 DEF OutOfService, Looping
<1>9. Stopped' = Stopped /\ i \notin Stopped
  BY <1>5, <1>8 DEF Stopped, OutOfService, Looping
<1>10. Told' = [Told EXCEPT ![i] = Told[i] + 1]
  BY <1>5, <1>7 DEF Told
<1>11. ASSUME NEW j \in Notifiers \ (Stopped \cup {i})
       PROVE  IF i < j THEN Told[i] <= Told[j] ELSE Told[i] < Told[j]
  BY <1>2, <1>8, TakesTurns DEF Stopped, Told
<1>12. Source!Tell(i)
  BY <1>9, <1>10, <1>11
     DEF Source!Tell, Source!MayTell, Source!InStep, Told, Stopped, OutOfService
<1> QED
  BY <1>12 DEF Source!Next

LEMMA SourceStep ==
  ASSUME ClockInv, [Next]_vars
  PROVE  [Source!Next]_(Source!vars)
<1>1. /\ \A j \in Notifiers : Fits(j, height, bn[j], sn[j])
      /\ DOMAIN bn = Notifiers /\ DOMAIN sn = Notifiers
  BY ClockInvSplit
<1>2. \A j \in Notifiers : /\ DOMAIN bn[j] = {"pc", "observed", "slot", "failed"}
                          /\ DOMAIN sn[j] = {"pc", "last"}
  BY <1>1 DEF Fits, BlockNotifierType, SlotNotifierType
<1>3. CASE bn' = bn /\ sn' = sn
  <2>1. Told' = Told /\ Stopped' = Stopped
    BY <1>3 DEF Told, Stopped, OutOfService, Looping
  <2> QED
    BY <2>1, SourceVars
<1>4. ASSUME NEW i \in Notifiers,
             Run(i) \/ QueryFails(i) \/ SlotNotifier(i)
      PROVE  [Source!Next]_(Source!vars)
  <2>1. CASE Receive(i)
    BY <2>1, TellStep
  <2>2. CASE Wake(i) \/ QueryFails(i) \/ Return(i)
    <3>1. /\ sn' = sn
          /\ \A j \in Notifiers \ {i} : bn'[j] = bn[j]
      BY <2>2, <1>1 DEF Wake, QueryFails, Return
    <3>2. \/ bn[i].pc \in {"sleep", "query"}
          \/ bn[i].pc = "closing" /\ bn'[i].pc = "returned"
      BY <2>2, <1>1, <1>2 DEF Wake, QueryFails, Return
    <3>3. OutOfService(i) => OutOfService(i)'
      BY <3>1, <3>2 DEF OutOfService, Looping
    <3>4. \A j \in Notifiers \ {i} : OutOfService(j)' <=> OutOfService(j)
      BY <3>1 DEF OutOfService, Looping
    <3> QED
      BY <3>1, <3>3, <3>4, QuietStep
  <2>3. CASE Query(i)
    <3>1. /\ sn' = sn /\ bn[i].pc = "query"
          /\ \A j \in Notifiers \ {i} : bn'[j] = bn[j]
      BY <2>3, <1>1 DEF Query
    <3>2. OutOfService(i) => OutOfService(i)'
      BY <3>1 DEF OutOfService, Looping
    <3>3. \A j \in Notifiers \ {i} : OutOfService(j)' <=> OutOfService(j)
      BY <3>1 DEF OutOfService, Looping
    <3> QED
      BY <3>1, <3>2, <3>3, QuietStep
  <2>4. CASE FannedOut(i) \/ SlotNotifierQuits(i)
    <3>1. /\ bn' = bn
          /\ \A j \in Notifiers \ {i} : sn'[j] = sn[j]
          /\ sn'[i].last = sn[i].last
          /\ sn[i].pc # "exited"
          /\ sn'[i].pc \in {"recv", "exited"}
      BY <2>4, <1>1, <1>2 DEF FannedOut, SlotNotifierQuits
    <3>2. OutOfService(i) => OutOfService(i)'
      BY <3>1 DEF OutOfService, Looping
    <3>3. \A j \in Notifiers \ {i} : OutOfService(j)' <=> OutOfService(j)
      BY <3>1 DEF OutOfService, Looping
    <3> QED
      BY <3>1, <3>2, <3>3, QuietStep
  <2> QED
    BY <1>4, <2>1, <2>2, <2>3, <2>4 DEF Run, SlotNotifier
<1> QED
  BY <1>3, <1>4 DEF Next, CutBlock, CloseDone, Clock, ClockInvoke, ClockQuit, vars

(***************************************************************************)
(* SlotClock implements SlotSource: no slot is left out, and bid and       *)
(* postKey slots alternate as long as both notifiers are in service,       *)
(* although they poll the ledger and wait in their sends independently     *)
(* (notifier.go, Run; main.go: startFromBlock+BlockOffset).                *)
(***************************************************************************)
THEOREM ClockImplementsSource == Spec => ImplementsSource
<1>1. Init => Source!Init
  <2> SUFFICES ASSUME Init PROVE Source!Init
    OBVIOUS
  <2>1. ASSUME NEW i \in Notifiers
        PROVE  /\ sn[i].last = -1 /\ Looping(i) /\ sn[i].pc # "exited"
    BY DEF Init, Looping
  <2> QED
    BY <2>1 DEF Source!Init
<1>2. ClockInv /\ [Next]_vars => [Source!Next]_(Source!vars)
  BY SourceStep
<1> QED
  BY ClockInvariant, <1>1, <1>2, PTL DEF Spec, ImplementsSource, Source!Spec
=============================================================================
