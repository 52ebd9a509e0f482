----------------------------- MODULE CmapProofs ------------------------------
(***************************************************************************)
(* What holds of the capped map for any number of keys, of goroutines that *)
(* call Get without excluding each other, of entries and of calls.         *)
(*                                                                         *)
(* No operation but an eviction ever follows a nil pointer.  The list may  *)
(* be mixed up by two Gets, so nothing can be said of its shape; what      *)
(* survives is which nodes a pointer may lead to (PointerInv).             *)
(*                                                                         *)
(* Until two Gets meet, the list has a shape: a row of entries in order of *)
(* use, but for what the Get under way has done to it (ListInv).  The      *)
(* container is consistent then, and implements the map of module Lru.     *)
(***************************************************************************)
EXTENDS Cmap, SequenceTheorems, DataLemmas

\* The nodes a pointer prev, and a pointer next, may lead to once m nodes
\* have been made.
Before(m) == {fakeHead} \cup 1 .. m
After(m) == 1 .. m \cup {fakeTail}

Lists == [next : [0 .. fakeTail -> Int], prev : [0 .. fakeTail -> Int]]

\* Of every node made, in the list or not, both pointers lead somewhere; so do
\* the pointers out of the fake nodes into the list, and nothing leads on from
\* fakeTail.
Chained(l, m) ==
  /\ \A x \in Before(m) : l.next[x] \in After(m)
  /\ \A x \in After(m) : l.prev[x] \in Before(m)
  /\ l.next[fakeTail] = nil

Gets == [at : 0 .. 11, v : Int, p : Int, n : Int]

\* What a Get under way has read into its local variables.
Holds(g, m) ==
  /\ g.at # 0 => g.v \in 1 .. m
  /\ g.at \in 2 .. 10 => g.p \in Before(m)
  /\ g.at \in 3 .. 5 => g.n \in After(m)

PointerInv ==
  /\ keyOf \in Seq(Key) /\ Len(keyOf) <= MaxPuts
  /\ \A k \in DOMAIN vals : vals[k] \in 1 .. Len(keyOf)
  /\ list \in Lists /\ Chained(list, Len(keyOf))
  /\ get \in [Readers -> Gets]
  /\ \A r \in Readers : Holds(get[r], Len(keyOf))
  /\ OnlyEvictionPanics

-----------------------------------------------------------------------------
\* A pointer next that is set to a node that may follow leaves the list
\* chained (the assignments to next of dll.go) ...
LEMMA SetNext ==
  ASSUME NEW l \in Lists, NEW m \in 0 .. MaxPuts, Chained(l, m),
         NEW x \in Before(m), NEW y \in After(m), NEW h,
         h = [next |-> [l.next EXCEPT ![x] = y], prev |-> l.prev]
  PROVE  h \in Lists /\ Chained(h, m)
  BY CmapAssumption DEF Lists, Chained, Before, After, fakeHead, fakeTail, nil, Nodes

\* ... and so does a pointer prev that is set to a node that may precede.
LEMMA SetPrev ==
  ASSUME NEW l \in Lists, NEW m \in 0 .. MaxPuts, Chained(l, m),
         NEW x \in After(m), NEW y \in Before(m), NEW h,
         h = [next |-> l.next, prev |-> [l.prev EXCEPT ![x] = y]]
  PROVE  h \in Lists /\ Chained(h, m)
  BY CmapAssumption DEF Lists, Chained, Before, After, fakeHead, fakeTail, nil, Nodes

\* removeNode keeps the list chained: the pointers of the node that goes stay.
LEMMA RemoveKeeps ==
  ASSUME NEW l \in Lists, NEW m \in 0 .. MaxPuts, Chained(l, m), NEW v \in 1 .. m
  PROVE  removeNode(l, v) \in Lists /\ Chained(removeNode(l, v), m)
<1>1. v \in Before(m) /\ v \in After(m)
  BY DEF Before, After
<1>2. l.next[v] \in After(m) /\ l.prev[v] \in Before(m)
  BY <1>1 DEF Chained
<1>3. PICK h : h = [next |-> [l.next EXCEPT ![l.prev[v]] = l.next[v]], prev |-> l.prev]
  OBVIOUS
<1>4. h \in Lists /\ Chained(h, m)
  BY <1>2, <1>3, SetNext
<1>5. h.next = [l.next EXCEPT ![l.prev[v]] = l.next[v]] /\ h.prev = l.prev
  BY <1>3
<1>6. removeNode(l, v)
        = [next |-> h.next, prev |-> [h.prev EXCEPT ![l.next[v]] = l.prev[v]]]
  BY <1>5 DEF removeNode
<1> QED
  BY <1>2, <1>4, <1>6, SetPrev

\* addToTail of the next node makes a list chained for one node more.
LEMMA AddKeeps ==
  ASSUME NEW l \in Lists, NEW m \in 0 .. MaxPuts - 1, Chained(l, m), NEW h,
         h = addToTail(l, m + 1)
  PROVE  h \in Lists /\ Chained(h, m + 1)
<1> DEFINE t == l.prev[fakeTail]
<1>1. t \in Before(m)
  BY DEF Chained, After
<1>2. h.next = [l.next EXCEPT ![t] = m + 1, ![m + 1] = fakeTail]
  BY DEF addToTail
<1>3. h.prev = [l.prev EXCEPT ![m + 1] = t, ![fakeTail] = m + 1]
  BY DEF addToTail
<1>4. h = [next |-> h.next, prev |-> h.prev]
  BY DEF addToTail
<1>5. l.next \in [0 .. fakeTail -> Int] /\ l.prev \in [0 .. fakeTail -> Int]
  BY DEF Lists
<1>6. /\ m + 1 \in 0 .. fakeTail /\ m + 1 # fakeTail
      /\ fakeTail \in Int /\ fakeTail \in 0 .. fakeTail
  BY CmapAssumption DEF fakeTail
<1>7. t \in 0 .. fakeTail /\ t # m + 1 /\ t \in Int /\ m + 1 \in Int
  BY <1>1, CmapAssumption DEF Before, fakeHead, fakeTail
<1> HIDE DEF t
<1>8. h.next \in [0 .. fakeTail -> Int]
  <2>1. [l.next EXCEPT ![t] = m + 1] \in [0 .. fakeTail -> Int]
    BY <1>5, <1>7
  <2> QED
    BY <1>2, <1>6, <2>1, SMTT(30)
<1>9. h.prev \in [0 .. fakeTail -> Int]
  <2>1. [l.prev EXCEPT ![m + 1] = t] \in [0 .. fakeTail -> Int]
    BY <1>5, <1>7
  <2> QED
    BY <1>3, <1>6, <2>1, SMTT(30)
<1>10. h \in Lists
  BY <1>4, <1>8, <1>9 DEF Lists
<1>11. ASSUME NEW x \in Before(m + 1) PROVE h.next[x] \in After(m + 1)
  <2>1. x = m + 1 \/ x \in Before(m)
    BY DEF Before
  <2>2. x \in 0 .. fakeTail
    BY CmapAssumption DEF Before, fakeHead, fakeTail
  <2>3. x \in Before(m) => l.next[x] \in After(m)
    BY DEF Chained
  <2>4. h.next[x] = fakeTail \/ h.next[x] = m + 1 \/ (x # m + 1 /\ h.next[x] = l.next[x])
    BY <1>2, <1>5, <1>6, <1>7, <2>2
  <2> QED
    BY <2>1, <2>3, <2>4 DEF After
<1>12. ASSUME NEW x \in After(m + 1) PROVE h.prev[x] \in Before(m + 1)
  <2>1. x = m + 1 \/ x \in After(m)
    BY DEF After
  <2>2. x \in 0 .. fakeTail
    BY CmapAssumption DEF After, fakeTail
  <2>3. x \in After(m) => l.prev[x] \in Before(m)
    BY DEF Chained
  <2>4. h.prev[x] = t \/ h.prev[x] = m + 1 \/ (x # m + 1 /\ h.prev[x] = l.prev[x])
    BY <1>3, <1>5, <1>6, <1>7, <2>2
  <2> QED
    BY <1>1, <2>1, <2>3, <2>4 DEF Before
<1>13. h.next[fakeTail] = nil
  <2>1. l.next[fakeTail] = nil
    BY DEF Chained
  <2>2. t # fakeTail
    BY <1>1, CmapAssumption DEF Before, fakeHead, fakeTail
  <2> QED
    BY <1>2, <1>5, <1>6, <1>7, <2>1, <2>2
<1> QED
  BY <1>10, <1>11, <1>12, <1>13 DEF Chained

\* A node both of whose pointers lead somewhere has been made: the node after
\* fakeHead, when it is not fakeTail.
LEMMA LinkedIsMade ==
  ASSUME NEW l \in Lists, NEW m \in 0 .. MaxPuts, Chained(l, m),
         NEW x \in After(m), Linked(l, x)
  PROVE  x \in 1 .. m
  BY DEF Linked, Chained, After

\* A node that has been made can be taken out without following nil, as Put
\* and Delete do with the node the map has for the key.
LEMMA MadeIsLinked ==
  ASSUME NEW l \in Lists, NEW m \in 0 .. MaxPuts, Chained(l, m), NEW x \in 1 .. m
  PROVE  Linked(l, x)
  BY CmapAssumption DEF Linked, Chained, Before, After, fakeHead, fakeTail, nil

-----------------------------------------------------------------------------
LEMMA InitPointers == Init => PointerInv
<1> SUFFICES ASSUME Init PROVE PointerInv
  OBVIOUS
<1>1. keyOf \in Seq(Key) /\ Len(keyOf) = 0
  BY DEF Init
<1>2. \A k \in DOMAIN vals : vals[k] \in 1 .. Len(keyOf)
  BY DEF Init
<1>3. list.next = [x \in 0 .. fakeTail |-> IF x = fakeHead THEN fakeTail ELSE nil]
  BY DEF Init
<1>4. list.prev = [x \in 0 .. fakeTail |-> IF x = fakeTail THEN fakeHead ELSE nil]
  BY DEF Init
<1>5. list \in Lists
  BY CmapAssumption DEF Init, Lists, fakeHead, fakeTail, nil
<1>6. Chained(list, 0)
  BY <1>3, <1>4, CmapAssumption DEF Chained, Before, After, fakeHead, fakeTail, nil
<1>7. get \in [Readers -> Gets] /\ \A r \in Readers : Holds(get[r], 0)
  BY DEF Init, Idle, Gets, Holds, nil
<1>8. OnlyEvictionPanics
  BY DEF Init, OnlyEvictionPanics
<1> QED
  BY <1>1, <1>2, <1>5, <1>6, <1>7, <1>8, CmapAssumption DEF PointerInv

\* The locals of a Get after an access that writes.
LEMMA Writing ==
  ASSUME NEW g \in Gets, NEW at \in 1 .. 10, NEW h, h = [g EXCEPT !.at = at + 1]
  PROVE  h \in Gets /\ h.at = at + 1 /\ h.v = g.v /\ h.p = g.p /\ h.n = g.n
<1>1. h = [at |-> at + 1, v |-> g.v, p |-> g.p, n |-> g.n]
  BY DEF Gets
<1>2. at + 1 \in 0 .. 11 /\ g.v \in Int /\ g.p \in Int /\ g.n \in Int
  BY DEF Gets
<1> QED
  BY <1>1, <1>2 DEF Gets

\* Whatever a Get reads next, if it may follow or precede, keeps the invariant.
LEMMA ReadKeeps ==
  ASSUME PointerInv, NEW r \in Readers, NEW at \in 1 .. 10, NEW p \in Int, NEW n \in Int,
         Read(r, at, p, n),
         at + 1 \in 2 .. 10 => p \in Before(Len(keyOf)),
         at + 1 \in 3 .. 5 => n \in After(Len(keyOf))
  PROVE  PointerInv'
<1>1. UNCHANGED <<vals, keyOf, list, panic>>
  BY DEF Read
<1>2. get[r] \in Gets /\ Holds(get[r], Len(keyOf)) /\ get[r].at = at
  BY DEF PointerInv, Read
<1>3. get' = [get EXCEPT ![r] = [@ EXCEPT !.at = at + 1, !.p = p, !.n = n]]
  BY DEF Read
<1>4. get'[r] \in Gets /\ Holds(get'[r], Len(keyOf))
  <2>1. PICK g \in Gets : g = get[r]
    BY <1>2
  <2>2. PICK h : h = get'[r]
    OBVIOUS
  <2>3. h = [g EXCEPT !.at = at + 1, !.p = p, !.n = n]
    BY <1>3, <2>1, <2>2 DEF PointerInv
  <2>4. h = [at |-> at + 1, v |-> g.v, p |-> p, n |-> n]
    BY <2>3 DEF Gets
  <2>5. at + 1 \in 0 .. 11 /\ g.v \in Int
    BY DEF Gets
  <2>6. h \in Gets /\ h.at = at + 1 /\ h.v = g.v /\ h.p = p /\ h.n = n
    BY <2>4, <2>5 DEF Gets
  <2> QED
    BY <1>2, <2>1, <2>2, <2>6 DEF Holds
<1>5. get' \in [Readers -> Gets] /\ \A s \in Readers : Holds(get'[s], Len(keyOf))
  BY <1>3, <1>4 DEF PointerInv
<1> QED
  BY <1>1, <1>5 DEF PointerInv, OnlyEvictionPanics

LEMMA WriteKeeps ==
  ASSUME PointerInv, NEW r \in Readers, NEW at \in 3 .. 10, get[r].at = at,
         get' = [get EXCEPT ![r].at = at + 1],
         list' \in Lists, Chained(list', Len(keyOf)),
         UNCHANGED <<vals, keyOf, panic>>
  PROVE  PointerInv'
<1>2. get[r] \in Gets /\ Holds(get[r], Len(keyOf)) 
  BY DEF PointerInv
<1>4. get'[r] \in Gets /\ Holds(get'[r], Len(keyOf))
  <2>1. PICK q : q = [get[r] EXCEPT !.at = at + 1]
    OBVIOUS
  <2>2. get'[r] = q
    BY <2>1 DEF PointerInv
  <2>3. /\ q \in Gets /\ q.at = at + 1 /\ q.v = get[r].v
        /\ q.p = get[r].p /\ q.n = get[r].n
    BY <1>2, <2>1, Writing
  <2> QED
    BY <1>2, <2>2, <2>3 DEF Holds
<1>5. get' \in [Readers -> Gets] /\ \A s \in Readers : Holds(get'[s], Len(keyOf))
  BY <1>4 DEF PointerInv
<1> QED
  BY <1>5 DEF PointerInv, OnlyEvictionPanics

\* A Get's assignment to a pointer next, and to a pointer prev.
LEMMA WriteNext ==
  ASSUME PointerInv, NEW r \in Readers, NEW at \in {3, 6, 10},
         NEW x \in Before(Len(keyOf)), NEW y \in After(Len(keyOf)),
         Write(r, at, "next", x, y)
  PROVE  PointerInv'
<1>1. PICK m \in 0 .. MaxPuts : m = Len(keyOf)
  BY LenProperties, CmapAssumption DEF PointerInv
<1>2. list \in Lists /\ Chained(list, m)
  BY <1>1 DEF PointerInv
<1>3. x # nil
  BY <1>1, CmapAssumption DEF Before, After, fakeHead, fakeTail, nil
<1>4. /\ get[r].at = at /\ get' = [get EXCEPT ![r].at = at + 1]
      /\ list' = [list EXCEPT !["next"][x] = y]
      /\ UNCHANGED <<vals, keyOf, panic>>
  BY <1>3 DEF Write
<1>5. list' = [next |-> [list.next EXCEPT ![x] = y], prev |-> list.prev]
  BY <1>2, <1>4 DEF Lists
<1>6. list' \in Lists /\ Chained(list', m)
  <2>1. \A h : h = [next |-> [list.next EXCEPT ![x] = y], prev |-> list.prev]
                => h \in Lists /\ Chained(h, m)
    BY <1>1, <1>2, SetNext
  <2> QED
    BY <1>5, <2>1
<1>7. at \in 3 .. 10 /\ Chained(list', Len(keyOf))
  BY <1>1, <1>6
<1> QED
  BY <1>4, <1>6, <1>7, WriteKeeps, Zenon

LEMMA WritePrev ==
  ASSUME PointerInv, NEW r \in Readers, NEW at \in {4, 8, 9},
         NEW x \in After(Len(keyOf)), NEW y \in Before(Len(keyOf)),
         Write(r, at, "prev", x, y)
  PROVE  PointerInv'
<1>1. PICK m \in 0 .. MaxPuts : m = Len(keyOf)
  BY LenProperties, CmapAssumption DEF PointerInv
<1>2. list \in Lists /\ Chained(list, m)
  BY <1>1 DEF PointerInv
<1>3. x # nil
  BY <1>1, CmapAssumption DEF Before, After, fakeHead, fakeTail, nil
<1>4. /\ get[r].at = at /\ get' = [get EXCEPT ![r].at = at + 1]
      /\ list' = [list EXCEPT !["prev"][x] = y]
      /\ UNCHANGED <<vals, keyOf, panic>>
  BY <1>3 DEF Write
<1>5. list' = [next |-> list.next, prev |-> [list.prev EXCEPT ![x] = y]]
  BY <1>2, <1>4 DEF Lists
<1>6. list' \in Lists /\ Chained(list', m)
  <2>1. \A h : h = [next |-> list.next, prev |-> [list.prev EXCEPT ![x] = y]]
                => h \in Lists /\ Chained(h, m)
    BY <1>1, <1>2, SetPrev
  <2> QED
    BY <1>5, <2>1
<1>7. at \in 3 .. 10 /\ Chained(list', Len(keyOf))
  BY <1>1, <1>6
<1> QED
  BY <1>4, <1>6, <1>7, WriteKeeps, Zenon

-----------------------------------------------------------------------------
\* The ten accesses of moveToTail.
LEMMA RelinkKeeps ==
  ASSUME PointerInv, NEW r \in Readers, Relink(r)
  PROVE  PointerInv'
<1> DEFINE m == Len(keyOf)
           g == get[r]
           after == list.prev[fakeTail]
<1>1. m \in Nat /\ m <= MaxPuts
  BY LenProperties DEF PointerInv
<1>2. g \in Gets /\ Holds(g, m) /\ list \in Lists /\ Chained(list, m)
  BY DEF PointerInv
<1>3. fakeTail \in After(m) /\ after \in Before(m)
  BY <1>2 DEF Chained, After
<1>4. Before(m) \subseteq Int /\ After(m) \subseteq Int
  BY <1>1, CmapAssumption DEF Before, After, fakeHead, fakeTail
<1>5. g.at \in 1 .. 10 =>
        /\ g.v \in Before(m) /\ g.v \in After(m)
        /\ list.prev[g.v] \in Before(m) /\ list.next[g.v] \in After(m)
  BY <1>2 DEF Holds, Before, After, Chained
<1>6. g.at \in 2 .. 10 => g.p \in Before(m)
  BY <1>2 DEF Holds
<1>7. g.at \in 3 .. 5 => g.n \in After(m)
  BY <1>2 DEF Holds
<1>8. g.p \in Int /\ g.n \in Int /\ nil \in Int
  BY <1>2 DEF Gets, nil
<1>9. \/ Read(r, 1, list.prev[g.v], g.n)
      \/ Read(r, 2, g.p, list.next[g.v])
      \/ Write(r, 3, "next", g.p, g.n)
      \/ Write(r, 4, "prev", g.n, g.p)
      \/ Read(r, 5, after, nil)
      \/ Write(r, 6, "next", g.p, g.v)
      \/ Read(r, 7, after, nil)
      \/ Write(r, 8, "prev", g.v, g.p)
      \/ Write(r, 9, "prev", fakeTail, g.v)
      \/ Write(r, 10, "next", g.v, fakeTail)
  BY DEF Relink
<1>10. \A at \in 1 .. 10 : \A p, n : Read(r, at, p, n) => g.at = at
  BY DEF Read
<1>11. \A at \in 1 .. 10 : \A f, x, y : Write(r, at, f, x, y) => g.at = at
  BY DEF Write
<1>12. \A at \in 1 .. 10 : \A p \in Int, n \in Int :
         /\ Read(r, at, p, n)
         /\ at + 1 \in 2 .. 10 => p \in Before(m)
         /\ at + 1 \in 3 .. 5 => n \in After(m)
         => PointerInv'
  BY ReadKeeps
<1>13. \A at \in {3, 6, 10} : \A x \in Before(m), y \in After(m) :
         Write(r, at, "next", x, y) => PointerInv'
  BY WriteNext
<1>14. \A at \in {4, 8, 9} : \A x \in After(m), y \in Before(m) :
         Write(r, at, "prev", x, y) => PointerInv'
  BY WritePrev
<1> HIDE DEF m, g, after
<1>15. CASE Read(r, 1, list.prev[g.v], g.n)
  <2>1. PICK at \in 1 .. 10 : at = 1
    OBVIOUS
  <2>2. Read(r, at, list.prev[g.v], g.n) /\ g.at = at
    BY <1>10, <1>15, <2>1
  <2> QED
    BY <1>4, <1>5, <1>8, <1>12, <2>1, <2>2
<1>16. CASE Read(r, 2, g.p, list.next[g.v])
  <2>1. PICK at \in 1 .. 10 : at = 2
    OBVIOUS
  <2>2. Read(r, at, g.p, list.next[g.v]) /\ g.at = at
    BY <1>10, <1>16, <2>1
  <2> QED
    BY <1>4, <1>5, <1>6, <1>12, <2>1, <2>2
<1>17. CASE Write(r, 3, "next", g.p, g.n)
  <2>1. g.at = 3
    BY <1>11, <1>17
  <2> QED
    BY <1>6, <1>7, <1>13, <1>17, <2>1
<1>18. CASE Write(r, 4, "prev", g.n, g.p)
  <2>1. g.at = 4
    BY <1>11, <1>18
  <2> QED
    BY <1>6, <1>7, <1>14, <1>18, <2>1
<1>19. CASE Read(r, 5, after, nil)
  <2>1. PICK at \in 1 .. 10 : at = 5
    OBVIOUS
  <2>2. Read(r, at, after, nil)
    BY <1>19, <2>1
  <2> QED
    BY <1>3, <1>4, <1>8, <1>12, <2>1, <2>2
<1>20. CASE Write(r, 6, "next", g.p, g.v)
  <2>1. g.at = 6
    BY <1>11, <1>20
  <2> QED
    BY <1>5, <1>6, <1>13, <1>20, <2>1
<1>21. CASE Read(r, 7, after, nil)
  <2>1. PICK at \in 1 .. 10 : at = 7
    OBVIOUS
  <2>2. Read(r, at, after, nil)
    BY <1>21, <2>1
  <2> QED
    BY <1>3, <1>4, <1>8, <1>12, <2>1, <2>2
<1>22. CASE Write(r, 8, "prev", g.v, g.p)
  <2>1. g.at = 8
    BY <1>11, <1>22
  <2> QED
    BY <1>5, <1>6, <1>14, <1>22, <2>1
<1>23. CASE Write(r, 9, "prev", fakeTail, g.v)
  <2>1. g.at = 9
    BY <1>11, <1>23
  <2> QED
    BY <1>3, <1>5, <1>14, <1>23, <2>1
<1>24. CASE Write(r, 10, "next", g.v, fakeTail)
  <2>1. g.at = 10
    BY <1>11, <1>24
  <2> QED
    BY <1>3, <1>5, <1>13, <1>24, <2>1
<1> QED
  BY <1>9, <1>15, <1>16, <1>17, <1>18, <1>19, <1>20, <1>21, <1>22, <1>23, <1>24

\* Get before and after it is at the list.
LEMMA GetKeeps ==
  ASSUME PointerInv, NEW r \in Readers, Get(r)
  PROVE  PointerInv'
<1>1. CASE \E k \in Key : GetNothing(r, k)
  BY <1>1 DEF GetNothing, PointerInv, OnlyEvictionPanics
<1>2. CASE \E k \in Key : GetBegin(r, k)
  <2>1. PICK k \in Key : GetBegin(r, k)
    BY <1>2
  <2>2. UNCHANGED <<vals, keyOf, list, panic>> /\ vals[k] \in 1 .. Len(keyOf)
    BY <2>1 DEF GetBegin, PointerInv
  <2>3. vals[k] \in Int
    BY <2>2
  <2>4. get' = [get EXCEPT ![r] = [at |-> 1, v |-> vals[k], p |-> nil, n |-> nil]]
    BY <2>1 DEF GetBegin, GetOf
  <2>5. PICK h : h = [at |-> 1, v |-> vals[k], p |-> nil, n |-> nil]
    OBVIOUS
  <2>6. h \in Gets /\ Holds(h, Len(keyOf))
    BY <2>2, <2>3, <2>5 DEF Gets, Holds, nil
  <2>7. get' \in [Readers -> Gets] /\ \A s \in Readers : Holds(get'[s], Len(keyOf))
    BY <2>4, <2>5, <2>6 DEF PointerInv
  <2> QED
    BY <2>2, <2>7 DEF PointerInv, OnlyEvictionPanics
<1>3. CASE Relink(r)
  BY <1>3, RelinkKeeps
<1>4. CASE GetEnd(r)
  <2>1. UNCHANGED <<vals, keyOf, list, panic>> /\ get' = [get EXCEPT ![r] = Idle]
    BY <1>4 DEF GetEnd
  <2>2. Idle \in Gets /\ Holds(Idle, Len(keyOf))
    BY DEF Idle, Gets, Holds, nil
  <2>3. get' \in [Readers -> Gets] /\ \A s \in Readers : Holds(get'[s], Len(keyOf))
    BY <2>1, <2>2 DEF PointerInv
  <2> QED
    BY <2>1, <2>3 DEF PointerInv, OnlyEvictionPanics
<1> QED
  BY <1>1, <1>2, <1>3, <1>4 DEF Get

\* Nobody is at the list, so nobody's local variables count.
LEMMA LockedHolds ==
  ASSUME PointerInv, Locked, get' = get, NEW j \in Nat
  PROVE  get' \in [Readers -> Gets] /\ \A r \in Readers : Holds(get'[r], j)
<1>1. \A r \in Readers : get[r] \in Gets /\ get[r].at = 0
  BY DEF PointerInv, Locked
<1> QED
  BY <1>1 DEF PointerInv, Holds

\* The new node at the tail, of the list as it is or after a node was removed.
LEMMA InsertKeeps ==
  ASSUME PointerInv, Locked, New \in Nodes, get' = get, panic' = panic,
         NEW k \in Key, NEW f, NEW l \in Lists, Chained(l, Len(keyOf)),
         \A x \in DOMAIN f : f[x] \in 1 .. Len(keyOf),
         Insert(k, f, l)
  PROVE  PointerInv'
<1>1. PICK m \in 0 .. MaxPuts - 1 : m = Len(keyOf)
  BY LenProperties, CmapAssumption DEF PointerInv, New, Nodes
<1>2. keyOf' \in Seq(Key) /\ Len(keyOf') = m + 1
  BY <1>1 DEF Insert, PointerInv
<1>3. list' \in Lists /\ Chained(list', m + 1)
  <2>1. list' = addToTail(l, m + 1)
    BY <1>1 DEF Insert, New
  <2>2. \A h : h = addToTail(l, m + 1) => h \in Lists /\ Chained(h, m + 1)
    BY <1>1, AddKeeps
  <2> QED
    BY <2>1, <2>2
<1>4. \A x \in DOMAIN vals' : vals'[x] \in 1 .. (m + 1)
  <2>1. vals' = [x \in DOMAIN f \cup {k} |-> IF x = k THEN m + 1 ELSE f[x]]
    BY <1>1 DEF Insert, With, New
  <2>2. m + 1 \in 1 .. (m + 1) /\ 1 .. m \subseteq 1 .. (m + 1)
    BY CmapAssumption
  <2> QED
    BY <1>1, <2>1, <2>2
<1>5. m + 1 \in Nat /\ m + 1 <= MaxPuts
  BY CmapAssumption
<1>6. get' \in [Readers -> Gets] /\ \A r \in Readers : Holds(get'[r], m + 1)
  BY <1>5, LockedHolds
<1> QED
  BY <1>2, <1>3, <1>4, <1>5, <1>6 DEF PointerInv, OnlyEvictionPanics

\* What is left of the map without a key leads to nodes that were made.
LEMMA DropKeeps ==
  ASSUME PointerInv, NEW k, NEW f, f = Drop(vals, k)
  PROVE  \A x \in DOMAIN f : f[x] \in 1 .. Len(keyOf)
  BY DEF PointerInv, Drop

LEMMA PutKeeps ==
  ASSUME PointerInv, NEW k \in Key, Put(k)
  PROVE  PointerInv'
<1>1. PICK m \in 0 .. MaxPuts : m = Len(keyOf)
  BY LenProperties, CmapAssumption DEF PointerInv
<1>2. list \in Lists /\ Chained(list, m)
  BY <1>1 DEF PointerInv
<1>3. \A v \in 1 .. m : removeNode(list, v) \in Lists /\ Chained(removeNode(list, v), m)
  BY <1>1, <1>2, RemoveKeeps
<1>4. CASE PutUpdate(k)
  <2>1. vals[k] \in 1 .. m
    BY <1>1, <1>4 DEF PutUpdate, PointerInv
  <2>2. Linked(list, vals[k])
    BY <1>2, <2>1, MadeIsLinked
  <2>3. PICK f, l : f = Drop(vals, k) /\ l = removeNode(list, vals[k])
    OBVIOUS
  <2>4. /\ Locked /\ New \in Nodes /\ Insert(k, f, l)
        /\ get' = get /\ panic' = panic
    BY <1>4, <2>2, <2>3 DEF PutUpdate
  <2>5. l \in Lists /\ Chained(l, m) /\ \A x \in DOMAIN f : f[x] \in 1 .. Len(keyOf)
    BY <1>3, <2>1, <2>3, DropKeeps
  <2> QED
    BY <1>1, <2>4, <2>5, InsertKeeps
<1>5. CASE PutAdd(k)
  <2>1. /\ Locked /\ New \in Nodes /\ Insert(k, vals, list)
        /\ get' = get /\ panic' = panic
    BY <1>5 DEF PutAdd
  <2>2. \A x \in DOMAIN vals : vals[x] \in 1 .. Len(keyOf)
    BY DEF PointerInv
  <2> QED
    BY <1>1, <1>2, <2>1, <2>2, InsertKeeps
<1>6. CASE PutEvict(k)
  <2> DEFINE e == list.next[fakeHead]
  <2>1. e \in After(m)
    BY <1>2 DEF Chained, Before
  <2>2. CASE Linked(list, e)
    <3>1. e \in 1 .. m
      BY <1>2, <2>1, <2>2, LinkedIsMade
    <3>2. PICK f, l : f = Drop(vals, keyOf[e]) /\ l = removeNode(list, e)
      OBVIOUS
    <3>3. /\ Locked /\ New \in Nodes /\ Insert(k, f, l)
          /\ get' = get /\ panic' = panic
      BY <1>6, <2>2, <3>2 DEF PutEvict
    <3>4. l \in Lists /\ Chained(l, m) /\ \A x \in DOMAIN f : f[x] \in 1 .. Len(keyOf)
      BY <1>3, <3>1, <3>2, DropKeeps
    <3> QED
      BY <1>1, <3>3, <3>4, InsertKeeps
  <2>3. CASE ~ Linked(list, e)
    <3>1. panic' = "evict" /\ UNCHANGED <<vals, keyOf, list, get>>
      BY <1>6, <2>3 DEF PutEvict
    <3> QED
      BY <3>1 DEF PointerInv, OnlyEvictionPanics
  <2> QED
    BY <2>2, <2>3
<1> QED
  BY <1>4, <1>5, <1>6 DEF Put

LEMMA DeleteKeeps ==
  ASSUME PointerInv, NEW k \in Key, Delete(k)
  PROVE  PointerInv'
<1>1. PICK m \in 0 .. MaxPuts : m = Len(keyOf)
  BY LenProperties, CmapAssumption DEF PointerInv
<1>2. list \in Lists /\ Chained(list, m) /\ vals[k] \in 1 .. m
  BY <1>1 DEF PointerInv, Delete
<1>3. Linked(list, vals[k])
  BY <1>2, MadeIsLinked
<1>4. /\ vals' = Drop(vals, k) /\ list' = removeNode(list, vals[k])
      /\ UNCHANGED <<keyOf, get, panic>>
  BY <1>3 DEF Delete
<1>5. list' \in Lists /\ Chained(list', m)
  BY <1>2, <1>4, RemoveKeeps
<1>6. \A x \in DOMAIN vals' : vals'[x] \in 1 .. Len(keyOf)
  BY <1>4 DEF Drop, PointerInv
<1> QED
  BY <1>1, <1>4, <1>5, <1>6 DEF PointerInv, OnlyEvictionPanics

LEMMA PointerStep == PointerInv /\ [Next]_vars => PointerInv'
<1> SUFFICES ASSUME PointerInv, [Next]_vars PROVE PointerInv'
  OBVIOUS
<1>1. CASE UNCHANGED vars
  BY <1>1 DEF vars, PointerInv, OnlyEvictionPanics
<1>2. CASE \E r \in Readers : Get(r)
  BY <1>2, GetKeeps
<1>3. CASE \E k \in Key : Put(k) \/ Delete(k)
  BY <1>3, PutKeeps, DeleteKeeps
<1> QED
  BY <1>1, <1>2, <1>3 DEF Next

\* However many Gets relink the list at the same time under the read lock, no
\* operation of the container dereferences nil, except Put when it evicts
\* (cmap.go, dll.go).
THEOREM NilIsNotFollowed == Spec => []OnlyEvictionPanics
<1>1. PointerInv => OnlyEvictionPanics
  BY DEF PointerInv
<1> QED
  BY <1>1, InitPointers, PointerStep, PTL DEF Spec

-----------------------------------------------------------------------------
(***************************************************************************)
(* As long as no two Gets meet, the list has a shape: it is s, a sequence  *)
(* of entries <<key, node>>, between fakeHead and fakeTail.                *)
(***************************************************************************)
Row == Seq(Key \X Nodes)

Distinct(s) == \A i, j \in 1 .. Len(s) : s[i][2] = s[j][2] => i = j

\* The nodes from fakeHead, number 0, to fakeTail.
Node(s, i) == IF i = 0 THEN fakeHead ELSE IF i = Len(s) + 1 THEN fakeTail ELSE s[i][2]

Spells(l, s) ==
  \A i \in 0 .. Len(s) : l.next[Node(s, i)] = Node(s, i + 1) /\ l.prev[Node(s, i + 1)] = Node(s, i)

\* The sequence without the entry at j.
Cut(s, j) == [i \in 1 .. Len(s) - 1 |-> s[IF i < j THEN i ELSE i + 1]]

LEMMA NodeIs ==
  ASSUME NEW s \in Row, Distinct(s)
  PROVE  /\ Len(s) \in Nat
         /\ \A i \in 1 .. Len(s) : Node(s, i) = s[i][2] /\ s[i][2] \in Nodes
         /\ \A i \in 0 .. Len(s) + 1 : Node(s, i) \in 0 .. fakeTail
         /\ \A i, j \in 0 .. Len(s) + 1 : Node(s, i) = Node(s, j) => i = j
         /\ Node(s, 0) = fakeHead /\ Node(s, Len(s) + 1) = fakeTail
<1>1. Len(s) \in Nat
  BY DEF Row
<1>2. \A i \in 1 .. Len(s) : Node(s, i) = s[i][2] /\ s[i][2] \in Nodes
  BY <1>1 DEF Row, Node
<1>3. Node(s, 0) = fakeHead /\ Node(s, Len(s) + 1) = fakeTail
  BY <1>1 DEF Node
<1>4. \A i \in 0 .. Len(s) + 1 : i = 0 \/ i \in 1 .. Len(s) \/ i = Len(s) + 1
  BY <1>1
<1>5. \A v \in Nodes : v \in 0 .. fakeTail /\ v # fakeHead /\ v # fakeTail
  BY CmapAssumption DEF Nodes, fakeHead, fakeTail
<1>6. fakeHead \in 0 .. fakeTail /\ fakeTail \in 0 .. fakeTail /\ fakeHead # fakeTail
  BY CmapAssumption DEF fakeHead, fakeTail
<1>7. \A i \in 0 .. Len(s) + 1 : Node(s, i) \in 0 .. fakeTail
  BY <1>2, <1>3, <1>4, <1>5, <1>6
<1>8. ASSUME NEW i \in 0 .. Len(s) + 1, NEW j \in 0 .. Len(s) + 1, Node(s, i) = Node(s, j)
      PROVE  i = j
  <2>1. CASE i \in 1 .. Len(s) /\ j \in 1 .. Len(s)
    BY <1>2, <1>8, <2>1 DEF Distinct
  <2>2. CASE ~ (i \in 1 .. Len(s) /\ j \in 1 .. Len(s))
    BY <1>2, <1>3, <1>4, <1>5, <1>6, <1>8, <2>2
  <2> QED
    BY <2>1, <2>2
<1> QED
  BY <1>1, <1>2, <1>3, <1>7, <1>8

LEMMA CutIs ==
  ASSUME NEW s \in Row, NEW j \in 1 .. Len(s)
  PROVE  /\ Cut(s, j) \in Row /\ Len(Cut(s, j)) = Len(s) - 1
         /\ \A i \in 1 .. Len(s) - 1 : Cut(s, j)[i] = s[IF i < j THEN i ELSE i + 1]
<1>1. Len(s) \in Nat \ {0} /\ Len(s) - 1 \in Nat
  BY DEF Row
<1>2. \A i \in 1 .. Len(s) - 1 : (IF i < j THEN i ELSE i + 1) \in 1 .. Len(s)
  BY <1>1
<1>3. \A i \in 1 .. Len(s) : s[i] \in Key \X Nodes
  BY DEF Row
<1>4. Cut(s, j) \in [1 .. Len(s) - 1 -> Key \X Nodes]
  BY <1>2, <1>3 DEF Cut
<1>5. Cut(s, j) \in Row
  BY <1>1, <1>4, SeqDef DEF Row
<1>6. Len(Cut(s, j)) = Len(s) - 1
  <2>1. DOMAIN Cut(s, j) = 1 .. Len(s) - 1
    BY DEF Cut
  <2>2. DOMAIN Cut(s, j) = 1 .. Len(Cut(s, j)) /\ Len(Cut(s, j)) \in Nat
    BY <1>5, LenProperties DEF Row
  <2> QED
    BY <1>1, <2>1, <2>2
<1>7. \A i \in 1 .. Len(s) - 1 : Cut(s, j)[i] = s[IF i < j THEN i ELSE i + 1]
  BY DEF Cut
<1> QED
  BY <1>5, <1>6, <1>7

LEMMA CutDistinct ==
  ASSUME NEW s \in Row, Distinct(s), NEW j \in 1 .. Len(s)
  PROVE  /\ Distinct(Cut(s, j))
         /\ \A i \in 1 .. Len(Cut(s, j)) : Cut(s, j)[i][2] # s[j][2]
<1> DEFINE f(i) == IF i < j THEN i ELSE i + 1
           c == Cut(s, j)
<1>1. Len(c) = Len(s) - 1 /\ \A i \in 1 .. Len(s) - 1 : c[i] = s[f(i)]
  BY CutIs
<1>2. Len(s) \in Nat
  BY DEF Row
<1>3. \A i \in 1 .. Len(s) - 1 : f(i) \in 1 .. Len(s) /\ f(i) # j
  BY <1>2
<1>4. \A i, k \in 1 .. Len(s) - 1 : f(i) = f(k) => i = k
  BY <1>2
<1> HIDE DEF f, c
<1>5. Distinct(c)
  BY <1>1, <1>3, <1>4 DEF Distinct
<1>6. \A i \in 1 .. Len(c) : c[i][2] # s[j][2]
  BY <1>1, <1>3 DEF Distinct
<1> QED
  BY <1>5, <1>6 DEF c

LEMMA CutNode ==
  ASSUME NEW s \in Row, NEW j \in 1 .. Len(s), NEW i \in 0 .. Len(s)
  PROVE  Node(Cut(s, j), i) = IF i < j THEN Node(s, i) ELSE Node(s, i + 1)
<1>1. /\ Len(Cut(s, j)) = Len(s) - 1
      /\ \A n \in 1 .. Len(s) - 1 : Cut(s, j)[n] = s[IF n < j THEN n ELSE n + 1]
  BY CutIs
<1>2. Len(s) \in Nat
  BY DEF Row
<1> QED
  BY <1>1, <1>2 DEF Node

\* removeNode takes an entry out (dll.go).
LEMMA CutSpells ==
  ASSUME NEW l \in Lists, NEW s \in Row, Distinct(s), Spells(l, s), NEW j \in 1 .. Len(s)
  PROVE  removeNode(l, s[j][2]) \in Lists /\ Spells(removeNode(l, s[j][2]), Cut(s, j))
<1> DEFINE c == Cut(s, j)
           h == removeNode(l, s[j][2])
           x == Node(s, j - 1)
           y == Node(s, j + 1)
<1>1. /\ Len(s) \in Nat
      /\ \A i \in 0 .. Len(s) + 1 : Node(s, i) \in 0 .. fakeTail
      /\ \A i, k \in 0 .. Len(s) + 1 : Node(s, i) = Node(s, k) => i = k
      /\ Node(s, j) = s[j][2]
  BY NodeIs
<1>2. j - 1 \in 0 .. Len(s) /\ (j - 1) + 1 = j /\ j \in 0 .. Len(s)
  BY <1>1
<1>3. l.prev[s[j][2]] = x /\ l.next[s[j][2]] = y
  <2>1. l.prev[Node(s, (j - 1) + 1)] = Node(s, j - 1)
    BY <1>2 DEF Spells
  <2>2. l.next[Node(s, j)] = Node(s, j + 1)
    BY <1>2 DEF Spells
  <2> QED
    BY <1>1, <1>2, <2>1, <2>2
<1>4. x \in 0 .. fakeTail /\ y \in 0 .. fakeTail
  BY <1>1
<1>5. /\ h.next = [l.next EXCEPT ![x] = y]
      /\ h.prev = [l.prev EXCEPT ![y] = x]
  BY <1>3 DEF removeNode
<1>6. \A z \in 0 .. fakeTail : /\ h.next[z] = IF z = x THEN y ELSE l.next[z]
                               /\ h.prev[z] = IF z = y THEN x ELSE l.prev[z]
  <2> HIDE DEF h, x, y
  <2> QED
    BY <1>4, <1>5 DEF Lists
<1>7. Len(c) = Len(s) - 1
  BY CutIs
<1>8. \A i \in 0 .. Len(s) : Node(c, i) = IF i < j THEN Node(s, i) ELSE Node(s, i + 1)
  BY CutNode
<1>9. h \in Lists
  <2>1. h = [next |-> h.next, prev |-> h.prev]
    BY DEF removeNode
  <2>2. x \in Int /\ y \in Int
    BY <1>4, CmapAssumption DEF fakeTail
  <2> HIDE DEF h, x, y
  <2>3. h.next \in [0 .. fakeTail -> Int] /\ h.prev \in [0 .. fakeTail -> Int]
    BY <1>4, <1>5, <2>2 DEF Lists
  <2> QED
    BY <2>1, <2>3 DEF Lists
<1> HIDE DEF c, h
<1> SUFFICES ASSUME NEW i \in 0 .. Len(s) - 1
             PROVE  h.next[Node(c, i)] = Node(c, i + 1) /\ h.prev[Node(c, i + 1)] = Node(c, i)
  BY <1>7, <1>9 DEF Spells, c, h
<1>10. i \in 0 .. Len(s) /\ i + 1 \in 0 .. Len(s) /\ i + 2 \in 0 .. Len(s) + 1
  BY <1>1
<1>11. CASE i = j - 1
  <2>1. Node(c, i) = x /\ Node(c, i + 1) = y
    BY <1>1, <1>8, <1>10, <1>11
  <2> QED
    BY <1>4, <1>6, <2>1
<1>12. CASE i < j - 1
  <2>1. Node(c, i) = Node(s, i) /\ Node(c, i + 1) = Node(s, i + 1)
    BY <1>1, <1>8, <1>10, <1>12
  <2>2. Node(s, i) # x /\ Node(s, i + 1) # y
    BY <1>1, <1>10, <1>12
  <2>3. l.next[Node(s, i)] = Node(s, i + 1) /\ l.prev[Node(s, i + 1)] = Node(s, i)
    BY <1>10 DEF Spells
  <2>4. Node(s, i) \in 0 .. fakeTail /\ Node(s, i + 1) \in 0 .. fakeTail
    BY <1>1, <1>10
  <2> HIDE DEF x, y
  <2> QED
    BY <1>6, <2>1, <2>2, <2>3, <2>4
<1>13. CASE i > j - 1
  <2>1. Node(c, i) = Node(s, i + 1) /\ Node(c, i + 1) = Node(s, (i + 1) + 1)
    BY <1>1, <1>8, <1>10, <1>13
  <2>2. Node(s, i + 1) # x /\ Node(s, (i + 1) + 1) # y
    BY <1>1, <1>10, <1>13
  <2>3. /\ l.next[Node(s, i + 1)] = Node(s, (i + 1) + 1)
        /\ l.prev[Node(s, (i + 1) + 1)] = Node(s, i + 1)
    BY <1>10 DEF Spells
  <2>4. (i + 1) + 1 \in 0 .. Len(s) + 1
    BY <1>10
  <2> QED
    BY <1>1, <1>6, <1>10, <2>1, <2>2, <2>3, <2>4
<1> QED
  BY <1>1, <1>11, <1>12, <1>13

\* addToTail puts one at the end (dll.go).
LEMMA AddSpells ==
  ASSUME NEW l \in Lists, NEW s \in Row, Distinct(s), Spells(l, s),
         NEW k \in Key, NEW v \in Nodes, \A i \in 1 .. Len(s) : s[i][2] # v
  PROVE  /\ Append(s, <<k, v>>) \in Row /\ Distinct(Append(s, <<k, v>>))
         /\ Spells(addToTail(l, v), Append(s, <<k, v>>))
<1> DEFINE e == <<k, v>>
           a == Append(s, e)
           h == addToTail(l, v)
           n == Len(s)
           x == Node(s, n)
<1>1. /\ n \in Nat
      /\ \A i \in 1 .. n : Node(s, i) = s[i][2]
      /\ \A i \in 0 .. n + 1 : Node(s, i) \in 0 .. fakeTail
      /\ \A i, j \in 0 .. n + 1 : Node(s, i) = Node(s, j) => i = j
      /\ Node(s, 0) = fakeHead /\ Node(s, n + 1) = fakeTail
  BY NodeIs
<1>2. e \in Key \X Nodes /\ e[2] = v
  OBVIOUS
<1> HIDE DEF e
<1>3. /\ a \in Row /\ Len(a) = n + 1 /\ a[n + 1] = e
      /\ \A i \in 1 .. n : a[i] = s[i]
  BY <1>2, AppendProperties DEF Row
<1> HIDE DEF a
<1>4. Distinct(a)
  <2> SUFFICES ASSUME NEW i \in 1 .. n + 1, NEW j \in 1 .. n + 1, a[i][2] = a[j][2]
               PROVE  i = j
    BY <1>3 DEF Distinct
  <2>1. i = n + 1 \/ (i \in 1 .. n /\ a[i] = s[i])
    BY <1>1, <1>3
  <2>2. j = n + 1 \/ (j \in 1 .. n /\ a[j] = s[j])
    BY <1>1, <1>3
  <2> QED
    BY <1>2, <1>3, <2>1, <2>2 DEF Distinct
<1>5. /\ \A i \in 0 .. n : Node(a, i) = Node(s, i)
      /\ Node(a, n + 1) = v /\ Node(a, n + 2) = fakeTail
  BY <1>1, <1>2, <1>3 DEF Node
<1>6. /\ v \in 0 .. fakeTail /\ v # fakeTail /\ v # fakeHead
      /\ x \in 0 .. fakeTail /\ fakeTail \in 0 .. fakeTail
  BY <1>1, CmapAssumption DEF Nodes, fakeHead, fakeTail
<1>7. \A i \in 0 .. n : Node(s, i) # v
  BY <1>1, <1>6
<1>8. l.prev[fakeTail] = x
  BY <1>1 DEF Spells
<1>9. /\ h.next = [l.next EXCEPT ![x] = v, ![v] = fakeTail]
      /\ h.prev = [l.prev EXCEPT ![v] = x, ![fakeTail] = v]
  BY <1>8 DEF addToTail
<1> HIDE DEF h
<1>10. x # v
  BY <1>1, <1>7
<1>11. x # fakeTail
  BY <1>1
<1>12. \A z \in 0 .. fakeTail :
         /\ h.next[z] = IF z = v THEN fakeTail ELSE IF z = x THEN v ELSE l.next[z]
         /\ h.prev[z] = IF z = fakeTail THEN v ELSE IF z = v THEN x ELSE l.prev[z]
  <2> HIDE DEF x
  <2> QED
    BY <1>6, <1>9, <1>10 DEF Lists
<1> SUFFICES ASSUME NEW i \in 0 .. n + 1
             PROVE  h.next[Node(a, i)] = Node(a, i + 1) /\ h.prev[Node(a, i + 1)] = Node(a, i)
  BY <1>3, <1>4 DEF Spells, a, h, e
<1>13. CASE i = n + 1
  <2>1. Node(a, i) = v /\ Node(a, i + 1) = fakeTail
    BY <1>1, <1>5, <1>13
  <2> QED
    BY <1>6, <1>12, <2>1
<1>14. CASE i = n
  <2>1. Node(a, i) = x /\ Node(a, i + 1) = v
    BY <1>1, <1>5, <1>14
  <2> QED
    BY <1>6, <1>10, <1>11, <1>12, <2>1
<1>15. CASE i < n
  <2>1. i \in 0 .. n /\ i + 1 \in 0 .. n /\ i + 1 \in 0 .. n + 1 /\ n + 1 \in 0 .. n + 1 /\ n \in 0 .. n + 1
    BY <1>1, <1>15
  <2>2. Node(a, i) = Node(s, i) /\ Node(a, i + 1) = Node(s, i + 1)
    BY <1>5, <2>1
  <2>3. Node(s, i) # v /\ Node(s, i) # x /\ Node(s, i + 1) # v /\ Node(s, i + 1) # fakeTail
    BY <1>1, <1>7, <1>15, <2>1
  <2>4. l.next[Node(s, i)] = Node(s, i + 1) /\ l.prev[Node(s, i + 1)] = Node(s, i)
    BY <2>1 DEF Spells
  <2> QED
    BY <1>1, <1>12, <2>1, <2>2, <2>3, <2>4
<1> QED
  BY <1>1, <1>13, <1>14, <1>15

\* The walk of Entries from fakeHead along next finds the entries, and stays
\* at fakeTail.
LEMMA WalkSpells ==
  ASSUME NEW l \in Lists, NEW s \in Row, Distinct(s), Spells(l, s), Len(s) <= MaxPuts,
         NEW keys, \A i \in 1 .. Len(s) : keys[s[i][2]] = s[i][1]
  PROVE  Entries(l, keys) = s
<1> DEFINE Walks(w) == w = [i \in Nodes |->
                              LET x == IF i = 1 THEN fakeHead ELSE w[i - 1]
                              IN  IF x = fakeTail THEN x ELSE l.next[x]]
           n == Len(s)
           w0 == [i \in Nodes |-> IF i <= n THEN s[i][2] ELSE fakeTail]
<1>1. /\ n \in Nat
      /\ \A i \in 1 .. n : Node(s, i) = s[i][2] /\ s[i][2] \in Nodes
      /\ Node(s, 0) = fakeHead /\ Node(s, n + 1) = fakeTail
  BY NodeIs
<1>2. \A v \in Nodes : v # fakeTail /\ v # fakeHead
  BY CmapAssumption DEF Nodes, fakeTail, fakeHead
<1>3. fakeHead # fakeTail
  BY CmapAssumption DEF fakeTail, fakeHead
<1>4. Nodes = 1 .. MaxPuts /\ MaxPuts \in Nat /\ n <= MaxPuts
  BY CmapAssumption DEF Nodes
<1>5. \A i \in Nodes : w0[i] = IF i <= n THEN Node(s, i) ELSE fakeTail
  BY <1>1, <1>4
<1>6. \A i \in 0 .. n : l.next[Node(s, i)] = Node(s, i + 1)
  BY DEF Spells
<1>7. ASSUME NEW i \in Nodes, NEW x, x = IF i = 1 THEN fakeHead ELSE w0[i - 1]
      PROVE  w0[i] = IF x = fakeTail THEN x ELSE l.next[x]
  <2> HIDE DEF w0
  <2>1. i \in Nat /\ i >= 1 /\ i - 1 \in Nat /\ (i - 1) + 1 = i /\ (i # 1 => i - 1 \in Nodes)
    BY <1>4
  <2>2. CASE i <= n + 1
    <3>1. x = Node(s, i - 1) /\ i - 1 \in 0 .. n
      BY <1>1, <1>5, <1>7, <2>1, <2>2
    <3>2. x # fakeTail
      <4>1. i - 1 = 0 \/ i - 1 \in 1 .. n
        BY <1>1, <2>1, <3>1
      <4>2. \A k \in 1 .. n : Node(s, k) # fakeTail
        BY <1>1, <1>2
      <4> QED
        BY <1>1, <1>3, <3>1, <4>1, <4>2
    <3>3. l.next[x] = Node(s, i)
      BY <1>6, <2>1, <3>1
    <3>4. w0[i] = Node(s, i)
      BY <1>1, <1>5, <2>1, <2>2
    <3> QED
      BY <3>2, <3>3, <3>4
  <2>3. CASE i > n + 1
    <3>1. x = fakeTail /\ w0[i] = fakeTail
      BY <1>1, <1>5, <1>7, <2>1, <2>3
    <3> QED
      BY <3>1
  <2> QED
    BY <1>1, <2>1, <2>2, <2>3
<1>8. Walks(w0)
  <2> DEFINE u == [i \in Nodes |-> LET x == IF i = 1 THEN fakeHead ELSE w0[i - 1]
                                   IN  IF x = fakeTail THEN x ELSE l.next[x]]
  <2>1. \A i \in Nodes : w0[i] = u[i]
    <3> HIDE DEF w0
    <3> QED
      BY <1>7
  <2>2. w0 = u
    BY <2>1
  <2> QED
    BY <2>2
<1>9. ASSUME NEW w, Walks(w) PROVE w = w0
  <2> DEFINE B == {i \in Nodes : w[i] # w0[i]}
  <2> HIDE DEF w0
  <2>1. \A i \in Nodes : w[i] = LET x == IF i = 1 THEN fakeHead ELSE w[i - 1]
                                IN  IF x = fakeTail THEN x ELSE l.next[x]
    BY <1>9
  <2>2. ASSUME B # {} PROVE FALSE
    <3>1. B \subseteq Nat
      BY <1>4
    <3> HIDE DEF B
    <3>2. PICK i \in B : \A k \in B : i <= k
      BY <2>2, <3>1, LeastNat
    <3>3. i \in Nodes /\ w[i] # w0[i]
      BY <3>2 DEF B
    <3>4. i # 1 => i - 1 \in Nodes /\ w[i - 1] = w0[i - 1]
      <4>1. i # 1 => i - 1 \in Nodes /\ ~ (i <= i - 1)
        BY <1>4, <3>3
      <4> QED
        BY <3>2, <4>1 DEF B
    <3>5. PICK x : x = IF i = 1 THEN fakeHead ELSE w[i - 1]
      OBVIOUS
    <3>6. x = IF i = 1 THEN fakeHead ELSE w0[i - 1]
      BY <3>4, <3>5
    <3>7. w[i] = IF x = fakeTail THEN x ELSE l.next[x]
      BY <2>1, <3>3, <3>5
    <3> QED
      BY <1>7, <3>3, <3>6, <3>7
  <2>3. \A i \in Nodes : w[i] = w0[i]
    BY <2>2
  <2>4. w = [i \in Nodes |-> w[i]] /\ w0 = [i \in Nodes |-> w0[i]]
    BY <1>9 DEF w0
  <2> QED
    BY <2>3, <2>4
<1>10. (CHOOSE w : Walks(w)) = w0
  <2> HIDE DEF Walks, w0
  <2> QED
    BY <1>8, <1>9
<1>11. Cardinality({i \in Nodes : w0[i] # fakeTail}) = n
  <2>1. \A i \in Nodes : w0[i] # fakeTail <=> i <= n
    BY <1>1, <1>2, <1>4
  <2>2. {i \in Nodes : w0[i] # fakeTail} = 1 .. n
    <3> HIDE DEF w0
    <3> QED
      BY <1>1, <1>4, <2>1
  <2>3. Cardinality(1 .. n) = n
    BY <1>1, FS_Interval
  <2> QED
    BY <2>2, <2>3
<1>12. Entries(l, keys) = [i \in 1 .. n |-> <<keys[w0[i]], w0[i]>>]
  <2>1. Entries(l, keys)
          = [i \in 1 .. Cardinality({i \in Nodes : (CHOOSE w : Walks(w))[i] # fakeTail})
               |-> <<keys[(CHOOSE w : Walks(w))[i]], (CHOOSE w : Walks(w))[i]>>]
    BY DEF Entries
  <2> HIDE DEF Walks, w0
  <2> QED
    BY <1>10, <1>11, <2>1
<1>13. \A i \in 1 .. n : w0[i] = s[i][2] /\ s[i] = <<s[i][1], s[i][2]>>
  BY <1>1, <1>4 DEF Row
<1> HIDE DEF w0
<1>14. \A i \in 1 .. n : <<keys[w0[i]], w0[i]>> = s[i]
  BY <1>13
<1>15. s = [i \in 1 .. n |-> s[i]]
  BY <1>1 DEF Row
<1> QED
  BY <1>12, <1>14, <1>15

-----------------------------------------------------------------------------
\* The entries of row s are those of map f, each with a key and a node of its
\* own, where keys names the nodes made so far.
Content(s, f, keys) ==
  /\ s \in Row /\ Distinct(s) /\ Len(s) <= Len(keys)
  /\ \A i \in 1 .. Len(s) :
       /\ s[i][2] \in 1 .. Len(keys) /\ keys[s[i][2]] = s[i][1]
       /\ s[i][1] \in DOMAIN f /\ f[s[i][1]] = s[i][2]
  /\ \A k \in DOMAIN f : \E i \in 1 .. Len(s) : s[i][1] = k /\ s[i][2] = f[k]

\* Every entry but the one at j is still there, at i or before it.
LEMMA CutHas ==
  ASSUME NEW s \in Row, NEW j \in 1 .. Len(s), NEW i \in 1 .. Len(s), i # j
  PROVE  \E n \in 1 .. Len(Cut(s, j)) : Cut(s, j)[n] = s[i]
<1>1. Len(Cut(s, j)) = Len(s) - 1 /\ Len(s) \in Nat
  BY CutIs DEF Row
<1>2. \A n \in 1 .. Len(s) - 1 : Cut(s, j)[n] = s[IF n < j THEN n ELSE n + 1]
  BY CutIs
<1>3. CASE i < j
  <2>1. i \in 1 .. Len(s) - 1
    BY <1>1, <1>3
  <2> QED
    BY <1>1, <1>2, <1>3, <2>1
<1>4. CASE i > j
  <2>1. i - 1 \in 1 .. Len(s) - 1 /\ ~ (i - 1 < j) /\ (i - 1) + 1 = i
    BY <1>1, <1>4
  <2>2. Cut(s, j)[i - 1] = s[i]
    BY <1>2, <2>1
  <2> QED
    BY <1>1, <2>1, <2>2
<1> QED
  BY <1>1, <1>3, <1>4

\* And nothing else is.
LEMMA CutFrom ==
  ASSUME NEW s \in Row, NEW j \in 1 .. Len(s), NEW n \in 1 .. Len(Cut(s, j))
  PROVE  \E i \in 1 .. Len(s) : i # j /\ Cut(s, j)[n] = s[i]
<1>1. /\ Len(Cut(s, j)) = Len(s) - 1 /\ Len(s) \in Nat
      /\ \A i \in 1 .. Len(s) - 1 : Cut(s, j)[i] = s[IF i < j THEN i ELSE i + 1]
  BY CutIs DEF Row
<1>2. CASE n < j
  <2>1. n \in 1 .. Len(s) /\ n # j /\ Cut(s, j)[n] = s[n]
    BY <1>1, <1>2
  <2> QED
    BY <2>1
<1>3. CASE ~ (n < j)
  <2>1. n + 1 \in 1 .. Len(s) /\ n + 1 # j /\ Cut(s, j)[n] = s[n + 1]
    BY <1>1, <1>3
  <2> QED
    BY <2>1
<1> QED
  BY <1>2, <1>3

\* No two entries have the same key.
LEMMA OneOfAKey ==
  ASSUME NEW s, NEW f, NEW keys, Content(s, f, keys),
         NEW i \in 1 .. Len(s), NEW j \in 1 .. Len(s), s[i][1] = s[j][1]
  PROVE  i = j
<1>1. f[s[i][1]] = s[i][2] /\ f[s[j][1]] = s[j][2] /\ Distinct(s)
  BY DEF Content
<1> QED
  BY <1>1 DEF Distinct

\* An entry and its key go from the list and the map (Put and Delete).
LEMMA CutContent ==
  ASSUME NEW s, NEW f, NEW keys, Content(s, f, keys), Len(keys) \in Nat, NEW j \in 1 .. Len(s)
  PROVE  Content(Cut(s, j), Drop(f, s[j][1]), keys)
<1>1. s \in Row /\ Distinct(s) /\ Len(s) <= Len(keys) /\ Len(s) \in Nat
  BY DEF Content, Row
<1>2. PICK c : c = Cut(s, j)
  OBVIOUS
<1>3. PICK g : g = Drop(f, s[j][1])
  OBVIOUS
<1>4. c \in Row /\ Distinct(c) /\ Len(c) = Len(s) - 1
  BY <1>1, <1>2, CutIs, CutDistinct
<1>5. DOMAIN g = DOMAIN f \ {s[j][1]} /\ \A k \in DOMAIN g : g[k] = f[k]
  BY <1>3 DEF Drop
<1>6. ASSUME NEW n \in 1 .. Len(c)
      PROVE  /\ c[n][2] \in 1 .. Len(keys) /\ keys[c[n][2]] = c[n][1]
             /\ c[n][1] \in DOMAIN g /\ g[c[n][1]] = c[n][2]
  <2>1. PICK i \in 1 .. Len(s) : i # j /\ c[n] = s[i]
    BY <1>1, <1>2, CutFrom
  <2>2. s[i][1] # s[j][1]
    BY <2>1, OneOfAKey
  <2>3. /\ s[i][2] \in 1 .. Len(keys) /\ keys[s[i][2]] = s[i][1]
        /\ s[i][1] \in DOMAIN f /\ f[s[i][1]] = s[i][2]
    BY DEF Content
  <2>4. s[i][1] \in DOMAIN g /\ g[s[i][1]] = f[s[i][1]]
    BY <1>5, <2>2, <2>3
  <2> QED
    BY <2>1, <2>3, <2>4
<1>7. ASSUME NEW k \in DOMAIN g
      PROVE  \E n \in 1 .. Len(c) : c[n][1] = k /\ c[n][2] = g[k]
  <2>1. PICK i \in 1 .. Len(s) : s[i][1] = k /\ s[i][2] = f[k]
    BY <1>5 DEF Content
  <2>2. i # j
    BY <1>5, <2>1
  <2>3. PICK n \in 1 .. Len(c) : c[n] = s[i]
    BY <1>1, <1>2, <2>2, CutHas
  <2> QED
    BY <1>5, <2>1, <2>3
<1>8. Len(c) <= Len(keys)
  BY <1>1, <1>4
<1> QED
  BY <1>2, <1>3, <1>4, <1>6, <1>7, <1>8 DEF Content

\* A new entry comes to both, with a node just made (Put).
LEMMA AddContent ==
  ASSUME NEW s, NEW f, NEW keys \in Seq(Key), Content(s, f, keys),
         NEW k \in Key, k \notin DOMAIN f, NEW v \in Nodes, v = Len(keys) + 1
  PROVE  /\ Content(Append(s, <<k, v>>), With(f, k, v), Append(keys, k))
         /\ \A i \in 1 .. Len(s) : s[i][2] # v
<1>1. s \in Row /\ Distinct(s) /\ Len(s) <= Len(keys) /\ Len(s) \in Nat /\ Len(keys) \in Nat
  BY DEF Content, Row
<1>2. PICK e \in Key \X Nodes : e = <<k, v>> /\ e[1] = k /\ e[2] = v
  <2>1. <<k, v>> \in Key \X Nodes /\ <<k, v>>[1] = k /\ <<k, v>>[2] = v
    OBVIOUS
  <2> QED
    BY <2>1
<1>3. PICK a : a = Append(s, e)
  OBVIOUS
<1>4. PICK g : g = With(f, k, v)
  OBVIOUS
<1>5. PICK ks : ks = Append(keys, k)
  OBVIOUS
<1>6. /\ a \in Row /\ Len(a) = Len(s) + 1 /\ a[Len(s) + 1] = e
      /\ \A i \in 1 .. Len(s) : a[i] = s[i]
  BY <1>1, <1>3, AppendProperties DEF Row
<1>7. /\ Len(ks) = v /\ ks[v] = k
      /\ \A i \in 1 .. Len(keys) : ks[i] = keys[i]
  BY <1>1, <1>5, AppendProperties
<1>8. /\ DOMAIN g = DOMAIN f \cup {k} /\ g[k] = v
      /\ \A x \in DOMAIN f : g[x] = f[x]
  BY <1>4 DEF With
<1>9. \A i \in 1 .. Len(s) : s[i][2] # v
  BY <1>1 DEF Content
<1>10. \A n \in 1 .. Len(a) : n = Len(s) + 1 \/ (n \in 1 .. Len(s) /\ a[n] = s[n])
  BY <1>1, <1>6
<1>11. Distinct(a)
  <2> SUFFICES ASSUME NEW i \in 1 .. Len(a), NEW j \in 1 .. Len(a), a[i][2] = a[j][2]
               PROVE  i = j
    BY DEF Distinct
  <2>1. CASE i \in 1 .. Len(s) /\ j \in 1 .. Len(s)
    BY <1>1, <1>6, <2>1 DEF Distinct
  <2>2. CASE ~ (i \in 1 .. Len(s) /\ j \in 1 .. Len(s))
    BY <1>2, <1>6, <1>9, <1>10, <2>2
  <2> QED
    BY <2>1, <2>2
<1>12. ASSUME NEW n \in 1 .. Len(a)
       PROVE  /\ a[n][2] \in 1 .. Len(ks) /\ ks[a[n][2]] = a[n][1]
              /\ a[n][1] \in DOMAIN g /\ g[a[n][1]] = a[n][2]
  <2>1. CASE n = Len(s) + 1
    BY <1>1, <1>2, <1>6, <1>7, <1>8, <2>1
  <2>2. CASE n \in 1 .. Len(s) /\ a[n] = s[n]
    <3>1. /\ s[n][2] \in 1 .. Len(keys) /\ keys[s[n][2]] = s[n][1]
          /\ s[n][1] \in DOMAIN f /\ f[s[n][1]] = s[n][2]
      BY <2>2 DEF Content
    <3>2. s[n][2] \in 1 .. Len(ks)
      BY <1>1, <1>7, <3>1
    <3> QED
      BY <1>7, <1>8, <2>2, <3>1, <3>2
  <2> QED
    BY <1>10, <2>1, <2>2
<1>13. ASSUME NEW x \in DOMAIN g
       PROVE  \E n \in 1 .. Len(a) : a[n][1] = x /\ a[n][2] = g[x]
  <2>1. CASE x = k
    <3>1. Len(s) + 1 \in 1 .. Len(a)
      BY <1>1, <1>6
    <3> QED
      BY <1>2, <1>6, <1>8, <2>1, <3>1
  <2>2. CASE x \in DOMAIN f
    <3>1. PICK i \in 1 .. Len(s) : s[i][1] = x /\ s[i][2] = f[x]
      BY <2>2 DEF Content
    <3>2. i \in 1 .. Len(a) /\ a[i] = s[i] /\ g[x] = f[x]
      BY <1>1, <1>6, <1>8, <2>2
    <3> QED
      BY <3>1, <3>2
  <2> QED
    BY <1>8, <2>1, <2>2
<1>14. Len(a) <= Len(ks)
  BY <1>1, <1>6, <1>7
<1>15. Content(a, g, ks)
  BY <1>6, <1>11, <1>12, <1>13, <1>14 DEF Content
<1> QED
  BY <1>2, <1>3, <1>4, <1>5, <1>9, <1>15

\* An entry that is moved to the end is still the entry of its key (Get).
LEMMA MoveContent ==
  ASSUME NEW s, NEW f, NEW keys, Content(s, f, keys), NEW j \in 1 .. Len(s), NEW a,
         a = Append(Cut(s, j), s[j]), Distinct(a)
  PROVE  Content(a, f, keys)
<1>1. s \in Row /\ Distinct(s) /\ Len(s) <= Len(keys) /\ Len(s) \in Nat /\ s[j] \in Key \X Nodes
  BY DEF Content, Row
<1>2. PICK c : c = Cut(s, j)
  OBVIOUS
<1>3. c \in Row /\ Len(c) = Len(s) - 1
  BY <1>1, <1>2, CutIs
<1>4. /\ a \in Row /\ Len(a) = Len(s) /\ a[Len(s)] = s[j]
      /\ \A i \in 1 .. Len(c) : a[i] = c[i]
  BY <1>1, <1>2, <1>3, AppendProperties DEF Row
<1>5. ASSUME NEW n \in 1 .. Len(a) PROVE \E i \in 1 .. Len(s) : a[n] = s[i]
  <2>1. CASE n = Len(s)
    BY <1>4, <2>1
  <2>2. CASE n \in 1 .. Len(c)
    BY <1>1, <1>2, <1>4, <2>2, CutFrom
  <2> QED
    BY <1>1, <1>3, <1>4, <2>1, <2>2
<1>6. ASSUME NEW i \in 1 .. Len(s) PROVE \E n \in 1 .. Len(a) : a[n] = s[i]
  <2>1. CASE i = j
    BY <1>1, <1>4, <2>1
  <2>2. CASE i # j
    <3>1. PICK n \in 1 .. Len(c) : c[n] = s[i]
      BY <1>1, <1>2, <2>2, CutHas
    <3>2. n \in 1 .. Len(a)
      BY <1>1, <1>3, <1>4
    <3> QED
      BY <1>4, <3>1, <3>2
  <2> QED
    BY <2>1, <2>2
<1>7. ASSUME NEW n \in 1 .. Len(a)
      PROVE  /\ a[n][2] \in 1 .. Len(keys) /\ keys[a[n][2]] = a[n][1]
             /\ a[n][1] \in DOMAIN f /\ f[a[n][1]] = a[n][2]
  <2>1. PICK i \in 1 .. Len(s) : a[n] = s[i]
    BY <1>5
  <2> QED
    BY <2>1 DEF Content
<1>8. ASSUME NEW k \in DOMAIN f PROVE \E n \in 1 .. Len(a) : a[n][1] = k /\ a[n][2] = f[k]
  <2>1. PICK i \in 1 .. Len(s) : s[i][1] = k /\ s[i][2] = f[k]
    BY DEF Content
  <2>2. PICK n \in 1 .. Len(a) : a[n] = s[i]
    BY <1>6
  <2> QED
    BY <2>1, <2>2
<1> QED
  BY <1>1, <1>4, <1>7, <1>8 DEF Content

-----------------------------------------------------------------------------
\* List x and the local variables of Get g while it moves its node of list l
\* to the tail, access by access (moveToTail of dll.go).
Moving(x, l, g) ==
  LET c == removeNode(l, g.v)
      t == c.prev[fakeTail]
      joined == [c.next EXCEPT ![t] = g.v]
      back == [c.prev EXCEPT ![g.v] = t]
  IN
  /\ g.at \in {1, 2, 3} => x = l
  /\ g.at \in {2, 3, 4} => g.p = l.prev[g.v]
  /\ g.at \in {3, 4} => g.n = l.next[g.v]
  /\ g.at = 4 => x.next = c.next /\ x.prev = l.prev
  /\ g.at \in {5, 6} => x = c
  /\ g.at \in {6, 8} => g.p = t
  /\ g.at \in {7, 8} => x.next = joined /\ x.prev = c.prev
  /\ g.at = 9 => x.next = joined /\ x.prev = back
  /\ g.at = 10 => x.next = joined /\ x.prev = [back EXCEPT ![fakeTail] = g.v]
  /\ g.at = 11 => x = addToTail(c, g.v)

Alone == \A r, q \in Readers : get[r].at # 0 /\ get[q].at # 0 => r = q

\* The list is l, or l but for what the one Get under way has done to it.
Follows(l) ==
  /\ Spells(l, shown)
  /\ (\A r \in Readers : get[r].at = 0) => list = l
  /\ \A r \in Readers : get[r].at # 0 =>
       /\ \E i \in 1 .. Len(shown) : shown[i][2] = get[r].v
       /\ Moving(list, l, get[r])

ListInv ==
  ~ raced =>
    /\ Alone
    /\ Content(shown, vals, keyOf)
    /\ len \in Int /\ len >= Len(shown)
    /\ \E l \in Lists : Follows(l)

\* A step of the map Lru, or none.
LruStep == [L!LossyNext]_(L!vars)

LEMMA InitList == Init => ListInv
<1> SUFFICES ASSUME Init PROVE ListInv
  OBVIOUS
<1>1. /\ shown = <<>> /\ keyOf = <<>> /\ len = 0 /\ vals = [k \in {} |-> nil]
      /\ \A r \in Readers : get[r].at = 0
  BY DEF Init, Idle
<1>2. Content(shown, vals, keyOf)
  <2>1. shown \in Row /\ Len(shown) = 0 /\ Len(keyOf) = 0
    BY <1>1 DEF Row
  <2>2. DOMAIN vals = {}
    BY <1>1
  <2> QED
    BY <2>1, <2>2 DEF Content, Distinct
<1>3. list \in Lists
  BY InitPointers DEF PointerInv
<1>4. Spells(list, shown)
  <2>1. /\ list.next = [x \in 0 .. fakeTail |-> IF x = fakeHead THEN fakeTail ELSE nil]
        /\ list.prev = [x \in 0 .. fakeTail |-> IF x = fakeTail THEN fakeHead ELSE nil]
    BY DEF Init
  <2>2. Len(shown) = 0 /\ Node(shown, 0) = fakeHead /\ Node(shown, 0 + 1) = fakeTail
    BY <1>1 DEF Node
  <2>3. fakeHead \in 0 .. fakeTail /\ fakeTail \in 0 .. fakeTail
    BY CmapAssumption DEF fakeHead, fakeTail
  <2>4. \A i \in 0 .. 0 : i = 0
    OBVIOUS
  <2> QED
    BY <2>1, <2>2, <2>3, <2>4 DEF Spells
<1>5. Alone /\ Follows(list)
  BY <1>1, <1>4 DEF Alone, Follows
<1>6. len \in Int /\ len >= Len(shown)
  BY <1>1
<1> QED
  BY <1>2, <1>3, <1>5, <1>6 DEF ListInv

\* What the map Lru makes of the history of the list.
LEMMA Looked ==
  ASSUME Content(shown, vals, keyOf), NEW j \in 1 .. Len(shown), NEW k, shown[j][1] = k
  PROVE  L!Has(k) /\ L!ValueOf(k) = shown[j][2] /\ L!Without(k) = Cut(shown, j)
<1>1. DOMAIN shown = 1 .. Len(shown)
  BY DEF Content, Row
<1>2. L!Has(k)
  BY <1>1 DEF L!Has
<1>3. \A i \in DOMAIN shown : shown[i][1] = k => i = j
  BY <1>1, OneOfAKey
<1>4. L!At(k) = j
  BY <1>1, <1>3 DEF L!At
<1>5. L!ValueOf(k) = shown[j][2]
  BY <1>4 DEF L!ValueOf
<1>6. L!Without(k) = Cut(shown, j)
  BY <1>2, <1>4 DEF L!Without, Cut
<1> QED
  BY <1>2, <1>5, <1>6

LEMMA NotLooked ==
  ASSUME Content(shown, vals, keyOf), NEW k, k \notin DOMAIN vals
  PROVE  ~ L!Has(k)
<1>1. DOMAIN shown = 1 .. Len(shown)
  BY DEF Content, Row
<1> QED
  BY <1>1 DEF Content, L!Has

\* Nobody is at the list when Put and Delete are done with it.
LEMMA LockedList ==
  ASSUME Locked, get' = get, list' \in Lists, Spells(list', shown'),
         Content(shown', vals', keyOf'), len' \in Int, len' >= Len(shown')
  PROVE  ListInv'
<1>1. \A r \in Readers : get'[r].at = 0
  BY DEF Locked
<1>2. Alone' /\ Follows(list)'
  BY <1>1 DEF Alone, Follows
<1> QED
  BY <1>2 DEF ListInv

\* The walk along the list shows row s.
LEMMA ShowRow ==
  ASSUME NEW l \in Lists, NEW s, NEW f, NEW keys \in Seq(Key), Len(keys) <= MaxPuts,
         Content(s, f, keys), Spells(l, s)
  PROVE  Entries(l, keys) = s
<1>1. s \in Row /\ Distinct(s) /\ Len(s) <= MaxPuts
  <2>1. Len(s) \in Nat /\ Len(keys) \in Nat
    BY DEF Content, Row
  <2> QED
    BY <2>1, CmapAssumption DEF Content
<1>2. \A i \in 1 .. Len(s) : keys[s[i][2]] = s[i][1]
  BY DEF Content
<1> QED
  BY <1>1, <1>2, WalkSpells

\* The new node goes to the end of the row.
LEMMA InsertList ==
  ASSUME PointerInv, PointerInv', ~ raced, New \in Nodes,
         NEW k \in Key, NEW f, k \notin DOMAIN f, NEW l \in Lists, NEW s,
         Content(s, f, keyOf), Spells(l, s), Insert(k, f, l)
  PROVE  /\ shown' = Append(s, <<k, New>>) /\ Len(shown') = Len(s) + 1
         /\ Content(shown', vals', keyOf') /\ list' \in Lists /\ Spells(list', shown')
<1>1. PICK v \in Nodes : v = New
  OBVIOUS
<1>2. PICK a : a = Append(s, <<k, v>>)
  OBVIOUS
<1>3. /\ vals' = With(f, k, v) /\ keyOf' = Append(keyOf, k) /\ list' = addToTail(l, v)
      /\ shown' = Entries(list', keyOf')
  BY <1>1 DEF Insert, Show
<1>4. keyOf \in Seq(Key) /\ v = Len(keyOf) + 1
  BY <1>1 DEF PointerInv, New
<1>5. Content(a, vals', keyOf') /\ \A i \in 1 .. Len(s) : s[i][2] # v
  BY <1>2, <1>3, <1>4, AddContent
<1>6. s \in Row /\ Distinct(s)
  BY DEF Content
<1>7. Spells(list', a)
  BY <1>2, <1>3, <1>5, <1>6, AddSpells
<1>8. list' \in Lists /\ keyOf' \in Seq(Key) /\ Len(keyOf') <= MaxPuts
  BY DEF PointerInv
<1>9. Entries(list', keyOf') = a
  BY <1>5, <1>7, <1>8, ShowRow
<1>10. Len(a) = Len(s) + 1
  BY <1>2, <1>6, AppendProperties DEF Row
<1> QED
  BY <1>1, <1>2, <1>3, <1>5, <1>7, <1>8, <1>9, <1>10

LEMMA AtRest ==
  ASSUME ListInv, ~ raced, Locked
  PROVE  Spells(list, shown) /\ Content(shown, vals, keyOf) /\ len \in Int /\ len >= Len(shown)
  BY DEF ListInv, Follows, Locked

LEMMA UpdateList ==
  ASSUME PointerInv, PointerInv', ListInv, ~ raced, NEW k \in Key, PutUpdate(k)
  PROVE  ListInv' /\ LruStep
<1>1. /\ Locked /\ New \in Nodes /\ k \in DOMAIN vals /\ get' = get /\ resp' = resp
  BY DEF PutUpdate
<1>2. Spells(list, shown) /\ Content(shown, vals, keyOf) /\ len \in Int /\ len >= Len(shown)
  BY <1>1, AtRest
<1>3. PICK j \in 1 .. Len(shown) : shown[j][1] = k /\ shown[j][2] = vals[k]
  BY <1>1, <1>2 DEF Content
<1>4. PICK m \in 0 .. MaxPuts : m = Len(keyOf)
  BY LenProperties, CmapAssumption DEF PointerInv
<1>5. list \in Lists /\ Chained(list, m) /\ vals[k] \in 1 .. m
  BY <1>1, <1>4 DEF PointerInv
<1>6. PICK f : f = Drop(vals, k)
  OBVIOUS
<1>7. PICK l : l = removeNode(list, vals[k])
  OBVIOUS
<1>8. Insert(k, f, l) /\ len' = len + 1
  BY <1>5, <1>6, <1>7, MadeIsLinked DEF PutUpdate
<1>9. PICK s : s = Cut(shown, j)
  OBVIOUS
<1>10. l \in Lists
  BY <1>5, <1>7, RemoveKeeps
<1>11. shown \in Row /\ Distinct(shown)
  BY <1>2 DEF Content
<1>12. Spells(l, s)
  BY <1>2, <1>3, <1>5, <1>7, <1>9, <1>11, CutSpells
<1>13. Content(s, f, keyOf) /\ k \notin DOMAIN f
  <2>1. k \notin DOMAIN f
    BY <1>6 DEF Drop
  <2> QED
    BY <1>2, <1>3, <1>4, <1>6, <1>9, <2>1, CutContent
<1>14. Len(s) = Len(shown) - 1 /\ Len(shown) \in Nat
  BY <1>9, <1>11, CutIs DEF Row
<1>15. /\ shown' = Append(s, <<k, New>>) /\ Len(shown') = Len(s) + 1
       /\ Content(shown', vals', keyOf') /\ list' \in Lists /\ Spells(list', shown')
  BY <1>1, <1>8, <1>10, <1>12, <1>13, InsertList
<1>16. len' \in Int /\ len' >= Len(shown')
  BY <1>2, <1>8, <1>14, <1>15
<1>17. ListInv'
  BY <1>1, <1>15, <1>16, LockedList
<1>18. L!Update(k, New)
  BY <1>1, <1>2, <1>3, <1>9, <1>15, Looked DEF L!Update, L!Store
<1>19. L!LossyNext
  BY <1>1, <1>18 DEF L!LossyNext
<1> QED
  BY <1>17, <1>19 DEF LruStep

LEMMA AddList ==
  ASSUME PointerInv, PointerInv', ListInv, ~ raced, NEW k \in Key, PutAdd(k)
  PROVE  ListInv' /\ LruStep
<1>1. /\ Locked /\ New \in Nodes /\ k \notin DOMAIN vals /\ get' = get /\ resp' = resp
      /\ Insert(k, vals, list) /\ len' = len + 1
  BY DEF PutAdd
<1>2. Spells(list, shown) /\ Content(shown, vals, keyOf) /\ len \in Int /\ len >= Len(shown)
  BY <1>1, AtRest
<1>3. list \in Lists /\ Len(shown) \in Nat
  BY <1>2 DEF PointerInv, Content, Row
<1>4. /\ shown' = Append(shown, <<k, New>>) /\ Len(shown') = Len(shown) + 1
      /\ Content(shown', vals', keyOf') /\ list' \in Lists /\ Spells(list', shown')
  BY <1>1, <1>2, <1>3, InsertList
<1>5. len' \in Int /\ len' >= Len(shown')
  BY <1>1, <1>2, <1>3, <1>4
<1>6. ListInv'
  BY <1>1, <1>4, <1>5, LockedList
<1>7. L!Add(k, New)
  BY <1>1, <1>2, <1>4, NotLooked DEF L!Add, L!Store
<1>8. L!LossyNext
  BY <1>1, <1>7 DEF L!LossyNext
<1> QED
  BY <1>6, <1>8 DEF LruStep

LEMMA EvictList ==
  ASSUME PointerInv, PointerInv', ListInv, ~ raced, ~ raced', NEW k \in Key, PutEvict(k)
  PROVE  ListInv' /\ LruStep
<1> DEFINE e == list.next[fakeHead]
<1>1. /\ Locked /\ New \in Nodes /\ k \notin DOMAIN vals /\ get' = get /\ resp' = resp
      /\ len' = len
  BY DEF PutEvict
<1>2. Spells(list, shown) /\ Content(shown, vals, keyOf) /\ len \in Int /\ len >= Len(shown)
  BY <1>1, AtRest
<1>3. PICK m \in 0 .. MaxPuts : m = Len(keyOf)
  BY LenProperties, CmapAssumption DEF PointerInv
<1>4. list \in Lists /\ Chained(list, m)
  BY <1>3 DEF PointerInv
<1>5. shown \in Row /\ Distinct(shown) /\ Len(shown) \in Nat
  BY <1>2 DEF Content, Row
<1>6. e = Node(shown, 1)
  <2>1. 0 \in 0 .. Len(shown) /\ 0 + 1 = 1 /\ Node(shown, 0) = fakeHead
    BY <1>5 DEF Node
  <2> QED
    BY <1>2, <2>1 DEF Spells
<1>7. CASE Len(shown) = 0
  <2>1. e = fakeTail
    BY <1>6, <1>7 DEF Node
  <2>2. ~ Linked(list, e)
    BY <1>4, <2>1 DEF Chained, Linked
  <2>3. UNCHANGED <<vals, keyOf, list, shown>>
    BY <2>2 DEF PutEvict
  <2>4. ListInv'
    BY <1>1, <1>2, <1>4, <2>3, LockedList
  <2>5. UNCHANGED L!vars
    BY <1>1, <2>3 DEF L!vars
  <2> QED
    BY <2>4, <2>5 DEF LruStep
<1>8. CASE Len(shown) # 0
  <2>1. 1 \in 1 .. Len(shown)
    BY <1>5, <1>8
  <2>2. e = shown[1][2] /\ e \in 1 .. m /\ keyOf[e] = shown[1][1]
    BY <1>2, <1>3, <1>6, <2>1 DEF Node, Content
  <2>3. PICK f : f = Drop(vals, keyOf[e])
    OBVIOUS
  <2>4. PICK l : l = removeNode(list, e)
    OBVIOUS
  <2>5. Insert(k, f, l)
    BY <1>4, <2>2, <2>3, <2>4, MadeIsLinked DEF PutEvict
  <2>6. PICK s : s = Cut(shown, 1)
    OBVIOUS
  <2>7. l \in Lists
    BY <1>4, <2>2, <2>4, RemoveKeeps
  <2>8. Spells(l, s)
    BY <1>2, <1>4, <1>5, <2>1, <2>2, <2>4, <2>6, CutSpells
  <2>9. Content(s, f, keyOf) /\ k \notin DOMAIN f
    <3>1. k \notin DOMAIN f
      BY <1>1, <2>3 DEF Drop
    <3> QED
      BY <1>2, <1>3, <2>1, <2>2, <2>3, <2>6, <3>1, CutContent
  <2>10. Len(s) = Len(shown) - 1 /\ s \in Row
    BY <1>5, <2>1, <2>6, CutIs
  <2>11. /\ shown' = Append(s, <<k, New>>) /\ Len(shown') = Len(s) + 1
         /\ Content(shown', vals', keyOf') /\ list' \in Lists /\ Spells(list', shown')
    BY <1>1, <2>5, <2>7, <2>8, <2>9, InsertList
  <2>12. len' \in Int /\ len' >= Len(shown')
    BY <1>1, <1>2, <1>5, <2>10, <2>11
  <2>13. ListInv'
    BY <1>1, <2>11, <2>12, LockedList
  <2>14. s = Tail(shown) /\ shown # <<>>
    <3>1. shown # <<>> /\ shown \in Seq(Key \X Nodes)
      BY <1>5, <1>8 DEF Row
    <3>2. /\ Tail(shown) \in Seq(Key \X Nodes) /\ Len(Tail(shown)) = Len(shown) - 1
          /\ \A i \in 1 .. Len(Tail(shown)) : Tail(shown)[i] = shown[i + 1]
      BY <3>1, HeadTailProperties
    <3>3. \A i \in 1 .. Len(shown) - 1 : s[i] = shown[i + 1]
      <4>1. \A i \in 1 .. Len(shown) - 1 : s[i] = shown[IF i < 1 THEN i ELSE i + 1]
        BY <1>5, <2>1, <2>6, CutIs
      <4> QED
        BY <1>5, <4>1
    <3>4. s \in Seq(Key \X Nodes)
      BY <2>10 DEF Row
    <3> QED
      BY <2>10, <3>1, <3>2, <3>3, <3>4, SeqEqual
  <2>15. L!Replace(k, New)
    BY <1>1, <1>2, <2>11, <2>14, NotLooked DEF L!Replace, L!Store
  <2>16. L!LossyNext
    BY <1>1, <2>15 DEF L!LossyNext
  <2> QED
    BY <2>13, <2>16 DEF LruStep
<1> QED
  BY <1>7, <1>8

LEMMA DeleteList ==
  ASSUME PointerInv, PointerInv', ListInv, ~ raced, NEW k \in Key, Delete(k)
  PROVE  ListInv' /\ LruStep
<1>1. /\ Locked /\ k \in DOMAIN vals /\ get' = get /\ resp' = resp /\ keyOf' = keyOf
  BY DEF Delete
<1>2. Spells(list, shown) /\ Content(shown, vals, keyOf) /\ len \in Int /\ len >= Len(shown)
  BY <1>1, AtRest
<1>3. PICK j \in 1 .. Len(shown) : shown[j][1] = k /\ shown[j][2] = vals[k]
  BY <1>1, <1>2 DEF Content
<1>4. PICK m \in 0 .. MaxPuts : m = Len(keyOf)
  BY LenProperties, CmapAssumption DEF PointerInv
<1>5. list \in Lists /\ Chained(list, m) /\ vals[k] \in 1 .. m
  BY <1>1, <1>4 DEF PointerInv
<1>6. /\ vals' = Drop(vals, k) /\ list' = removeNode(list, vals[k]) /\ len' = len - 1
      /\ shown' = Entries(list', keyOf)
  BY <1>5, MadeIsLinked DEF Delete, Show
<1>7. PICK s : s = Cut(shown, j)
  OBVIOUS
<1>8. shown \in Row /\ Distinct(shown) /\ Len(shown) \in Nat
  BY <1>2 DEF Content, Row
<1>9. list' \in Lists /\ keyOf \in Seq(Key) /\ Len(keyOf) <= MaxPuts
  BY DEF PointerInv
<1>10. Spells(list', s)
  BY <1>2, <1>3, <1>5, <1>6, <1>7, <1>8, CutSpells
<1>11. Content(s, vals', keyOf)
  BY <1>2, <1>3, <1>4, <1>6, <1>7, CutContent
<1>12. shown' = s
  BY <1>6, <1>9, <1>10, <1>11, ShowRow
<1>13. Len(s) = Len(shown) - 1
  BY <1>7, <1>8, CutIs
<1>14. len' \in Int /\ len' >= Len(shown')
  BY <1>2, <1>6, <1>8, <1>12, <1>13
<1>15. ListInv'
  BY <1>1, <1>9, <1>10, <1>11, <1>12, <1>14, LockedList
<1>16. L!Delete(k)
  BY <1>1, <1>2, <1>3, <1>7, <1>12, Looked DEF L!Delete
<1>17. L!LossyNext
  BY <1>16 DEF L!LossyNext
<1> QED
  BY <1>15, <1>17 DEF LruStep

-----------------------------------------------------------------------------
\* A Get goes on moving its node: the history stays.
LEMMA MovingList ==
  ASSUME PointerInv, ListInv, ~ raced, NEW r \in Readers, NEW h, h.at # 0, h.v = get[r].v,
         get[r].at # 0, get' = [get EXCEPT ![r] = h],
         UNCHANGED <<vals, keyOf, len, shown, resp>>,
         NEW l \in Lists, Follows(l), Moving(list', l, h)
  PROVE  ListInv' /\ LruStep
<1>1. get'[r] = h /\ \A q \in Readers \ {r} : get'[q] = get[q]
  BY DEF PointerInv
<1>2. \A q \in Readers \ {r} : get[q].at = 0
  BY DEF ListInv, Alone
<1>3. Alone'
  BY <1>1, <1>2 DEF Alone
<1>4. \E i \in 1 .. Len(shown) : shown[i][2] = h.v
  BY DEF Follows
<1>5. Follows(l)'
  <2>1. Spells(l, shown')
    BY DEF Follows
  <2>2. ~ \A q \in Readers : get'[q].at = 0
    BY <1>1
  <2>3. \A q \in Readers : get'[q].at # 0 => q = r
    BY <1>1, <1>2
  <2>4. /\ \E i \in 1 .. Len(shown') : shown'[i][2] = get'[r].v
        /\ Moving(list', l, get'[r])
    BY <1>1, <1>4
  <2> QED
    BY <2>1, <2>2, <2>3, <2>4 DEF Follows
<1>6. ListInv'
  BY <1>3, <1>5 DEF ListInv
<1> QED
  BY <1>6 DEF LruStep, L!vars

LEMMA BeginList ==
  ASSUME PointerInv, ListInv, ~ raced', NEW r \in Readers, NEW k \in Key, GetBegin(r, k)
  PROVE  ListInv' /\ LruStep
<1>1. /\ k \in DOMAIN vals /\ ~ raced /\ \A q \in Readers : get[q].at = 0
      /\ get' = [get EXCEPT ![r] = GetOf(vals[k])]
      /\ UNCHANGED <<vals, keyOf, list, len, shown, resp>>
  BY DEF GetBegin
<1>2. PICK g : g = GetOf(vals[k])
  OBVIOUS
<1>3. g.at = 1 /\ g.v = vals[k]
  BY <1>2 DEF GetOf
<1>4. get'[r] = g /\ \A q \in Readers \ {r} : get'[q].at = 0
  BY <1>1, <1>2 DEF PointerInv
<1>5. Spells(list, shown) /\ Content(shown, vals, keyOf) /\ list \in Lists
  BY <1>1 DEF ListInv, Follows, PointerInv
<1>6. PICK j \in 1 .. Len(shown) : shown[j][2] = vals[k]
  BY <1>1, <1>5 DEF Content
<1>7. Moving(list, list, g)
  BY <1>3 DEF Moving
<1>8. Alone'
  BY <1>4 DEF Alone
<1>9. \E l \in Lists : Follows(l)'
  <2>1. PICK l \in Lists : l = list
    BY <1>5
  <2>2. Follows(l)'
    <3>1. Spells(l, shown')
      BY <1>1, <1>5, <2>1
    <3>2. \A q \in Readers : get'[q].at # 0 => q = r
      BY <1>4
    <3>3. /\ \E i \in 1 .. Len(shown') : shown'[i][2] = get'[r].v
          /\ Moving(list', l, get'[r]) /\ get'[r].at # 0
      BY <1>1, <1>3, <1>4, <1>6, <1>7, <2>1
    <3> QED
      BY <3>1, <3>2, <3>3 DEF Follows
  <2> QED
    BY <2>2
<1>10. ListInv'
  BY <1>1, <1>8, <1>9 DEF ListInv
<1> QED
  BY <1>1, <1>10 DEF LruStep, L!vars

\* An access that reads.
LEMMA ReadList ==
  ASSUME PointerInv, ListInv, ~ raced, NEW r \in Readers, NEW at \in 1 .. 10, NEW p, NEW n,
         Read(r, at, p, n),
         NEW l \in Lists, Follows(l),
         \A h : /\ h.at = at + 1 /\ h.v = get[r].v /\ h.p = p /\ h.n = n
                => Moving(list, l, h)
  PROVE  ListInv' /\ LruStep
<1>1. /\ get[r].at = at /\ UNCHANGED <<vals, keyOf, list, len, shown, resp>>
      /\ get' = [get EXCEPT ![r] = [@ EXCEPT !.at = at + 1, !.p = p, !.n = n]]
  BY DEF Read
<1>2. PICK g \in Gets : g = get[r]
  BY DEF PointerInv
<1>3. PICK h : h = [g EXCEPT !.at = at + 1, !.p = p, !.n = n]
  OBVIOUS
<1>4. h.at = at + 1 /\ h.v = g.v /\ h.p = p /\ h.n = n
  BY <1>3 DEF Gets
<1>5. get' = [get EXCEPT ![r] = h]
  BY <1>1, <1>2, <1>3
<1>6. Moving(list', l, h)
  BY <1>1, <1>2, <1>4
<1>7. h.at # 0 /\ get[r].at # 0
  BY <1>1, <1>4
<1> QED
  BY <1>1, <1>2, <1>4, <1>5, <1>6, <1>7, MovingList

\* An access that writes.
LEMMA WriteList ==
  ASSUME PointerInv, ListInv, ~ raced, NEW r \in Readers, NEW at \in 1 .. 10,
         NEW f, NEW x, NEW y, Write(r, at, f, x, y), raced' = raced,
         NEW l \in Lists, Follows(l),
         \A h : /\ list' = [list EXCEPT ![f][x] = y]
                /\ h.at = at + 1 /\ h.v = get[r].v /\ h.p = get[r].p /\ h.n = get[r].n
                => Moving(list', l, h)
  PROVE  ListInv' /\ LruStep
<1>1. get[r].at = at /\ UNCHANGED <<vals, keyOf, len, shown, resp>>
  BY DEF Write
<1>2. CASE x = nil
  <2>1. UNCHANGED <<list, get>>
    BY <1>2 DEF Write
  <2> QED
    BY <1>1, <2>1 DEF ListInv, Alone, Follows, LruStep, L!vars
<1>3. CASE x # nil
  <2>1. list' = [list EXCEPT ![f][x] = y] /\ get' = [get EXCEPT ![r].at = at + 1]
    BY <1>3 DEF Write
  <2>2. PICK g \in Gets : g = get[r]
    BY DEF PointerInv
  <2>3. PICK h : h = [g EXCEPT !.at = at + 1]
    OBVIOUS
  <2>4. h.at = at + 1 /\ h.v = g.v /\ h.p = g.p /\ h.n = g.n
    BY <2>3, Writing
  <2>5. get' = [get EXCEPT ![r] = h]
    BY <2>1, <2>2, <2>3
  <2>6. Moving(list', l, h)
    BY <2>1, <2>2, <2>4
  <2>7. h.at # 0 /\ get[r].at # 0
    BY <1>1, <2>4
  <2> QED
    BY <1>1, <2>2, <2>4, <2>5, <2>6, <2>7, MovingList
<1> QED
  BY <1>2, <1>3

\* The accesses that read: 1, 2, 5 and 7.
LEMMA MovesReading ==
  ASSUME NEW x, NEW l, NEW g, Moving(x, l, g), g.at \in {1, 2, 5, 7},
         NEW h, h.at = g.at + 1, h.v = g.v,
         g.at = 1 => h.p = x.prev[g.v],
         g.at = 2 => h.p = g.p /\ h.n = x.next[g.v],
         g.at \in {5, 7} => h.p = x.prev[fakeTail]
  PROVE  Moving(x, l, h)
<1> USE DEF Moving
<1>1. CASE g.at = 1
  BY <1>1
<1>2. CASE g.at = 2
  BY <1>2
<1>3. CASE g.at = 5
  BY <1>3
<1>4. CASE g.at = 7
  BY <1>4
<1> QED
  BY <1>1, <1>2, <1>3, <1>4

\* The accesses that write next, 3, 6 and 10, and those that write prev, 4, 8
\* and 9, take list x to y.
WritesNext(x, y, g) ==
  /\ y.prev = x.prev
  /\ g.at \in {3, 6, 10}
  /\ g.at = 3 => y.next = [x.next EXCEPT ![g.p] = g.n]
  /\ g.at = 6 => y.next = [x.next EXCEPT ![g.p] = g.v]
  /\ g.at = 10 => y.next = [x.next EXCEPT ![g.v] = fakeTail]

WritesPrev(x, y, g) ==
  /\ y.next = x.next
  /\ g.at \in {4, 8, 9}
  /\ g.at = 4 => y.prev = [x.prev EXCEPT ![g.n] = g.p]
  /\ g.at = 8 => y.prev = [x.prev EXCEPT ![g.v] = g.p]
  /\ g.at = 9 => y.prev = [x.prev EXCEPT ![fakeTail] = g.v]

LEMMA MovesNext ==
  ASSUME NEW x, NEW y \in Lists, NEW l, NEW g, Moving(x, l, g), WritesNext(x, y, g),
         NEW h, h.at = g.at + 1, h.v = g.v, h.p = g.p, h.n = g.n
  PROVE  Moving(y, l, h)
<1> USE DEF WritesNext
<1>1. y = [next |-> y.next, prev |-> y.prev]
  BY DEF Lists
<1>2. PICK c : c = removeNode(l, g.v)
  OBVIOUS
<1>3. CASE g.at = 3
  <2>1. x = l /\ g.p = l.prev[g.v] /\ g.n = l.next[g.v]
    BY <1>3 DEF Moving
  <2>2. c.next = [l.next EXCEPT ![l.prev[g.v]] = l.next[g.v]]
    BY <1>2 DEF removeNode
  <2>3. h.at = 4 /\ h.p = l.prev[g.v] /\ h.n = l.next[g.v] /\ y.next = c.next /\ y.prev = l.prev
    BY <1>3, <2>1, <2>2
  <2> QED
    BY <1>2, <2>3 DEF Moving
<1>4. CASE g.at = 6
  <2>1. x = c /\ g.p = c.prev[fakeTail]
    BY <1>2, <1>4 DEF Moving
  <2>2. /\ h.at = 7 /\ h.v = g.v /\ y.next = [c.next EXCEPT ![c.prev[fakeTail]] = g.v]
        /\ y.prev = c.prev
    BY <1>4, <2>1
  <2> QED
    BY <1>2, <2>2 DEF Moving
<1>5. CASE g.at = 10
  <2> DEFINE t == c.prev[fakeTail]
  <2>1. /\ x.next = [c.next EXCEPT ![t] = g.v]
        /\ x.prev = [[c.prev EXCEPT ![g.v] = t] EXCEPT ![fakeTail] = g.v]
    BY <1>2, <1>5 DEF Moving
  <2>2. /\ y.next = [[c.next EXCEPT ![t] = g.v] EXCEPT ![g.v] = fakeTail]
        /\ y.prev = [[c.prev EXCEPT ![g.v] = t] EXCEPT ![fakeTail] = g.v]
    BY <1>5, <2>1
  <2>3. addToTail(c, g.v) = [next |-> [[c.next EXCEPT ![t] = g.v] EXCEPT ![g.v] = fakeTail],
                             prev |-> [[c.prev EXCEPT ![g.v] = t] EXCEPT ![fakeTail] = g.v]]
    BY DEF addToTail
  <2>4. h.at = 11 /\ h.v = g.v /\ y = addToTail(c, g.v)
    BY <1>1, <1>5, <2>2, <2>3
  <2> QED
    BY <1>2, <2>4 DEF Moving
<1> QED
  BY <1>3, <1>4, <1>5

LEMMA MovesPrev ==
  ASSUME NEW x, NEW y \in Lists, NEW l, NEW g, Moving(x, l, g), WritesPrev(x, y, g),
         NEW h, h.at = g.at + 1, h.v = g.v, h.p = g.p, h.n = g.n
  PROVE  Moving(y, l, h)
<1> USE DEF WritesPrev
<1>1. y = [next |-> y.next, prev |-> y.prev]
  BY DEF Lists
<1>2. PICK c : c = removeNode(l, g.v)
  OBVIOUS
<1>3. CASE g.at = 4
  <2>1. /\ g.p = l.prev[g.v] /\ g.n = l.next[g.v]
        /\ x.next = c.next /\ x.prev = l.prev
    BY <1>2, <1>3 DEF Moving
  <2>2. c = [next |-> [l.next EXCEPT ![l.prev[g.v]] = l.next[g.v]],
             prev |-> [l.prev EXCEPT ![l.next[g.v]] = l.prev[g.v]]]
    BY <1>2 DEF removeNode
  <2>3. c.prev = [l.prev EXCEPT ![l.next[g.v]] = l.prev[g.v]] /\ c = [next |-> c.next, prev |-> c.prev]
    BY <2>2
  <2>4. y.next = c.next /\ y.prev = c.prev
    BY <1>3, <2>1, <2>3
  <2>5. h.at = 5 /\ h.v = g.v /\ y = c
    BY <1>1, <1>3, <2>3, <2>4
  <2> QED
    BY <1>2, <2>5 DEF Moving
<1>4. CASE g.at = 8
  <2> DEFINE t == c.prev[fakeTail]
  <2>1. g.p = t /\ x.next = [c.next EXCEPT ![t] = g.v] /\ x.prev = c.prev
    BY <1>2, <1>4 DEF Moving
  <2>2. /\ h.at = 9 /\ h.v = g.v
        /\ y.next = [c.next EXCEPT ![t] = g.v] /\ y.prev = [c.prev EXCEPT ![g.v] = t]
    BY <1>4, <2>1
  <2> QED
    BY <1>2, <2>2 DEF Moving
<1>5. CASE g.at = 9
  <2> DEFINE t == c.prev[fakeTail]
  <2>1. x.next = [c.next EXCEPT ![t] = g.v] /\ x.prev = [c.prev EXCEPT ![g.v] = t]
    BY <1>2, <1>5 DEF Moving
  <2>2. /\ h.at = 10 /\ h.v = g.v /\ y.next = [c.next EXCEPT ![t] = g.v]
        /\ y.prev = [[c.prev EXCEPT ![g.v] = t] EXCEPT ![fakeTail] = g.v]
    BY <1>5, <2>1
  <2> QED
    BY <1>2, <2>2 DEF Moving
<1> QED
  BY <1>3, <1>4, <1>5

LEMMA RelinkList ==
  ASSUME PointerInv, PointerInv', ListInv, ~ raced, NEW r \in Readers, Relink(r)
  PROVE  ListInv' /\ LruStep
<1>1. PICK g \in Gets : g = get[r]
  BY DEF PointerInv
<1>2. list \in Lists /\ list' \in Lists /\ raced' = raced
  BY DEF PointerInv, Relink, Read, Write
<1>3. g.at \in 1 .. 10
  BY <1>1 DEF Relink, Read, Write
<1>4. PICK l \in Lists : Follows(l)
  BY DEF ListInv
<1>5. Moving(list, l, g)
  BY <1>1, <1>3, <1>4 DEF Follows
<1>6. ASSUME NEW at \in {1, 2, 5, 7}, NEW p, NEW n, Read(r, at, p, n),
             at = 1 => p = list.prev[g.v],
             at = 2 => p = g.p /\ n = list.next[g.v],
             at \in {5, 7} => p = list.prev[fakeTail]
      PROVE  ListInv' /\ LruStep
  <2>1. g.at = at
    BY <1>1, <1>6 DEF Read
  <2>2. \A h : h.at = at + 1 /\ h.v = g.v /\ h.p = p /\ h.n = n => Moving(list, l, h)
    BY <1>5, <1>6, <2>1, MovesReading
  <2>3. at \in 1 .. 10
    OBVIOUS
  <2> QED
    BY <1>1, <1>4, <1>6, <2>2, <2>3, ReadList
<1>7. ASSUME NEW at \in {3, 6, 10}, NEW x, NEW y, Write(r, at, "next", x, y),
             at = 3 => x = g.p /\ y = g.n,
             at = 6 => x = g.p /\ y = g.v,
             at = 10 => x = g.v /\ y = fakeTail
      PROVE  ListInv' /\ LruStep
  <2>1. g.at = at
    BY <1>1, <1>7 DEF Write
  <2>2. ASSUME NEW h, list' = [list EXCEPT !["next"][x] = y],
               h.at = at + 1, h.v = g.v, h.p = g.p, h.n = g.n
        PROVE  Moving(list', l, h)
    <3>1. list'.next = [list.next EXCEPT ![x] = y] /\ list'.prev = list.prev
      BY <1>2, <2>2 DEF Lists
    <3>2. WritesNext(list, list', g)
      BY <1>7, <2>1, <3>1 DEF WritesNext
    <3> QED
      BY <1>2, <1>5, <2>1, <2>2, <3>2, MovesNext
  <2>3. at \in 1 .. 10
    OBVIOUS
  <2> QED
    BY <1>1, <1>2, <1>4, <1>7, <2>2, <2>3, WriteList
<1>8. ASSUME NEW at \in {4, 8, 9}, NEW x, NEW y, Write(r, at, "prev", x, y),
             at = 4 => x = g.n /\ y = g.p,
             at = 8 => x = g.v /\ y = g.p,
             at = 9 => x = fakeTail /\ y = g.v
      PROVE  ListInv' /\ LruStep
  <2>1. g.at = at
    BY <1>1, <1>8 DEF Write
  <2>2. ASSUME NEW h, list' = [list EXCEPT !["prev"][x] = y],
               h.at = at + 1, h.v = g.v, h.p = g.p, h.n = g.n
        PROVE  Moving(list', l, h)
    <3>1. list'.prev = [list.prev EXCEPT ![x] = y] /\ list'.next = list.next
      BY <1>2, <2>2 DEF Lists
    <3>2. WritesPrev(list, list', g)
      BY <1>8, <2>1, <3>1 DEF WritesPrev
    <3> QED
      BY <1>2, <1>5, <2>1, <2>2, <3>2, MovesPrev
  <2>3. at \in 1 .. 10
    OBVIOUS
  <2> QED
    BY <1>1, <1>2, <1>4, <1>8, <2>2, <2>3, WriteList
<1>9. \/ Read(r, 1, list.prev[g.v], g.n)
      \/ Read(r, 2, g.p, list.next[g.v])
      \/ Write(r, 3, "next", g.p, g.n)
      \/ Write(r, 4, "prev", g.n, g.p)
      \/ Read(r, 5, list.prev[fakeTail], nil)
      \/ Write(r, 6, "next", g.p, g.v)
      \/ Read(r, 7, list.prev[fakeTail], nil)
      \/ Write(r, 8, "prev", g.v, g.p)
      \/ Write(r, 9, "prev", fakeTail, g.v)
      \/ Write(r, 10, "next", g.v, fakeTail)
  BY <1>1 DEF Relink
<1>10. CASE Read(r, 1, list.prev[g.v], g.n)
  BY <1>6, <1>10
<1>11. CASE Read(r, 2, g.p, list.next[g.v])
  BY <1>6, <1>11
<1>12. CASE Write(r, 3, "next", g.p, g.n)
  BY <1>7, <1>12
<1>13. CASE Write(r, 4, "prev", g.n, g.p)
  BY <1>8, <1>13
<1>14. CASE Read(r, 5, list.prev[fakeTail], nil)
  BY <1>6, <1>14
<1>15. CASE Write(r, 6, "next", g.p, g.v)
  BY <1>7, <1>15
<1>16. CASE Read(r, 7, list.prev[fakeTail], nil)
  BY <1>6, <1>16
<1>17. CASE Write(r, 8, "prev", g.v, g.p)
  BY <1>8, <1>17
<1>18. CASE Write(r, 9, "prev", fakeTail, g.v)
  BY <1>8, <1>18
<1>19. CASE Write(r, 10, "next", g.v, fakeTail)
  BY <1>7, <1>19
<1> QED
  BY <1>9, <1>10, <1>11, <1>12, <1>13, <1>14, <1>15, <1>16, <1>17, <1>18, <1>19

\* The node is at the tail, and the value has been returned.
LEMMA EndList ==
  ASSUME PointerInv, PointerInv', ListInv, ~ raced, NEW r \in Readers, GetEnd(r)
  PROVE  ListInv' /\ LruStep
<1>1. /\ get[r].at = 11 /\ get' = [get EXCEPT ![r] = Idle] /\ resp' = get[r].v
      /\ UNCHANGED <<vals, keyOf, list, len, raced>>
  BY DEF GetEnd
<1>2. /\ \A q \in Readers \ {r} : get[q].at = 0
      /\ Content(shown, vals, keyOf) /\ len \in Int /\ len >= Len(shown)
  BY <1>1 DEF ListInv, Alone
<1>3. shown' = Entries(list, keyOf)
  BY <1>2 DEF GetEnd, Show
<1>4. PICK l \in Lists : Follows(l)
  BY DEF ListInv
<1>5. PICK j \in 1 .. Len(shown) : shown[j][2] = get[r].v
  BY <1>1, <1>4 DEF Follows
<1>6. PICK v \in Nodes : v = get[r].v
  BY <1>2, <1>5 DEF Content, Row
<1>7. PICK m \in 0 .. MaxPuts : m = Len(keyOf)
  BY LenProperties, CmapAssumption DEF PointerInv
<1>8. shown \in Row /\ Distinct(shown) /\ Len(shown) \in Nat
  BY <1>2 DEF Content, Row
<1>9. PICK c : c = removeNode(l, v)
  OBVIOUS
<1>10. PICK s : s = Cut(shown, j)
  OBVIOUS
<1>11. Spells(l, shown) /\ list = addToTail(c, v)
  <2>1. Spells(l, shown) /\ Moving(list, l, get[r])
    BY <1>1, <1>4 DEF Follows
  <2>2. list = addToTail(removeNode(l, get[r].v), get[r].v)
    BY <1>1, <2>1 DEF Moving
  <2> QED
    BY <1>6, <1>9, <2>1, <2>2
<1>12. c \in Lists /\ Spells(c, s)
  BY <1>5, <1>6, <1>8, <1>9, <1>10, <1>11, CutSpells
<1>13. /\ s \in Row /\ Distinct(s) /\ Len(s) = Len(shown) - 1
       /\ \A i \in 1 .. Len(s) : s[i][2] # v
  <2>1. s \in Row /\ Len(s) = Len(shown) - 1
    BY <1>8, <1>10, CutIs
  <2>2. Distinct(s) /\ \A i \in 1 .. Len(s) : s[i][2] # shown[j][2]
    BY <1>8, <1>10, CutDistinct
  <2> QED
    BY <1>5, <1>6, <2>1, <2>2
<1>14. PICK k \in Key : shown[j] = <<k, v>> /\ shown[j][1] = k
  BY <1>5, <1>6, <1>8 DEF Row
<1>15. PICK a : a = Append(s, <<k, v>>)
  OBVIOUS
<1>16. a \in Row /\ Distinct(a) /\ Spells(list, a)
  BY <1>11, <1>12, <1>13, <1>15, AddSpells
<1>17. Content(a, vals, keyOf)
  BY <1>2, <1>10, <1>14, <1>15, <1>16, MoveContent
<1>18. list \in Lists /\ keyOf \in Seq(Key) /\ Len(keyOf) <= MaxPuts
  BY DEF PointerInv
<1>19. shown' = a
  BY <1>3, <1>16, <1>17, <1>18, ShowRow
<1>20. Len(a) = Len(shown)
  <2>1. <<k, v>> \in Key \X Nodes
    OBVIOUS
  <2> QED
    BY <1>8, <1>13, <1>15, <2>1, AppendProperties DEF Row
<1>21. ListInv'
  <2>1. \A q \in Readers : get'[q].at = 0
    BY <1>1, <1>2 DEF PointerInv, Idle
  <2>2. Alone'
    BY <2>1 DEF Alone
  <2>3. PICK x \in Lists : x = list
    BY <1>18
  <2>4. Follows(x)'
    <3>1. Spells(x, shown') /\ list' = x
      BY <1>1, <1>16, <1>19, <2>3
    <3> QED
      BY <2>1, <3>1 DEF Follows
  <2>5. Content(shown', vals', keyOf') /\ len' \in Int /\ len' >= Len(shown')
    BY <1>1, <1>2, <1>17, <1>19, <1>20
  <2> QED
    BY <2>2, <2>4, <2>5 DEF ListInv
<1>22. L!Get(k)
  <2>1. L!Has(k) /\ L!ValueOf(k) = v /\ L!Without(k) = s
    BY <1>2, <1>5, <1>6, <1>10, <1>14, Looked
  <2> QED
    BY <1>1, <1>6, <1>15, <1>19, <2>1 DEF L!Get
<1>23. L!LossyNext
  BY <1>22 DEF L!LossyNext
<1> QED
  BY <1>21, <1>23 DEF LruStep

LEMMA GetList ==
  ASSUME PointerInv, PointerInv', ListInv, ~ raced', NEW r \in Readers, Get(r)
  PROVE  ListInv' /\ LruStep
<1>1. ~ raced
  BY DEF Get, GetNothing, GetBegin, Relink, Read, Write, GetEnd
<1>2. CASE \E k \in Key : GetNothing(r, k)
  <2>1. PICK k \in Key : GetNothing(r, k)
    BY <1>2
  <2>2. /\ k \notin DOMAIN vals /\ resp' = nil
        /\ UNCHANGED <<vals, keyOf, list, len, get, raced, shown>>
    BY <2>1 DEF GetNothing
  <2>3. ListInv'
    BY <2>2 DEF ListInv, Alone, Follows
  <2>4. Content(shown, vals, keyOf)
    BY <1>1 DEF ListInv
  <2>5. L!Get(k)
    BY <2>2, <2>4, NotLooked DEF L!Get
  <2>6. L!LossyNext
    BY <2>5 DEF L!LossyNext
  <2> QED
    BY <2>3, <2>6 DEF LruStep
<1>3. CASE \E k \in Key : GetBegin(r, k)
  BY <1>3, BeginList
<1>4. CASE Relink(r)
  BY <1>1, <1>4, RelinkList
<1>5. CASE GetEnd(r)
  BY <1>1, <1>5, EndList
<1> QED
  BY <1>2, <1>3, <1>4, <1>5 DEF Get

LEMMA ListStep ==
  ASSUME PointerInv, PointerInv', ListInv, [Next]_vars
  PROVE  ListInv' /\ (LruStep \/ raced')
<1>1. CASE raced'
  BY <1>1 DEF ListInv
<1>2. CASE ~ raced'
  <2>1. CASE UNCHANGED vars
    BY <2>1 DEF vars, ListInv, Alone, Follows, LruStep, L!vars
  <2>2. CASE \E r \in Readers : Get(r)
    BY <1>2, <2>2, GetList
  <2>3. CASE \E k \in Key : Put(k)
    <3>1. PICK k \in Key : Put(k)
      BY <2>3
    <3>2. ~ raced
      BY <1>2, <3>1 DEF Put, PutUpdate, PutAdd, PutEvict
    <3> QED
      BY <1>2, <3>1, <3>2, UpdateList, AddList, EvictList DEF Put
  <2>4. CASE \E k \in Key : Delete(k)
    <3>1. PICK k \in Key : Delete(k)
      BY <2>4
    <3>2. ~ raced
      BY <1>2, <3>1 DEF Delete
    <3> QED
      BY <3>1, <3>2, DeleteList
  <2> QED
    BY <2>1, <2>2, <2>3, <2>4 DEF Next
<1> QED
  BY <1>1, <1>2

-----------------------------------------------------------------------------
LEMMA ListSteps ==
  Spec => [](PointerInv /\ ListInv) /\ [][LruStep \/ raced']_vars
<1>1. PointerInv /\ PointerInv' /\ ListInv /\ [Next]_vars => ListInv' /\ (LruStep \/ raced')
  BY ListStep
<1>2. PointerInv /\ PointerInv' /\ ListInv /\ [Next]_vars => [LruStep \/ raced']_vars
  BY <1>1
<1> QED
  BY <1>1, <1>2, InitPointers, PointerStep, InitList, PTL DEF Spec

LEMMA ListIsConsistent == ListInv => Consistent
<1> SUFFICES ASSUME ListInv, Locked, ~ raced PROVE Consistent
  BY DEF Consistent
<1> DEFINE nodes == {shown[i][2] : i \in DOMAIN shown}
           n == Len(shown)
<1>1. Spells(list, shown) /\ Content(shown, vals, keyOf) /\ len >= n
  BY AtRest
<1>2. /\ shown \in Row /\ Distinct(shown) /\ n \in Nat /\ DOMAIN shown = 1 .. n
  BY <1>1 DEF Content, Row
<1>3. nodes = {vals[k] : k \in DOMAIN vals}
  <2>1. \A i \in 1 .. n : shown[i][1] \in DOMAIN vals /\ vals[shown[i][1]] = shown[i][2]
    BY <1>1 DEF Content
  <2>2. \A k \in DOMAIN vals : \E i \in 1 .. n : shown[i][2] = vals[k]
    BY <1>1 DEF Content
  <2>3. \A x \in nodes : \E k \in DOMAIN vals : x = vals[k]
    BY <1>2, <2>1
  <2>4. \A k \in DOMAIN vals : vals[k] \in nodes
    BY <1>2, <2>2
  <2> HIDE DEF nodes
  <2> QED
    BY <2>3, <2>4
<1>4. Cardinality(nodes) = n
  <2> DEFINE f == [i \in 1 .. n |-> shown[i][2]]
  <2>1. f \in [1 .. n -> nodes]
    BY <1>2
  <2>2. \A x \in nodes : \E i \in 1 .. n : f[i] = x
    BY <1>2
  <2>3. \A i, j \in 1 .. n : f[i] = f[j] => i = j
    BY <1>2 DEF Distinct
  <2> HIDE DEF f, nodes
  <2>4. f \in Surjection(1 .. n, nodes)
    BY <2>1, <2>2 DEF Surjection
  <2>5. f \in Injection(1 .. n, nodes)
    BY <2>1, <2>3 DEF Injection, IsInjective
  <2>6. IsFiniteSet(1 .. n) /\ Cardinality(1 .. n) = n
    <3>1. 1 \in Int /\ n \in Int /\ (IF 1 > n THEN 0 ELSE n - 1 + 1) = n
      BY <1>2
    <3>2. IsFiniteSet(1 .. n) /\ Cardinality(1 .. n) = IF 1 > n THEN 0 ELSE n - 1 + 1
      BY <3>1, FS_Interval
    <3> QED
      BY <3>1, <3>2
  <2>7. Cardinality(nodes) = Cardinality(1 .. n) <=> f \in Injection(1 .. n, nodes)
    BY <2>4, <2>6, FS_Surjection
  <2> QED
    BY <2>5, <2>6, <2>7
<1>5. ASSUME NEW x \in nodes \cup {fakeHead} PROVE list.prev[list.next[x]] = x
  <2>1. \E i \in 0 .. n : Node(shown, i) = x
    <3>1. CASE x = fakeHead
      BY <1>2, <3>1, NodeIs
    <3>2. CASE x \in nodes
      <4>1. PICK i \in 1 .. n : shown[i][2] = x
        BY <1>2, <3>2
      <4> QED
        BY <1>2, <4>1, NodeIs
    <3> QED
      BY <1>5, <3>1, <3>2
  <2> QED
    BY <1>1, <2>1 DEF Spells
<1> HIDE DEF nodes
<1>6. /\ nodes = {vals[k] : k \in DOMAIN vals}
      /\ Cardinality(nodes) = Len(shown)
      /\ \A x \in nodes \cup {fakeHead} : list.prev[list.next[x]] = x
      /\ len >= Len(shown)
  BY <1>1, <1>3, <1>4, <1>5
<1> QED
  BY <1>6 DEF Consistent, nodes

\* As long as no two Gets have met, the list leads through the nodes of the
\* map in both directions, each once, and the counter is never behind them
\* (cmap.go, dll.go).
THEOREM ContainerIsConsistent == Spec => []Consistent
  BY ListSteps, ListIsConsistent, PTL

\* As long as no two Gets have met, the container is a map in order of use:
\* Get answers with the value put last, and nothing but the entry least
\* recently used is evicted (cmap.go:7-11).
THEOREM ContainerIsLru == Spec => ImplementsLossyLru
<1>1. Init => L!Init
  BY DEF Init, L!Init
<1>2. [LruStep \/ raced']_vars => [L!LossyNext \/ raced']_(L!vars)
  BY DEF LruStep, vars, L!vars
<1> QED
  BY <1>1, <1>2, ListSteps, PTL DEF Spec, ImplementsLossyLru
=============================================================================
