-------------------------------- MODULE Cmap ---------------------------------
(***************************************************************************)
(* The capped map of src/cmap: a Go map to the nodes of a doubly-linked    *)
(* list in order of use, and a counter of the entries.  Put and Delete run *)
(* under the container's lock.  Get takes the read lock only, although it  *)
(* relinks the list: the Gets of several goroutines (a bidder's updater    *)
(* and its PostKey) interleave at every single access to the list.         *)
(*                                                                         *)
(* A node stands for the value it holds; each Put makes the next one.      *)
(***************************************************************************)
EXTENDS Integers, Sequences, FiniteSets

CONSTANTS Key,
          Readers,    \* the goroutines that call Get
          Cap,        \* New rejects capacities below 1
          MaxPuts,    \* bounds the exploration: the number of Puts ...
          MaxGets     \* ... and of Gets that find a node

ASSUME CmapAssumption ==
  Cap \in Nat \ {0} /\ MaxPuts \in Nat \ {0} /\ MaxGets \in Nat

Nodes == 1 .. MaxPuts
fakeHead == 0
fakeTail == MaxPuts + 1
nil == -1

VARIABLES vals,    \* key -> node, for the keys present
          keyOf,   \* the keys of the nodes made so far
          list,    \* the pointers next and prev of every node
          len,     \* the counter
          get,     \* the Gets under way: the next access to the list (0 for
                   \* none), the node, and the local variables prev and next
          gets,    \* the number of these so far
          panic,   \* the operation that dereferenced nil, or "none"
          raced,   \* history: two Gets were relinking at the same time
          shown,   \* history: the list as nobody was at it, while ~ raced
          resp     \* the answer to the last Get, while ~ raced

vars == <<vals, keyOf, list, len, get, gets, panic, raced, shown, resp>>

Idle == [at |-> 0, v |-> nil, p |-> nil, n |-> nil]
GetOf(v) == [at |-> 1, v |-> v, p |-> nil, n |-> nil]

Init ==
  /\ vals = [k \in {} |-> nil]
  /\ keyOf = <<>>
  /\ list = [next |-> [x \in 0 .. fakeTail |-> IF x = fakeHead THEN fakeTail ELSE nil],
             prev |-> [x \in 0 .. fakeTail |-> IF x = fakeTail THEN fakeHead ELSE nil]]
  /\ len = 0
  /\ get = [r \in Readers |-> Idle]
  /\ gets = 0
  /\ panic = "none"
  /\ raced = FALSE
  /\ shown = <<>>
  /\ resp = nil

Drop(f, k) == [x \in DOMAIN f \ {k} |-> f[x]]
With(f, k, v) == [x \in DOMAIN f \cup {k} |-> IF x = k THEN v ELSE f[x]]

-----------------------------------------------------------------------------
\* The operations on the list, in one go.
Linked(l, v) == l.prev[v] # nil /\ l.next[v] # nil

removeNode(l, v) ==
  [next |-> [l.next EXCEPT ![l.prev[v]] = l.next[v]],
   prev |-> [l.prev EXCEPT ![l.next[v]] = l.prev[v]]]

addToTail(l, v) ==
  [next |-> [l.next EXCEPT ![l.prev[fakeTail]] = v, ![v] = fakeTail],
   prev |-> [l.prev EXCEPT ![v] = l.prev[fakeTail], ![fakeTail] = v]]

\* The keys and values between fakeHead and fakeTail.
Entries(l, keys) ==
  LET walk[i \in Nodes] ==
        LET x == IF i = 1 THEN fakeHead ELSE walk[i - 1]
        IN  IF x = fakeTail THEN x ELSE l.next[x]
      length == Cardinality({i \in Nodes : walk[i] # fakeTail})
  IN  [i \in 1 .. length |-> <<keys[walk[i]], walk[i]>>]

\* The history of a step that leaves nobody at the list.
Show(l, keys) == shown' = IF raced THEN <<>> ELSE Entries(l, keys)

-----------------------------------------------------------------------------
\* Get holds the read lock.  It finds no node for the key ...
GetNothing(r, k) ==
  /\ panic = "none"
  /\ get[r].at = 0
  /\ k \notin DOMAIN vals
  /\ resp' = nil
  /\ UNCHANGED <<vals, keyOf, list, len, get, gets, panic, raced, shown>>

\* ... or finds one, and begins to move it to the tail.
GetBegin(r, k) ==
  /\ panic = "none"
  /\ get[r].at = 0
  /\ k \in DOMAIN vals
  /\ gets < MaxGets /\ gets' = gets + 1
  /\ get' = [get EXCEPT ![r] = GetOf(vals[k])]
  /\ raced' = (raced \/ \E s \in Readers : get[s].at # 0)
  /\ IF raced' THEN shown' = <<>> /\ resp' = nil ELSE UNCHANGED <<shown, resp>>
  /\ UNCHANGED <<vals, keyOf, list, len, panic>>

\* Access number `at' of Get r reads a pointer into p or n ...
Read(r, at, p, n) ==
  /\ get[r].at = at
  /\ get' = [get EXCEPT ![r] = [@ EXCEPT !.at = at + 1, !.p = p, !.n = n]]
  /\ UNCHANGED <<vals, keyOf, list, len, gets, panic, raced, shown, resp>>

\* ... or writes one, the field f of node x.
Write(r, at, f, x, y) ==
  /\ get[r].at = at
  /\ IF x = nil
       THEN panic' = "get" /\ UNCHANGED <<list, get>>
       ELSE /\ list' = [list EXCEPT ![f][x] = y]
            /\ get' = [get EXCEPT ![r].at = at + 1]
            /\ UNCHANGED panic
  /\ UNCHANGED <<vals, keyOf, len, gets, raced, shown, resp>>

\* Mutant: the node is left where it is.
RelinkNot(r) ==
  /\ panic = "none"
  /\ get[r].at \in 1 .. 10
  /\ get' = [get EXCEPT ![r].at = 11]
  /\ UNCHANGED <<vals, keyOf, list, len, gets, panic, raced, shown, resp>>

\* Mutant: removeNode clears the pointers of the node it takes out.
RelinkCleared(r) ==
  LET g == get[r] IN
  /\ panic = "none"
  /\ \/ Read(r, 1, list.prev[g.v], g.n)
     \/ Read(r, 2, g.p, list.next[g.v])
     \/ Write(r, 3, "next", g.p, g.n)
     \/ Write(r, 4, "prev", g.n, g.p)
     \/ Write(r, 5, "prev", g.v, nil)
     \/ Write(r, 6, "next", list.prev[fakeTail], g.v)
     \/ Read(r, 7, list.prev[fakeTail], nil)
     \/ Write(r, 8, "prev", g.v, g.p)
     \/ Write(r, 9, "prev", fakeTail, g.v)
     \/ Write(r, 10, "next", g.v, fakeTail)

\* moveToTail: removeNode, then addToTail.
Relink(r) ==
  LET g == get[r] IN
  /\ panic = "none"
  /\ \/ Read(r, 1, list.prev[g.v], g.n)
     \/ Read(r, 2, g.p, list.next[g.v])
     \/ Write(r, 3, "next", g.p, g.n)
     \/ Write(r, 4, "prev", g.n, g.p)
     \/ Read(r, 5, list.prev[fakeTail], nil)
     \/ Write(r, 6, "next", g.p, g.v)
     \/ Read(r, 7, list.prev[fakeTail], nil)
     \/ Write(r, 8, "prev", g.v, g.p)
     \/ Write(r, 9, "prev", fakeTail, g.v)
     \/ Write(r, 10, "next", g.v, fakeTail)

\* Get releases the lock and answers.
GetEnd(r) ==
  LET others == \E s \in Readers \ {r} : get[s].at # 0 IN
  /\ panic = "none"
  /\ get[r].at = 11
  /\ get' = [get EXCEPT ![r] = Idle]
  /\ resp' = IF raced THEN nil ELSE get[r].v
  /\ IF others THEN UNCHANGED shown ELSE Show(list, keyOf)
  /\ UNCHANGED <<vals, keyOf, list, len, gets, panic, raced>>

-----------------------------------------------------------------------------
\* Put and Delete have the container to themselves.
Locked == panic = "none" /\ \A r \in Readers : get[r].at = 0

New == Len(keyOf) + 1

\* The new node goes to the tail of list l and into the map m.
Insert(k, m, l) ==
  /\ vals' = With(m, k, New)
  /\ keyOf' = Append(keyOf, k)
  /\ list' = addToTail(l, New)
  /\ Show(list', keyOf')

\* Mutant: the old node of the key stays in the list.
PutUpdateLeaving(k) ==
  /\ Locked /\ New \in Nodes
  /\ k \in DOMAIN vals
  /\ Insert(k, Drop(vals, k), list)
  /\ len' = len + 1
  /\ UNCHANGED <<get, gets, panic, raced, resp>>

\* Put of a key that is present: its node is replaced.  The counter goes up.
PutUpdate(k) ==
  /\ Locked /\ New \in Nodes
  /\ k \in DOMAIN vals
  /\ IF Linked(list, vals[k])
       THEN /\ Insert(k, Drop(vals, k), removeNode(list, vals[k]))
            /\ len' = len + 1
            /\ UNCHANGED panic
       ELSE panic' = "put" /\ UNCHANGED <<vals, keyOf, list, len, shown>>
  /\ UNCHANGED <<get, gets, raced, resp>>

PutAdd(k) ==
  /\ Locked /\ New \in Nodes
  /\ k \notin DOMAIN vals
  /\ len # Cap
  /\ Insert(k, vals, list)
  /\ len' = len + 1
  /\ UNCHANGED <<get, gets, panic, raced, resp>>

\* The counter is at Cap: the node after fakeHead goes.  In an empty list
\* that is fakeTail, whose next is nil.
PutEvict(k) ==
  LET excessNode == list.next[fakeHead] IN
  /\ Locked /\ New \in Nodes
  /\ k \notin DOMAIN vals
  /\ len = Cap
  /\ IF Linked(list, excessNode)
       THEN /\ Insert(k, Drop(vals, keyOf[excessNode]),
                      removeNode(list, excessNode))
            /\ UNCHANGED panic
       ELSE panic' = "evict" /\ UNCHANGED <<vals, keyOf, list, shown>>
  /\ UNCHANGED <<len, get, gets, raced, resp>>

Delete(k) ==
  /\ Locked
  /\ k \in DOMAIN vals
  /\ IF Linked(list, vals[k])
       THEN /\ vals' = Drop(vals, k)
            /\ list' = removeNode(list, vals[k])
            /\ len' = len - 1
            /\ Show(list', keyOf)
            /\ UNCHANGED panic
       ELSE panic' = "delete" /\ UNCHANGED <<vals, list, len, shown>>
  /\ UNCHANGED <<keyOf, get, gets, raced, resp>>

Get(r) == \/ \E k \in Key : GetNothing(r, k) \/ GetBegin(r, k)
          \/ Relink(r)
          \/ GetEnd(r)
Put(k) == PutUpdate(k) \/ PutAdd(k) \/ PutEvict(k)

Next ==
  \/ \E r \in Readers : Get(r)
  \/ \E k \in Key : Put(k) \/ Delete(k)

Spec == Init /\ [][Next]_vars

-----------------------------------------------------------------------------
\* As long as no two Gets have met, the list between fakeHead and fakeTail,
\* followed in either direction, holds the nodes of the map, each once, and
\* the counter is never behind: it may evict too early, and then never again,
\* but the container loses no track of its nodes (cmap.go, dll.go).
Consistent ==
  (Locked /\ ~ raced) =>
    LET nodes == {shown[i][2] : i \in DOMAIN shown} IN
    /\ nodes = {vals[k] : k \in DOMAIN vals}
    /\ Cardinality(nodes) = Len(shown)
    /\ \A x \in nodes \cup {fakeHead} : list.prev[list.next[x]] = x
    /\ len >= Len(shown)

\* The container as a map in order of use: module Lru.
L == INSTANCE Lru WITH cache <- shown, Val <- Nodes, None <- nil

\* As long as no two Gets have met, Get answers with the value put last, and
\* only the least recently used entry is ever evicted (cmap.go:7-11),
\* whatever the counter says.
ImplementsLossyLru == L!Init /\ [][L!LossyNext \/ raced']_(L!vars)

\* Two Gets at the same time may mix up the list, down to a node that is its
\* own predecessor.  Still no operation dereferences nil in it, except an
\* eviction, which comes with the counter at Cap: a bidder's Puts do not get
\* there (cmap.go:43-50, dll.go).
OnlyEvictionPanics == panic \in {"none", "evict"}
=============================================================================
