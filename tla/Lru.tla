--------------------------------- MODULE Lru ---------------------------------
(***************************************************************************)
(* What the comment on cmap.Container (src/cmap/cmap.go) promises: a map   *)
(* of at most Cap entries which, when it is full, makes room for a new key *)
(* by evicting the entry that was not used for the longest time.           *)
(*                                                                         *)
(* LossySpec is the weaker promise of a map that evicts that same entry,   *)
(* and no other, but at whatever time it pleases.                          *)
(***************************************************************************)
EXTENDS Integers, Sequences

CONSTANTS Key, Val, Cap, None

VARIABLES cache,   \* entries <<key, value>>, the least recently used first
          resp     \* the answer to the last Get

vars == <<cache, resp>>

Has(k) == \E i \in DOMAIN cache : cache[i][1] = k
At(k) == CHOOSE i \in DOMAIN cache : cache[i][1] = k
ValueOf(k) == cache[At(k)][2]

\* The entries but that of k.
Without(k) ==
  IF Has(k) THEN [i \in 1 .. Len(cache) - 1 |-> cache[IF i < At(k) THEN i ELSE i + 1]]
            ELSE cache

Init == cache = <<>> /\ resp = None

Get(k) ==
  IF Has(k)
    THEN /\ cache' = Append(Without(k), <<k, ValueOf(k)>>)
         /\ resp' = ValueOf(k)
    ELSE resp' = None /\ UNCHANGED cache

\* Kept entries are followed by the new one.
Store(kept, k, v) == cache' = Append(kept, <<k, v>>) /\ UNCHANGED resp

Update(k, v) == Has(k) /\ Store(Without(k), k, v)
Add(k, v) == ~ Has(k) /\ Store(cache, k, v)
Replace(k, v) == ~ Has(k) /\ cache # <<>> /\ Store(Tail(cache), k, v)

Delete(k) == cache' = Without(k) /\ UNCHANGED resp

Put(k, v) ==
  \/ Update(k, v)
  \/ Len(cache) < Cap /\ Add(k, v)
  \/ Len(cache) = Cap /\ Replace(k, v)

Next ==
  \/ \E k \in Key : Get(k) \/ Delete(k)
  \/ \E k \in Key, v \in Val : Put(k, v)

Spec == Init /\ [][Next]_vars

LossyNext ==
  \/ \E k \in Key : Get(k) \/ Delete(k)
  \/ \E k \in Key, v \in Val : Update(k, v) \/ Add(k, v) \/ Replace(k, v)

LossySpec == Init /\ [][LossyNext]_vars
=============================================================================
