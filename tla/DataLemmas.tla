---------------------------- MODULE DataLemmas ------------------------------
(***************************************************************************)
(* Facts about the data of the other modules: least elements, recursion,   *)
(* queues, and sums over finite sets.                                      *)
(***************************************************************************)
EXTENDS Integers, Sequences, Functions, FiniteSetTheorems, TLAPS

(***************************************************************************)
(* Induction.  What holds of all numbers, or of all finite sets, is proved *)
(* from its least counterexample.                                          *)
(***************************************************************************)
\* A set of numbers has a least one.
LEMMA LeastNat ==
  ASSUME NEW T, T \subseteq Nat, T # {}
  PROVE  \E n \in T : \A m \in T : n <= m
<1> DEFINE R == {ss \in Nat \X Nat : ss[1] < ss[2]}
<1>1. IsWellFoundedOn(R, Nat)
  BY NatLessThanWellFounded DEF OpToRel
<1> HIDE DEF R
<1>2. PICK n \in T : \A m \in T : ~ (<<m, n>> \in R)
  BY <1>1, WFMin
<1>3. ASSUME NEW m \in T PROVE n <= m
  <2>1. m \in Nat /\ n \in Nat
    OBVIOUS
  <2>2. <<m, n>> \notin R
    BY <1>2
  <2> QED
    BY <2>1, <2>2 DEF R
<1> QED
  BY <1>3

\* A set of finite sets, if it is not empty, has a member that no other one
\* is left of when an element is removed.
LEMMA Smallest ==
  ASSUME NEW C, C # {}, \A T \in C : IsFiniteSet(T)
  PROVE  \E T \in C : \A x \in T : T \ {x} \notin C
<1> DEFINE N == {Cardinality(T) : T \in C}
<1>1. N \subseteq Nat /\ N # {}
  BY FS_CardinalityType
<1>2. PICK n \in N : \A m \in N : n <= m
  <2> HIDE DEF N
  <2> QED
    BY <1>1, LeastNat
<1>3. PICK T \in C : n = Cardinality(T)
  OBVIOUS
<1>4. ASSUME NEW x \in T, T \ {x} \in C PROVE FALSE
  <2>1. Cardinality(T \ {x}) = Cardinality(T) - 1
    BY FS_RemoveElement
  <2>2. Cardinality(T \ {x}) \in N /\ n \in Nat
    BY <1>1, <1>4
  <2>3. n <= Cardinality(T \ {x})
    BY <1>2, <2>2
  <2> QED
    BY <1>3, <2>1, <2>2, <2>3
<1> QED
  BY <1>4

\* A set of numbers up to n has a greatest one.
LEMMA GreatestUpTo ==
  ASSUME NEW n \in Nat, NEW T, T \subseteq 1 .. n, T # {}
  PROVE  \E m \in T : \A k \in T : k <= m
<1> DEFINE B == {k \in Nat : n - k \in T}
<1>1. B \subseteq Nat /\ B # {}
  <2>1. PICK k \in T : TRUE
    OBVIOUS
  <2>2. n - k \in Nat /\ n - (n - k) = k
    BY <2>1
  <2> QED
    BY <2>1, <2>2
<1> HIDE DEF B
<1>2. PICK i \in B : \A k \in B : i <= k
  BY <1>1, LeastNat
<1>3. i \in Nat /\ n - i \in T
  BY <1>2 DEF B
<1>4. ASSUME NEW k \in T PROVE k <= n - i
  <2>1. k \in Nat /\ n - k \in Nat /\ n - (n - k) = k
    OBVIOUS
  <2>2. i <= n - k
    BY <1>2, <2>1 DEF B
  <2> QED
    BY <1>3, <2>1, <2>2
<1> QED
  BY <1>3, <1>4

\* What is defined by recursion up to n is there: the values of X that the
\* functions st[1], ..., st[n] lead to from x.
Leads(f, x, n, st) == f[0] = x /\ \A i \in 1 .. n : f[i] = st[i][f[i - 1]]

LEMMA Iterates ==
  ASSUME NEW X, NEW x \in X, NEW n \in Nat, NEW st \in [1 .. n -> [X -> X]]
  PROVE  \E f \in [0 .. n -> X] : Leads(f, x, n, st)
<1> DEFINE Up(m, f) == f[0] = x /\ \A i \in 1 .. m : f[i] = st[i][f[i - 1]]
           B == {m \in 0 .. n : ~ \E f \in [0 .. m -> X] : Up(m, f)}
<1>1. ASSUME B # {} PROVE FALSE
  <2>1. B \subseteq Nat
    OBVIOUS
  <2> HIDE DEF B
  <2>2. PICK m \in B : \A k \in B : m <= k
    BY <1>1, <2>1, LeastNat
  <2>3. m \in 0 .. n /\ ~ \E f \in [0 .. m -> X] : Up(m, f)
    BY <2>2 DEF B
  <2>4. CASE m = 0
    <3>1. PICK f \in [0 .. m -> X] : f = [i \in 0 .. m |-> x]
      OBVIOUS
    <3>2. Up(m, f)
      BY <2>4, <3>1
    <3> QED
      BY <2>3, <3>2
  <2>5. CASE m # 0
    <3>1. m - 1 \in 0 .. n /\ m \in 1 .. n /\ ~ (m <= m - 1) /\ m \in Nat
      BY <2>3, <2>5
    <3>2. m - 1 \notin B
      BY <2>2, <3>1
    <3>3. PICK f \in [0 .. m - 1 -> X] : Up(m - 1, f)
      BY <3>1, <3>2 DEF B
    <3>4. f[m - 1] \in X
      BY <3>1
    <3>5. st[m][f[m - 1]] \in X
      BY <3>1, <3>4
    <3>6. PICK h \in [0 .. m -> X] :
            \A i \in 0 .. m : h[i] = IF i = m THEN st[m][f[m - 1]] ELSE f[i]
      <4> DEFINE h == [i \in 0 .. m |-> IF i = m THEN st[m][f[m - 1]] ELSE f[i]]
      <4>1. \A i \in 0 .. m : i = m \/ i \in 0 .. m - 1
        BY <3>1
      <4>2. h \in [0 .. m -> X]
        BY <3>5, <4>1
      <4> QED
        BY <4>2
    <3>7. Up(m, h)
      <4>1. h[0] = x
        BY <3>1, <3>3, <3>6
      <4>2. ASSUME NEW i \in 1 .. m PROVE h[i] = st[i][h[i - 1]]
        <5>1. i - 1 \in 0 .. m /\ i \in 0 .. m /\ i - 1 # m
          BY <3>1
        <5>2. h[i - 1] = f[i - 1]
          BY <3>6, <5>1
        <5>3. CASE i = m
          BY <3>6, <5>1, <5>2, <5>3
        <5>4. CASE i # m
          <6>1. i \in 1 .. m - 1
            BY <3>1, <5>4
          <6> QED
            BY <3>3, <3>6, <5>1, <5>2, <5>4, <6>1
        <5> QED
          BY <5>3, <5>4
      <4> QED
        BY <4>1, <4>2
    <3> QED
      BY <2>3, <3>7
  <2> QED
    BY <2>4, <2>5
<1>2. n \notin B
  BY <1>1
<1> QED
  BY <1>2 DEF Leads

-----------------------------------------------------------------------------
(***************************************************************************)
(* A queue is a sequence of numbers (slots, or rows of a trace) that are   *)
(* put in at the end and taken off at the front.                           *)
(***************************************************************************)

\* What is in a queue.
In(q) == {q[j] : j \in DOMAIN q}

\* A queue that holds its elements in order.
Ascends(q) == \A j, k \in DOMAIN q : j < k => q[j] < q[k]

\* Every element of S comes before every element of T.
Below(S, T) == \A s \in S, t \in T : s < t

LEMMA EmptyQueue == In(<<>>) = {} /\ Ascends(<<>>)
  BY DEF In, Ascends

LEMMA InType ==
  ASSUME NEW S, NEW q \in Seq(S)
  PROVE  In(q) \subseteq S
  BY DEF In

LEMMA AppendQueue ==
  ASSUME NEW q \in Seq(Int), NEW n \in Int
  PROVE  /\ Append(q, n) \in Seq(Int)
         /\ Len(Append(q, n)) = Len(q) + 1
         /\ In(Append(q, n)) = In(q) \cup {n}
<1>1. /\ Append(q, n) \in Seq(Int) /\ Len(Append(q, n)) = Len(q) + 1
      /\ DOMAIN Append(q, n) = 1 .. Len(q) + 1 /\ DOMAIN q = 1 .. Len(q)
      /\ Len(q) \in Nat
  OBVIOUS
<1>2. \A j \in 1 .. Len(q) : Append(q, n)[j] = q[j]
  OBVIOUS
<1>3. Append(q, n)[Len(q) + 1] = n
  OBVIOUS
<1>4. In(q) \cup {n} \subseteq In(Append(q, n))
  BY <1>1, <1>2, <1>3 DEF In
<1>5. In(Append(q, n)) \subseteq In(q) \cup {n}
  <2> SUFFICES ASSUME NEW j \in 1 .. Len(q) + 1
               PROVE  Append(q, n)[j] \in In(q) \cup {n}
    BY <1>1 DEF In
  <2>1. j \in 1 .. Len(q) \/ j = Len(q) + 1
    BY <1>1
  <2> QED
    BY <2>1, <1>1, <1>2, <1>3 DEF In
<1> QED
  BY <1>1, <1>4, <1>5

LEMMA AppendAscends ==
  ASSUME NEW q \in Seq(Int), NEW n \in Int, Ascends(q), Below(In(q), {n})
  PROVE  Ascends(Append(q, n))
<1>1. /\ DOMAIN Append(q, n) = 1 .. Len(q) + 1 /\ DOMAIN q = 1 .. Len(q)
      /\ Len(q) \in Nat
      /\ \A j \in 1 .. Len(q) : Append(q, n)[j] = q[j]
      /\ Append(q, n)[Len(q) + 1] = n
  OBVIOUS
<1> SUFFICES ASSUME NEW j \in 1 .. Len(q) + 1, NEW k \in 1 .. Len(q) + 1, j < k
             PROVE  Append(q, n)[j] < Append(q, n)[k]
  BY <1>1 DEF Ascends
<1>2. j \in 1 .. Len(q)
  BY <1>1
<1>3. CASE k \in 1 .. Len(q)
  BY <1>1, <1>2, <1>3 DEF Ascends
<1>4. CASE k = Len(q) + 1
  <2>1. q[j] \in In(q)
    BY <1>1, <1>2 DEF In
  <2> QED
    BY <1>1, <1>2, <1>4, <2>1 DEF Below
<1> QED
  BY <1>1, <1>3, <1>4

LEMMA TailQueue ==
  ASSUME NEW q \in Seq(Int), q # <<>>
  PROVE  /\ Head(q) \in Int
         /\ Tail(q) \in Seq(Int)
         /\ Len(Tail(q)) = Len(q) - 1
         /\ In(q) = {Head(q)} \cup In(Tail(q))
         /\ Ascends(q) => Ascends(Tail(q)) /\ Below({Head(q)}, In(Tail(q)))
<1>1. /\ Tail(q) \in Seq(Int) /\ Len(Tail(q)) = Len(q) - 1
      /\ DOMAIN Tail(q) = 1 .. Len(q) - 1 /\ DOMAIN q = 1 .. Len(q)
      /\ Len(q) \in Nat \ {0}
      /\ Head(q) = q[1] /\ q[1] \in Int
  OBVIOUS
<1>2. \A j \in 1 .. Len(q) - 1 : Tail(q)[j] = q[j + 1] /\ j + 1 \in 1 .. Len(q)
  BY <1>1
<1>3. {Head(q)} \cup In(Tail(q)) \subseteq In(q)
  BY <1>1, <1>2 DEF In
<1>4. In(q) \subseteq {Head(q)} \cup In(Tail(q))
  <2> SUFFICES ASSUME NEW j \in 1 .. Len(q)
               PROVE  q[j] \in {Head(q)} \cup In(Tail(q))
    BY <1>1 DEF In
  <2>1. CASE j = 1
    BY <1>1, <2>1
  <2>2. CASE j # 1
    <3>1. j - 1 \in 1 .. Len(q) - 1 /\ (j - 1) + 1 = j
      BY <1>1, <2>2
    <3>2. Tail(q)[j - 1] = q[j]
      BY <1>2, <3>1
    <3>3. Tail(q)[j - 1] \in In(Tail(q))
      BY <1>1, <3>1 DEF In
    <3> QED
      BY <3>2, <3>3
  <2> QED
    BY <2>1, <2>2
<1>5. ASSUME Ascends(q)
      PROVE  Ascends(Tail(q)) /\ Below({Head(q)}, In(Tail(q)))
  <2>1. Ascends(Tail(q))
    BY <1>1, <1>2, <1>5, SMTT(30) DEF Ascends
  <2>2. ASSUME NEW j \in 1 .. Len(q) - 1
        PROVE  q[1] < Tail(q)[j]
    BY <1>1, <1>2, <1>5, SMTT(30) DEF Ascends
  <2> QED
    BY <1>1, <2>1, <2>2 DEF Below, In
<1> QED
  BY <1>1, <1>3, <1>4, <1>5

LEMMA ConcatQueue ==
  ASSUME NEW p \in Seq(Int), NEW q \in Seq(Int)
  PROVE  /\ In(p \o q) = In(p) \cup In(q)
         /\ Ascends(p) /\ Ascends(q) /\ Below(In(p), In(q)) => Ascends(p \o q)
<1> DEFINE c == p \o q
<1>1. /\ DOMAIN p = 1 .. Len(p) /\ DOMAIN q = 1 .. Len(q)
      /\ DOMAIN c = 1 .. Len(p) + Len(q)
      /\ Len(p) \in Nat /\ Len(q) \in Nat
  OBVIOUS
<1>2. \A j \in 1 .. Len(p) : c[j] = p[j] /\ j \in 1 .. Len(p) + Len(q)
  BY <1>1
<1>3. \A j \in 1 .. Len(q) : c[Len(p) + j] = q[j] /\ Len(p) + j \in 1 .. Len(p) + Len(q)
  BY <1>1
<1>4. \A j \in 1 .. Len(p) + Len(q) :
        j \in 1 .. Len(p) \/ \E k \in 1 .. Len(q) : j = Len(p) + k
  <2> SUFFICES ASSUME NEW j \in 1 .. Len(p) + Len(q), j \notin 1 .. Len(p)
               PROVE  \E k \in 1 .. Len(q) : j = Len(p) + k
    OBVIOUS
  <2>1. j - Len(p) \in 1 .. Len(q) /\ j = Len(p) + (j - Len(p))
    BY <1>1
  <2> QED
    BY <2>1
<1> HIDE DEF c
<1>5. In(c) = In(p) \cup In(q)
  <2>1. ASSUME NEW x \in In(c) PROVE x \in In(p) \cup In(q)
    <3>1. PICK j \in 1 .. Len(p) + Len(q) : x = c[j]
      BY <1>1, <2>1 DEF In
    <3>2. CASE j \in 1 .. Len(p)
      BY <1>1, <1>2, <3>1, <3>2 DEF In
    <3>3. CASE j \notin 1 .. Len(p)
      <4>1. PICK k \in 1 .. Len(q) : j = Len(p) + k
        BY <1>4, <3>3
      <4> QED
        BY <1>1, <1>3, <3>1, <4>1 DEF In
    <3> QED
      BY <3>2, <3>3
  <2>2. In(p) \subseteq In(c)
    BY <1>1, <1>2 DEF In
  <2>3. In(q) \subseteq In(c)
    BY <1>1, <1>3 DEF In
  <2> QED
    BY <2>1, <2>2, <2>3
<1>6. ASSUME Ascends(p), Ascends(q), Below(In(p), In(q)),
             NEW j \in 1 .. Len(p) + Len(q), NEW k \in 1 .. Len(p) + Len(q), j < k
      PROVE  c[j] < c[k]
  <2>1. CASE j \in 1 .. Len(p) /\ k \in 1 .. Len(p)
    BY <1>1, <1>2, <1>6, <2>1 DEF Ascends
  <2>2. CASE j \in 1 .. Len(p) /\ k \notin 1 .. Len(p)
    <3>1. PICK m \in 1 .. Len(q) : k = Len(p) + m
      BY <1>4, <2>2
    <3>2. p[j] < q[m]
      BY <1>1, <1>6, <2>2 DEF Below, In
    <3> QED
      BY <1>2, <1>3, <2>2, <3>1, <3>2
  <2>3. CASE j \notin 1 .. Len(p)
    <3>1. PICK l \in 1 .. Len(q) : j = Len(p) + l
      BY <1>4, <2>3
    <3>2. k \notin 1 .. Len(p)
      BY <1>1, <1>6, <2>3
    <3>3. PICK m \in 1 .. Len(q) : k = Len(p) + m
      BY <1>4, <3>2
    <3>4. l < m
      BY <1>1, <1>6, <3>1, <3>3
    <3>5. q[l] < q[m]
      BY <1>1, <1>6, <3>4 DEF Ascends
    <3> QED
      BY <1>3, <3>1, <3>3, <3>5
  <2> QED
    BY <2>1, <2>2, <2>3
<1>7. Ascends(p) /\ Ascends(q) /\ Below(In(p), In(q)) => Ascends(c)
  BY <1>1, <1>6 DEF Ascends
<1> QED
  BY <1>5, <1>7 DEF c

-----------------------------------------------------------------------------
(***************************************************************************)
(* Numbers that pass through two queues: p is filled from q, D are those   *)
(* taken off p, and n is the last one put in q.                            *)
(***************************************************************************)
Passes(D, p, q, n) ==
  /\ Ascends(p) /\ Ascends(q)
  /\ Below(D, In(p)) /\ Below(D, In(q)) /\ Below(In(p), In(q))
  /\ D \cup In(p) \cup In(q) \subseteq 0 .. n

NoneLost(D, p, q, n) == 0 .. n \subseteq D \cup In(p) \cup In(q)

\* The next number is put in.
LEMMA Arrives ==
  ASSUME NEW D, NEW p \in Seq(Int), NEW q \in Seq(Int), NEW n \in Int, n >= -1,
         Passes(D, p, q, n)
  PROVE  /\ Passes(D, p, Append(q, n + 1), n + 1)
         /\ \A E : NoneLost(E, p, q, n) => NoneLost(E, p, Append(q, n + 1), n + 1)
<1>1. In(Append(q, n + 1)) = In(q) \cup {n + 1}
  BY AppendQueue
<1>2. Below(D, {n + 1}) /\ Below(In(p), {n + 1}) /\ Below(In(q), {n + 1})
  BY DEF Passes, Below
<1>3. Ascends(Append(q, n + 1))
  BY <1>2, AppendAscends DEF Passes
<1>4. 0 .. n + 1 = 0 .. n \cup {n + 1}
  OBVIOUS
<1>5. /\ Below(D, In(q) \cup {n + 1}) /\ Below(In(p), In(q) \cup {n + 1})
  BY <1>2 DEF Passes, Below
<1>6. Passes(D, p, Append(q, n + 1), n + 1)
  BY <1>1, <1>3, <1>4, <1>5 DEF Passes
<1>7. \A E : NoneLost(E, p, q, n) => NoneLost(E, p, Append(q, n + 1), n + 1)
  BY <1>1, <1>4 DEF NoneLost
<1> QED
  BY <1>6, <1>7

\* There is no room for it.
LEMMA Misses ==
  ASSUME NEW D, NEW p, NEW q, NEW n \in Int, n >= -1, Passes(D, p, q, n)
  PROVE  Passes(D, p, q, n + 1)
<1>1. 0 .. n \subseteq 0 .. n + 1
  OBVIOUS
<1> QED
  BY <1>1 DEF Passes

\* A number is moved from q to p.
LEMMA Moves ==
  ASSUME NEW D, NEW p \in Seq(Int), NEW q \in Seq(Int), q # <<>>, NEW n \in Int,
         Passes(D, p, q, n)
  PROVE  /\ Passes(D, Append(p, Head(q)), Tail(q), n)
         /\ \A E : NoneLost(E, p, q, n) => NoneLost(E, Append(p, Head(q)), Tail(q), n)
<1>1. /\ Head(q) \in Int
      /\ In(q) = {Head(q)} \cup In(Tail(q))
      /\ Ascends(Tail(q)) /\ Below({Head(q)}, In(Tail(q)))
  BY TailQueue DEF Passes
<1>2. In(Append(p, Head(q))) = In(p) \cup {Head(q)}
  BY <1>1, AppendQueue
<1>3. Below(In(p), {Head(q)})
  BY <1>1 DEF Passes, Below
<1>4. Ascends(Append(p, Head(q)))
  BY <1>1, <1>3, AppendAscends DEF Passes
<1>5. /\ Below(D, In(p) \cup {Head(q)}) /\ Below(D, In(Tail(q)))
      /\ Below(In(p) \cup {Head(q)}, In(Tail(q)))
  BY <1>1 DEF Passes, Below
<1>6. (In(p) \cup {Head(q)}) \cup In(Tail(q)) = In(p) \cup In(q)
  BY <1>1
<1>7. Passes(D, Append(p, Head(q)), Tail(q), n)
  BY <1>1, <1>2, <1>4, <1>5, <1>6 DEF Passes
<1>8. \A E : NoneLost(E, p, q, n) => NoneLost(E, Append(p, Head(q)), Tail(q), n)
  BY <1>2, <1>6 DEF NoneLost
<1> QED
  BY <1>7, <1>8

\* It is not moved but dropped.
LEMMA Drops ==
  ASSUME NEW D, NEW p, NEW q \in Seq(Int), q # <<>>, NEW n, Passes(D, p, q, n)
  PROVE  /\ Passes(D, p, Tail(q), n)
         /\ \A E : Head(q) \in E /\ NoneLost(E, p, q, n) => NoneLost(E, p, Tail(q), n)
<1>1. In(q) = {Head(q)} \cup In(Tail(q)) /\ Ascends(Tail(q))
  BY TailQueue DEF Passes
<1>2. Passes(D, p, Tail(q), n)
  BY <1>1 DEF Passes, Below
<1>3. \A E : Head(q) \in E /\ NoneLost(E, p, q, n) => NoneLost(E, p, Tail(q), n)
  BY <1>1 DEF NoneLost
<1> QED
  BY <1>2, <1>3

\* A number is taken off p.
LEMMA Takes ==
  ASSUME NEW D, NEW p \in Seq(Int), NEW q, p # <<>>, NEW n, Passes(D, p, q, n)
  PROVE  /\ Passes(D \cup {Head(p)}, Tail(p), q, n)
         /\ \A E : NoneLost(E, p, q, n) => NoneLost(E \cup {Head(p)}, Tail(p), q, n)
<1>1. /\ In(p) = {Head(p)} \cup In(Tail(p))
      /\ Ascends(Tail(p)) /\ Below({Head(p)}, In(Tail(p)))
  BY TailQueue DEF Passes
<1>2. /\ Below(D \cup {Head(p)}, In(Tail(p))) /\ Below(D \cup {Head(p)}, In(q))
      /\ Below(In(Tail(p)), In(q))
  BY <1>1 DEF Passes, Below
<1>3. Passes(D \cup {Head(p)}, Tail(p), q, n)
  BY <1>1, <1>2 DEF Passes
<1>4. \A E : NoneLost(E, p, q, n) => NoneLost(E \cup {Head(p)}, Tail(p), q, n)
  BY <1>1 DEF NoneLost
<1> QED
  BY <1>3, <1>4

\* The two queues as one.
LEMMA PassesConcat ==
  ASSUME NEW D, NEW p \in Seq(Int), NEW q \in Seq(Int), NEW n, Passes(D, p, q, n)
  PROVE  /\ In(p \o q) = In(p) \cup In(q)
         /\ Ascends(p \o q) /\ Below(D, In(p \o q))
<1>1. In(p \o q) = In(p) \cup In(q) /\ Ascends(p \o q)
  BY ConcatQueue DEF Passes
<1> QED
  BY <1>1 DEF Passes, Below

-----------------------------------------------------------------------------
(***************************************************************************)
(* Numbers that pass through one queue: r is the one last taken, n the one *)
(* last put in.                                                            *)
(***************************************************************************)
Between(q, r, n) == Ascends(q) /\ In(q) \subseteq r + 1 .. n

LEMMA BetweenEmpty ==
  ASSUME NEW r, NEW n PROVE Between(<<>>, r, n)
  BY EmptyQueue DEF Between

LEMMA BetweenPut ==
  ASSUME NEW q \in Seq(Int), NEW r \in Int, NEW n \in Int, r <= n, Between(q, r, n)
  PROVE  Between(Append(q, n + 1), r, n + 1) /\ Between(q, r, n + 1)
<1>1. In(Append(q, n + 1)) = In(q) \cup {n + 1}
  BY AppendQueue
<1>2. Below(In(q), {n + 1})
  BY DEF Between, Below
<1>3. Ascends(Append(q, n + 1))
  BY <1>2, AppendAscends DEF Between
<1>4. r + 1 .. n \subseteq r + 1 .. n + 1 /\ n + 1 \in r + 1 .. n + 1
  OBVIOUS
<1> QED
  BY <1>1, <1>3, <1>4 DEF Between

LEMMA BetweenTake ==
  ASSUME NEW q \in Seq(Int), q # <<>>, NEW r \in Int, NEW n \in Int, Between(q, r, n)
  PROVE  /\ Head(q) \in r + 1 .. n
         /\ Between(Tail(q), Head(q), n) /\ Between(Tail(q), r, n)
<1>1. /\ In(q) = {Head(q)} \cup In(Tail(q))
      /\ Ascends(Tail(q)) /\ Below({Head(q)}, In(Tail(q)))
  BY TailQueue DEF Between
<1>2. Head(q) \in r + 1 .. n /\ In(Tail(q)) \subseteq r + 1 .. n
  BY <1>1 DEF Between
<1>3. In(Tail(q)) \subseteq Head(q) + 1 .. n
  BY <1>1, <1>2 DEF Below
<1> QED
  BY <1>1, <1>2, <1>3 DEF Between

-----------------------------------------------------------------------------
(***************************************************************************)
(* The sum of a function over a finite set.  The fold that defines it      *)
(* picks one element after the other: Summed is the function on the        *)
(* subsets of S that it builds, which exists, and so is unique, whatever   *)
(* the order in which the elements are picked.                             *)
(***************************************************************************)
Picked(T) == CHOOSE x \in T : TRUE

Level(S, n) == {T \in SUBSET S : Cardinality(T) <= n}

IsSum(g, f, D) ==
  g = [T \in D |-> IF T = {} THEN 0 ELSE f[Picked(T)] + g[T \ {Picked(T)}]]

LEMMA SumLevel ==
  ASSUME NEW g, NEW f, NEW S, IsSum(g, f, SUBSET S), NEW T, T \subseteq S
  PROVE  g[T] = IF T = {} THEN 0 ELSE f[Picked(T)] + g[T \ {Picked(T)}]
<1> DEFINE F(h) == [V \in SUBSET S |-> IF V = {} THEN 0
                                       ELSE f[Picked(V)] + h[V \ {Picked(V)}]]
<1>1. g = F(g)
  BY DEF IsSum
<1>2. F(g)[T] = IF T = {} THEN 0 ELSE f[Picked(T)] + g[T \ {Picked(T)}]
  OBVIOUS
<1> HIDE DEF F
<1> QED
  BY <1>1, <1>2

LEMMA PickedIn ==
  ASSUME NEW T, T # {}
  PROVE  Picked(T) \in T
  BY DEF Picked

LEMMA PickedLess ==
  ASSUME NEW T, IsFiniteSet(T), T # {}
  PROVE  /\ IsFiniteSet(T \ {Picked(T)})
         /\ Cardinality(T \ {Picked(T)}) = Cardinality(T) - 1
         /\ Cardinality(T) \in Nat
  BY PickedIn, FS_RemoveElement, FS_CardinalityType

LEMMA SumUpTo ==
  ASSUME NEW f, NEW S, IsFiniteSet(S), NEW n \in Nat
  PROVE  \E g : IsSum(g, f, Level(S, n))
<1> SUFFICES ASSUME ~ \E g : IsSum(g, f, Level(S, n)) PROVE FALSE
  OBVIOUS
<1> DEFINE B == {k \in Nat : ~ \E g : IsSum(g, f, Level(S, k))}
<1>1. B \subseteq Nat /\ B # {}
  OBVIOUS
<1>2. PICK k \in B : \A m \in B : k <= m
  <2> HIDE DEF B
  <2> QED
    BY <1>1, LeastNat
<1>3. \A T \in SUBSET S : IsFiniteSet(T) /\ Cardinality(T) \in Nat
  BY FS_Subset, FS_CardinalityType
<1>4. CASE k = 0
  <2> DEFINE g == [T \in Level(S, 0) |-> 0]
  <2>1. \A T \in Level(S, 0) : T = {}
    BY <1>3, FS_EmptySet DEF Level
  <2>2. IsSum(g, f, Level(S, 0))
    BY <2>1 DEF IsSum
  <2> QED
    BY <1>4, <2>2
<1>5. CASE k # 0
  <2>1. k - 1 \in Nat /\ k - 1 \notin B
    BY <1>2, <1>5
  <2>2. PICK h : IsSum(h, f, Level(S, k - 1))
    BY <2>1
  <2> DEFINE g == [T \in Level(S, k) |->
                     IF T = {} THEN 0 ELSE f[Picked(T)] + h[T \ {Picked(T)}]]
  <2>3. ASSUME NEW T \in Level(S, k), T # {}
        PROVE  g[T \ {Picked(T)}] = h[T \ {Picked(T)}]
    <3> DEFINE U == T \ {Picked(T)}
    <3>1. U \in SUBSET S /\ IsFiniteSet(T) /\ Cardinality(T) <= k
      BY <1>3 DEF Level
    <3>2. Cardinality(U) = Cardinality(T) - 1 /\ Cardinality(T) \in Nat
      BY <2>3, <3>1, PickedLess
    <3> HIDE DEF U
    <3>3. U \in Level(S, k - 1) /\ U \in Level(S, k)
      BY <3>1, <3>2 DEF Level
    <3>4. g[U] = IF U = {} THEN 0 ELSE f[Picked(U)] + h[U \ {Picked(U)}]
      BY <3>3
    <3>5. h[U] = IF U = {} THEN 0 ELSE f[Picked(U)] + h[U \ {Picked(U)}]
      BY <2>2, <3>3 DEF IsSum
    <3> QED
      BY <3>4, <3>5 DEF U
  <2>4. IsSum(g, f, Level(S, k))
    BY <2>3 DEF IsSum
  <2> QED
    BY <2>4
<1> QED
  BY <1>4, <1>5

Summed(f, S) == CHOOSE g : IsSum(g, f, SUBSET S)

LEMMA Unfold ==
  ASSUME NEW f, NEW S
  PROVE  SumFunctionOnSet(f, S) = Summed(f, S)[S]
  BY DEF SumFunctionOnSet, FoldFunctionOnSet, MapThenFoldSet, Summed, IsSum, Picked

LEMMA SummedIsSum ==
  ASSUME NEW f, NEW S, IsFiniteSet(S)
  PROVE  IsSum(Summed(f, S), f, SUBSET S)
<1>1. Cardinality(S) \in Nat /\ \A T \in SUBSET S : Cardinality(T) <= Cardinality(S)
  BY FS_Subset, FS_CardinalityType
<1>2. Level(S, Cardinality(S)) = SUBSET S
  BY <1>1 DEF Level
<1>3. \E g : IsSum(g, f, SUBSET S)
  BY <1>1, <1>2, SumUpTo
<1> QED
  BY <1>3 DEF Summed

LEMMA SummedAgree ==
  ASSUME NEW f, NEW S, NEW T, IsFiniteSet(S), T \subseteq S,
         NEW U, U \subseteq T
  PROVE  Summed(f, S)[U] = Summed(f, T)[U]
<1> SUFFICES ASSUME Summed(f, S)[U] # Summed(f, T)[U] PROVE FALSE
  OBVIOUS
<1> DEFINE C == {V \in SUBSET T : Summed(f, S)[V] # Summed(f, T)[V]}
<1>1. IsFiniteSet(T)
  BY FS_Subset
<1>2. C # {} /\ \A V \in C : IsFiniteSet(V)
  BY <1>1, FS_Subset
<1>3. PICK V \in C : \A x \in V : V \ {x} \notin C
  <2> HIDE DEF C
  <2> QED
    BY <1>2, Smallest
<1>4. /\ Summed(f, S)[V] = IF V = {} THEN 0
                           ELSE f[Picked(V)] + Summed(f, S)[V \ {Picked(V)}]
      /\ Summed(f, T)[V] = IF V = {} THEN 0
                           ELSE f[Picked(V)] + Summed(f, T)[V \ {Picked(V)}]
  <2>1. V \subseteq S /\ V \subseteq T
    OBVIOUS
  <2>2. IsSum(Summed(f, S), f, SUBSET S) /\ IsSum(Summed(f, T), f, SUBSET T)
    BY <1>1, SummedIsSum
  <2> HIDE DEF C
  <2>3. Summed(f, S)[V] = IF V = {} THEN 0
                          ELSE f[Picked(V)] + Summed(f, S)[V \ {Picked(V)}]
    BY <2>1, <2>2, SumLevel
  <2>4. Summed(f, T)[V] = IF V = {} THEN 0
                          ELSE f[Picked(V)] + Summed(f, T)[V \ {Picked(V)}]
    BY <2>1, <2>2, SumLevel
  <2> QED
    BY <2>3, <2>4
<1>5. V # {}
  BY <1>4
<1>6. V \ {Picked(V)} \in SUBSET T /\ V \ {Picked(V)} \notin C
  BY <1>3, <1>5, PickedIn
<1>7. Summed(f, S)[V \ {Picked(V)}] = Summed(f, T)[V \ {Picked(V)}]
  BY <1>6
<1> QED
  BY <1>4, <1>5, <1>7

-----------------------------------------------------------------------------
LEMMA SumEmpty ==
  ASSUME NEW f
  PROVE  SumFunctionOnSet(f, {}) = 0
<1>1. IsFiniteSet({}) /\ {} \subseteq {}
  BY FS_EmptySet
<1>2. IsSum(Summed(f, {}), f, SUBSET {})
  BY <1>1, SummedIsSum
<1>3. Summed(f, {})[{}] = 0
  BY <1>1, <1>2, SumLevel
<1> QED
  BY <1>3, Unfold

LEMMA SumPicked ==
  ASSUME NEW f, NEW S, IsFiniteSet(S), S # {}
  PROVE  SumFunctionOnSet(f, S)
           = f[Picked(S)] + SumFunctionOnSet(f, S \ {Picked(S)})
<1> DEFINE U == S \ {Picked(S)}
<1>1. U \subseteq S /\ S \subseteq S
  OBVIOUS
<1>2. Summed(f, S)[S] = f[Picked(S)] + Summed(f, S)[U]
  <2>1. IsSum(Summed(f, S), f, SUBSET S)
    BY SummedIsSum
  <2> QED
    BY <1>1, <2>1, SumLevel
<1>3. Summed(f, S)[U] = Summed(f, U)[U]
  <2> HIDE DEF U
  <2> QED
    BY <1>1, SummedAgree
<1> QED
  BY <1>2, <1>3, Unfold

LEMMA SumInt ==
  ASSUME NEW f, NEW S, IsFiniteSet(S), \A x \in S : f[x] \in Int
  PROVE  SumFunctionOnSet(f, S) \in Int
<1> SUFFICES ASSUME SumFunctionOnSet(f, S) \notin Int PROVE FALSE
  OBVIOUS
<1> DEFINE C == {T \in SUBSET S : SumFunctionOnSet(f, T) \notin Int}
<1>1. C # {} /\ \A T \in C : IsFiniteSet(T)
  BY FS_Subset
<1>2. PICK T \in C : \A x \in T : T \ {x} \notin C
  <2> HIDE DEF C
  <2> QED
    BY <1>1, Smallest
<1>3. T # {}
  BY SumEmpty
<1>4. Picked(T) \in T
  BY <1>3, PickedIn
<1>5. SumFunctionOnSet(f, T \ {Picked(T)}) \in Int /\ f[Picked(T)] \in Int
  BY <1>2, <1>4
<1>6. IsFiniteSet(T)
  BY <1>1
<1> QED
  BY <1>3, <1>5, <1>6, SumPicked

\* One element more, whichever it is.
LEMMA SumRemove ==
  ASSUME NEW f, NEW S, IsFiniteSet(S), \A x \in S : f[x] \in Int, NEW x \in S
  PROVE  SumFunctionOnSet(f, S) = f[x] + SumFunctionOnSet(f, S \ {x})
<1> DEFINE Bad(T) == \E y \in T :
                       SumFunctionOnSet(f, T) # f[y] + SumFunctionOnSet(f, T \ {y})
<1> SUFFICES ASSUME Bad(S) PROVE FALSE
  OBVIOUS
<1> DEFINE C == {T \in SUBSET S : Bad(T)}
<1>1. C # {} /\ \A T \in C : IsFiniteSet(T)
  BY FS_Subset
<1>2. PICK T \in C : \A y \in T : T \ {y} \notin C
  <2> HIDE DEF C
  <2> QED
    BY <1>1, Smallest
<1>3. PICK y \in T : SumFunctionOnSet(f, T) # f[y] + SumFunctionOnSet(f, T \ {y})
  OBVIOUS
<1> DEFINE c == Picked(T)
<1>4. T \in SUBSET S /\ T # {} /\ c \in T /\ IsFiniteSet(T)
  BY <1>1, PickedIn
<1>5. SumFunctionOnSet(f, T) = f[c] + SumFunctionOnSet(f, T \ {c})
  BY <1>4, SumPicked
<1>6. c # y
  BY <1>3, <1>5
<1>7. SumFunctionOnSet(f, T \ {c}) = f[y] + SumFunctionOnSet(f, (T \ {c}) \ {y})
  BY <1>2, <1>4, <1>6
<1>8. SumFunctionOnSet(f, T \ {y}) = f[c] + SumFunctionOnSet(f, (T \ {y}) \ {c})
  BY <1>2, <1>4, <1>6
<1>9. (T \ {c}) \ {y} = (T \ {y}) \ {c}
  OBVIOUS
<1>10. SumFunctionOnSet(f, (T \ {y}) \ {c}) \in Int /\ f[c] \in Int /\ f[y] \in Int
  <2>1. IsFiniteSet((T \ {y}) \ {c}) /\ \A z \in (T \ {y}) \ {c} : f[z] \in Int
    BY <1>4, FS_Subset
  <2> QED
    BY <1>4, <2>1, SumInt
<1> DEFINE r == SumFunctionOnSet(f, (T \ {y}) \ {c})
<1>11. /\ SumFunctionOnSet(f, T) = f[c] + SumFunctionOnSet(f, T \ {c})
       /\ SumFunctionOnSet(f, T \ {c}) = f[y] + r
       /\ SumFunctionOnSet(f, T \ {y}) = f[c] + r
  BY <1>5, <1>7, <1>8, <1>9
<1>12. f[c] + (f[y] + r) = f[y] + (f[c] + r)
  <2>1. \A i, j, k \in Int : i + (j + k) = j + (i + k)
    OBVIOUS
  <2> HIDE DEF c, r
  <2> QED
    BY <1>10, <2>1 DEF r
<1> HIDE DEF c, r
<1> QED
  BY <1>3, <1>11, <1>12

LEMMA SumAdd ==
  ASSUME NEW f, NEW S, IsFiniteSet(S), NEW x, x \notin S,
         \A y \in S \cup {x} : f[y] \in Int
  PROVE  SumFunctionOnSet(f, S \cup {x}) = f[x] + SumFunctionOnSet(f, S)
<1>1. IsFiniteSet(S \cup {x}) /\ (S \cup {x}) \ {x} = S /\ x \in S \cup {x}
  BY FS_AddElement
<1> QED
  BY <1>1, SumRemove

\* Only the values on the set count.
LEMMA SumSame ==
  ASSUME NEW f, NEW g, NEW S, IsFiniteSet(S), \A x \in S : f[x] = g[x]
  PROVE  SumFunctionOnSet(f, S) = SumFunctionOnSet(g, S)
<1> SUFFICES ASSUME SumFunctionOnSet(f, S) # SumFunctionOnSet(g, S) PROVE FALSE
  OBVIOUS
<1> DEFINE C == {T \in SUBSET S : SumFunctionOnSet(f, T) # SumFunctionOnSet(g, T)}
<1>1. C # {} /\ \A T \in C : IsFiniteSet(T)
  BY FS_Subset
<1>2. PICK T \in C : \A x \in T : T \ {x} \notin C
  <2> HIDE DEF C
  <2> QED
    BY <1>1, Smallest
<1>3. T # {}
  BY SumEmpty
<1>4. Picked(T) \in T
  BY <1>3, PickedIn
<1>5. /\ SumFunctionOnSet(f, T \ {Picked(T)}) = SumFunctionOnSet(g, T \ {Picked(T)})
      /\ f[Picked(T)] = g[Picked(T)]
  BY <1>2, <1>4
<1>6. IsFiniteSet(T)
  BY <1>1
<1> QED
  BY <1>3, <1>5, <1>6, SumPicked

LEMMA SumZero ==
  ASSUME NEW f, NEW S, IsFiniteSet(S), \A x \in S : f[x] = 0
  PROVE  SumFunctionOnSet(f, S) = 0
<1> SUFFICES ASSUME SumFunctionOnSet(f, S) # 0 PROVE FALSE
  OBVIOUS
<1> DEFINE C == {T \in SUBSET S : SumFunctionOnSet(f, T) # 0}
<1>1. C # {} /\ \A T \in C : IsFiniteSet(T)
  BY FS_Subset
<1>2. PICK T \in C : \A x \in T : T \ {x} \notin C
  <2> HIDE DEF C
  <2> QED
    BY <1>1, Smallest
<1>3. T # {}
  BY SumEmpty
<1>4. Picked(T) \in T
  BY <1>3, PickedIn
<1>5. SumFunctionOnSet(f, T \ {Picked(T)}) = 0 /\ f[Picked(T)] = 0
  BY <1>2, <1>4
<1>6. IsFiniteSet(T)
  BY <1>1
<1> QED
  BY <1>3, <1>5, <1>6, SumPicked

LEMMA SumNat ==
  ASSUME NEW f, NEW S, IsFiniteSet(S), \A x \in S : f[x] \in Nat
  PROVE  SumFunctionOnSet(f, S) \in Nat
<1> SUFFICES ASSUME SumFunctionOnSet(f, S) \notin Nat PROVE FALSE
  OBVIOUS
<1> DEFINE C == {T \in SUBSET S : SumFunctionOnSet(f, T) \notin Nat}
<1>1. C # {} /\ \A T \in C : IsFiniteSet(T)
  BY FS_Subset
<1>2. PICK T \in C : \A x \in T : T \ {x} \notin C
  <2> HIDE DEF C
  <2> QED
    BY <1>1, Smallest
<1>3. T # {}
  BY SumEmpty
<1>4. Picked(T) \in T
  BY <1>3, PickedIn
<1>5. SumFunctionOnSet(f, T \ {Picked(T)}) \in Nat /\ f[Picked(T)] \in Nat
  BY <1>2, <1>4
<1>6. IsFiniteSet(T)
  BY <1>1
<1> QED
  BY <1>3, <1>5, <1>6, SumPicked

LEMMA SumAtLeast ==
  ASSUME NEW f, NEW S, IsFiniteSet(S), \A x \in S : f[x] \in Nat, NEW x \in S
  PROVE  SumFunctionOnSet(f, S) >= f[x]
<1>1. IsFiniteSet(S \ {x}) /\ \A y \in S \ {x} : f[y] \in Nat
  BY FS_Subset
<1>2. SumFunctionOnSet(f, S \ {x}) \in Nat
  BY <1>1, SumNat
<1>3. SumFunctionOnSet(f, S) = f[x] + SumFunctionOnSet(f, S \ {x})
  BY SumRemove
<1> QED
  BY <1>2, <1>3

\* A part adds up to no more than the whole.
LEMMA SumSubset ==
  ASSUME NEW f, NEW S, IsFiniteSet(S), \A x \in S : f[x] \in Nat, NEW T, T \subseteq S
  PROVE  SumFunctionOnSet(f, T) <= SumFunctionOnSet(f, S)
<1> DEFINE C == {U \in SUBSET S : T \subseteq U /\ ~ (SumFunctionOnSet(f, T) <= SumFunctionOnSet(f, U))}
<1>1. ASSUME C # {} PROVE FALSE
  <2>1. \A U \in C : IsFiniteSet(U)
    BY FS_Subset
  <2> HIDE DEF C
  <2>2. PICK U \in C : \A x \in U : U \ {x} \notin C
    BY <1>1, <2>1, Smallest
  <2>3. /\ U \subseteq S /\ T \subseteq U /\ IsFiniteSet(U)
        /\ ~ (SumFunctionOnSet(f, T) <= SumFunctionOnSet(f, U))
    BY <2>1, <2>2 DEF C
  <2>4. IsFiniteSet(T) /\ \A x \in T : f[x] \in Nat
    BY <2>3, FS_Subset
  <2>5. SumFunctionOnSet(f, T) \in Nat
    BY <2>4, SumNat
  <2>6. PICK x \in U : x \notin T
    BY <2>3, <2>5
  <2>7. \A y \in U : f[y] \in Int
    BY <2>3
  <2>8. SumFunctionOnSet(f, U) = f[x] + SumFunctionOnSet(f, U \ {x})
    BY <2>3, <2>7, SumRemove
  <2>9. IsFiniteSet(U \ {x}) /\ \A y \in U \ {x} : f[y] \in Nat
    BY <2>3, FS_Subset
  <2>10. SumFunctionOnSet(f, U \ {x}) \in Nat /\ f[x] \in Nat
    BY <2>3, <2>9, SumNat
  <2>11. SumFunctionOnSet(f, T) <= SumFunctionOnSet(f, U \ {x})
    BY <2>2, <2>3, <2>6 DEF C
  <2> QED
    BY <2>3, <2>5, <2>8, <2>10, <2>11
<1>2. S \notin C
  BY <1>1
<1> QED
  BY <1>2

=============================================================================
