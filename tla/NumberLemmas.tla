---------------------------- MODULE NumberLemmas -----------------------------
(***************************************************************************)
(* What proofs about several modules need of the natural numbers: the      *)
(* least of a set of them, induction, and remainders.                      *)
(***************************************************************************)
EXTENDS Integers, FiniteSetTheorems, WellFoundedInduction, TLAPS

(* A set of natural numbers has a least one.                                *)
LEMMA LeastExists ==
  ASSUME NEW T, T \subseteq Nat, T # {}
  PROVE  \E x \in T : \A y \in T : x <= y
<1> DEFINE Below == {0..(x - 1) : x \in T}
           Order == StrictSubsetOrdering(Nat)
<1>1. Below \subseteq FiniteSubsetsOf(Nat) /\ Below # {}
  <2>1. ASSUME NEW x \in T PROVE 0..(x - 1) \in FiniteSubsetsOf(Nat)
    BY FS_Interval DEF FiniteSubsetsOf
  <2> QED
    BY <2>1
<1>2. PICK B \in Below : \A A \in Below : <<A, B>> \notin Order
  <2> HIDE DEF Below, Order
  <2>1. IsWellFoundedOn(Order, FiniteSubsetsOf(Nat))
    BY FS_StrictSubsetOrderingWellFounded DEF Order
  <2> QED
    BY <1>1, <2>1, WFMin
<1>3. PICK x \in T : B = 0..(x - 1)
  OBVIOUS
<1>4. ASSUME NEW y \in T PROVE x <= y
  <2>1. <<0..(y - 1), 0..(x - 1)>> \notin Order
    BY <1>2, <1>3
  <2>2. ASSUME y < x PROVE FALSE
    <3>1. y \in 0..(x - 1) /\ y \notin 0..(y - 1) /\ 0..(y - 1) \subseteq 0..(x - 1)
      BY <2>2
    <3>2. 0..(y - 1) \in SUBSET Nat /\ 0..(x - 1) \in SUBSET Nat
      OBVIOUS
    <3> QED
      BY <2>1, <3>1, <3>2 DEF StrictSubsetOrdering
  <2> QED
    BY <2>2
<1> QED
  BY <1>4

(* A set of natural numbers that has 0 and every successor has them all.    *)
LEMMA Induction ==
  ASSUME NEW T, 0 \in T, \A n \in Nat : n \in T => n + 1 \in T
  PROVE  \A n \in Nat : n \in T
<1> SUFFICES ASSUME NEW m \in Nat, m \notin T PROVE FALSE
  OBVIOUS
<1> DEFINE Rest == Nat \ T
<1>1. PICK x \in Rest : \A y \in Rest : x <= y
  <2>1. Rest \subseteq Nat /\ Rest # {}
    OBVIOUS
  <2> HIDE DEF Rest
  <2> QED
    BY <2>1, LeastExists
<1>2. x # 0 /\ x - 1 \in Nat /\ x - 1 \in T
  BY <1>1
<1>3. (x - 1) + 1 \in T /\ (x - 1) + 1 = x
  BY <1>2
<1> QED
  BY <1>1, <1>3

-----------------------------------------------------------------------------
(* A remainder is the only one.                                             *)
LEMMA RemainderUnique ==
  ASSUME NEW m \in Nat \ {0}, NEW p \in Int, NEW q \in Int, NEW r \in Int, NEW s \in Int,
         m * p + r = m * q + s, 0 <= r, r < m, 0 <= s, s < m
  PROVE  r = s
<1>1. ASSUME p < q PROVE FALSE
  <2>1. PICK d \in Nat : q = p + 1 + d
    <3>1. q - p - 1 \in Nat /\ q = p + 1 + (q - p - 1)
      BY <1>1
    <3> QED
      BY <3>1
  <2>2. m * d \in Nat
    OBVIOUS
  <2>3. m * q = m * p + m + m * d
    BY <2>1
  <2> QED
    BY <2>2, <2>3
<1>2. ASSUME q < p PROVE FALSE
  <2>1. PICK d \in Nat : p = q + 1 + d
    <3>1. p - q - 1 \in Nat /\ p = q + 1 + (p - q - 1)
      BY <1>2
    <3> QED
      BY <3>1
  <2>2. m * d \in Nat
    OBVIOUS
  <2>3. m * p = m * q + m + m * d
    BY <2>1
  <2> QED
    BY <2>2, <2>3
<1>3. p = q
  BY <1>1, <1>2
<1> QED
  BY <1>3

(* Taking the remainder before a sum changes nothing after it.              *)
LEMMA RemainderOfSum ==
  ASSUME NEW m \in Nat \ {0}, NEW a \in Nat, NEW b \in Nat
  PROVE  ((a % m) + b) % m = (a + b) % m
<1> DEFINE r == a % m
           s == (r + b) % m
           t == (a + b) % m
<1>1. a = m * (a \div m) + r /\ a \div m \in Int /\ r \in Nat /\ r < m
  OBVIOUS
<1>2. r + b = m * ((r + b) \div m) + s /\ (r + b) \div m \in Int /\ s \in Nat /\ s < m
  BY <1>1
<1>3. a + b = m * ((a + b) \div m) + t /\ (a + b) \div m \in Int /\ t \in Nat /\ t < m
  OBVIOUS
<1> DEFINE p == a \div m
           q == (r + b) \div m
           u == (a + b) \div m
<1>4. /\ a = m * p + r /\ r + b = m * q + s /\ a + b = m * u + t
      /\ p \in Int /\ q \in Int /\ u \in Int /\ r \in Nat /\ s \in Nat /\ t \in Nat
      /\ s < m /\ t < m
  BY <1>1, <1>2, <1>3
<1> HIDE DEF p, q, r, s, t, u
<1>5. m * u + t = m * (p + q) + s
  <2>1. m * (p + q) = m * p + m * q
    BY <1>4
  <2> QED
    BY <1>4, <2>1
<1>6. s = t
  <2> DEFINE v == p + q
  <2>1. /\ u \in Int /\ v \in Int /\ t \in Int /\ s \in Int
        /\ 0 <= t /\ t < m /\ 0 <= s /\ s < m
    BY <1>4
  <2>2. m * u + t = m * v + s
    BY <1>5
  <2> HIDE DEF v
  <2> QED
    BY <2>1, <2>2, RemainderUnique, Zenon
<1> QED
  BY <1>6 DEF r, s, t

(***************************************************************************)
(* Sums.                                                                   *)
(***************************************************************************)

(* f[i] is the sum of the first i of the n numbers g.                       *)
SumsUp(f, g, n) == f = [i \in 0..n |-> IF i = 0 THEN 0 ELSE f[i - 1] + g[i]]

(* There is such a function for any numbers.                                *)
LEMMA SumsExist ==
  ASSUME NEW n \in Nat, NEW g
  PROVE  \E f : SumsUp(f, g, n)
<1> DEFINE T == {m \in Nat : \E f : SumsUp(f, g, m)}
<1>1. 0 \in T
  <2> DEFINE f == [i \in 0..0 |-> 0]
  <2>1. f = [i \in 0..0 |-> IF i = 0 THEN 0 ELSE f[i - 1] + g[i]]
    OBVIOUS
  <2> QED
    BY <2>1 DEF SumsUp
<1>2. ASSUME NEW m \in Nat, m \in T PROVE m + 1 \in T
  <2>1. PICK f : SumsUp(f, g, m)
    BY <1>2
  <2>2. f = [i \in 0..m |-> IF i = 0 THEN 0 ELSE f[i - 1] + g[i]]
    BY <2>1 DEF SumsUp
  <2> DEFINE k == m + 1
             e == [i \in 0..k |-> IF i = k THEN f[m] + g[k] ELSE f[i]]
  <2>3. \A i \in 0..k : e[i] = IF i = 0 THEN 0 ELSE e[i - 1] + g[i]
    <3> SUFFICES ASSUME NEW i \in 0..k PROVE e[i] = IF i = 0 THEN 0 ELSE e[i - 1] + g[i]
      OBVIOUS
    <3>1. CASE i = k
      <4>1. i # 0 /\ i - 1 = m /\ m \in 0..k /\ m # k
        BY <3>1
      <4>2. e[m] = f[m]
        BY <4>1
      <4> QED
        BY <3>1, <4>1, <4>2
    <3>2. CASE i # k /\ i # 0
      <4>1. i \in 0..m /\ i - 1 \in 0..k /\ i - 1 # k
        BY <3>2
      <4>2. e[i - 1] = f[i - 1] /\ e[i] = f[i]
        BY <3>2, <4>1
      <4>3. f[i] = f[i - 1] + g[i]
        BY <2>2, <3>2, <4>1
      <4> QED
        BY <3>2, <4>2, <4>3
    <3>3. CASE i # k /\ i = 0
      <4>1. e[i] = f[i] /\ f[i] = 0
        BY <2>2, <3>3
      <4> QED
        BY <3>3, <4>1
    <3> QED
      BY <3>1, <3>2, <3>3
  <2>4. e = [i \in 0..k |-> IF i = 0 THEN 0 ELSE e[i - 1] + g[i]]
    <3>1. e = [i \in 0..k |-> e[i]]
      OBVIOUS
    <3> HIDE DEF e
    <3> QED
      BY <2>3, <3>1
  <2>5. SumsUp(e, g, k)
    BY <2>4 DEF SumsUp
  <2> QED
    BY <2>5
<1> HIDE DEF T
<1>3. n \in T
  BY <1>1, <1>2, Induction
<1> QED
  BY <1>3 DEF T

(* A sum of numbers no greater than a bound.                                *)
LEMMA SumsBounded ==
  ASSUME NEW n \in Nat, NEW g, NEW f, SumsUp(f, g, n), NEW b \in Nat,
         \A i \in 1..n : g[i] \in Nat /\ g[i] <= b
  PROVE  \A i \in 0..n : f[i] \in Nat /\ f[i] <= b * i
<1> DEFINE T == {m \in Nat : m <= n => f[m] \in Nat /\ f[m] <= b * m}
<1>0. \A i \in 0..n : f[i] = IF i = 0 THEN 0 ELSE f[i - 1] + g[i]
  BY DEF SumsUp
<1>1. 0 \in T
  <2>1. f[0] = 0 /\ b * 0 = 0
    BY <1>0
  <2> QED
    BY <2>1
<1>2. ASSUME NEW m \in Nat, m \in T PROVE m + 1 \in T
  <2> SUFFICES ASSUME m + 1 <= n PROVE f[m + 1] \in Nat /\ f[m + 1] <= b * (m + 1)
    OBVIOUS
  <2>1. m + 1 \in 0..n /\ m + 1 \in 1..n /\ m + 1 # 0 /\ (m + 1) - 1 = m
    OBVIOUS
  <2>2. f[m + 1] = f[m] + g[m + 1]
    BY <1>0, <2>1
  <2>3. f[m] \in Nat /\ f[m] <= b * m
    BY <1>2
  <2>4. g[m + 1] \in Nat /\ g[m + 1] <= b
    BY <2>1
  <2>5. b * (m + 1) = (b * m) + b /\ b * m \in Nat
    OBVIOUS
  <2> DEFINE x == f[m]
             y == g[m + 1]
             z == b * m
             w == b * (m + 1)
  <2>6. x \in Nat /\ y \in Nat /\ z \in Nat /\ x <= z /\ y <= b /\ w = z + b
    BY <2>3, <2>4, <2>5
  <2> HIDE DEF x, y, z, w
  <2>7. x + y \in Nat /\ x + y <= w
    BY <2>6
  <2> QED
    BY <2>2, <2>7 DEF x, y, w
<1> HIDE DEF T
<1>3. \A m \in Nat : m \in T
  BY <1>1, <1>2, Induction
<1> QED
  BY <1>3 DEF T

(* Two sums of numbers that agree but for two neighbours.                   *)
LEMMA SumsDiffer ==
  ASSUME NEW n \in Nat, NEW g, NEW h, NEW f, NEW e, SumsUp(f, g, n), SumsUp(e, h, n),
         \A i \in 1..n : g[i] \in Nat /\ h[i] \in Nat,
         NEW at \in 1..n, at + 1 \in 1..n,
         \A i \in 1..n : i # at /\ i # at + 1 => g[i] = h[i],
         h[at] = 0, h[at + 1] = 0
  PROVE  f[n] = e[n] + (g[at] + g[at + 1])
<1> DEFINE T == {m \in Nat : m <= n =>
                   /\ f[m] \in Nat /\ e[m] \in Nat
                   /\ m < at => f[m] = e[m]
                   /\ m = at => f[m] = e[m] + g[at]
                   /\ at < m => f[m] = e[m] + (g[at] + g[at + 1])}
<1>0. \A i \in 0..n : /\ f[i] = IF i = 0 THEN 0 ELSE f[i - 1] + g[i]
                      /\ e[i] = IF i = 0 THEN 0 ELSE e[i - 1] + h[i]
  BY DEF SumsUp
<1>1. 0 \in T
  BY <1>0
<1>2. ASSUME NEW m \in Nat, m \in T PROVE m + 1 \in T
  <2> DEFINE k == m + 1
  <2> SUFFICES ASSUME k <= n
               PROVE  /\ f[k] \in Nat /\ e[k] \in Nat
                      /\ k < at => f[k] = e[k]
                      /\ k = at => f[k] = e[k] + g[at]
                      /\ at < k => f[k] = e[k] + (g[at] + g[at + 1])
    OBVIOUS
  <2>1. k \in 0..n /\ k \in 1..n /\ k # 0 /\ k - 1 = m
    OBVIOUS
  <2>2. f[k] = f[m] + g[k] /\ e[k] = e[m] + h[k]
    BY <1>0, <2>1
  <2>3. g[k] \in Nat /\ h[k] \in Nat /\ g[at] \in Nat /\ g[at + 1] \in Nat
    BY <2>1
  <2>4. /\ f[m] \in Nat /\ e[m] \in Nat
        /\ m < at => f[m] = e[m]
        /\ m = at => f[m] = e[m] + g[at]
        /\ at < m => f[m] = e[m] + (g[at] + g[at + 1])
    BY <1>2
  <2>5. k # at /\ k # at + 1 => g[k] = h[k]
    BY <2>1
  <2>6. CASE k < at
    <3>1. m < at /\ k # at /\ k # at + 1 /\ ~(at < k)
      BY <2>6
    <3> HIDE DEF k
    <3> QED
      BY <2>2, <2>3, <2>4, <2>5, <2>6, <3>1
  <2>7. CASE k = at
    <3>1. m < at /\ ~(at < k) /\ ~(k < at) /\ h[k] = 0
      BY <2>7
    <3> HIDE DEF k
    <3> QED
      BY <2>2, <2>3, <2>4, <2>7, <3>1
  <2>8. CASE k = at + 1
    <3>1. m = at /\ at < k /\ h[k] = 0 /\ k # at /\ ~(k < at)
      BY <2>8
    <3> HIDE DEF k
    <3> QED
      BY <2>2, <2>3, <2>4, <2>8, <3>1
  <2>9. CASE k > at + 1
    <3>1. at < m /\ at < k /\ k # at /\ k # at + 1 /\ ~(k < at)
      BY <2>9
    <3> HIDE DEF k
    <3> QED
      BY <2>2, <2>3, <2>4, <2>5, <3>1
  <2> QED
    BY <2>6, <2>7, <2>8, <2>9
<1> HIDE DEF T
<1>3. n \in T
  BY <1>1, <1>2, Induction
<1>4. at < n
  OBVIOUS
<1> QED
  BY <1>3, <1>4 DEF T
=============================================================================
