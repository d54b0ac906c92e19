------------------------------ MODULE Recursion ------------------------------
(***************************************************************************)
(* Induction and recursion over the natural numbers, from the fact that <  *)
(* is well-founded.  The theorems of the library that say so take an       *)
(* operator as a parameter; these are about sets and functions instead.    *)
(***************************************************************************)
EXTENDS Integers, WellFoundedInduction, TLAPS

\* A set of numbers that is not empty has a least one.
LEMMA LeastNumber ==
  ASSUME NEW T, T \subseteq Nat, T # {}
  PROVE  \E m \in T : \A n \in T : m <= n
<1> DEFINE R == {ss \in Nat \X Nat : ss[1] < ss[2]}
<1>1. IsWellFoundedOn(R, Nat)
  BY NatLessThanWellFounded DEF OpToRel
<1>2. \A m, n \in Nat : m < n => <<m, n>> \in R
  OBVIOUS
<1> HIDE DEF R
<1>3. PICK m \in T : \A n \in T : ~(<<n, m>> \in R)
  BY <1>1, WFMin
<1>4. ASSUME NEW n \in T PROVE m <= n
  <2>1. m \in Nat /\ n \in Nat
    OBVIOUS
  <2>2. ~(n < m)
    BY <1>2, <1>3, <2>1
  <2> QED BY <2>1, <2>2
<1> QED BY <1>4

\* Induction: a set of numbers with 0 and the successor of each of its members
\* has all of them.
LEMMA Induction ==
  ASSUME NEW S, S \subseteq Nat, 0 \in S, \A n \in Nat : n \in S => n + 1 \in S
  PROVE  S = Nat
<1>1. SUFFICES ASSUME Nat \ S # {} PROVE FALSE
  OBVIOUS
<1>2. PICK m \in Nat \ S : \A n \in Nat \ S : m <= n
  <2>1. Nat \ S \subseteq Nat
    OBVIOUS
  <2> QED BY <1>1, <2>1, LeastNumber
<1>3. m # 0 /\ m - 1 \in Nat
  BY <1>2
<1>4. m - 1 \in S
  BY <1>2, <1>3
<1> QED BY <1>2, <1>3, <1>4

-----------------------------------------------------------------------------
\* p is what a recursive definition makes of 0..n.
UpTo(V, b, G, p, n) ==
  /\ p \in [0..n -> V]
  /\ p[0] = b
  /\ \A i \in 0..(n - 1) : p[i + 1] = G[<<i, p[i]>>]

\* A recursive definition has a value at every number.
LEMMA UpToExists ==
  ASSUME NEW V, NEW b \in V, NEW G \in [Nat \X V -> V], NEW n \in Nat
  PROVE  \E p : UpTo(V, b, G, p, n)
<1> DEFINE S == { m \in Nat : \E p : UpTo(V, b, G, p, m) }
<1>1. 0 \in S
  <2>1. UpTo(V, b, G, [i \in 0..0 |-> b], 0)
    BY DEF UpTo
  <2> QED BY <2>1
<1>2. ASSUME NEW m \in Nat, m \in S PROVE m + 1 \in S
  <2>1. PICK p : UpTo(V, b, G, p, m)
    BY <1>2
  <2> DEFINE q == [i \in 0..(m + 1) |-> IF i = m + 1 THEN G[<<m, p[m]>>] ELSE p[i]]
  <2>2. G[<<m, p[m]>>] \in V
    BY <2>1 DEF UpTo
  <2>3. q \in [0..(m + 1) -> V] /\ q[0] = b
    BY <2>1, <2>2 DEF UpTo
  <2>4. ASSUME NEW i \in 0..m PROVE q[i + 1] = G[<<i, q[i]>>]
    <3>1. q[i] = p[i] /\ i + 1 \in 0..(m + 1)
      OBVIOUS
    <3>2. CASE i = m
      BY <3>1, <3>2
    <3>3. CASE i # m
      <4>1. i \in 0..(m - 1) /\ i + 1 # m + 1
        BY <3>3
      <4>2. q[i + 1] = p[i + 1]
        BY <3>1, <4>1
      <4>3. p[i + 1] = G[<<i, p[i]>>]
        BY <2>1, <4>1 DEF UpTo
      <4> QED BY <3>1, <4>2, <4>3
    <3> QED BY <3>2, <3>3
  <2>5. UpTo(V, b, G, q, m + 1)
    <3> HIDE DEF q
    <3> QED BY <2>3, <2>4 DEF UpTo
  <2> QED BY <2>5
<1>3. S = Nat
  <2> HIDE DEF S
  <2>1. S \subseteq Nat
    BY DEF S
  <2> QED BY <1>1, <1>2, <2>1, Induction
<1> QED BY <1>3

\* And only one.
LEMMA UpToAgree ==
  ASSUME NEW V, NEW b, NEW G, NEW p, NEW q, NEW n \in Nat, NEW m \in Nat, n <= m,
         UpTo(V, b, G, p, n), UpTo(V, b, G, q, m)
  PROVE  \A i \in 0..n : p[i] = q[i]
<1> DEFINE S == { i \in Nat : i <= n => p[i] = q[i] }
<1>1. 0 \in S
  BY DEF UpTo
<1>2. ASSUME NEW i \in Nat, i \in S PROVE i + 1 \in S
  <2> SUFFICES ASSUME i + 1 <= n PROVE p[i + 1] = q[i + 1]
    OBVIOUS
  <2>1. i \in 0..(n - 1) /\ i \in 0..(m - 1) /\ p[i] = q[i]
    BY <1>2
  <2> QED BY <2>1 DEF UpTo
<1>3. S = Nat
  <2> HIDE DEF S
  <2>1. S \subseteq Nat
    BY DEF S
  <2> QED BY <1>1, <1>2, <2>1, Induction
<1> QED BY <1>3

\* f has value b at 0, and at each successor the value that G makes of the
\* number and the value before it.
Recursive(V, b, G, f) ==
  /\ f \in [Nat -> V]
  /\ f[0] = b
  /\ \A n \in Nat : f[n + 1] = G[<<n, f[n]>>]

\* Primitive recursion: what is defined so exists.
LEMMA RecursiveFunction ==
  ASSUME NEW V, NEW b \in V, NEW G \in [Nat \X V -> V]
  PROVE  \E f : Recursive(V, b, G, f)
<1> DEFINE part == [n \in Nat |-> CHOOSE p : UpTo(V, b, G, p, n)]
<1>1. \A n \in Nat : UpTo(V, b, G, part[n], n)
  BY UpToExists
<1> DEFINE f == [n \in Nat |-> part[n][n]]
<1> HIDE DEF part
<1>2. f \in [Nat -> V] /\ f[0] = b
  BY <1>1 DEF UpTo
<1>3. ASSUME NEW n \in Nat PROVE f[n + 1] = G[<<n, f[n]>>]
  <2>1. PICK m \in Nat : m = n + 1
    OBVIOUS
  <2>2. UpTo(V, b, G, part[n], n) /\ UpTo(V, b, G, part[m], m)
    BY <1>1
  <2>3. part[m][n + 1] = G[<<n, part[m][n]>>]
    BY <2>1, <2>2 DEF UpTo
  <2>4. \A i \in 0..n : part[n][i] = part[m][i]
    <3>1. n <= m
      BY <2>1
    <3> QED BY <2>2, <3>1, UpToAgree
  <2>5. n \in 0..n
    OBVIOUS
  <2> QED BY <2>1, <2>3, <2>4, <2>5
<1> HIDE DEF f
<1>4. Recursive(V, b, G, f)
  BY <1>2, <1>3 DEF Recursive
<1> QED BY <1>4

\* A definition that recurs up to n is that function there.
LEMMA RecursionUpTo ==
  ASSUME NEW V, NEW b, NEW G, NEW f, Recursive(V, b, G, f), NEW n \in Nat,
         NEW w, w[0] = b, \A i \in 0..(n - 1) : w[i] \in V => w[i + 1] = G[<<i, w[i]>>]
  PROVE  \A i \in 0..n : w[i] = f[i]
<1> DEFINE S == { i \in Nat : i <= n => w[i] = f[i] }
<1>1. 0 \in S
  BY DEF Recursive
<1>2. ASSUME NEW i \in Nat, i \in S PROVE i + 1 \in S
  <2> SUFFICES ASSUME i + 1 <= n PROVE w[i + 1] = f[i + 1]
    OBVIOUS
  <2>1. i \in 0..(n - 1) /\ w[i] = f[i]
    BY <1>2
  <2>2. f[i] \in V /\ f[i + 1] = G[<<i, f[i]>>]
    BY DEF Recursive
  <2> QED BY <2>1, <2>2
<1>3. S = Nat
  <2> HIDE DEF S
  <2>1. S \subseteq Nat
    BY DEF S
  <2> QED BY <1>1, <1>2, <2>1, Induction
<1> QED BY <1>3
=============================================================================
