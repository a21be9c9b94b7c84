----------------------------- MODULE Recursion -----------------------------
(***************************************************************************)
(* A function may be defined by recursion when its value for each argument *)
(* depends on its values for arguments of a lower measure only.  In this   *)
(* module F gives the right-hand side of such a definition: a function f   *)
(* with f = F[f] is one that the definition defines.                       *)
(***************************************************************************)
EXTENDS Naturals, WellFoundedInduction, TLAPS

\* An argument of least measure, which stands in for an induction over it.
LEMMA LeastMeasure ==
    ASSUME NEW T, NEW m, \A x \in T : m[x] \in Nat, T # {}
    PROVE  \E x \in T : \A y \in T : m[x] <= m[y]
<1> DEFINE N == {m[x] : x \in T}
           less == {ss \in Nat \X Nat : ss[1] < ss[2]}
<1>1. IsWellFoundedOn(less, Nat)
  BY Zenon, NatLessThanWellFounded DEF OpToRel
<1>2. N \subseteq Nat /\ N # {}
  OBVIOUS
<1>3. PICK n \in N : \A k \in N : <<k, n>> \notin less
  BY <1>1, <1>2, WFMin
<1>4. PICK x \in T : m[x] = n
  BY <1>3
<1>5. \A y \in T : m[x] <= m[y]
  <2> TAKE y \in T
  <2>1. m[y] \in Nat /\ n \in Nat /\ m[y] \in N
    BY <1>2
  <2>2. m[y] < n => <<m[y], n>> \in less
    BY <2>1
  <2> QED
    BY <1>3, <1>4, <2>1, <2>2
<1> QED
  BY <1>5

\* The same, for a set of arguments that the measure is defined for.
LEMMA LeastOf ==
    ASSUME NEW S, NEW m, \A x \in S : m[x] \in Nat,
           NEW T, T \subseteq S, T # {}
    PROVE  \E x \in T : \A y \in S : m[y] < m[x] => y \notin T
<1>1. \A x \in T : m[x] \in Nat
  OBVIOUS
<1>2. PICK x \in T : \A y \in T : m[x] <= m[y]
  BY <1>1, LeastMeasure
<1>3. \A y \in S : m[y] < m[x] => y \notin T
  <2> TAKE y \in S
  <2>1. m[y] \in Nat /\ m[x] \in Nat
    OBVIOUS
  <2> QED
    BY <1>2, <2>1
<1> QED
  BY <1>3

\* The functions that satisfy the definition for all arguments below n.
Below(n, F, m, S, V) == {f \in [S -> V] : \A x \in S : m[x] < n => F[f][x] = f[x]}

DependsBelow(F, m, S, V) ==
    \A f, g \in [S -> V], x \in S :
        (\A y \in S : m[y] < m[x] => f[y] = g[y]) => F[f][x] = F[g][x]

LEMMA BelowUnique ==
    ASSUME NEW S, NEW V, NEW m \in [S -> Nat], NEW F, DependsBelow(F, m, S, V),
           NEW i \in Nat, NEW j \in Nat,
           NEW f \in Below(i, F, m, S, V), NEW g \in Below(j, F, m, S, V),
           NEW x \in S, m[x] < i, m[x] < j
    PROVE  f[x] = g[x]
<1> DEFINE T == {y \in S : m[y] < i /\ m[y] < j /\ f[y] # g[y]}
<1>1. SUFFICES ASSUME T # {} PROVE FALSE
  OBVIOUS
<1>2. \A y \in T : m[y] \in Nat
  OBVIOUS
<1>3. PICK z \in T : \A y \in T : m[z] <= m[y]
  BY <1>1, <1>2, LeastMeasure
<1>4. \A y \in S : m[y] < m[z] => f[y] = g[y]
  <2> TAKE y \in S
  <2> HAVE m[y] < m[z]
  <2>1. m[y] \in Nat /\ m[z] \in Nat /\ m[z] < i /\ m[z] < j
    BY <1>3
  <2> QED
    BY <1>3, <2>1
<1>5. F[f][z] = F[g][z]
  BY <1>3, <1>4 DEF DependsBelow, Below
<1> QED
  BY <1>3, <1>5 DEF Below

LEMMA BelowExists ==
    ASSUME NEW S, NEW V, V # {}, NEW m \in [S -> Nat],
           NEW F \in [[S -> V] -> [S -> V]], DependsBelow(F, m, S, V)
    PROVE  \A n \in Nat : Below(n, F, m, S, V) # {}
<1> DEFINE T == {n \in Nat : Below(n, F, m, S, V) = {}}
           id == [n \in Nat |-> n]
<1>1. SUFFICES ASSUME T # {} PROVE FALSE
  OBVIOUS
<1>2. PICK n \in T : \A k \in T : n <= k
  <2>1. \A x \in T : id[x] \in Nat
    OBVIOUS
  <2>2. \E x \in T : \A y \in T : id[x] <= id[y]
    <3> HIDE DEF id, T
    <3> QED
      BY <1>1, <2>1, LeastMeasure
  <2> QED
    BY <2>2
<1>3. CASE n = 0
  <2>1. PICK v : v \in V
    OBVIOUS
  <2>2. [x \in S |-> v] \in Below(0, F, m, S, V)
    BY <2>1 DEF Below
  <2> QED
    BY <1>2, <1>3, <2>2
<1>4. CASE n # 0
  <2>1. n - 1 \in Nat /\ n - 1 \notin T
    BY <1>2, <1>4, SMTT(30)
  <2>2. PICK f : f \in Below(n - 1, F, m, S, V)
    BY <2>1
  <2>3. f \in [S -> V] /\ F[f] \in [S -> V] /\ \A x \in S : m[x] < n - 1 => F[f][x] = f[x]
    BY <2>2 DEF Below
  <2>4. ASSUME NEW x \in S, m[x] < n PROVE F[F[f]][x] = F[f][x]
    <3>1. \A y \in S : m[y] < m[x] => F[f][y] = f[y]
      BY <1>2, <2>3, <2>4
    <3> QED
      BY <2>3, <3>1 DEF DependsBelow
  <2>5. F[f] \in Below(n, F, m, S, V)
    BY <2>3, <2>4 DEF Below
  <2> QED
    BY <1>2, <2>5
<1> QED
  BY <1>3, <1>4

\* F is such a definition of functions from S to V, for the measure m.
Recursive(F, m, S, V) ==
    /\ V # {} /\ m \in [S -> Nat] /\ F \in [[S -> V] -> [S -> V]]
    /\ DependsBelow(F, m, S, V)

\* A recursive definition with such a measure defines a function, and one only.
LEMMA RecursionDefines ==
    ASSUME NEW S, NEW V, NEW m, NEW F, Recursive(F, m, S, V)
    PROVE  \E f \in [S -> V] : f = F[f] /\ \A g \in [S -> V] : g = F[g] => g = f
<1> DEFINE fun(n) == CHOOSE f : f \in Below(n, F, m, S, V)
           h == [x \in S |-> fun(m[x] + 1)[x]]
<1> USE DEF Recursive
<1>1. \A n \in Nat : fun(n) \in Below(n, F, m, S, V) /\ fun(n) \in [S -> V]
  <2> TAKE n \in Nat
  <2>1. Below(n, F, m, S, V) # {}
    BY BelowExists
  <2>2. fun(n) \in Below(n, F, m, S, V)
    BY <2>1
  <2> QED
    BY <2>2 DEF Below
<1> HIDE DEF fun
<1>2. h \in [S -> V]
  BY <1>1
<1>3. \A x \in S : F[h][x] = h[x]
  <2> TAKE x \in S
  <2> DEFINE n == m[x] + 1
  <2>1. n \in Nat /\ m[x] \in Nat /\ m[x] < n
    OBVIOUS
  <2>2. \A y \in S : m[y] < m[x] => h[y] = fun(n)[y]
    <3> TAKE y \in S
    <3> HAVE m[y] < m[x]
    <3>1. m[y] \in Nat /\ m[y] + 1 \in Nat /\ m[y] < m[y] + 1 /\ m[y] < n
      BY <2>1
    <3>2. fun(m[y] + 1) \in Below(m[y] + 1, F, m, S, V) /\ fun(n) \in Below(n, F, m, S, V)
      BY <1>1, <2>1, <3>1
    <3>3. fun(m[y] + 1)[y] = fun(n)[y]
      <4> HIDE DEF n
      <4> QED
        BY <2>1, <3>1, <3>2, BelowUnique
    <3> QED
      BY <3>3
  <2>3. F[h][x] = F[fun(n)][x]
    BY <1>1, <1>2, <2>1, <2>2 DEF DependsBelow
  <2>4. F[fun(n)][x] = fun(n)[x]
    BY <1>1, <2>1 DEF Below
  <2> QED
    BY <2>3, <2>4
<1>4. h = F[h]
  <2> HIDE DEF h
  <2>1. F[h] \in [S -> V]
    BY <1>2
  <2> QED
    BY <1>2, <1>3, <2>1
<1>5. ASSUME NEW g \in [S -> V], g = F[g] PROVE g = h
  <2> HIDE DEF h
  <2>1. \A x \in S : g[x] = h[x]
    <3> TAKE x \in S
    <3> DEFINE n == m[x] + 1
    <3>1. n \in Nat /\ m[x] < n
      OBVIOUS
    <3>2. g \in Below(n, F, m, S, V) /\ h \in Below(n, F, m, S, V)
      BY <1>2, <1>4, <1>5 DEF Below
    <3> HIDE DEF n
    <3> QED
      BY <3>1, <3>2, BelowUnique
  <2> QED
    BY <1>2, <1>5, <2>1
<1> QED
  BY <1>2, <1>4, <1>5
=============================================================================
