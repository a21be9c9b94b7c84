------------------------- MODULE MongoReaderProofs -------------------------
(***************************************************************************)
(* Proofs about the reader with a MongoDB index, for any length of the     *)
(* archive, size of blocks and length of a millisecond: samples come in    *)
(* order, and none is passed over.                                         *)
(***************************************************************************)
EXTENDS MongoReader, SequenceTheorems, Recursion

-----------------------------------------------------------------------------
(* Times in milliseconds.                                                  *)

LEMMA MillisOf ==
    ASSUME NEW t \in Nat
    PROVE  /\ Millis(t) \in Nat /\ Millis(t) <= t /\ t < Millis(t) + Tick
           /\ \E q \in Nat : Millis(t) = Tick * q
<1>1. Tick \in Nat /\ Tick > 0
  BY MongoAssumption
<1>2. t % Tick \in 0 .. Tick - 1 /\ t \div Tick \in Nat
  BY <1>1
<1>3. t = Tick * (t \div Tick) + (t % Tick)
  BY <1>1
<1>4. Tick * (t \div Tick) \in Nat
  BY <1>1, <1>2
<1>5. Millis(t) = Tick * (t \div Tick)
  BY <1>1, <1>2, <1>3, <1>4 DEF Millis
<1> QED
  BY <1>1, <1>2, <1>3, <1>4, <1>5

LEMMA TickMultiples ==
    ASSUME NEW p \in Nat, NEW q \in Nat, Tick * p < Tick * q
    PROVE  Tick * p + Tick <= Tick * q
<1>1. Tick \in Nat
  BY MongoAssumption
<1>2. CASE p >= q
  <2>1. PICK d \in Nat : p = q + d
    BY <1>2
  <2>2. Tick * p = Tick * q + Tick * d /\ Tick * d \in Nat /\ Tick * q \in Nat
    BY <1>1, <2>1
  <2> QED
    BY <2>2
<1>3. CASE p < q
  <2>1. PICK d \in Nat : q = p + 1 + d
    <3>1. q - p - 1 \in Nat /\ q = p + 1 + (q - p - 1)
      BY <1>3
    <3> QED
      BY <3>1
  <2>2. Tick * q = Tick * p + Tick + Tick * d /\ Tick * d \in Nat /\ Tick * p \in Nat
    BY <1>1, <2>1
  <2> QED
    BY <1>1, <2>2
<1> QED
  BY <1>2, <1>3

LEMMA MillisMonotone ==
    ASSUME NEW s \in Nat, NEW t \in Nat, s <= t
    PROVE  /\ Millis(s) \in Nat /\ Millis(t) \in Nat /\ Millis(s) <= Millis(t)
           /\ (Millis(t) <= s => Millis(s) = Millis(t))
<1>1. PICK p \in Nat : Millis(s) = Tick * p
  BY MillisOf
<1>2. PICK q \in Nat : Millis(t) = Tick * q
  BY MillisOf
<1>3. /\ Millis(s) \in Nat /\ Millis(s) <= s /\ s < Millis(s) + Tick
      /\ Millis(t) \in Nat /\ Millis(t) <= t /\ t < Millis(t) + Tick
      /\ Tick \in Nat
  BY MillisOf, MongoAssumption
<1>4. Millis(s) < Millis(t) => Millis(s) + Tick <= Millis(t)
  BY <1>1, <1>2, TickMultiples
<1>5. Millis(t) < Millis(s) => Millis(t) + Tick <= Millis(s)
  BY <1>1, <1>2, TickMultiples
<1> QED
  BY <1>3, <1>4, <1>5

-----------------------------------------------------------------------------
(* The binary search.                                                      *)

LEMMA Midpoint ==
    ASSUME NEW n \in Nat \ {0}, NEW low \in 0 .. n - 1, NEW high \in 0 .. n - 1,
           NEW mid, mid = (low + high + 1) \div 2
    PROVE  /\ mid \in 0 .. n - 1
           /\ high - low > 1 => low < mid /\ mid < high
           /\ low <= high => low <= mid /\ mid <= high
           /\ low < high /\ high - low <= 1 => mid = high
<1>1. low \in Nat /\ high \in Nat /\ low + high + 1 \in Nat
  OBVIOUS
<1>2. mid \in Nat /\ 2 * mid <= low + high + 1 /\ low + high + 1 < 2 * mid + 2
  BY <1>1
<1> QED
  BY <1>1, <1>2

LEMMA SearchResult ==
    ASSUME NEW times \in Seq(Nat), NEW goal \in Nat, r.num \in 1 .. Len(times),
           \A i, j \in DOMAIN times : i < j => times[i] < times[j]
    PROVE  /\ BinarySearch(times, goal) \in [at : 0 .. r.num - 1, taken : BOOLEAN]
           /\ \A k \in DOMAIN times :
                 k <= BinarySearch(times, goal).at => times[k] < goal
<1> DEFINE I == 0 .. r.num - 1
           S == I \X I
           V == [at : I, taken : BOOLEAN]
           e(f, range) ==
            LET low  == range[1]
                high == range[2]
                mid  == (low + high + 1) \div 2
                t    == times[mid + 1]
            IN  CASE high - low <= 1 /\ t > goal  -> [at |-> low, taken |-> FALSE]
                  [] high - low <= 1 /\ t <= goal -> [at |-> mid, taken |-> TRUE]
                  [] high - low > 1 /\ t = goal   -> [at |-> mid, taken |-> TRUE]
                  [] high - low > 1 /\ t > goal   -> f[<<low, mid>>]
                  [] OTHER                        -> f[<<mid, high>>]
           E(f) == [range \in S |-> e(f, range)]
           search == CHOOSE f : f = E(f)
           width(range) == IF range[1] <= range[2] THEN range[2] - range[1] ELSE 0
           m == [range \in S |-> width(range)]
           F == [f \in [S -> V] |-> E(f)]
<1>1. BinarySearch(times, goal) = search[<<0, r.num - 1>>]
  BY DEF BinarySearch
<1> HIDE DEF search
<1>2. /\ r.num \in Nat \ {0} /\ r.num - 1 \in I /\ 0 \in I /\ I \subseteq Nat
      /\ DOMAIN times \subseteq Nat /\ \A i \in I : i + 1 \in DOMAIN times /\ times[i + 1] \in Nat
  OBVIOUS
<1>m. ASSUME NEW low \in I, NEW high \in I, NEW mid, mid = (low + high + 1) \div 2
      PROVE  mid \in I /\ (high - low > 1 => low < mid /\ mid < high)
  <2>1. PICK n \in Nat \ {0} : n = r.num
    BY <1>2
  <2>2. low \in 0 .. n - 1 /\ high \in 0 .. n - 1
    BY <2>1
  <2>3. mid \in 0 .. n - 1 /\ (high - low > 1 => low < mid /\ mid < high)
    <3> HIDE DEF I
    <3> QED
      BY <1>m, <2>2, Midpoint
  <2> QED
    BY <2>1, <2>3
\* The step has a value of the type, from values for narrower ranges.
<1>3. ASSUME NEW f \in [S -> V], NEW range \in S
      PROVE  e(f, range) \in V
  <2>1. PICK low \in I, high \in I : range = <<low, high>>
    OBVIOUS
  <2>2. PICK mid : mid = (low + high + 1) \div 2
    OBVIOUS
  <2>3. mid \in I
    BY <1>m, <2>2
  <2>4. times[mid + 1] \in Nat /\ low \in Nat /\ high \in Nat
    BY <1>2, <2>3
  <2>5. f[<<low, mid>>] \in V /\ f[<<mid, high>>] \in V
    BY <2>3
  <2>6. [at |-> low, taken |-> FALSE] \in V /\ [at |-> mid, taken |-> TRUE] \in V
    BY <2>3
  <2>7. e(f, <<low, high>>) \in V
    <3> HIDE DEF V, S
    <3> QED
      BY <2>2, <2>4, <2>5, <2>6
  <2> QED
    BY <2>1, <2>7
<1>4. F \in [[S -> V] -> [S -> V]]
  <2> HIDE DEF V, e, S
  <2> QED
    BY <1>3
<1>5. m \in [S -> Nat]
  <2>1. \A low, high \in I : low \in Nat /\ high \in Nat /\ width(<<low, high>>) \in Nat
    BY <1>2
  <2>2. \A range \in S : width(range) \in Nat
    <3> TAKE range \in S
    <3>1. PICK low \in I, high \in I : range = <<low, high>>
      OBVIOUS
    <3> QED
      BY <2>1, <3>1
  <2> HIDE DEF S, width
  <2> QED
    BY <2>2
\* It looks at narrower ranges only.
<1>6. ASSUME NEW low \in I, NEW high \in I, high - low > 1,
             NEW mid, mid = (low + high + 1) \div 2
      PROVE  /\ <<low, mid>> \in S /\ m[<<low, mid>>] < m[<<low, high>>]
             /\ <<mid, high>> \in S /\ m[<<mid, high>>] < m[<<low, high>>]
  <2>1. mid \in I /\ low < mid /\ mid < high
    BY <1>m, <1>6
  <2>2. low \in Nat /\ high \in Nat /\ mid \in Nat
    BY <1>2, <2>1
  <2>3. mid - low < high - low /\ high - mid < high - low
    BY <2>1, <2>2
  <2>4. /\ <<low, mid>> \in S /\ <<mid, high>> \in S /\ <<low, high>> \in S
    BY <2>1
  <2>5. /\ m[<<low, mid>>] = mid - low
        /\ m[<<mid, high>>] = high - mid
        /\ m[<<low, high>>] = high - low
    BY <2>1, <2>2, <2>4
  <2> QED
    BY <2>3, <2>4, <2>5
\* Its cases.
<1>7. ASSUME NEW f, NEW low \in I, NEW high \in I, NEW mid \in I, mid = (low + high + 1) \div 2
      PROVE  /\ high - low <= 1 /\ times[mid + 1] > goal =>
                   e(f, <<low, high>>) = [at |-> low, taken |-> FALSE]
             /\ high - low <= 1 /\ times[mid + 1] <= goal =>
                   e(f, <<low, high>>) = [at |-> mid, taken |-> TRUE]
             /\ high - low > 1 /\ times[mid + 1] = goal =>
                   e(f, <<low, high>>) = [at |-> mid, taken |-> TRUE]
             /\ high - low > 1 /\ times[mid + 1] > goal =>
                   e(f, <<low, high>>) = f[<<low, mid>>]
             /\ high - low > 1 /\ times[mid + 1] < goal =>
                   e(f, <<low, high>>) = f[<<mid, high>>]
             /\ \/ high - low <= 1 /\ times[mid + 1] > goal
                \/ high - low <= 1 /\ times[mid + 1] <= goal
                \/ high - low > 1 /\ times[mid + 1] = goal
                \/ high - low > 1 /\ times[mid + 1] > goal
                \/ high - low > 1 /\ times[mid + 1] < goal
  <2>1. times[mid + 1] \in Nat /\ low \in Nat /\ high \in Nat
    BY <1>2
  <2>2. PICK t : t = times[mid + 1]
    OBVIOUS
  <2>3. e(f, <<low, high>>) =
            CASE high - low <= 1 /\ t > goal  -> [at |-> low, taken |-> FALSE]
              [] high - low <= 1 /\ t <= goal -> [at |-> mid, taken |-> TRUE]
              [] high - low > 1 /\ t = goal   -> [at |-> mid, taken |-> TRUE]
              [] high - low > 1 /\ t > goal   -> f[<<low, mid>>]
              [] OTHER                        -> f[<<mid, high>>]
    BY <1>7, <2>2
  <2> HIDE DEF e, I
  <2> QED
    BY <2>1, <2>2, <2>3
<1>8. DependsBelow(F, m, S, V)
  <2> SUFFICES ASSUME NEW f \in [S -> V], NEW g \in [S -> V], NEW range \in S,
                      \A y \in S : m[y] < m[range] => f[y] = g[y]
               PROVE  F[f][range] = F[g][range]
    BY DEF DependsBelow
  <2>0. PICK low \in I, high \in I : range = <<low, high>>
    OBVIOUS
  <2>1. PICK mid : mid = (low + high + 1) \div 2
    OBVIOUS
  <2>2. high - low > 1 => f[<<low, mid>>] = g[<<low, mid>>] /\ f[<<mid, high>>] = g[<<mid, high>>]
    <3> HIDE DEF m, S, I
    <3> QED
      BY <1>6, <2>0, <2>1
  <2>3. mid \in I
    BY <1>m, <2>1
  <2>4. e(f, range) = e(g, range)
    <3>1. PICK t \in Nat : t = times[mid + 1]
      BY <1>2, <2>3
    <3>2. low \in Nat /\ high \in Nat
      BY <1>2
    <3>3. e(f, <<low, high>>) =
            CASE high - low <= 1 /\ t > goal  -> [at |-> low, taken |-> FALSE]
              [] high - low <= 1 /\ t <= goal -> [at |-> mid, taken |-> TRUE]
              [] high - low > 1 /\ t = goal   -> [at |-> mid, taken |-> TRUE]
              [] high - low > 1 /\ t > goal   -> f[<<low, mid>>]
              [] OTHER                        -> f[<<mid, high>>]
      BY <2>1, <3>1
    <3>4. e(g, <<low, high>>) =
            CASE high - low <= 1 /\ t > goal  -> [at |-> low, taken |-> FALSE]
              [] high - low <= 1 /\ t <= goal -> [at |-> mid, taken |-> TRUE]
              [] high - low > 1 /\ t = goal   -> [at |-> mid, taken |-> TRUE]
              [] high - low > 1 /\ t > goal   -> g[<<low, mid>>]
              [] OTHER                        -> g[<<mid, high>>]
      BY <2>1, <3>1
    <3> HIDE DEF e, S, I
    <3> QED
      BY <2>0, <2>2, <3>1, <3>2, <3>3, <3>4
  <2>5. F[f][range] = e(f, range) /\ F[g][range] = e(g, range)
    <3> HIDE DEF e, S, V
    <3> QED
      OBVIOUS
  <2> QED
    BY <2>4, <2>5
<1>9. search = E(search)
  <2>1. V # {}
    <3>1. [at |-> 0, taken |-> TRUE] \in V
      BY <1>2
    <3> QED
      BY <3>1
  <2>2. PICK f \in [S -> V] : f = F[f]
    <3> HIDE DEF S, V, m, F
    <3>1. \E f \in [S -> V] : f = F[f] /\ \A g \in [S -> V] : g = F[g] => g = f
      <4>1. Recursive(F, m, S, V)
        BY <1>4, <1>5, <1>8, <2>1 DEF Recursive
      <4> QED
        BY <4>1, RecursionDefines
    <3> QED
      BY <3>1
  <2>3. f = E(f)
    BY <2>2
  <2> HIDE DEF E
  <2> QED
    BY <2>3 DEF search
\* What the search ends with, when it has passed earlier samples only.
<1> DEFINE Earlier(n) == \A k \in DOMAIN times : k <= n => times[k] < goal
           Right(range, found) ==
               found \in V /\ (Earlier(range[1]) => Earlier(found.at))
           Wrong == {range \in S : ~Right(range, search[range])}
<1>10. Wrong = {}
  <2>1. SUFFICES ASSUME Wrong # {} PROVE FALSE
    OBVIOUS
  <2>2. PICK x \in Wrong : \A y \in S : m[y] < m[x] => y \notin Wrong
    <3>1. \A y \in S : m[y] \in Nat
      BY <1>5
    <3>2. Wrong \subseteq S
      OBVIOUS
    <3> HIDE DEF m, Wrong, S
    <3> QED
      BY <2>1, <3>1, <3>2, LeastOf
  <2>3. PICK low \in I, high \in I : x = <<low, high>>
    OBVIOUS
  <2>4. PICK mid : mid = (low + high + 1) \div 2
    OBVIOUS
  <2>5. mid \in I
    BY <1>m, <2>4
  <2>6. times[mid + 1] \in Nat /\ low \in Nat /\ high \in Nat /\ mid \in Nat
    BY <1>2, <2>5
  <2>7. search[<<low, high>>] = e(search, <<low, high>>)
    <3>1. <<low, high>> \in S
      OBVIOUS
    <3> HIDE DEF e, S
    <3> QED
      BY <1>9, <3>1
  <2>8. ~Right(<<low, high>>, search[<<low, high>>])
    BY <2>2, <2>3
  <2>9. times[mid + 1] <= goal => Earlier(mid)
    <3> SUFFICES ASSUME times[mid + 1] <= goal, NEW k \in DOMAIN times, k <= mid
                 PROVE  times[k] < goal
      OBVIOUS
    <3>1. k \in Nat /\ k < mid + 1 /\ mid + 1 \in DOMAIN times
      BY <1>2, <2>5, <2>6
    <3>2. times[k] < times[mid + 1] /\ times[k] \in Nat
      BY <3>1, SMTT(30)
    <3> QED
      BY <2>6, <3>2
  <2>10. Right(<<low, high>>, [at |-> low, taken |-> FALSE])
    OBVIOUS
  <2>11. times[mid + 1] <= goal => Right(<<low, high>>, [at |-> mid, taken |-> TRUE])
    BY <2>5, <2>9
  <2>12. high - low > 1 => /\ Right(<<low, mid>>, search[<<low, mid>>])
                           /\ Right(<<mid, high>>, search[<<mid, high>>])
    <3> HAVE high - low > 1
    <3>1. /\ <<low, mid>> \in S /\ m[<<low, mid>>] < m[<<low, high>>]
          /\ <<mid, high>> \in S /\ m[<<mid, high>>] < m[<<low, high>>]
      <4> HIDE DEF S, I, m
      <4> QED
        BY <1>6, <2>4
    <3>3. <<low, mid>> \notin Wrong /\ <<mid, high>> \notin Wrong
      <4> HIDE DEF m, Wrong, S
      <4> QED
        BY <2>2, <2>3, <3>1
    <3> HIDE DEF S, Right
    <3> QED
      BY <3>1, <3>3
  <2>13. high - low > 1 => Right(<<low, high>>, search[<<low, mid>>])
    BY <2>12
  <2>14. high - low > 1 /\ times[mid + 1] < goal => Right(<<low, high>>, search[<<mid, high>>])
    <3>1. times[mid + 1] < goal => Earlier(mid)
      BY <2>6, <2>9, SMTT(30)
    <3> HIDE DEF Earlier, V
    <3> QED
      BY <2>12, <3>1
  <2>15. /\ times[mid + 1] = goal => times[mid + 1] <= goal
    BY <2>6
  <2> HIDE DEF Right, e, I
  <2> QED
    BY <1>7, <2>4, <2>5, <2>7, <2>8, <2>10, <2>11, <2>13, <2>14, <2>15
<1>11. <<0, r.num - 1>> \in S
  BY <1>2
<1>12. Right(<<0, r.num - 1>>, search[<<0, r.num - 1>>])
  <2> HIDE DEF Right, S
  <2> QED
    BY <1>10, <1>11
<1>13. Earlier(0)
  OBVIOUS
<1> QED
  BY <1>1, <1>12, <1>13

-----------------------------------------------------------------------------
(* The items of an index: documents of files, or entries of blocks.        *)

LEMMA FirstOfItems ==
    ASSUME NEW items, items # {}, \A i \in items : i.start \in Nat
    PROVE  FirstOf(items) \in items /\ \A j \in items : FirstOf(items).start <= j.start
<1> DEFINE m == [i \in items |-> i.start]
<1>1. \A i \in items : m[i] \in Nat
  OBVIOUS
<1>2. PICK i \in items : \A j \in items : m[i] <= m[j]
  <2> HIDE DEF m
  <2> QED
    BY <1>1, LeastMeasure
<1> QED
  BY <1>2 DEF FirstOf

\* An item that is not the first one is from before t.
LEMMA BeforeItems ==
    ASSUME NEW items, items # {}, \A i \in items : i.start \in Nat, NEW t \in Nat
    PROVE  /\ Before(items, t) \in items
           /\ \A j \in items : j.start < Before(items, t).start => Before(items, t).start < t
<1> DEFINE earlier == {i \in items : i.start < t}
           m == [i \in earlier |-> t - i.start]
<1>1. CASE earlier = {}
  <2>1. Before(items, t) = FirstOf(items)
    BY <1>1 DEF Before
  <2>2. FirstOf(items) \in items /\ \A j \in items : FirstOf(items).start <= j.start
    BY FirstOfItems
  <2>3. ASSUME NEW j \in items, j.start < FirstOf(items).start PROVE FALSE
    <3>1. j.start \in Nat /\ FirstOf(items).start \in Nat /\ FirstOf(items).start <= j.start
      BY <2>2
    <3> QED
      BY <2>3, <3>1
  <2> QED
    BY <2>1, <2>2, <2>3
<1>2. CASE earlier # {}
  <2>1. \A i \in earlier : m[i] \in Nat
    OBVIOUS
  <2>2. PICK i \in earlier : \A j \in earlier : m[i] <= m[j]
    <3> HIDE DEF m, earlier
    <3> QED
      BY <1>2, <2>1, LeastMeasure
  <2>3. \A j \in earlier : j.start <= i.start
    <3> TAKE j \in earlier
    <3>1. m[i] <= m[j] /\ m[i] = t - i.start /\ m[j] = t - j.start
      BY <2>2
    <3>2. i.start \in Nat /\ j.start \in Nat
      OBVIOUS
    <3> QED
      BY <3>1, <3>2
  <2>4. Before(items, t) = CHOOSE k \in earlier : \A j \in earlier : j.start <= k.start
    BY <1>2 DEF Before
  <2>5. Before(items, t) \in earlier
    <3> HIDE DEF earlier
    <3> QED
      BY <2>3, <2>4
  <2> QED
    BY <2>5
<1> QED
  BY <1>1, <1>2

-----------------------------------------------------------------------------
(* The blocks.                                                             *)

SoundBlocks(B) ==
    /\ B \in Seq([file : Nat, times : Seq(Nat) \ {<<>>}])
    /\ \A b \in DOMAIN B : \A i, j \in DOMAIN B[b].times :
          i < j => B[b].times[i] < B[b].times[j]
    /\ \A b, c \in DOMAIN B : b < c =>
          /\ Last(B[b].times) < B[c].times[1]
          /\ B[b].file <= B[c].file
          /\ B[b].file < B[c].file => Millis(B[b].times[1]) < Millis(B[c].times[1])

\* C has one more sample than B, which is t.
Extended(B, C, t) ==
    /\ DOMAIN B \subseteq DOMAIN C
    /\ \A b \in DOMAIN B :
          /\ C[b].file = B[b].file
          /\ DOMAIN B[b].times \subseteq DOMAIN C[b].times
          /\ \A k \in DOMAIN B[b].times : C[b].times[k] = B[b].times[k]
    /\ \A c \in DOMAIN C : \A k \in DOMAIN C[c].times :
          \/ c \in DOMAIN B /\ k \in DOMAIN B[c].times
          \/ C[c].times[k] = t

LEMMA BlockFields ==
    ASSUME NEW B, SoundBlocks(B), NEW b \in DOMAIN B
    PROVE  /\ b \in Nat /\ Len(B) \in Nat /\ DOMAIN B = 1 .. Len(B)
           /\ B[b].file \in Nat /\ B[b].times \in Seq(Nat) /\ B[b].times # <<>>
           /\ Len(B[b].times) \in Nat \ {0} /\ DOMAIN B[b].times = 1 .. Len(B[b].times)
           /\ 1 \in DOMAIN B[b].times /\ Last(B[b].times) = B[b].times[Len(B[b].times)]
           /\ Last(B[b].times) \in Nat
           /\ \A k \in DOMAIN B[b].times :
                 /\ k \in Nat /\ B[b].times[k] \in Nat
                 /\ B[b].times[1] <= B[b].times[k] /\ B[b].times[k] <= Last(B[b].times)
<1>1. b \in Nat /\ Len(B) \in Nat /\ DOMAIN B = 1 .. Len(B)
  BY DEF SoundBlocks
<1> DEFINE T == [file : Nat, times : Seq(Nat) \ {<<>>}]
<1>2. B[b] \in T
  <2>1. B \in Seq(T)
    BY DEF SoundBlocks
  <2> HIDE DEF T
  <2> QED
    BY <1>1, <2>1
<1>3. B[b].file \in Nat /\ B[b].times \in Seq(Nat) /\ B[b].times # <<>>
  BY <1>2
<1> DEFINE s == B[b].times
<1>4. \A i, j \in DOMAIN s : i < j => s[i] < s[j]
  BY DEF SoundBlocks
<1> HIDE DEF s
<1>5. s \in Seq(Nat) /\ s # <<>>
  BY <1>3 DEF s
<1>6. Len(s) \in Nat \ {0} /\ DOMAIN s = 1 .. Len(s) /\ 1 \in DOMAIN s /\ Len(s) \in DOMAIN s
  BY <1>5
<1>7. Last(s) = s[Len(s)]
  BY DEF Last
<1>8. \A k \in DOMAIN s : k \in Nat /\ s[k] \in Nat
  BY <1>5
<1>9. \A k \in DOMAIN s : s[1] <= s[k] /\ s[k] <= s[Len(s)]
  <2> TAKE k \in DOMAIN s
  <2>1. k = 1 \/ 1 < k
    BY <1>6
  <2>2. k = Len(s) \/ k < Len(s)
    BY <1>6
  <2>3. s[1] \in Nat /\ s[k] \in Nat /\ s[Len(s)] \in Nat
    BY <1>6, <1>8
  <2> QED
    BY <1>4, <1>6, <2>1, <2>2, <2>3
<1> QED
  BY <1>1, <1>3, <1>5, <1>6, <1>7, <1>8, <1>9 DEF s

\* The samples are in order over all blocks.
LEMMA Order ==
    ASSUME NEW B, SoundBlocks(B), NEW b \in DOMAIN B, NEW c \in DOMAIN B,
           NEW k \in DOMAIN B[b].times, NEW l \in DOMAIN B[c].times
    PROVE  /\ b < c => B[b].times[k] < B[c].times[l]
           /\ B[b].times[k] = B[c].times[l] => b = c /\ k = l
<1>1. /\ B[b].times[k] \in Nat /\ B[b].times[1] <= B[b].times[k]
      /\ B[b].times[k] <= Last(B[b].times) /\ Last(B[b].times) \in Nat
      /\ B[b].times[1] \in Nat /\ b \in Nat /\ k \in Nat
  BY BlockFields
<1>2. /\ B[c].times[l] \in Nat /\ B[c].times[1] <= B[c].times[l]
      /\ B[c].times[l] <= Last(B[c].times) /\ Last(B[c].times) \in Nat
      /\ B[c].times[1] \in Nat /\ c \in Nat /\ l \in Nat
  BY BlockFields
<1>3. b < c => Last(B[b].times) < B[c].times[1]
  BY DEF SoundBlocks
<1>4. c < b => Last(B[c].times) < B[b].times[1]
  BY DEF SoundBlocks
<1>5. /\ b = c /\ k < l => B[b].times[k] < B[c].times[l]
      /\ b = c /\ l < k => B[c].times[l] < B[b].times[k]
  BY DEF SoundBlocks
<1> QED
  BY <1>1, <1>2, <1>3, <1>4, <1>5

LEMMA NewBlock ==
    ASSUME NEW B, SoundBlocks(B), NEW t \in Nat, \A b \in DOMAIN B : t > Last(B[b].times),
           NEW f \in Nat,
           \A b \in DOMAIN B : /\ B[b].file <= f
                               /\ B[b].file < f => Millis(B[b].times[1]) < Millis(t)
    PROVE  LET C == Append(B, [file |-> f, times |-> <<t>>])
           IN  SoundBlocks(C) /\ Extended(B, C, t)
<1> DEFINE n == [file |-> f, times |-> <<t>>]
           C == Append(B, n)
           T == [file : Nat, times : Seq(Nat) \ {<<>>}]
           l == Len(B) + 1
<1>1. n \in T /\ n.file = f /\ n.times = <<t>>
  OBVIOUS
<1>2. DOMAIN n.times = {1} /\ n.times[1] = t /\ Last(n.times) = t
  BY <1>1 DEF Last
<1>3. B \in Seq(T) /\ Len(B) \in Nat /\ DOMAIN B = 1 .. Len(B)
  BY DEF SoundBlocks
<1> HIDE DEF n, T
<1>4. /\ C \in Seq(T) /\ DOMAIN C = 1 .. l /\ C[l] = n
      /\ \A b \in DOMAIN B : C[b] = B[b]
  BY <1>1, <1>3
<1> HIDE DEF C
<1>5. \A c \in DOMAIN C : c = l \/ c \in DOMAIN B
  BY <1>3, <1>4
<1>6. l \notin DOMAIN B /\ \A b \in DOMAIN B : b < l
  BY <1>3
<1>7. ASSUME NEW b \in DOMAIN C, NEW i \in DOMAIN C[b].times, NEW j \in DOMAIN C[b].times, i < j
      PROVE  C[b].times[i] < C[b].times[j]
  <2>1. CASE b = l
    BY <1>2, <1>4, <1>7, <2>1
  <2>2. CASE b \in DOMAIN B
    BY <1>4, <1>7, <2>2 DEF SoundBlocks
  <2> QED
    BY <1>5, <2>1, <2>2
<1>8. ASSUME NEW b \in DOMAIN C, NEW c \in DOMAIN C, b < c
      PROVE  /\ Last(C[b].times) < C[c].times[1]
             /\ C[b].file <= C[c].file
             /\ C[b].file < C[c].file => Millis(C[b].times[1]) < Millis(C[c].times[1])
  <2>1. b \in DOMAIN B /\ C[b] = B[b]
    BY <1>3, <1>4, <1>8
  <2>2. CASE c = l
    <3>1. Last(B[b].times) \in Nat
      BY <2>1, BlockFields
    <3> QED
      BY <1>1, <1>2, <1>4, <2>1, <2>2, <3>1
  <2>3. CASE c \in DOMAIN B
    BY <1>4, <1>8, <2>1, <2>3 DEF SoundBlocks
  <2> QED
    BY <1>5, <2>2, <2>3
<1>9. SoundBlocks(C)
  BY <1>4, <1>7, <1>8 DEF SoundBlocks, T
<1>10. Extended(B, C, t)
  <2>1. ASSUME NEW c \in DOMAIN C, NEW k \in DOMAIN C[c].times
        PROVE  \/ c \in DOMAIN B /\ k \in DOMAIN B[c].times
               \/ C[c].times[k] = t
    <3>1. CASE c = l
      BY <1>2, <1>4, <2>1, <3>1
    <3>2. CASE c \in DOMAIN B
      BY <1>4, <2>1, <3>2
    <3> QED
      BY <1>5, <3>1, <3>2
  <2>2. DOMAIN B \subseteq DOMAIN C
    BY <1>3, <1>4
  <2> QED
    BY <1>4, <2>1, <2>2 DEF Extended
<1> QED
  BY <1>9, <1>10 DEF C, n

LEMMA LongerBlock ==
    ASSUME NEW B, SoundBlocks(B), B # <<>>, NEW t \in Nat, \A b \in DOMAIN B : t > Last(B[b].times)
    PROVE  LET C == [B EXCEPT ![Len(B)].times = Append(@, t)]
           IN  SoundBlocks(C) /\ Extended(B, C, t)
<1> DEFINE l == Len(B)
           s == B[l].times
           n == [file |-> B[l].file, times |-> Append(s, t)]
           C == [B EXCEPT ![l].times = Append(@, t)]
           T == [file : Nat, times : Seq(Nat) \ {<<>>}]
<1>1. B \in Seq(T) /\ l \in DOMAIN B /\ Len(B) \in Nat /\ DOMAIN B = 1 .. Len(B)
  BY DEF SoundBlocks
<1>2. s \in Seq(Nat) /\ Len(s) \in Nat \ {0} /\ DOMAIN s = 1 .. Len(s) /\ Last(s) = s[Len(s)]
  BY <1>1, BlockFields
<1>3. B[l] \in T
  <2> HIDE DEF T
  <2> QED
    BY <1>1
<1>4. [B[l] EXCEPT !.times = Append(s, t)] = n
  <2>1. PICK a \in T : a = B[l]
    BY <1>3
  <2>2. \A x : [a EXCEPT !.times = x] = [file |-> a.file, times |-> x]
    <3> HIDE DEF s, C
    <3> QED
      OBVIOUS
  <2> QED
    BY <2>1, <2>2
<1>5. /\ Append(s, t) \in Seq(Nat) \ {<<>>} /\ Len(Append(s, t)) = Len(s) + 1
      /\ Append(s, t)[Len(s) + 1] = t
      /\ DOMAIN Append(s, t) = 1 .. Len(s) + 1
      /\ \A k \in DOMAIN s : Append(s, t)[k] = s[k]
  <2> HIDE DEF s
  <2> QED
    BY <1>2
<1>6. n \in T /\ n.file = B[l].file /\ n.times = Append(s, t)
  BY <1>3, <1>5
<1>7. C = [B EXCEPT ![l] = n]
  BY <1>1, <1>4
<1> HIDE DEF n, T
<1>8. /\ C \in Seq(T) /\ DOMAIN C = DOMAIN B /\ C[l] = n
      /\ \A b \in DOMAIN B : b # l => C[b] = B[b]
  <2> HIDE DEF C
  <2> QED
    BY <1>1, <1>6, <1>7
<1> HIDE DEF C, s
<1>9. Last(n.times) = t /\ n.times[1] = s[1] /\ Last(s) < t
  <2>1. Last(s) < t
    <3>1. Last(s) \in Nat
      BY <1>1, BlockFields DEF s
    <3> QED
      BY <1>1, <3>1 DEF s
  <2> QED
    BY <1>2, <1>5, <1>6, <2>1 DEF Last
<1>10. ASSUME NEW b \in DOMAIN C, NEW i \in DOMAIN C[b].times, NEW j \in DOMAIN C[b].times, i < j
       PROVE  C[b].times[i] < C[b].times[j]
  <2>1. CASE b # l
    BY <1>8, <1>10, <2>1 DEF SoundBlocks
  <2>2. CASE b = l
    <3>1. i \in DOMAIN s
      BY <1>2, <1>5, <1>6, <1>8, <1>10, <2>2
    <3>2. n.times[i] = s[i] /\ s[i] <= Last(s) /\ s[i] \in Nat /\ Last(s) \in Nat
      BY <1>1, <1>5, <1>6, <3>1, BlockFields DEF s
    <3>3. CASE j \in DOMAIN s
      <4>1. s[i] < s[j]
        BY <1>1, <1>10, <3>1, <3>3 DEF SoundBlocks, s
      <4> QED
        BY <1>5, <1>6, <1>8, <2>2, <3>2, <3>3, <4>1
    <3>4. CASE j \notin DOMAIN s
      <4>1. j = Len(s) + 1
        BY <1>2, <1>5, <1>6, <1>8, <2>2, <3>4
      <4>2. n.times[j] = t
        BY <1>5, <1>6, <4>1
      <4> QED
        BY <1>8, <1>9, <2>2, <3>2, <4>2
    <3> QED
      BY <3>3, <3>4
  <2> QED
    BY <2>1, <2>2
<1>11. ASSUME NEW b \in DOMAIN C, NEW c \in DOMAIN C, b < c
       PROVE  /\ Last(C[b].times) < C[c].times[1]
              /\ C[b].file <= C[c].file
              /\ C[b].file < C[c].file => Millis(C[b].times[1]) < Millis(C[c].times[1])
  <2>1. b # l
    BY <1>1, <1>8, <1>11
  <2>2. C[b] = B[b] /\ C[c].file = B[c].file /\ C[c].times[1] = B[c].times[1]
    BY <1>6, <1>8, <1>9, <2>1 DEF s
  <2> QED
    BY <1>8, <1>11, <2>2 DEF SoundBlocks
<1>12. SoundBlocks(C)
  BY <1>8, <1>10, <1>11 DEF SoundBlocks, T
<1>13. Extended(B, C, t)
  <2>1. \A b \in DOMAIN B :
          /\ C[b].file = B[b].file
          /\ DOMAIN B[b].times \subseteq DOMAIN C[b].times
          /\ \A k \in DOMAIN B[b].times : C[b].times[k] = B[b].times[k]
    <3> TAKE b \in DOMAIN B
    <3>1. CASE b = l
      <4>1. DOMAIN s \subseteq DOMAIN n.times
        BY <1>2, <1>5, <1>6
      <4> QED
        BY <1>5, <1>6, <1>8, <3>1, <4>1 DEF s
    <3>2. CASE b # l
      BY <1>8, <3>2
    <3> QED
      BY <3>1, <3>2
  <2>2. ASSUME NEW c \in DOMAIN C, NEW k \in DOMAIN C[c].times
        PROVE  \/ c \in DOMAIN B /\ k \in DOMAIN B[c].times
               \/ C[c].times[k] = t
    <3>1. CASE c = l
      BY <1>2, <1>5, <1>6, <1>8, <2>2, <3>1 DEF s
    <3>2. CASE c # l
      BY <1>8, <2>2, <3>2
    <3> QED
      BY <3>1, <3>2
  <2> QED
    BY <1>8, <2>1, <2>2 DEF Extended
<1> QED
  BY <1>12, <1>13 DEF C

LEMMA FileOrder ==
    ASSUME NEW B, SoundBlocks(B), NEW b \in DOMAIN B, NEW c \in DOMAIN B, B[b].file < B[c].file
    PROVE  b < c /\ Millis(B[b].times[1]) < Millis(B[c].times[1])
<1>1. b \in Nat /\ c \in Nat /\ B[b].file \in Nat /\ B[c].file \in Nat
  BY BlockFields
<1>2. c < b => B[c].file <= B[b].file
  BY DEF SoundBlocks
<1>3. b < c
  BY <1>1, <1>2
<1> QED
  BY <1>3 DEF SoundBlocks

-----------------------------------------------------------------------------
(* The reader.                                                             *)

\* In a step of the reader, but for find(), these are as they were.
Kept == blocks' = blocks /\ docs' = docs /\ r'.known = r.known /\ r'.start = r.start

LEMMA Frame ==
    ASSUME MongoInv, Kept
    PROVE  /\ BlocksSound' /\ DocsSound'
           /\ \A t : Owed(t)' <=> Owed(t)
           /\ r'.files = r.files /\ r.pc \notin {"idle", "none", "files"} => FilesSound'
<1>1. /\ blocks' = blocks /\ docs' = docs /\ r'.known = r.known /\ r'.start = r.start
      /\ BlocksSound /\ DocsSound /\ FilesSound
  BY DEF MongoInv, Kept
<1>2. BlocksSound'
  BY <1>1 DEF BlocksSound
<1>3. \A f, items : EntriesOf(f, items) => EntriesOf(f, items)'
  BY <1>1 DEF EntriesOf
<1>4. \A f, items : CoverKnown(f, items) => CoverKnown(f, items)'
  BY <1>1 DEF CoverKnown
<1>5. DocsSound'
  BY <1>1, <1>3, <1>4 DEF DocsSound
<1>6. \A t : Owed(t)' <=> Owed(t)
  BY <1>1 DEF Owed
<1>7. r'.files = r.files /\ r.pc \notin {"idle", "none", "files"} => FilesSound'
  BY <1>1 DEF FilesSound
<1> QED
  BY <1>2, <1>5, <1>6, <1>7

LEMMA SamePlace ==
    ASSUME MongoInv, Kept, Reading, Reading', Block' = Block, Place' = Place,
           r'.out = r.out,
           r'.pc = "end" => \A t \in r.known : Owed(t) => t \in ToSet(r.out)
    PROVE  OutSound' /\ InOrder'
<1>1. \A t : Owed(t)' <=> Owed(t)
  BY Frame
<1>2. r'.pc # "blocks"
  BY DEF Reading
<1>3. \A b, k : Behind(b, k)' <=> Behind(b, k)
  BY DEF Behind
<1>4. OutSound /\ InOrder /\ blocks' = blocks
  BY DEF MongoInv, Kept
<1>5. InOrder'
  BY <1>4 DEF InOrder
<1>6. OutSound'
  BY <1>1, <1>2, <1>3, <1>4 DEF OutSound, Kept
<1> QED
  BY <1>5, <1>6

\* The entry that bid points to.
LEMMA CurrentEntry ==
    ASSUME MongoInv, Reading, r.bid # 0
    PROVE  /\ r.bid \in DOMAIN blocks
           /\ Current \in r.entries /\ Current.block = r.bid
           /\ Current.start = blocks[r.bid].times[1]
           /\ blocks[r.bid].file = r.file
           /\ \A k \in DOMAIN blocks[r.bid].times :
                 blocks[r.bid].times[k] \in r.known => blocks[r.bid].times[k] <= Current.end
<1>1. EntriesOf(r.file, r.entries) /\ CoverKnown(r.file, r.entries)
  BY DEF MongoInv, HeaderSound
<1>2. \E i \in r.entries : i.block = r.bid
  BY DEF MongoInv, HeaderSound
<1>3. Current \in r.entries /\ Current.block = r.bid
  BY <1>2 DEF Current
<1> HIDE DEF Current
<1>4. /\ r.bid \in DOMAIN blocks /\ blocks[r.bid].file = r.file
      /\ Current.start = blocks[r.bid].times[1]
      /\ \A j \in r.entries : j.block = r.bid => j = Current
  BY <1>1, <1>3 DEF EntriesOf
<1>5. \A k \in DOMAIN blocks[r.bid].times :
         blocks[r.bid].times[k] \in r.known => blocks[r.bid].times[k] <= Current.end
  BY <1>1, <1>4 DEF CoverKnown
<1> QED
  BY <1>3, <1>4, <1>5

LEMMA CallNextStep ==
    ASSUME MongoInv, CallNext
    PROVE  MongoInv'
<1>1. r \in Reader /\ r.pc \in {"have", "end"}
  BY DEF MongoInv, CallNext
<1>2. r' = [r EXCEPT !.pc = "next"] /\ blocks' = blocks /\ docs' = docs
  BY DEF CallNext
<1>3. /\ r' \in Reader /\ r'.pc = "next" /\ r'.files = r.files /\ r'.file = r.file
      /\ r'.entries = r.entries /\ r'.bid = r.bid /\ r'.header = r.header /\ r'.num = r.num
      /\ r'.val = r.val /\ r'.out = r.out /\ r'.known = r.known /\ r'.start = r.start
  BY <1>1, <1>2 DEF Reader
<1>4. Kept
  BY <1>2, <1>3 DEF Kept
<1>5. Reading /\ Reading' /\ ~BeforeHeader /\ ~BeforeHeader' /\ r.pc # "header"
  BY <1>1, <1>3 DEF Reading, BeforeHeader
<1>6. BlocksSound' /\ DocsSound' /\ FilesSound'
  BY <1>1, <1>3, <1>4, Frame
<1>7. OutSound' /\ InOrder'
  <2>1. Block' = Block /\ Place' = Place
    BY <1>3, <1>5 DEF Block, Place
  <2> QED
    BY <1>3, <1>4, <1>5, <2>1, SamePlace
<1>8. HeaderSound'
  <2>1. HeaderSound
    BY DEF MongoInv
  <2> QED
    BY <1>2, <1>3, <1>5, <2>1 DEF HeaderSound, EntriesOf, CoverKnown
<1> QED
  BY <1>3, <1>6, <1>7, <1>8 DEF MongoInv

LEMMA QueryFailsStep ==
    ASSUME MongoInv, QueryFails
    PROVE  MongoInv'
<1>1. r \in Reader /\ r.pc \in {"files", "blocks"}
  BY DEF MongoInv, QueryFails
<1>2. r' = [r EXCEPT !.pc = "none"] /\ blocks' = blocks /\ docs' = docs
  BY DEF QueryFails
<1>3. r' \in Reader /\ r'.pc = "none" /\ r'.out = r.out /\ r'.known = r.known /\ r'.start = r.start
  BY <1>1, <1>2 DEF Reader
<1>4. ~Reading /\ ~Reading' /\ ~BeforeHeader'
  BY <1>1, <1>3 DEF Reading, BeforeHeader
<1>5. BlocksSound' /\ DocsSound'
  BY <1>2, <1>3, Frame DEF Kept
<1>6. FilesSound' /\ HeaderSound'
  BY <1>3, <1>4 DEF FilesSound, HeaderSound
<1>7. OutSound' /\ InOrder'
  BY <1>3, <1>4 DEF MongoInv, OutSound, InOrder
<1> QED
  BY <1>3, <1>5, <1>6, <1>7 DEF MongoInv

\* A sample that is owed is not from before the file that is selected.
LEMMA FileSelected ==
    ASSUME SoundBlocks(blocks), r \in Reader, NEW files,
           \A f \in files : /\ f.file \in Nat /\ f.start \in Nat
                            /\ \E b \in DOMAIN blocks :
                                  blocks[b].file = f.file /\ f.start = Millis(blocks[b].times[1]),
           NEW b \in DOMAIN blocks, NEW k \in DOMAIN blocks[b].times,
           Owed(blocks[b].times[k]), \E f \in files : f.file = blocks[b].file
    PROVE  Before(files, r.start).file <= blocks[b].file
<1> DEFINE t == blocks[b].times[k]
<1>1. PICK s \in Nat : s = r.start
  BY DEF Reader
<1>2. PICK c : c = Before(files, s)
  OBVIOUS
<1>3. PICK g \in files : g.file = blocks[b].file
  OBVIOUS
<1>4. c \in files /\ (g.start < c.start => c.start < s)
  <2>1. files # {} /\ \A f \in files : f.start \in Nat
    BY <1>3
  <2> QED
    BY <1>1, <1>2, <1>3, <2>1, BeforeItems
<1>5. SUFFICES ASSUME blocks[b].file < c.file PROVE FALSE
  <2>1. c.file \in Nat /\ blocks[b].file \in Nat
    BY <1>4, BlockFields
  <2> QED
    BY <1>1, <1>2, <1>5, <2>1
<1>6. PICK d \in DOMAIN blocks : blocks[d].file = c.file /\ c.start = Millis(blocks[d].times[1])
  BY <1>4
<1>7. PICK a \in DOMAIN blocks : blocks[a].file = g.file /\ g.start = Millis(blocks[a].times[1])
  BY <1>3
<1>8. b < d
  BY <1>5, <1>6, FileOrder
<1>9. Millis(blocks[a].times[1]) < Millis(blocks[d].times[1])
  BY <1>3, <1>5, <1>6, <1>7, FileOrder
<1>10. c.start < s
  BY <1>4, <1>6, <1>7, <1>9
<1> DEFINE u == blocks[d].times[1]
<1>11. t \in Nat /\ u \in Nat /\ t < u
  BY <1>8, BlockFields, Order
<1>12. s <= t /\ (Millis(s) = s \/ Millis(t) # Millis(s))
  BY <1>1, <1>11 DEF Owed
<1> HIDE DEF t, u
<1>13. Millis(u) < s
  BY <1>6, <1>10 DEF u
<1>14. Millis(s) = Millis(u)
  <2>1. s <= u /\ Millis(u) <= s
    BY <1>11, <1>12, <1>13, MillisOf
  <2> QED
    BY <1>11, <2>1, MillisMonotone
<1>15. Millis(t) = Millis(u)
  <2>1. t <= u /\ Millis(u) <= t
    BY <1>11, <1>12, <1>13, MillisOf
  <2> QED
    BY <1>11, <2>1, MillisMonotone
<1> QED
  BY <1>12, <1>13, <1>14, <1>15, MillisOf

LEMMA DocFields ==
    ASSUME MongoInv, NEW f \in DOMAIN docs
    PROVE  /\ f \in Nat /\ docs[f] \subseteq [block : Nat, start : Nat, end : Nat]
           /\ docs[f] # {} /\ EntriesOf(f, docs[f]) /\ CoverKnown(f, docs[f])
           /\ \A i \in docs[f] : i.start \in Nat
           /\ FirstOf(docs[f]) \in docs[f]
<1> DEFINE E == [block : Nat, start : Nat, end : Nat]
<1>1. docs \in Seq(SUBSET E)
  BY DEF MongoInv, DocsSound
<1>2. f \in Nat /\ docs[f] \in SUBSET E
  <2> HIDE DEF E
  <2> QED
    BY <1>1
<1>3. docs[f] # {} /\ EntriesOf(f, docs[f]) /\ CoverKnown(f, docs[f])
  BY DEF MongoInv, DocsSound
<1>4. \A i \in docs[f] : i.start \in Nat
  BY <1>2
<1>5. FirstOf(docs[f]) \in docs[f]
  BY <1>3, <1>4, FirstOfItems
<1> QED
  BY <1>2, <1>3, <1>4, <1>5

LEMMA ReadFileDocsStep ==
    ASSUME MongoInv, ReadFileDocs
    PROVE  MongoInv'
<1> DEFINE rec(f) == [file |-> f, start |-> Millis(FirstOf(docs[f]).start)]
           files == {rec(f) : f \in DOMAIN docs}
           first == Before(files, r.start).file
<1>1. r \in Reader /\ r.pc = "files" /\ blocks' = blocks /\ docs' = docs /\ SoundBlocks(blocks)
  BY DEF MongoInv, ReadFileDocs, BlocksSound, SoundBlocks
<1>2. r' = IF files = {} THEN [r EXCEPT !.pc = "none"]
           ELSE [r EXCEPT !.pc = "blocks", !.files = files, !.file = first]
  BY DEF ReadFileDocs
\* The records of files.
<1>3. ASSUME NEW f \in DOMAIN docs
      PROVE  /\ f \in Nat /\ rec(f) \in [file : Nat, start : Nat] /\ rec(f).file = f
             /\ \E b \in DOMAIN blocks :
                   blocks[b].file = f /\ rec(f).start = Millis(blocks[b].times[1])
  <2>1. PICK i \in docs[f] : i = FirstOf(docs[f])
    BY DocFields
  <2>2. f \in Nat /\ i.block \in DOMAIN blocks /\ blocks[i.block].file = f
        /\ i.start = blocks[i.block].times[1] /\ i.start \in Nat
    BY DocFields DEF EntriesOf
  <2>3. Millis(i.start) \in Nat
    BY <2>2, MillisOf
  <2> QED
    BY <2>1, <2>2, <2>3
<1>4. /\ files \subseteq [file : Nat, start : Nat]
      /\ \A f \in files : /\ f.file \in DOMAIN docs /\ f.start \in Nat /\ f.file \in Nat
                          /\ \E b \in DOMAIN blocks :
                                blocks[b].file = f.file /\ f.start = Millis(blocks[b].times[1])
      /\ \A f, g \in files : g.file = f.file => g = f
      /\ \A d \in DOMAIN docs : \E f \in files : f.file = d
  <2> HIDE DEF rec
  <2>1. ASSUME NEW f \in files
        PROVE  \E d \in DOMAIN docs : f = rec(d) /\ f.file = d
    BY <1>3
  <2> HIDE DEF files
  <2>2. \A f, g \in files : g.file = f.file => g = f
    BY <2>1
  <2>3. \A f \in files : /\ f \in [file : Nat, start : Nat]
                         /\ f.file \in DOMAIN docs
                         /\ \E b \in DOMAIN blocks :
                                blocks[b].file = f.file /\ f.start = Millis(blocks[b].times[1])
    BY <1>3, <2>1
  <2>4. \A d \in DOMAIN docs : rec(d) \in files /\ rec(d).file = d
    BY <1>3 DEF files
  <2> QED
    BY <2>2, <2>3, <2>4
<1> HIDE DEF rec, files
\* Each block with a sample that was known to find() is in one of these files.
<1>5. ASSUME NEW b \in DOMAIN blocks, NEW k \in DOMAIN blocks[b].times,
             blocks[b].times[k] \in r.known
      PROVE  \E f \in files : f.file = blocks[b].file
  <2>1. PICK c \in DOMAIN blocks : blocks[b].times[k] \in ToSet(blocks[c].times)
                                   /\ blocks[c].file \in DOMAIN docs
    BY <1>5 DEF MongoInv, DocsSound
  <2>2. PICK l \in DOMAIN blocks[c].times : blocks[c].times[l] = blocks[b].times[k]
    BY <2>1 DEF ToSet
  <2>3. b = c
    BY <1>1, <2>2, Order
  <2> QED
    BY <1>4, <2>1, <2>3
<1>6. CASE files = {}
  <2>1. /\ r' \in Reader /\ r'.pc = "none" /\ r'.out = r.out /\ r'.known = r.known
        /\ r'.start = r.start
    BY <1>1, <1>2, <1>6 DEF Reader
  <2>2. ~Reading /\ ~Reading' /\ ~BeforeHeader'
    BY <1>1, <2>1 DEF Reading, BeforeHeader
  <2>3. BlocksSound' /\ DocsSound'
    BY <1>1, <2>1, Frame DEF Kept
  <2>4. FilesSound' /\ HeaderSound'
    BY <2>1, <2>2 DEF FilesSound, HeaderSound
  <2>5. OutSound' /\ InOrder'
    BY <2>1, <2>2 DEF MongoInv, OutSound, InOrder
  <2> QED
    BY <2>1, <2>3, <2>4, <2>5 DEF MongoInv
<1>7. CASE files # {}
  <2>1. r.start \in Nat
    BY <1>1 DEF Reader
  <2>2. PICK f0 \in files : f0 = Before(files, r.start)
    BY <1>4, <1>7, <2>1, BeforeItems
  <2>3. /\ r' \in Reader /\ r'.pc = "blocks" /\ r'.out = r.out /\ r'.known = r.known
        /\ r'.start = r.start /\ r'.files = files /\ r'.file = f0.file
    BY <1>1, <1>2, <1>4, <1>7, <2>2 DEF Reader
  <2>4. ~Reading /\ ~Reading' /\ ~BeforeHeader'
    BY <1>1, <2>3 DEF Reading, BeforeHeader
  <2>5. BlocksSound' /\ DocsSound' /\ \A t : Owed(t)' <=> Owed(t)
    BY <1>1, <2>3, Frame DEF Kept
  <2>6. HeaderSound'
    BY <2>4 DEF HeaderSound
  <2>7. FilesSound'
    <3>1. ASSUME NEW b \in DOMAIN blocks, \E t \in r.known : t \in ToSet(blocks[b].times)
          PROVE  \E f \in files : f.file = blocks[b].file
      <4>1. PICK k \in DOMAIN blocks[b].times : blocks[b].times[k] \in r.known
        BY <3>1 DEF ToSet
      <4> QED
        BY <1>5, <4>1
    <3>2. \A f \in files : f \in [file : DOMAIN docs, start : Nat]
      BY <1>4
    <3> QED
      BY <1>1, <1>4, <2>3, <3>1, <3>2 DEF FilesSound
  <2>8. \A b \in DOMAIN blocks : \A k \in DOMAIN blocks[b].times :
           Owed(blocks[b].times[k]) => f0.file <= blocks[b].file
    <3> TAKE b \in DOMAIN blocks
    <3> TAKE k \in DOMAIN blocks[b].times
    <3> HAVE Owed(blocks[b].times[k])
    <3>1. \E f \in files : f.file = blocks[b].file
      BY <1>5 DEF Owed
    <3> QED
      BY <1>1, <1>4, <2>2, <3>1, FileSelected
  <2>9. OutSound'
    <3>1. r'.out = <<>>
      BY <2>3, <2>4 DEF MongoInv, OutSound
    <3> QED
      BY <1>1, <2>3, <2>4, <2>5, <2>8, <3>1 DEF OutSound
  <2>10. InOrder'
    BY <2>3 DEF MongoInv, InOrder
  <2> QED
    BY <2>3, <2>5, <2>6, <2>7, <2>9, <2>10 DEF MongoInv
<1> QED
  BY <1>6, <1>7

\* Going to a block from before which nothing is owed any more.
LEMMA AtBlock ==
    ASSUME MongoInv, Kept, r' \in Reader, r'.pc = "header", r'.out = r.out, r'.files = r.files,
           r.pc \notin {"idle", "none", "files"},
           NEW bid \in DOMAIN blocks, r'.bid = bid,
           \A b \in DOMAIN blocks : \A k \in DOMAIN blocks[b].times :
               b < bid /\ Owed(blocks[b].times[k]) => blocks[b].times[k] \in ToSet(r.out),
           \A i \in DOMAIN r.out : r.out[i] < blocks[bid].times[1],
           EntriesOf(r'.file, r'.entries), CoverKnown(r'.file, r'.entries),
           \E i \in r'.entries : i.block = bid,
           \E f \in r.files : f.file = r'.file,
           r'.goal = blocks[bid].times[1] \/ (r.out = <<>> /\ r'.goal = r.start)
    PROVE  MongoInv'
<1>1. /\ blocks' = blocks /\ docs' = docs /\ r'.known = r.known /\ r'.start = r.start
      /\ SoundBlocks(blocks) /\ r \in Reader /\ InOrder
  BY DEF MongoInv, Kept, BlocksSound, SoundBlocks
<1>2. Reading' /\ BeforeHeader'
  BY DEF Reading, BeforeHeader
<1>3. Block' = bid /\ Place' = 0
  BY <1>2 DEF Block, Place
<1>4. BlocksSound' /\ DocsSound' /\ FilesSound' /\ \A t : Owed(t)' <=> Owed(t)
  BY Frame
<1>5. InOrder'
  BY <1>1 DEF InOrder
<1>6. bid # 0
  BY <1>1, BlockFields
<1>7. HeaderSound'
  BY <1>1, <1>2, <1>6 DEF HeaderSound, EntriesOf, CoverKnown
<1>8. ASSUME NEW i \in DOMAIN r.out
      PROVE  /\ r.out[i] <= Last(blocks[bid].times)
             /\ \A k \in DOMAIN blocks[bid].times : r.out[i] < blocks[bid].times[k]
  <2>0. r.out \in Seq(Nat)
    BY <1>1 DEF Reader
  <2>1. r.out[i] \in Nat
    BY <2>0
  <2> QED
    BY <1>1, <2>1, BlockFields
<1>9. ASSUME NEW b \in DOMAIN blocks, NEW k \in DOMAIN blocks[b].times,
             Behind(b, k)', Owed(blocks[b].times[k])
      PROVE  blocks[b].times[k] \in ToSet(r.out)
  <2>1. k > 0 /\ k \in Nat
    BY <1>1, BlockFields
  <2>2. b < bid
    BY <1>3, <1>9, <2>1 DEF Behind
  <2> QED
    BY <1>9, <2>2
<1>10. OutSound'
  BY <1>1, <1>2, <1>3, <1>4, <1>8, <1>9 DEF OutSound
<1> QED
  BY <1>4, <1>5, <1>7, <1>10 DEF MongoInv

LEMMA ReadBlockDocsStep ==
    ASSUME MongoInv, ReadBlockDocs
    PROVE  MongoInv'
<1>1. r \in Reader /\ r.pc = "blocks" /\ blocks' = blocks /\ docs' = docs /\ SoundBlocks(blocks)
  BY DEF MongoInv, ReadBlockDocs, BlocksSound, SoundBlocks
<1>2. PICK f \in DOMAIN docs : f = r.file
  BY <1>1 DEF MongoInv, OutSound, FilesSound
<1>3. PICK items : items = docs[f]
  OBVIOUS
<1>4. /\ items \subseteq [block : Nat, start : Nat, end : Nat] /\ items # {}
      /\ EntriesOf(f, items) /\ CoverKnown(f, items) /\ \A j \in items : j.start \in Nat
  BY <1>3, DocFields
<1>5. r.start \in Nat
  BY <1>1 DEF Reader
<1>6. PICK i \in items : /\ i = Before(items, r.start)
                         /\ \A j \in items : j.start < i.start => i.start < r.start
  BY <1>4, <1>5, BeforeItems
<1>7. /\ i.block \in DOMAIN blocks /\ blocks[i.block].file = f
      /\ i.start = blocks[i.block].times[1] /\ i.start \in Nat /\ i.block \in Nat
  BY <1>4, <1>6 DEF EntriesOf
<1>8. r' = [At(r, i) EXCEPT !.entries = items,
                            !.goal = IF r.start = 0 THEN i.start ELSE r.start]
  BY <1>2, <1>3, <1>6 DEF ReadBlockDocs
<1>9. /\ r' \in Reader /\ r'.pc = "header" /\ r'.out = r.out /\ r'.files = r.files
      /\ r'.known = r.known /\ r'.start = r.start /\ r'.bid = i.block /\ r'.file = f
      /\ r'.entries = items /\ r'.goal = IF r.start = 0 THEN i.start ELSE r.start
  BY <1>1, <1>2, <1>4, <1>5, <1>7, <1>8 DEF Reader, At
<1>10. r.out = <<>> /\ \E g \in r.files : g.file = f
  BY <1>1, <1>2 DEF MongoInv, OutSound, Reading
\* A block from before the one that is selected has only samples from before
\* the start.
<1>11. ASSUME NEW b \in DOMAIN blocks, NEW k \in DOMAIN blocks[b].times,
              b < i.block, Owed(blocks[b].times[k])
       PROVE  FALSE
  <2> DEFINE t == blocks[b].times[k]
             u == blocks[i.block].times[1]
  <2>1. r.file <= blocks[b].file
    BY <1>1, <1>11 DEF MongoInv, OutSound
  <2>2. blocks[b].file <= f
    BY <1>1, <1>7, <1>11 DEF SoundBlocks
  <2>3. blocks[b].file = f
    <3>1. blocks[b].file \in Nat /\ f \in Nat
      BY <1>1, <1>2, BlockFields, DocFields
    <3> QED
      BY <1>2, <2>1, <2>2, <3>1
  <2>4. PICK j \in items : j.block = b
    BY <1>4, <1>11, <2>3 DEF CoverKnown, Owed
  <2>5. j.start = blocks[b].times[1] /\ 1 \in DOMAIN blocks[b].times
    BY <1>1, <1>4, <2>4, BlockFields DEF EntriesOf
  <2>6. 1 \in DOMAIN blocks[i.block].times /\ t < u /\ blocks[b].times[1] < u
    BY <1>1, <1>7, <1>11, <2>5, BlockFields, Order
  <2>7. u < r.start
    BY <1>6, <1>7, <2>5, <2>6
  <2>8. t \in Nat /\ u \in Nat /\ r.start <= t
    BY <1>1, <1>5, <1>7, <1>11, <2>6, BlockFields DEF Owed
  <2> HIDE DEF t, u
  <2> QED
    BY <1>5, <2>6, <2>7, <2>8
<1>12. EntriesOf(r'.file, r'.entries) /\ CoverKnown(r'.file, r'.entries)
  BY <1>4, <1>9
<1>13. Kept
  BY <1>1, <1>9 DEF Kept
<1> QED
  BY <1>1, <1>6, <1>7, <1>9, <1>10, <1>11, <1>12, <1>13, AtBlock

LEMMA GetHeaderStep ==
    ASSUME MongoInv, GetHeader
    PROVE  MongoInv'
<1>1. r \in Reader /\ r.pc = "header" /\ blocks' = blocks /\ docs' = docs /\ SoundBlocks(blocks)
  BY DEF MongoInv, GetHeader, BlocksSound, SoundBlocks
<1>2. r' = [r EXCEPT !.pc = "search", !.header = r.bid, !.num = Len(blocks[r.bid].times)]
  BY DEF GetHeader
<1>3. Reading /\ BeforeHeader
  BY <1>1 DEF Reading, BeforeHeader
<1>4. r.bid \in DOMAIN blocks /\ r.bid # 0
  BY <1>3, CurrentEntry DEF MongoInv, HeaderSound
<1>5. PICK n \in Nat \ {0} : n = Len(blocks[r.bid].times) /\ DOMAIN blocks[r.bid].times = 1 .. n
  BY <1>1, <1>4, BlockFields
<1>6. /\ r' \in Reader /\ r'.pc = "search" /\ r'.header = r.bid /\ r'.num = n
      /\ r'.files = r.files /\ r'.file = r.file /\ r'.goal = r.goal
      /\ r'.entries = r.entries /\ r'.bid = r.bid
      /\ r'.val = r.val /\ r'.out = r.out /\ r'.known = r.known /\ r'.start = r.start
  BY <1>1, <1>2, <1>5 DEF Reader
<1>7. Kept /\ Reading' /\ BeforeHeader'
  BY <1>1, <1>6 DEF Kept, Reading, BeforeHeader
<1>8. BlocksSound' /\ DocsSound' /\ FilesSound'
  BY <1>1, <1>6, <1>7, Frame
<1>9. OutSound' /\ InOrder'
  <2>1. Block' = Block /\ Place' = Place
    BY <1>3, <1>6, <1>7 DEF Block, Place
  <2> QED
    BY <1>3, <1>6, <1>7, <2>1, SamePlace
<1>10. HeaderSound'
  <2>1. HeaderSound
    BY DEF MongoInv
  <2>2. EntriesOf(r.file, r.entries)' /\ CoverKnown(r.file, r.entries)'
    BY <1>1, <1>3, <1>4, <1>6, <2>1 DEF HeaderSound, EntriesOf, CoverKnown
  <2> QED
    BY <1>1, <1>3, <1>4, <1>5, <1>6, <1>7, <2>1, <2>2 DEF HeaderSound
<1> QED
  BY <1>6, <1>8, <1>9, <1>10 DEF MongoInv

\* A sample is returned: it is the first one behind the place of the reader, or
\* all before it are from before the start.
LEMMA ReturnStep ==
    ASSUME MongoInv, blocks' = blocks, docs' = docs, r.pc \in {"search", "next"},
           NEW at \in Nat, at < r.num, r' = Return(r, at),
           \A i \in DOMAIN r.out : r.out[i] < blocks[r.header].times[at + 1],
           \A k \in DOMAIN blocks[r.header].times :
               k <= at /\ Owed(blocks[r.header].times[k]) => blocks[r.header].times[k] \in ToSet(r.out)
    PROVE  MongoInv'
<1>1. r \in Reader /\ SoundBlocks(blocks)
  BY DEF MongoInv, BlocksSound, SoundBlocks
<1>2. Reading /\ r.pc # "header"
  BY DEF Reading
<1>3. /\ r.header \in DOMAIN blocks /\ r.num \in 1 .. Len(blocks[r.header].times)
      /\ r.bid # 0 => r.header = r.bid
      /\ \A k \in DOMAIN blocks[r.header].times :
                blocks[r.header].times[k] \in r.known => k <= r.num
  BY <1>2 DEF MongoInv, HeaderSound
<1>4. PICK times : times = blocks[r.header].times
  OBVIOUS
<1>5. PICK h \in DOMAIN blocks : h = r.header
  BY <1>3
<1>6. /\ Len(times) \in Nat /\ DOMAIN times = 1 .. Len(times) /\ at + 1 \in DOMAIN times
      /\ times[at + 1] \in Nat /\ Last(times) \in Nat /\ times[at + 1] <= Last(times)
      /\ \A k \in DOMAIN times : k \in Nat /\ times[k] \in Nat
  <2>1. Len(times) \in Nat /\ DOMAIN times = 1 .. Len(times)
    BY <1>1, <1>4, <1>5, BlockFields
  <2>2. at + 1 \in DOMAIN times
    BY <1>3, <1>4, <2>1
  <2> QED
    BY <1>1, <1>4, <1>5, <2>1, <2>2, BlockFields
<1>7. PICK t \in Nat : t = times[at + 1]
  BY <1>6
<1>8. r' = [r EXCEPT !.pc = "have", !.val = at + 1, !.out = Append(r.out, t)]
  BY <1>4, <1>7 DEF Return
<1>9. r.out \in Seq(Nat)
  BY <1>1 DEF Reader
<1>10. PICK out \in Seq(Nat) : out = Append(r.out, t)
  <2>1. Append(r.out, t) \in Seq(Nat)
    BY <1>9, AppendProperties
  <2> QED
    BY <2>1
<1>11. /\ r' \in Reader /\ r'.pc = "have" /\ r'.val = at + 1 /\ r'.out = out
       /\ r'.files = r.files /\ r'.file = r.file /\ r'.entries = r.entries /\ r'.bid = r.bid
       /\ r'.header = r.header /\ r'.num = r.num /\ r'.known = r.known /\ r'.start = r.start
  <2>1. r' = [r EXCEPT !.pc = "have", !.val = at + 1, !.out = out]
    BY <1>8, <1>10
  <2>2. at + 1 \in Nat /\ out \in Seq(Nat)
    BY <1>10
  <2> QED
    BY <1>1, <2>1, <2>2, ZenonT(30) DEF Reader
<1>12. Kept /\ Reading' /\ ~BeforeHeader'
  BY <1>11 DEF Kept, Reading, BeforeHeader
<1>13. /\ BlocksSound' /\ DocsSound' /\ FilesSound' /\ \A x : Owed(x)' <=> Owed(x)
  BY <1>11, <1>12, Frame
\* The samples that are returned now.
<1>14. /\ Len(r.out) \in Nat /\ Len(out) = Len(r.out) + 1 /\ out[Len(out)] = t
       /\ DOMAIN r.out = 1 .. Len(r.out) /\ DOMAIN out = 1 .. Len(r.out) + 1
       /\ \A i \in DOMAIN r.out : out[i] = r.out[i] /\ r.out[i] \in Nat
  BY <1>9, <1>10
<1>15. /\ \A i \in DOMAIN out : i = Len(out) \/ i \in DOMAIN r.out
       /\ \A x : x \in ToSet(r.out) \/ x = t => x \in ToSet(out)
  <2>1. \A i \in DOMAIN out : i = Len(out) \/ i \in DOMAIN r.out
    BY <1>14
  <2>2. t \in ToSet(out)
    BY <1>14 DEF ToSet
  <2>3. ASSUME NEW x \in ToSet(r.out) PROVE x \in ToSet(out)
    <3>1. PICK i \in DOMAIN r.out : r.out[i] = x
      BY DEF ToSet
    <3>2. i \in DOMAIN out /\ out[i] = x
      BY <1>14, <3>1
    <3> QED
      BY <3>2 DEF ToSet
  <2> QED
    BY <2>1, <2>2, <2>3
<1>16. InOrder'
  <2>1. \A i, j \in DOMAIN out : i < j => out[i] < out[j]
    <3> TAKE i, j \in DOMAIN out
    <3> HAVE i < j
    <3>1. i \in DOMAIN r.out
      BY <1>14
    <3>2. CASE j \in DOMAIN r.out
      BY <1>14, <3>1, <3>2 DEF MongoInv, InOrder
    <3>3. CASE j = Len(out)
      BY <1>4, <1>7, <1>14, <3>1, <3>3
    <3> QED
      BY <1>15, <3>2, <3>3
  <2> QED
    BY <1>11, <2>1 DEF InOrder
<1>17. HeaderSound'
  <2>1. HeaderSound
    BY DEF MongoInv
  <2>2. r.bid # 0 => /\ EntriesOf(r.file, r.entries)' /\ CoverKnown(r.file, r.entries)'
                     /\ \E i \in r.entries : i.block = r.bid
                     /\ \E f \in r.files : f.file = r.file
    BY <1>2, <1>11, <2>1 DEF HeaderSound, EntriesOf, CoverKnown
  <2>3. at + 1 <= r.num
    BY <1>3, <1>6
  <2> QED
    BY <1>3, <1>11, <1>12, <2>2, <2>3 DEF HeaderSound
<1>18. Block' = h /\ Place' = at + 1 /\ Block = h
  <2>1. r.pc = "search" => r.bid # 0
    BY DEF MongoInv, HeaderSound, BeforeHeader
  <2> QED
    BY <1>3, <1>5, <1>11, <1>12, <2>1 DEF Block, Place, BeforeHeader
<1>19. ASSUME NEW i \in DOMAIN out
       PROVE  /\ out[i] <= Last(times)
              /\ \A k \in DOMAIN times : k > at + 1 => out[i] < times[k]
  <2>1. out[i] \in Nat /\ out[i] <= t
    <3>1. CASE i = Len(out)
      BY <1>14, <3>1
    <3>2. CASE i \in DOMAIN r.out
      <4>1. r.out[i] < t
        BY <1>4, <1>7, <3>2
      <4>2. out[i] = r.out[i] /\ r.out[i] \in Nat
        BY <1>14, <3>2
      <4> QED
        BY <4>1, <4>2
    <3> QED
      BY <1>15, <3>1, <3>2
  <2>2. \A k \in DOMAIN times : k > at + 1 => t < times[k]
    BY <1>1, <1>4, <1>5, <1>6, <1>7 DEF SoundBlocks
  <2> QED
    BY <1>6, <1>7, <2>1, <2>2
<1>20. ASSUME NEW b \in DOMAIN blocks, NEW k \in DOMAIN blocks[b].times,
              Behind(b, k)', Owed(blocks[b].times[k])
       PROVE  blocks[b].times[k] \in ToSet(out)
  <2>1. CASE b < h
    <3>1. Behind(b, k)
      BY <1>18, <2>1 DEF Behind
    <3>2. blocks[b].times[k] \in ToSet(r.out)
      BY <1>2, <1>20, <3>1 DEF MongoInv, OutSound
    <3> QED
      BY <1>15, <3>2
  <2>2. CASE b = h /\ k <= at
    BY <1>5, <1>15, <1>20, <2>2
  <2>3. CASE b = h /\ k = at + 1
    BY <1>4, <1>5, <1>7, <1>15, <2>3
  <2>4. b < h \/ (b = h /\ k <= at + 1)
    BY <1>18, <1>20 DEF Behind
  <2>5. k \in Nat
    BY <1>1, BlockFields
  <2> QED
    BY <2>1, <2>2, <2>3, <2>4, <2>5
<1>21. OutSound'
  BY <1>4, <1>5, <1>11, <1>12, <1>13, <1>18, <1>19, <1>20 DEF OutSound
<1> QED
  BY <1>11, <1>13, <1>16, <1>17, <1>21 DEF MongoInv

\* In the block of the header the reader goes on to another sample.
LEMMA Forward ==
    ASSUME MongoInv, Kept, r.pc \in {"search", "next"}, r'.pc = "next",
           r'.header = r.header, r'.out = r.out, NEW v \in Nat, r'.val = v, Place <= v,
           \A k \in DOMAIN blocks[r.header].times :
               k <= v /\ Owed(blocks[r.header].times[k]) => blocks[r.header].times[k] \in ToSet(r.out)
    PROVE  OutSound' /\ InOrder'
<1>1. r \in Reader /\ SoundBlocks(blocks) /\ blocks' = blocks /\ OutSound
  BY DEF MongoInv, BlocksSound, SoundBlocks, Kept
<1>2. Reading /\ Reading' /\ ~BeforeHeader' /\ r.pc # "header"
  BY DEF Reading, BeforeHeader
<1>3. Block = r.header /\ Block' = r.header /\ Place' = v
  BY <1>2 DEF MongoInv, HeaderSound, BeforeHeader, Block, Place
<1>4. r.header \in DOMAIN blocks
  BY <1>2 DEF MongoInv, HeaderSound
<1>5. InOrder'
  BY DEF MongoInv, InOrder
<1>6. \A t : Owed(t)' <=> Owed(t)
  BY Frame
<1>7. Place \in Nat
  BY <1>1 DEF Reader, Place
<1>8. ASSUME NEW i \in DOMAIN r.out
      PROVE  /\ r.out[i] <= Last(blocks[r.header].times)
             /\ \A k \in DOMAIN blocks[r.header].times : k > v => r.out[i] < blocks[r.header].times[k]
  <2>1. \A k \in DOMAIN blocks[r.header].times : k > v => k > Place
    <3> TAKE k \in DOMAIN blocks[r.header].times
    <3>1. k \in Nat
      BY <1>1, <1>4, BlockFields
    <3> QED
      BY <1>7, <3>1
  <2> QED
    BY <1>1, <1>2, <1>3, <2>1 DEF OutSound
<1>9. ASSUME NEW b \in DOMAIN blocks, NEW k \in DOMAIN blocks[b].times,
             Behind(b, k)', Owed(blocks[b].times[k])
      PROVE  blocks[b].times[k] \in ToSet(r.out)
  <2>1. CASE b < r.header
    BY <1>1, <1>2, <1>3, <1>9, <2>1 DEF OutSound, Behind
  <2>2. CASE b = r.header /\ k <= v
    BY <1>9, <2>2
  <2> QED
    BY <1>3, <1>9, <2>1, <2>2 DEF Behind
<1>10. OutSound'
  BY <1>1, <1>2, <1>3, <1>4, <1>6, <1>8, <1>9 DEF OutSound
<1> QED
  BY <1>5, <1>10

LEMMA HeaderKept ==
    ASSUME MongoInv, blocks' = blocks, Reading, r.pc # "header", Reading', ~BeforeHeader',
           r'.header = r.header, r'.bid = r.bid, r'.num = r.num, r'.files = r.files,
           r'.file = r.file, r'.entries = r.entries, r'.known = r.known, r'.val <= r.num
    PROVE  HeaderSound'
<1>1. HeaderSound
  BY DEF MongoInv
<1>2. r.bid # 0 => /\ EntriesOf(r.file, r.entries)' /\ CoverKnown(r.file, r.entries)'
                   /\ \E i \in r.entries : i.block = r.bid
                   /\ \E f \in r.files : f.file = r.file
  BY <1>1 DEF HeaderSound, EntriesOf, CoverKnown
<1>3. /\ r.header \in DOMAIN blocks
      /\ r.bid # 0 => r.header = r.bid
      /\ r.num \in 1 .. Len(blocks[r.header].times)
      /\ \A k \in DOMAIN blocks[r.header].times :
            blocks[r.header].times[k] \in r.known => k <= r.num
  BY <1>1 DEF HeaderSound
<1> QED
  BY <1>2, <1>3 DEF HeaderSound

LEMMA FindSampleStep ==
    ASSUME MongoInv, FindSample
    PROVE  MongoInv'
<1>1. r \in Reader /\ r.pc = "search" /\ blocks' = blocks /\ docs' = docs /\ SoundBlocks(blocks)
  BY DEF MongoInv, FindSample, BlocksSound, SoundBlocks
<1>2. Reading /\ BeforeHeader /\ r.pc # "header"
  BY <1>1 DEF Reading, BeforeHeader
<1>3. /\ r.bid # 0 /\ r.header = r.bid /\ r.header \in DOMAIN blocks
      /\ r.num \in 1 .. Len(blocks[r.header].times)
      /\ \/ r.goal = blocks[r.header].times[1]
         \/ r.out = <<>> /\ r.goal = r.start
  BY <1>2 DEF MongoInv, HeaderSound
<1>4. PICK times \in Seq(Nat) : times = blocks[r.header].times
  BY <1>1, <1>3, BlockFields
<1>5. PICK goal \in Nat : goal = r.goal
  BY <1>1 DEF Reader
<1>6. PICK found : found = BinarySearch(times, goal)
  OBVIOUS
<1>7. /\ found \in [at : 0 .. r.num - 1, taken : BOOLEAN]
      /\ \A k \in DOMAIN times : k <= found.at => times[k] < goal
  <2>1. \A i, j \in DOMAIN times : i < j => times[i] < times[j]
    BY <1>1, <1>3, <1>4 DEF SoundBlocks
  <2>2. r.num \in 1 .. Len(times)
    BY <1>3, <1>4
  <2> QED
    BY <1>6, <2>1, <2>2, SearchResult
<1>8. PICK at \in Nat : at = found.at /\ at < r.num
  <2>1. found.at \in 0 .. r.num - 1 /\ r.num \in Nat
    BY <1>3, <1>7
  <2> QED
    BY <2>1
<1>9. r' = CASE goal = times[1] -> [r EXCEPT !.pc = "next", !.val = 0]
             [] goal # times[1] /\ found.taken -> Return(r, found.at)
             [] goal # times[1] /\ ~found.taken -> [r EXCEPT !.pc = "next", !.val = found.at]
  BY <1>4, <1>5, <1>6 DEF FindSample
\* What the search passes over is from before the start.
<1>10. goal # times[1] =>
          \A k \in DOMAIN times : k <= at => ~Owed(times[k])
  <2> SUFFICES ASSUME goal # times[1], NEW k \in DOMAIN times, k <= at, Owed(times[k])
               PROVE  FALSE
    OBVIOUS
  <2>1. goal = r.start
    BY <1>3, <1>4, <1>5
  <2>2. times[k] < goal /\ times[k] \in Nat
    BY <1>4, <1>7, <1>8
  <2> QED
    BY <1>5, <2>1, <2>2 DEF Owed
<1>11. ASSUME NEW v \in Nat, r' = [r EXCEPT !.pc = "next", !.val = v], v <= r.num,
              \A k \in DOMAIN times : k <= v => ~Owed(times[k])
       PROVE  MongoInv'
  <2>1. /\ r' \in Reader /\ r'.pc = "next" /\ r'.val = v /\ r'.out = r.out
        /\ r'.files = r.files /\ r'.file = r.file /\ r'.entries = r.entries /\ r'.bid = r.bid
        /\ r'.header = r.header /\ r'.num = r.num /\ r'.known = r.known /\ r'.start = r.start
    BY <1>1, <1>11 DEF Reader
  <2>2. Kept /\ Reading' /\ ~BeforeHeader'
    BY <1>1, <2>1 DEF Kept, Reading, BeforeHeader
  <2>3. BlocksSound' /\ DocsSound' /\ FilesSound'
    BY <1>1, <2>1, <2>2, Frame
  <2>4. HeaderSound'
    BY <1>1, <1>2, <1>11, <2>1, <2>2, HeaderKept
  <2>5. Place <= v
    BY <1>2 DEF Place
  <2>6. OutSound' /\ InOrder'
    BY <1>1, <1>4, <1>11, <2>1, <2>2, <2>5, Forward
  <2> QED
    BY <2>1, <2>3, <2>4, <2>6 DEF MongoInv
<1>12. CASE goal = times[1]
  <2>1. r' = [r EXCEPT !.pc = "next", !.val = 0]
    BY <1>9, <1>12
  <2>2. 0 <= r.num /\ \A k \in DOMAIN times : k <= 0 => ~Owed(times[k])
    BY <1>3, <1>4
  <2> QED
    BY <1>11, <2>1, <2>2
<1>13. CASE goal # times[1] /\ found.taken
  <2>1. r' = Return(r, at)
    BY <1>8, <1>9, <1>13
  <2>2. DOMAIN r.out = {}
    BY <1>3, <1>4, <1>5, <1>13
  <2> QED
    BY <1>1, <1>4, <1>8, <1>10, <1>13, <2>1, <2>2, ReturnStep
<1>14. CASE goal # times[1] /\ ~found.taken
  <2>1. r' = [r EXCEPT !.pc = "next", !.val = at]
    BY <1>8, <1>9, <1>14
  <2>2. at <= r.num
    BY <1>3, <1>8
  <2>3. \A k \in DOMAIN times : k <= at => ~Owed(times[k])
    BY <1>10, <1>14
  <2> QED
    BY <1>11, <2>1, <2>2, <2>3
<1> QED
  BY <1>12, <1>13, <1>14

LEMMA NextFromDatablockStep ==
    ASSUME MongoInv, NextFromDatablock
    PROVE  MongoInv'
<1>1. /\ r \in Reader /\ r.pc = "next" /\ r.val < r.num
      /\ blocks' = blocks /\ docs' = docs /\ SoundBlocks(blocks)
  BY DEF MongoInv, NextFromDatablock, BlocksSound, SoundBlocks
<1>2. Reading /\ ~BeforeHeader /\ r.pc # "header"
  BY <1>1 DEF Reading, BeforeHeader
<1>3. /\ r.header \in DOMAIN blocks /\ (r.bid # 0 => r.header = r.bid)
      /\ r.num \in 1 .. Len(blocks[r.header].times)
  BY <1>2 DEF MongoInv, HeaderSound
<1>4. Block = r.header /\ Place = r.val
  BY <1>2 DEF Block, Place
<1>5. PICK val \in Nat : val = r.val
  BY <1>1 DEF Reader
<1>6. PICK times \in Seq(Nat) : times = blocks[r.header].times
  BY <1>1, <1>3, BlockFields
<1>7. val + 1 \in DOMAIN times /\ DOMAIN times = 1 .. Len(times)
  BY <1>1, <1>3, <1>5, <1>6
<1>8. /\ \A i \in DOMAIN r.out : \A k \in DOMAIN times : k > val => r.out[i] < times[k]
      /\ \A k \in DOMAIN times : k <= val /\ Owed(times[k]) => times[k] \in ToSet(r.out)
  <2>1. \A i \in DOMAIN r.out : \A k \in DOMAIN times : k > val => r.out[i] < times[k]
    BY <1>2, <1>4, <1>5, <1>6 DEF MongoInv, OutSound
  <2>2. \A k \in DOMAIN times : k <= val => Behind(r.header, k)
    BY <1>4, <1>5 DEF Behind
  <2>3. \A k \in DOMAIN times : k <= val /\ Owed(times[k]) => times[k] \in ToSet(r.out)
    BY <1>2, <1>3, <1>6, <2>2 DEF MongoInv, OutSound
  <2> QED
    BY <2>1, <2>3
<1>9. CASE r.bid # 0 /\ blocks[r.header].times[r.val + 1] > Current.end
  <2>1. r' = [r EXCEPT !.val = r.num]
    BY <1>9 DEF NextFromDatablock
  <2>2. PICK num \in Nat : num = r.num
    BY <1>1 DEF Reader
  <2>3. /\ r' \in Reader /\ r'.pc = "next" /\ r'.val = num /\ r'.out = r.out
        /\ r'.files = r.files /\ r'.file = r.file /\ r'.entries = r.entries /\ r'.bid = r.bid
        /\ r'.header = r.header /\ r'.num = r.num /\ r'.known = r.known /\ r'.start = r.start
    BY <1>1, <2>1, <2>2 DEF Reader
  <2>4. Kept /\ Reading' /\ ~BeforeHeader'
    BY <1>1, <2>3 DEF Kept, Reading, BeforeHeader
  <2>5. BlocksSound' /\ DocsSound' /\ FilesSound'
    BY <1>1, <2>3, <2>4, Frame
  <2>6. HeaderSound'
    BY <1>1, <1>2, <2>2, <2>3, <2>4, HeaderKept
  <2>7. Place <= num
    BY <1>1, <1>4, <1>5, <2>2
\* Samples after the range of the entry were not known to find().
  <2>8. ASSUME NEW k \in DOMAIN times, k <= num, Owed(times[k])
        PROVE  times[k] \in ToSet(r.out)
    <3>1. CASE k <= val
      BY <1>8, <2>8, <3>1
    <3>2. CASE k > val
      <4>1. times[k] <= Current.end /\ Current \in r.entries
        BY <1>2, <1>3, <1>6, <1>9, <2>8, CurrentEntry DEF Owed
      <4>2. Current.end \in Nat
        BY <1>1, <4>1 DEF Reader
      <4>3. times[val + 1] <= times[k] /\ times[val + 1] \in Nat /\ times[k] \in Nat
        <5>1. k = val + 1 \/ val + 1 < k
          BY <1>7, <3>2
        <5>2. \A i, j \in DOMAIN times : i < j => times[i] < times[j]
          BY <1>1, <1>3, <1>6 DEF SoundBlocks
        <5>3. times[val + 1] \in Nat /\ times[k] \in Nat
          BY <1>7
        <5> QED
          BY <1>7, <5>1, <5>2, <5>3
      <4> QED
        <5>1. times[val + 1] > Current.end
          BY <1>5, <1>6, <1>9
        <5> HIDE DEF Current
        <5> QED
          BY <4>1, <4>2, <4>3, <5>1
    <3>3. k \in Nat
      BY <1>7
    <3> QED
      BY <3>1, <3>2, <3>3
  <2>9. OutSound' /\ InOrder'
    BY <1>1, <1>6, <2>3, <2>4, <2>7, <2>8, Forward
  <2> QED
    BY <2>3, <2>5, <2>6, <2>9 DEF MongoInv
<1>10. CASE ~(r.bid # 0 /\ blocks[r.header].times[r.val + 1] > Current.end)
  <2>1. r' = Return(r, val)
    BY <1>5, <1>10 DEF NextFromDatablock
  <2>2. \A i \in DOMAIN r.out : r.out[i] < times[val + 1]
    BY <1>7, <1>8
  <2> QED
    BY <1>1, <1>5, <1>6, <1>8, <2>1, <2>2, ReturnStep
<1> QED
  BY <1>9, <1>10

\* When all samples of the header are passed, what is owed of this and of earlier
\* blocks is returned.
LEMMA AllPassed ==
    ASSUME MongoInv, Exhausted
    PROVE  /\ Reading /\ ~BeforeHeader /\ r.pc # "header" /\ r.header \in DOMAIN blocks
           /\ \A i \in DOMAIN r.out : r.out[i] <= Last(blocks[r.header].times)
           /\ \A b \in DOMAIN blocks : \A k \in DOMAIN blocks[b].times :
                 b <= r.header /\ Owed(blocks[b].times[k]) => blocks[b].times[k] \in ToSet(r.out)
<1>1. r \in Reader /\ r.pc = "next" /\ r.val >= r.num /\ SoundBlocks(blocks)
  BY DEF MongoInv, Exhausted, BlocksSound, SoundBlocks
<1>2. Reading /\ ~BeforeHeader /\ r.pc # "header"
  BY <1>1 DEF Reading, BeforeHeader
<1>3. /\ r.header \in DOMAIN blocks
      /\ \A k \in DOMAIN blocks[r.header].times :
            blocks[r.header].times[k] \in r.known => k <= r.num
  BY <1>2 DEF MongoInv, HeaderSound
<1>4. Block = r.header /\ Place = r.val /\ r.val \in Nat /\ r.num \in Nat /\ r.header \in Nat
  BY <1>1, <1>2 DEF Block, Place, Reader
<1>5. ASSUME NEW b \in DOMAIN blocks, NEW k \in DOMAIN blocks[b].times,
             b <= r.header, Owed(blocks[b].times[k])
      PROVE  blocks[b].times[k] \in ToSet(r.out)
  <2>1. b \in Nat /\ k \in Nat
    BY <1>1, BlockFields
  <2>2. b = r.header => k <= r.val
    <3>1. b = r.header => k <= r.num
      BY <1>3, <1>5 DEF Owed
    <3> QED
      BY <1>1, <1>4, <2>1, <3>1
  <2>3. Behind(b, k)
    BY <1>4, <1>5, <2>1, <2>2 DEF Behind
  <2> QED
    BY <1>2, <1>5, <2>3 DEF MongoInv, OutSound
<1>6. \A i \in DOMAIN r.out : r.out[i] <= Last(blocks[r.header].times)
  BY <1>2, <1>4 DEF MongoInv, OutSound
<1> QED
  BY <1>2, <1>3, <1>5, <1>6

LEMMA NextBlockStep ==
    ASSUME MongoInv, NextBlock
    PROVE  MongoInv'
<1>1. /\ r \in Reader /\ r.pc = "next" /\ Exhausted /\ r.bid # 0
      /\ blocks' = blocks /\ docs' = docs /\ SoundBlocks(blocks)
  BY DEF MongoInv, NextBlock, Exhausted, BlocksSound, SoundBlocks
<1>2. PICK h \in DOMAIN blocks : h = r.header /\ h = r.bid
  BY <1>1, AllPassed DEF MongoInv, HeaderSound
<1>3. PICK c : c = Current
  OBVIOUS
<1>4. /\ c.start = blocks[h].times[1] /\ blocks[h].file = r.file
  BY <1>1, <1>2, <1>3, AllPassed, CurrentEntry
<1>5. EntriesOf(r.file, r.entries) /\ CoverKnown(r.file, r.entries)
  BY <1>1, AllPassed DEF MongoInv, HeaderSound
<1>6. PICK later : later = After(r.entries, c.start)
  OBVIOUS
<1>7. later # {} /\ r' = [At(r, FirstOf(later)) EXCEPT !.goal = FirstOf(later).start]
  BY <1>3, <1>6 DEF NextBlock
<1>8. r.entries \subseteq [block : Nat, start : Nat, end : Nat]
  BY <1>1 DEF Reader
<1>9. PICK i \in r.entries : /\ i = FirstOf(later) /\ i.start > c.start
                             /\ \A j \in r.entries : j.start > c.start => i.start <= j.start
  <2>1. \A j \in later : j.start \in Nat
    BY <1>6, <1>8 DEF After
  <2>2. FirstOf(later) \in later /\ \A j \in later : FirstOf(later).start <= j.start
    BY <1>7, <2>1, FirstOfItems
  <2> QED
    BY <1>6, <2>2 DEF After
<1>10. /\ i.block \in DOMAIN blocks /\ blocks[i.block].file = r.file
       /\ i.start = blocks[i.block].times[1] /\ i.start \in Nat /\ i.block \in Nat
  BY <1>5, <1>8, <1>9 DEF EntriesOf
<1>11. /\ r' \in Reader /\ r'.pc = "header" /\ r'.out = r.out /\ r'.files = r.files
       /\ r'.known = r.known /\ r'.start = r.start /\ r'.bid = i.block /\ r'.file = r.file
       /\ r'.entries = r.entries /\ r'.goal = i.start
  <2>1. r' = [At(r, i) EXCEPT !.goal = i.start]
    BY <1>7, <1>9
  <2> QED
    BY <1>1, <1>10, <2>1 DEF Reader, At
<1>12. h < i.block
  <2>1. 1 \in DOMAIN blocks[h].times /\ 1 \in DOMAIN blocks[i.block].times /\ h \in Nat
        /\ blocks[h].times[1] \in Nat
    BY <1>1, <1>10, BlockFields
  <2>2. i.block < h => blocks[i.block].times[1] < blocks[h].times[1]
    BY <1>1, <1>10, <2>1, Order
  <2> QED
    BY <1>4, <1>9, <1>10, <2>1, <2>2
<1>13. ASSUME NEW b \in DOMAIN blocks, NEW k \in DOMAIN blocks[b].times,
              b < i.block, Owed(blocks[b].times[k])
       PROVE  blocks[b].times[k] \in ToSet(r.out)
  <2>1. b \in Nat /\ h \in Nat /\ blocks[b].file \in Nat /\ blocks[h].file \in Nat
    BY <1>1, BlockFields
  <2>2. CASE b <= h
    BY <1>1, <1>2, <1>13, <2>2, AllPassed
  <2>3. CASE h < b
    <3>1. blocks[h].file <= blocks[b].file /\ blocks[b].file <= blocks[i.block].file
      BY <1>1, <1>10, <1>13, <2>3 DEF SoundBlocks
    <3>2. blocks[b].file = r.file
      BY <1>4, <1>10, <2>1, <3>1
    <3>3. PICK j \in r.entries : j.block = b
      BY <1>5, <1>13, <3>2 DEF CoverKnown, Owed
    <3>4. j.start = blocks[b].times[1]
      BY <1>5, <3>3 DEF EntriesOf
    <3>5. /\ 1 \in DOMAIN blocks[h].times /\ 1 \in DOMAIN blocks[b].times
          /\ 1 \in DOMAIN blocks[i.block].times
          /\ blocks[h].times[1] \in Nat /\ blocks[b].times[1] \in Nat
      BY <1>1, <1>10, BlockFields
    <3>6. blocks[h].times[1] < blocks[b].times[1] /\ blocks[b].times[1] < blocks[i.block].times[1]
      BY <1>1, <1>10, <1>13, <2>3, <3>5, Order
    <3> QED
      BY <1>4, <1>9, <1>10, <3>4, <3>5, <3>6
  <2> QED
    BY <2>1, <2>2, <2>3
<1>14. \A n \in DOMAIN r.out : r.out[n] < blocks[i.block].times[1]
  <2> TAKE n \in DOMAIN r.out
  <2>0. r.out \in Seq(Nat)
    BY <1>1 DEF Reader
  <2>1. r.out[n] \in Nat /\ Last(blocks[h].times) \in Nat
    BY <1>1, <2>0, BlockFields
  <2>2. Last(blocks[h].times) < blocks[i.block].times[1]
    BY <1>1, <1>10, <1>12 DEF SoundBlocks
  <2>3. r.out[n] <= Last(blocks[h].times)
    BY <1>1, <1>2, AllPassed
  <2> QED
    BY <1>10, <2>1, <2>2, <2>3
<1>15. Kept
  BY <1>1, <1>11 DEF Kept
<1>16. EntriesOf(r'.file, r'.entries) /\ CoverKnown(r'.file, r'.entries)
  BY <1>5, <1>11
<1>17. \E f \in r.files : f.file = r.file
  BY <1>1, AllPassed DEF MongoInv, HeaderSound
<1> QED
  BY <1>1, <1>9, <1>10, <1>11, <1>13, <1>14, <1>15, <1>16, <1>17, AtBlock

\* The documents of files are in the order of the files.
LEMMA FileDocs ==
    ASSUME MongoInv, Reading, r.bid # 0
    PROVE  /\ \A f \in r.files : f.file \in Nat /\ f.start \in Nat /\ f.file \in DOMAIN docs
           /\ \A f, g \in r.files : f.file < g.file => f.start < g.start
           /\ \A f \in LaterFiles : f \in r.files /\ r.file < f.file
           /\ \A f \in r.files : r.file < f.file => f \in LaterFiles
<1>1. r \in Reader /\ FilesSound /\ SoundBlocks(blocks) /\ r.pc \notin {"idle", "none", "files"}
  BY DEF MongoInv, BlocksSound, SoundBlocks, Reading
<1>2. \A f \in r.files : f.file \in DOMAIN docs /\ f.file \in Nat /\ f.start \in Nat
  <2>1. r.files \subseteq [file : Nat, start : Nat]
    BY <1>1 DEF Reader
  <2>2. \A f \in r.files : f \in [file : DOMAIN docs, start : Nat]
    BY <1>1 DEF FilesSound
  <2> QED
    BY <2>1, <2>2
<1>3. ASSUME NEW f \in r.files, NEW g \in r.files, f.file < g.file PROVE f.start < g.start
  <2>1. PICK a \in DOMAIN blocks : blocks[a].file = f.file /\ f.start = Millis(blocks[a].times[1])
    BY <1>1 DEF FilesSound
  <2>2. PICK b \in DOMAIN blocks : blocks[b].file = g.file /\ g.start = Millis(blocks[b].times[1])
    BY <1>1 DEF FilesSound
  <2> QED
    BY <1>1, <1>3, <2>1, <2>2, FileOrder
<1>4. PICK here \in r.files : here.file = r.file /\ LaterFiles = After(r.files, here.start)
  <2>1. \E f \in r.files : f.file = r.file
    BY DEF MongoInv, HeaderSound
  <2> QED
    BY <2>1 DEF LaterFiles
<1>5. \A f \in r.files : f.file = here.file => f = here
  BY <1>1 DEF FilesSound
<1>6. ASSUME NEW f \in LaterFiles PROVE f \in r.files /\ r.file < f.file
  <2>1. f \in r.files /\ f.start > here.start
    BY <1>4 DEF After
  <2>2. ~(f.file < here.file)
    BY <1>2, <1>3, <2>1
  <2>3. f.file # here.file
    BY <1>2, <1>5, <2>1
  <2> QED
    BY <1>2, <1>4, <2>1, <2>2, <2>3
<1>7. ASSUME NEW f \in r.files, r.file < f.file PROVE f \in LaterFiles
  BY <1>3, <1>4, <1>7 DEF After
<1> QED
  BY <1>2, <1>3, <1>6, <1>7

LEMMA NextFileStep ==
    ASSUME MongoInv, NextFile
    PROVE  MongoInv'
<1>1. /\ r \in Reader /\ r.pc = "next" /\ Exhausted /\ r.bid # 0
      /\ blocks' = blocks /\ docs' = docs /\ SoundBlocks(blocks)
  BY DEF MongoInv, NextFile, Exhausted, BlocksSound, SoundBlocks
<1>2. PICK h \in DOMAIN blocks : h = r.header /\ h = r.bid
  BY <1>1, AllPassed DEF MongoInv, HeaderSound
<1>3. PICK c : c = Current
  OBVIOUS
<1>4. /\ c.start = blocks[h].times[1] /\ blocks[h].file = r.file
  BY <1>1, <1>2, <1>3, AllPassed, CurrentEntry
<1>5. EntriesOf(r.file, r.entries) /\ CoverKnown(r.file, r.entries)
  BY <1>1, AllPassed DEF MongoInv, HeaderSound
<1>6. LaterFiles # {} /\ After(r.entries, c.start) = {}
  BY <1>3 DEF NextFile
<1>7. PICK n \in r.files : /\ n = FirstOf(LaterFiles) /\ r.file < n.file
                           /\ \A f \in LaterFiles : n.start <= f.start
  <2>1. Reading
    BY <1>1, AllPassed
  <2>2. \A f \in LaterFiles : f.start \in Nat /\ f \in r.files /\ r.file < f.file
    BY <1>1, <2>1, FileDocs
  <2>3. FirstOf(LaterFiles) \in LaterFiles
        /\ \A f \in LaterFiles : FirstOf(LaterFiles).start <= f.start
    BY <1>6, <2>2, FirstOfItems
  <2> HIDE DEF LaterFiles
  <2> QED
    BY <2>2, <2>3
<1>8. PICK next \in DOMAIN docs : next = n.file /\ next \in Nat
  BY <1>1, AllPassed, FileDocs
<1>9. PICK items : items = docs[next]
  OBVIOUS
<1>10. /\ items \subseteq [block : Nat, start : Nat, end : Nat] /\ items # {}
       /\ EntriesOf(next, items) /\ CoverKnown(next, items) /\ \A j \in items : j.start \in Nat
  BY <1>9, DocFields
<1>11. PICK i \in items : i = FirstOf(items) /\ \A j \in items : i.start <= j.start
  BY <1>10, FirstOfItems
<1>12. /\ i.block \in DOMAIN blocks /\ blocks[i.block].file = next
       /\ i.start = blocks[i.block].times[1] /\ i.start \in Nat /\ i.block \in Nat
  BY <1>10, <1>11 DEF EntriesOf
<1>13. r' = [At(r, i) EXCEPT !.file = next, !.entries = items, !.goal = i.start]
  BY <1>7, <1>8, <1>9, <1>11 DEF NextFile
<1>14. /\ r' \in Reader /\ r'.pc = "header" /\ r'.out = r.out /\ r'.files = r.files
       /\ r'.known = r.known /\ r'.start = r.start /\ r'.bid = i.block /\ r'.file = next
       /\ r'.entries = items /\ r'.goal = i.start
  BY <1>1, <1>8, <1>10, <1>12, <1>13 DEF Reader, At
<1>15. h < i.block
  BY <1>1, <1>4, <1>7, <1>8, <1>12, FileOrder
<1>16. ASSUME NEW b \in DOMAIN blocks, NEW k \in DOMAIN blocks[b].times,
              b < i.block, Owed(blocks[b].times[k])
       PROVE  blocks[b].times[k] \in ToSet(r.out)
  <2>1. b \in Nat /\ h \in Nat /\ blocks[b].file \in Nat /\ blocks[h].file \in Nat
    BY <1>1, BlockFields
  <2>2. CASE b <= h
    BY <1>1, <1>2, <1>16, <2>2, AllPassed
  <2>3. CASE h < b
    <3>1. blocks[h].file <= blocks[b].file /\ blocks[b].file <= blocks[i.block].file
      BY <1>1, <1>12, <1>16, <2>3 DEF SoundBlocks
    <3>2. /\ 1 \in DOMAIN blocks[h].times /\ 1 \in DOMAIN blocks[b].times
          /\ 1 \in DOMAIN blocks[i.block].times
          /\ blocks[h].times[1] \in Nat /\ blocks[b].times[1] \in Nat
      BY <1>1, <1>12, BlockFields
    <3>3. blocks[h].times[1] < blocks[b].times[1] /\ blocks[b].times[1] < blocks[i.block].times[1]
      BY <1>1, <1>12, <1>16, <2>3, <3>2, Order
    <3>4. CASE blocks[b].file = r.file
      <4>1. PICK j \in r.entries : j.block = b
        BY <1>5, <1>16, <3>4 DEF CoverKnown, Owed
      <4>2. j.start = blocks[b].times[1]
        BY <1>5, <4>1 DEF EntriesOf
      <4>3. j \in After(r.entries, c.start)
        BY <1>4, <3>2, <3>3, <4>1, <4>2 DEF After
      <4> QED
        BY <1>6, <4>3
    <3>5. CASE blocks[b].file = next
      <4>1. PICK j \in items : j.block = b
        BY <1>10, <1>16, <3>5 DEF CoverKnown, Owed
      <4>2. j.start = blocks[b].times[1]
        BY <1>10, <4>1 DEF EntriesOf
      <4> QED
        BY <1>11, <1>12, <3>2, <3>3, <4>1, <4>2
    <3>6. CASE r.file < blocks[b].file /\ blocks[b].file < next
      <4>1. PICK g \in r.files : g.file = blocks[b].file
        <5>1. blocks[b].times[k] \in r.known /\ blocks[b].times[k] \in ToSet(blocks[b].times)
          BY <1>16 DEF Owed, ToSet
        <5>2. r.pc \notin {"idle", "none", "files"}
          BY <1>1
        <5> QED
          BY <5>1, <5>2 DEF MongoInv, FilesSound
      <4>2. g \in LaterFiles /\ g.start < n.start /\ g.start \in Nat /\ n.start \in Nat
        BY <1>1, <1>8, <3>6, <4>1, AllPassed, FileDocs
      <4>3. n.start <= g.start
        BY <1>7, <4>2
      <4> QED
        BY <4>2, <4>3
    <3> QED
      BY <1>4, <1>8, <1>12, <2>1, <3>1, <3>4, <3>5, <3>6
  <2> QED
    BY <2>1, <2>2, <2>3
<1>17. \A m \in DOMAIN r.out : r.out[m] < blocks[i.block].times[1]
  <2> TAKE m \in DOMAIN r.out
  <2>0. r.out \in Seq(Nat)
    BY <1>1 DEF Reader
  <2>1. r.out[m] \in Nat /\ Last(blocks[h].times) \in Nat
    BY <1>1, <2>0, BlockFields
  <2>2. Last(blocks[h].times) < blocks[i.block].times[1]
    BY <1>1, <1>12, <1>15 DEF SoundBlocks
  <2>3. r.out[m] <= Last(blocks[h].times)
    BY <1>1, <1>2, AllPassed
  <2> QED
    BY <1>12, <2>1, <2>2, <2>3
<1>18. Kept
  BY <1>1, <1>14 DEF Kept
<1>19. EntriesOf(r'.file, r'.entries) /\ CoverKnown(r'.file, r'.entries)
  BY <1>10, <1>14
<1> QED
  BY <1>1, <1>7, <1>8, <1>11, <1>12, <1>14, <1>16, <1>17, <1>18, <1>19, AtBlock

LEMMA NoNextFileStep ==
    ASSUME MongoInv, NoNextFile
    PROVE  MongoInv'
<1>1. /\ r \in Reader /\ r.pc = "next" /\ Exhausted /\ r.bid # 0
      /\ blocks' = blocks /\ docs' = docs /\ SoundBlocks(blocks) /\ HeaderSound
  BY DEF MongoInv, NoNextFile, Exhausted, BlocksSound, SoundBlocks
<1>2. Reading /\ ~BeforeHeader /\ r.pc # "header"
  BY <1>1 DEF Reading, BeforeHeader
<1>3. PICK file \in Nat : file = IF LaterFiles = {} THEN 0 ELSE FirstOf(LaterFiles).file
  <2>1. CASE LaterFiles # {}
    <3>1. \A f \in LaterFiles : f.start \in Nat /\ f.file \in Nat
      BY <1>1, <1>2, FileDocs
    <3>2. FirstOf(LaterFiles) \in LaterFiles
      <4> HIDE DEF LaterFiles
      <4> QED
        BY <2>1, <3>1, FirstOfItems
    <3> QED
      BY <2>1, <3>1, <3>2
  <2> QED
    BY <2>1
<1>4. PICK entries \in SUBSET [block : Nat, start : Nat, end : Nat] :
          entries = IF LaterFiles = {} THEN r.entries ELSE {}
  BY <1>1 DEF Reader
<1>5. r' = [r EXCEPT !.bid = 0, !.entries = entries, !.file = file]
  BY <1>3, <1>4 DEF NoNextFile
<1>6. /\ r' \in Reader /\ r'.pc = "next" /\ r'.files = r.files /\ r'.bid = 0
      /\ r'.header = r.header /\ r'.num = r.num /\ r'.val = r.val /\ r'.out = r.out
      /\ r'.known = r.known /\ r'.start = r.start
  BY <1>1, <1>5 DEF Reader
<1>7. Kept
  BY <1>1, <1>6 DEF Kept
<1>8. Reading' /\ ~BeforeHeader'
  BY <1>6 DEF Reading, BeforeHeader
<1>9. BlocksSound' /\ DocsSound' /\ FilesSound'
  BY <1>1, <1>6, <1>7, Frame
<1>10. OutSound' /\ InOrder'
  <2>1. Block' = Block /\ Place' = Place
    BY <1>2, <1>6, <1>8 DEF Block, Place
  <2> QED
    BY <1>2, <1>6, <1>7, <1>8, <2>1, SamePlace
<1>11. HeaderSound'
  BY <1>1, <1>2, <1>6, <1>8 DEF HeaderSound
<1> QED
  BY <1>6, <1>9, <1>10, <1>11 DEF MongoInv

\* After the last sample of the last block there is nothing.
LEMMA ReadOnStep ==
    ASSUME MongoInv, ReadOn
    PROVE  MongoInv'
<1>1. /\ r \in Reader /\ r.pc = "next" /\ Exhausted /\ r.bid = 0
      /\ blocks' = blocks /\ docs' = docs /\ SoundBlocks(blocks) /\ HeaderSound
  BY DEF MongoInv, ReadOn, Exhausted, BlocksSound, SoundBlocks
<1>2. Reading /\ ~BeforeHeader /\ r.pc # "header" /\ r.header \in DOMAIN blocks
  BY <1>1, AllPassed
<1>3. PICK num \in Nat \ {0} : /\ num = Len(blocks[r.header].times)
                               /\ DOMAIN blocks[r.header].times = 1 .. num
  BY <1>1, <1>2, BlockFields
<1>4. PICK linked \in BOOLEAN : linked <=> r.header < Len(blocks)
  OBVIOUS
<1>5. r.val \in Nat
  BY <1>1 DEF Reader
<1>6. PICK pc \in {"next", "failed", "end"} :
          /\ r' = [r EXCEPT !.num = num, !.pc = pc]
          /\ pc = "end" => ~linked
  <2>1. r' = [r EXCEPT !.num = num,
                       !.pc = CASE r.val < num -> @
                                [] r.val >= num /\ linked -> "failed"
                                [] r.val >= num /\ ~linked -> "end"]
    BY <1>3, <1>4 DEF ReadOn
  <2>2. CASE r.val < num
    <3>1. ~(r.val >= num)
      BY <1>3, <1>5, <2>2
    <3>2. r' = [r EXCEPT !.num = num, !.pc = "next"]
      BY <1>1, <2>1, <2>2, <3>1
    <3> QED
      BY <3>2
  <2>3. CASE ~(r.val < num) /\ linked
    <3>1. r.val >= num
      BY <1>3, <1>5, <2>3
    <3>2. r' = [r EXCEPT !.num = num, !.pc = "failed"]
      BY <2>1, <2>3, <3>1
    <3> QED
      BY <3>2
  <2>4. CASE ~(r.val < num) /\ ~linked
    <3>1. r.val >= num
      BY <1>3, <1>5, <2>4
    <3>2. r' = [r EXCEPT !.num = num, !.pc = "end"]
      BY <2>1, <2>4, <3>1
    <3> QED
      BY <2>4, <3>2
  <2> QED
    BY <2>2, <2>3, <2>4
<1>7. /\ r' \in Reader /\ r'.pc = pc /\ r'.files = r.files /\ r'.bid = 0
      /\ r'.header = r.header /\ r'.num = num /\ r'.val = r.val /\ r'.out = r.out
      /\ r'.known = r.known /\ r'.start = r.start
  BY <1>1, <1>6 DEF Reader
<1>8. Kept
  BY <1>1, <1>7 DEF Kept
<1>9. Reading' /\ ~BeforeHeader'
  BY <1>7 DEF Reading, BeforeHeader
<1>10. BlocksSound' /\ DocsSound' /\ FilesSound'
  BY <1>1, <1>7, <1>8, Frame
<1>11. ASSUME pc = "end", NEW t \in r.known, Owed(t)
       PROVE  t \in ToSet(r.out)
  <2>1. PICK b \in DOMAIN blocks : t \in ToSet(blocks[b].times)
    BY <1>11 DEF MongoInv, DocsSound
  <2>2. PICK k \in DOMAIN blocks[b].times : blocks[b].times[k] = t
    BY <2>1 DEF ToSet
  <2>3. b <= r.header
    <3>1. b \in 1 .. Len(blocks) /\ r.header \in 1 .. Len(blocks) /\ Len(blocks) \in Nat
      BY <1>1, <1>2, BlockFields
    <3> QED
      BY <1>4, <1>6, <1>11, <3>1
  <2> QED
    BY <1>1, <1>11, <2>2, <2>3, AllPassed
<1>12. OutSound' /\ InOrder'
  <2>1. Block' = Block /\ Place' = Place
    BY <1>2, <1>7, <1>9 DEF Block, Place
  <2> QED
    BY <1>2, <1>7, <1>8, <1>9, <1>11, <2>1, SamePlace
<1>13. HeaderSound'
  <2>1. num \in 1 .. Len(blocks[r.header].times)
    BY <1>3
  <2>2. r.val <= num
    <3>1. r.val <= r.num /\ r.num \in 1 .. Len(blocks[r.header].times)
      BY <1>1, <1>2 DEF HeaderSound
    <3> QED
      BY <1>3, <1>5, <3>1
  <2> QED
    BY <1>1, <1>2, <1>3, <1>7, <1>9, <2>1, <2>2 DEF HeaderSound
<1> QED
  BY <1>7, <1>10, <1>12, <1>13 DEF MongoInv

\* What is known to find() is in the range of an entry.
LEMMA FindStep ==
    ASSUME MongoInv, NEW start \in Start, Find(start)
    PROVE  MongoInv'
<1> DEFINE K == UNION {{t \in ToSet(blocks[i.block].times) : i.start <= t /\ t <= i.end}
                         : i \in UNION Range(docs)}
<1>1. r \in Reader /\ blocks' = blocks /\ docs' = docs /\ SoundBlocks(blocks) /\ DocsSound
  BY DEF MongoInv, Find, BlocksSound, SoundBlocks
<1>2. start \in Nat
  BY MongoAssumption
<1>3. r' = [r EXCEPT !.pc = "files", !.start = start, !.files = {}, !.file = 0,
                     !.entries = {}, !.bid = 0, !.out = <<>>, !.known = K]
  BY DEF Find
<1>4. ASSUME NEW t \in K
      PROVE  \E f \in DOMAIN docs : \E i \in docs[f] :
                t \in ToSet(blocks[i.block].times) /\ t <= i.end
  <2>1. PICK i \in UNION Range(docs) : t \in ToSet(blocks[i.block].times) /\ t <= i.end
    BY <1>4
  <2>2. PICK f \in DOMAIN docs : i \in docs[f]
    BY DEF Range
  <2> QED
    BY <2>1, <2>2
<1> HIDE DEF K
<1>5. ASSUME NEW t \in K
      PROVE  \E f \in DOMAIN docs : \E i \in docs[f] : \E k \in DOMAIN blocks[i.block].times :
                /\ t = blocks[i.block].times[k] /\ t \in Nat /\ t <= i.end
                /\ i.block \in DOMAIN blocks /\ blocks[i.block].file = f
  <2>0. PICK f \in DOMAIN docs : \E i \in docs[f] :
            t \in ToSet(blocks[i.block].times) /\ t <= i.end
    BY <1>4
  <2>1. PICK i \in docs[f] : t \in ToSet(blocks[i.block].times) /\ t <= i.end
    BY <2>0
  <2>2. i.block \in DOMAIN blocks /\ blocks[i.block].file = f
    BY DocFields DEF EntriesOf
  <2>3. PICK k \in DOMAIN blocks[i.block].times : t = blocks[i.block].times[k]
    BY <2>1 DEF ToSet
  <2>4. t \in Nat
    BY <1>1, <2>2, <2>3, BlockFields
  <2> QED
    BY <2>1, <2>2, <2>3, <2>4
<1>6. K \in SUBSET Nat
  BY <1>5
<1>7. r' \in Reader /\ r'.pc = "files" /\ r'.out = <<>> /\ r'.known = K
  <2>1. PICK out \in Seq(Nat) : out = <<>>
    BY EmptySeq
  <2>2. PICK none \in SUBSET [file : Nat, start : Nat] : none = {}
    OBVIOUS
  <2>3. PICK nothing \in SUBSET [block : Nat, start : Nat, end : Nat] : nothing = {}
    OBVIOUS
  <2>4. r' = [r EXCEPT !.pc = "files", !.start = start, !.files = none, !.file = 0,
                       !.entries = nothing, !.bid = 0, !.out = out, !.known = K]
    BY <1>3, <2>1, <2>2, <2>3
  <2> QED
    BY <1>1, <1>2, <1>6, <2>1, <2>4 DEF Reader
<1>8. ~Reading' /\ ~BeforeHeader'
  BY <1>7 DEF Reading, BeforeHeader
<1>9. BlocksSound'
  BY <1>1 DEF MongoInv, BlocksSound
<1>10. DocsSound'
  <2>1. ASSUME NEW f \in DOMAIN docs
        PROVE  docs[f] # {} /\ EntriesOf(f, docs[f])' /\ CoverKnown(f, docs[f])'
    <3>1. docs[f] # {} /\ EntriesOf(f, docs[f])'
      BY <1>1, DocFields DEF EntriesOf
    <3>2. ASSUME NEW b \in DOMAIN blocks, blocks[b].file = f,
                 NEW k \in DOMAIN blocks[b].times, blocks[b].times[k] \in K
          PROVE  \E i \in docs[f] : i.block = b /\ blocks[b].times[k] <= i.end
      <4>0. PICK g \in DOMAIN docs : \E i \in docs[g] : \E l \in DOMAIN blocks[i.block].times :
                /\ blocks[b].times[k] = blocks[i.block].times[l]
                /\ blocks[b].times[k] <= i.end
                /\ i.block \in DOMAIN blocks /\ blocks[i.block].file = g
        BY <1>5, <3>2
      <4>1. PICK i \in docs[g] : \E l \in DOMAIN blocks[i.block].times :
                /\ blocks[b].times[k] = blocks[i.block].times[l]
                /\ blocks[b].times[k] <= i.end
                /\ i.block \in DOMAIN blocks /\ blocks[i.block].file = g
        BY <4>0
      <4>2. i.block = b
        BY <1>1, <3>2, <4>1, Order
      <4> QED
        BY <3>2, <4>1, <4>2
    <3>3. CoverKnown(f, docs[f])'
      BY <1>1, <1>7, <3>2 DEF CoverKnown
    <3> QED
      BY <3>1, <3>3
  <2>2. ASSUME NEW t \in K
        PROVE  \E b \in DOMAIN blocks : t \in ToSet(blocks[b].times) /\ blocks[b].file \in DOMAIN docs
    <3>0. PICK f \in DOMAIN docs : \E i \in docs[f] : \E k \in DOMAIN blocks[i.block].times :
                /\ t = blocks[i.block].times[k]
                /\ i.block \in DOMAIN blocks /\ blocks[i.block].file = f
      BY <1>5
    <3>1. PICK i \in docs[f] : \E k \in DOMAIN blocks[i.block].times :
                /\ t = blocks[i.block].times[k]
                /\ i.block \in DOMAIN blocks /\ blocks[i.block].file = f
      BY <3>0
    <3>2. t \in ToSet(blocks[i.block].times)
      BY <3>1 DEF ToSet
    <3> QED
      BY <3>1, <3>2
  <2> QED
    BY <1>1, <1>7, <2>1, <2>2 DEF DocsSound
<1>11. FilesSound' /\ HeaderSound' /\ InOrder'
  BY <1>7, <1>8 DEF FilesSound, HeaderSound, InOrder
<1>12. OutSound'
  BY <1>7, <1>8 DEF OutSound
<1> QED
  BY <1>7, <1>9, <1>10, <1>11, <1>12 DEF MongoInv

-----------------------------------------------------------------------------
(* The collection and the engine.                                          *)

\* The document of a file has the ranges of all of its blocks.
LEMMA EnterFileStep ==
    ASSUME MongoInv, NEW f \in 1 .. Len(blocks), EnterFile(f)
    PROVE  MongoInv'
<1> DEFINE inFile == {b \in DOMAIN blocks : blocks[b].file = f}
           doc == {Entry(b) : b \in inFile}
           E == [block : Nat, start : Nat, end : Nat]
<1>1. r \in Reader /\ r' = r /\ blocks' = blocks /\ SoundBlocks(blocks) /\ DocsSound
  BY DEF MongoInv, EnterFile, BlocksSound, SoundBlocks
<1>2. /\ inFile # {} /\ f <= Len(docs) + 1
      /\ docs' = IF f <= Len(docs) THEN [docs EXCEPT ![f] = doc] ELSE Append(docs, doc)
  BY DEF EnterFile
<1>3. docs \in Seq(SUBSET E) /\ Len(docs) \in Nat /\ DOMAIN docs = 1 .. Len(docs)
  BY <1>1 DEF DocsSound
<1>4. f \in Nat \ {0}
  BY <1>1 DEF SoundBlocks
<1>5. ASSUME NEW b \in inFile
      PROVE  /\ Entry(b) \in E /\ Entry(b).block = b /\ b \in DOMAIN blocks
             /\ Entry(b).start = blocks[b].times[1] /\ Entry(b).end = Last(blocks[b].times)
  <2>1. b \in DOMAIN blocks
    OBVIOUS
  <2>2. b \in Nat /\ blocks[b].times[1] \in Nat /\ Last(blocks[b].times) \in Nat
    BY <1>1, <2>1, BlockFields
  <2> QED
    BY <2>1, <2>2 DEF Entry
<1>6. doc \in SUBSET E /\ doc # {}
  <2> HIDE DEF E
  <2> QED
    BY <1>2, <1>5
<1>7. EntriesOf(f, doc)
  <2>1. \A i \in doc : \E b \in inFile : i = Entry(b)
    OBVIOUS
  <2>2. \A b \in inFile : blocks[b].file = f
    OBVIOUS
  <2>3. ASSUME NEW i \in doc
        PROVE  /\ i \in [block : DOMAIN blocks, start : Nat, end : Nat]
               /\ blocks[i.block].file = f /\ i.start = blocks[i.block].times[1]
               /\ \A j \in doc : j.block = i.block => j = i
    <3>1. PICK b \in inFile : i = Entry(b)
      BY <2>1
    <3>2. i \in E /\ i.block = b /\ b \in DOMAIN blocks /\ i.start = blocks[b].times[1]
      BY <1>5, <3>1
    <3>3. i \in [block : DOMAIN blocks, start : Nat, end : Nat]
      BY <3>2
    <3>4. ASSUME NEW j \in doc, j.block = i.block PROVE j = i
      <4> HIDE DEF inFile, doc
      <4>1. PICK c \in inFile : j = Entry(c)
        BY <2>1
      <4>2. c = b
        BY <1>5, <3>2, <3>4, <4>1
      <4> QED
        BY <3>1, <4>1, <4>2
    <3> QED
      BY <2>2, <3>2, <3>3, <3>4
  <2> QED
    BY <2>3 DEF EntriesOf
<1>8. CoverKnown(f, doc)
  <2> SUFFICES ASSUME NEW b \in DOMAIN blocks, blocks[b].file = f,
                      NEW k \in DOMAIN blocks[b].times
               PROVE  \E i \in doc : i.block = b /\ blocks[b].times[k] <= i.end
    BY DEF CoverKnown
  <2>1. b \in inFile
    OBVIOUS
  <2>2. Entry(b) \in doc
    BY <2>1
  <2>3. blocks[b].times[k] <= Last(blocks[b].times)
    BY <1>1, BlockFields
  <2> QED
    BY <1>5, <2>1, <2>2, <2>3
<1> HIDE DEF doc, inFile, E
<1>9. /\ docs' \in Seq(SUBSET E) /\ DOMAIN docs \subseteq DOMAIN docs' /\ f \in DOMAIN docs'
      /\ \A g \in DOMAIN docs' : docs'[g] = IF g = f THEN doc ELSE docs[g]
      /\ \A g \in DOMAIN docs' : g # f => g \in DOMAIN docs
  <2>1. CASE f <= Len(docs)
    <3>1. f \in DOMAIN docs /\ docs' = [docs EXCEPT ![f] = doc]
      BY <1>2, <1>3, <1>4, <2>1
    <3> QED
      BY <1>3, <1>6, <3>1
  <2>2. CASE ~(f <= Len(docs))
    <3>1. f = Len(docs) + 1 /\ docs' = Append(docs, doc)
      BY <1>2, <1>3, <1>4, <2>2
    <3>2. docs' \in Seq(SUBSET E) /\ DOMAIN docs' = 1 .. Len(docs) + 1
      BY <1>3, <1>6, <3>1
    <3>3. docs'[Len(docs) + 1] = doc /\ \A g \in 1 .. Len(docs) : docs'[g] = docs[g]
      BY <1>3, <1>6, <3>1
    <3> QED
      BY <1>3, <3>1, <3>2, <3>3
  <2> QED
    BY <2>1, <2>2
<1>10. ASSUME NEW g \in DOMAIN docs'
       PROVE  docs'[g] # {} /\ EntriesOf(g, docs'[g]) /\ CoverKnown(g, docs'[g])
  <2>1. CASE g = f
    BY <1>6, <1>7, <1>8, <1>9, <2>1
  <2>2. CASE g # f
    BY <1>1, <1>9, <2>2 DEF DocsSound
  <2> QED
    BY <2>1, <2>2
<1>11. DocsSound'
  <2>1. docs' \in Seq(SUBSET [block : Nat, start : Nat, end : Nat])
    BY <1>9 DEF E
  <2>2. \A t \in r.known : \E b \in DOMAIN blocks :
          t \in ToSet(blocks[b].times) /\ blocks[b].file \in DOMAIN docs'
    BY <1>1, <1>9 DEF DocsSound
  <2>3. \A g, items : EntriesOf(g, items) => EntriesOf(g, items)'
    BY <1>1 DEF EntriesOf
  <2>4. \A g, items : CoverKnown(g, items) => CoverKnown(g, items)'
    BY <1>1 DEF CoverKnown
  <2> QED
    BY <1>1, <1>10, <2>1, <2>2, <2>3, <2>4 DEF DocsSound
<1>12. FilesSound'
  <2>1. FilesSound
    BY DEF MongoInv
  <2>2. ASSUME r.pc \notin {"idle", "none", "files"}, NEW g \in r.files
        PROVE  g \in [file : DOMAIN docs', start : Nat]
    <3>1. g \in [file : DOMAIN docs, start : Nat]
      BY <2>1, <2>2 DEF FilesSound
    <3> QED
      BY <1>9, <3>1
  <2> QED
    BY <1>1, <2>1, <2>2 DEF FilesSound
<1>13. BlocksSound' /\ InOrder'
  BY <1>1 DEF MongoInv, BlocksSound, InOrder
<1>14. OutSound'
  <2>1. OutSound
    BY DEF MongoInv
  <2>2. Reading' = Reading /\ Block' = Block /\ Place' = Place
    BY <1>1 DEF Reading, Block, Place, BeforeHeader
  <2> QED
    BY <1>1, <2>1, <2>2 DEF OutSound, Owed, Behind
<1>15. HeaderSound'
  <2>1. HeaderSound
    BY DEF MongoInv
  <2> QED
    BY <1>1, <2>1 DEF HeaderSound, Reading, BeforeHeader, EntriesOf, CoverKnown
<1> QED
  BY <1>1, <1>11, <1>12, <1>13, <1>14, <1>15 DEF MongoInv

\* A later sample changes nothing for the reader.
LEMMA Grown ==
    ASSUME MongoInv, r' = r, docs' = docs, NEW t \in Nat,
           \A b \in DOMAIN blocks : t > Last(blocks[b].times),
           SoundBlocks(blocks'), Extended(blocks, blocks', t)
    PROVE  MongoInv'
<1>1. PICK B : B = blocks'
  OBVIOUS
<1>2. SoundBlocks(blocks) /\ SoundBlocks(B) /\ Extended(blocks, B, t) /\ r \in Reader
  BY <1>1 DEF MongoInv, BlocksSound, SoundBlocks
<1>3. /\ DOMAIN blocks \subseteq DOMAIN B
      /\ \A b \in DOMAIN blocks :
            /\ B[b].file = blocks[b].file
            /\ DOMAIN blocks[b].times \subseteq DOMAIN B[b].times
            /\ \A k \in DOMAIN blocks[b].times : B[b].times[k] = blocks[b].times[k]
            /\ B[b].times[1] = blocks[b].times[1]
            /\ ToSet(blocks[b].times) \subseteq ToSet(B[b].times)
  <2>1. DOMAIN blocks \subseteq DOMAIN B
    BY <1>2 DEF Extended
  <2>2. ASSUME NEW b \in DOMAIN blocks
        PROVE  /\ B[b].file = blocks[b].file
               /\ DOMAIN blocks[b].times \subseteq DOMAIN B[b].times
               /\ \A k \in DOMAIN blocks[b].times : B[b].times[k] = blocks[b].times[k]
               /\ 1 \in DOMAIN blocks[b].times
    BY <1>2, BlockFields DEF Extended
  <2>3. \A b \in DOMAIN blocks : ToSet(blocks[b].times) \subseteq ToSet(B[b].times)
    BY <2>2 DEF ToSet
  <2> QED
    BY <2>1, <2>2, <2>3
\* The sample is not one of those that were known to find().
<1>4. t \notin r.known
  <2> SUFFICES ASSUME t \in r.known PROVE FALSE
    OBVIOUS
  <2>1. PICK b \in DOMAIN blocks : t \in ToSet(blocks[b].times)
    BY DEF MongoInv, DocsSound
  <2>2. PICK k \in DOMAIN blocks[b].times : blocks[b].times[k] = t
    BY <2>1 DEF ToSet
  <2>3. t <= Last(blocks[b].times) /\ Last(blocks[b].times) \in Nat
    BY <1>2, <2>2, BlockFields
  <2> QED
    BY <2>3
<1>5. ASSUME NEW c \in DOMAIN B, NEW k \in DOMAIN B[c].times, B[c].times[k] \in r.known
      PROVE  /\ c \in DOMAIN blocks /\ k \in DOMAIN blocks[c].times
             /\ blocks[c].times[k] = B[c].times[k]
  <2>1. c \in DOMAIN blocks /\ k \in DOMAIN blocks[c].times
    BY <1>2, <1>4, <1>5 DEF Extended
  <2> QED
    BY <1>3, <2>1
<1>6. BlocksSound'
  BY DEF SoundBlocks, BlocksSound
<1>7. ASSUME NEW f, NEW items, EntriesOf(f, items)
      PROVE  EntriesOf(f, items)'
  <2>1. ASSUME NEW i \in items
        PROVE  /\ i \in [block : DOMAIN B, start : Nat, end : Nat]
               /\ B[i.block].file = f
               /\ i.start = B[i.block].times[1]
               /\ \A j \in items : j.block = i.block => j = i
    <3>1. /\ i \in [block : DOMAIN blocks, start : Nat, end : Nat]
          /\ blocks[i.block].file = f
          /\ i.start = blocks[i.block].times[1]
          /\ \A j \in items : j.block = i.block => j = i
      BY <1>7 DEF EntriesOf
    <3>2. i.block \in DOMAIN blocks
      BY <3>1
    <3>3. i \in [block : DOMAIN B, start : Nat, end : Nat]
      BY <1>3, <3>1
    <3> QED
      BY <1>3, <3>1, <3>2, <3>3
  <2> QED
    BY <1>1, <2>1 DEF EntriesOf
<1>8. ASSUME NEW f, NEW items, CoverKnown(f, items)
      PROVE  CoverKnown(f, items)'
  <2>1. ASSUME NEW b \in DOMAIN B, B[b].file = f, NEW k \in DOMAIN B[b].times,
               B[b].times[k] \in r.known
        PROVE  \E i \in items : i.block = b /\ B[b].times[k] <= i.end
    <3>1. /\ b \in DOMAIN blocks /\ k \in DOMAIN blocks[b].times /\ blocks[b].file = f
          /\ blocks[b].times[k] = B[b].times[k]
      BY <1>3, <1>5, <2>1
    <3> QED
      BY <1>8, <2>1, <3>1 DEF CoverKnown
  <2> QED
    BY <1>1, <2>1 DEF CoverKnown
<1>9. DocsSound'
  <2>1. DocsSound
    BY DEF MongoInv
  <2>2. \A u \in r.known : \E b \in DOMAIN B :
          u \in ToSet(B[b].times) /\ B[b].file \in DOMAIN docs
    <3> TAKE u \in r.known
    <3>1. PICK b \in DOMAIN blocks : u \in ToSet(blocks[b].times) /\ blocks[b].file \in DOMAIN docs
      BY <2>1 DEF DocsSound
    <3> QED
      BY <1>3, <3>1
  <2> QED
    BY <1>1, <1>7, <1>8, <2>1, <2>2 DEF DocsSound
<1>10. FilesSound'
  <2>1. FilesSound
    BY DEF MongoInv
  <2>2. ASSUME NEW b \in DOMAIN B, NEW u \in r.known, u \in ToSet(B[b].times)
        PROVE  b \in DOMAIN blocks /\ u \in ToSet(blocks[b].times)
               /\ blocks[b].file = B[b].file
    <3>1. PICK k \in DOMAIN B[b].times : B[b].times[k] = u
      BY <2>2 DEF ToSet
    <3>2. b \in DOMAIN blocks /\ k \in DOMAIN blocks[b].times /\ blocks[b].times[k] = u
      BY <1>5, <2>2, <3>1
    <3> QED
      BY <1>3, <3>2 DEF ToSet
  <2>3. ASSUME r.pc \notin {"idle", "none", "files"}, NEW f \in r.files
        PROVE  \E b \in DOMAIN B : B[b].file = f.file /\ f.start = Millis(B[b].times[1])
    <3>1. PICK b \in DOMAIN blocks :
              blocks[b].file = f.file /\ f.start = Millis(blocks[b].times[1])
      BY <2>1, <2>3 DEF FilesSound
    <3> QED
      BY <1>3, <3>1
  <2>4. ASSUME r.pc \notin {"idle", "none", "files"}, NEW b \in DOMAIN B,
               \E u \in r.known : u \in ToSet(B[b].times)
        PROVE  \E f \in r.files : f.file = B[b].file
    <3>1. b \in DOMAIN blocks /\ \E u \in r.known : u \in ToSet(blocks[b].times)
      BY <2>2, <2>4
    <3>2. \E f \in r.files : f.file = blocks[b].file
      BY <2>1, <2>4, <3>1 DEF FilesSound
    <3> QED
      BY <1>3, <3>1, <3>2
  <2> QED
    BY <1>1, <2>1, <2>3, <2>4 DEF FilesSound
<1>11. /\ Reading' = Reading /\ Block' = Block /\ Place' = Place /\ BeforeHeader' = BeforeHeader
       /\ \A u : Owed(u)' = Owed(u)
       /\ \A b, k : Behind(b, k)' = Behind(b, k)
  BY DEF Reading, Block, Place, BeforeHeader, Owed, Behind
<1>12. ASSUME NEW b \in DOMAIN B, NEW k \in DOMAIN B[b].times, Owed(B[b].times[k])
       PROVE  /\ b \in DOMAIN blocks /\ k \in DOMAIN blocks[b].times
              /\ blocks[b].times[k] = B[b].times[k] /\ blocks[b].file = B[b].file
  <2>1. B[b].times[k] \in r.known
    BY <1>12 DEF Owed
  <2> QED
    BY <1>3, <1>5, <2>1
<1>13. OutSound'
  <2>1. OutSound /\ r.out \in Seq(Nat)
    BY <1>2 DEF MongoInv, Reader
  <2>2. ASSUME r.pc = "blocks", NEW b \in DOMAIN B, NEW k \in DOMAIN B[b].times,
               Owed(B[b].times[k])
        PROVE  r.file <= B[b].file
    BY <1>12, <2>1, <2>2 DEF OutSound
  <2>3. ASSUME Reading, NEW i \in DOMAIN r.out
        PROVE  /\ r.out[i] <= Last(B[Block].times)
               /\ \A k \in DOMAIN B[Block].times : k > Place => r.out[i] < B[Block].times[k]
    <3>1. PICK b \in DOMAIN blocks : b = Block
      BY <2>1, <2>3 DEF OutSound
    <3>2. /\ r.out[i] <= Last(blocks[b].times)
          /\ \A k \in DOMAIN blocks[b].times : k > Place => r.out[i] < blocks[b].times[k]
      BY <2>1, <2>3, <3>1 DEF OutSound
    <3>3. r.out[i] \in Nat /\ Last(blocks[b].times) \in Nat /\ Last(blocks[b].times) < t
      BY <1>2, <2>1, BlockFields
    <3>4. Last(blocks[b].times) <= Last(B[b].times) /\ Last(B[b].times) \in Nat
      <4>1. PICK n \in DOMAIN blocks[b].times : blocks[b].times[n] = Last(blocks[b].times)
        BY <1>2, BlockFields
      <4>2. b \in DOMAIN B /\ n \in DOMAIN B[b].times /\ B[b].times[n] = blocks[b].times[n]
        BY <1>3
      <4> QED
        BY <1>2, <4>1, <4>2, BlockFields
    <3>5. ASSUME NEW k \in DOMAIN B[b].times, k > Place PROVE r.out[i] < B[b].times[k]
      <4>1. CASE k \in DOMAIN blocks[b].times
        BY <1>3, <3>2, <3>5, <4>1
      <4>2. CASE B[b].times[k] = t
        BY <3>2, <3>3, <4>2
      <4>3. b \in DOMAIN B
        BY <1>3
      <4> QED
        BY <1>2, <4>1, <4>2, <4>3 DEF Extended
    <3>6. r.out[i] <= Last(B[b].times)
      BY <3>2, <3>3, <3>4
    <3> QED
      BY <3>1, <3>5, <3>6
  <2>4. Reading => Block \in DOMAIN B
    BY <1>3, <2>1 DEF OutSound
  <2>5. ASSUME Reading, NEW b \in DOMAIN B, NEW k \in DOMAIN B[b].times,
               Behind(b, k), Owed(B[b].times[k])
        PROVE  B[b].times[k] \in ToSet(r.out)
    BY <1>12, <2>1, <2>5 DEF OutSound
  <2> QED
    BY <1>1, <1>11, <2>1, <2>2, <2>3, <2>4, <2>5 DEF OutSound
<1>14. HeaderSound'
  <2>1. HeaderSound
    BY DEF MongoInv
  <2>2. Reading /\ r.bid # 0 =>
          /\ EntriesOf(r.file, r.entries)' /\ CoverKnown(r.file, r.entries)'
          /\ \E i \in r.entries : i.block = r.bid
          /\ \E f \in r.files : f.file = r.file
    <3>1. Reading /\ r.bid # 0 =>
          /\ EntriesOf(r.file, r.entries) /\ CoverKnown(r.file, r.entries)
          /\ \E i \in r.entries : i.block = r.bid
          /\ \E f \in r.files : f.file = r.file
      BY <2>1 DEF HeaderSound
    <3>2. EntriesOf(r.file, r.entries) => EntriesOf(r.file, r.entries)'
      BY <1>7
    <3>3. CoverKnown(r.file, r.entries) => CoverKnown(r.file, r.entries)'
      BY <1>8
    <3> QED
      BY <3>1, <3>2, <3>3
  <2>3. BeforeHeader =>
          /\ r.bid # 0
          /\ \/ r.goal = B[r.bid].times[1]
             \/ r.out = <<>> /\ r.goal = r.start
    <3> HAVE BeforeHeader
    <3>1. r.bid # 0 /\ Reading
      BY <2>1 DEF HeaderSound, BeforeHeader, Reading
    <3>2. r.bid \in DOMAIN blocks
      BY <3>1, CurrentEntry
    <3> QED
      BY <1>3, <2>1, <3>1, <3>2 DEF HeaderSound
  <2>4. ASSUME Reading, r.pc # "header"
        PROVE  /\ r.header \in DOMAIN B
               /\ r.bid # 0 => r.header = r.bid
               /\ r.num \in 1 .. Len(B[r.header].times)
               /\ ~BeforeHeader => r.val <= r.num
               /\ \A k \in DOMAIN B[r.header].times :
                     B[r.header].times[k] \in r.known => k <= r.num
    <3>1. PICK h \in DOMAIN blocks : h = r.header
      BY <2>1, <2>4 DEF HeaderSound
    <3>2. /\ r.num \in 1 .. Len(blocks[h].times)
          /\ \A k \in DOMAIN blocks[h].times : blocks[h].times[k] \in r.known => k <= r.num
      BY <2>1, <2>4, <3>1 DEF HeaderSound
    <3>3. h \in DOMAIN B
      BY <1>3
    <3>4. r.num \in 1 .. Len(B[h].times)
      <4>1. r.num \in DOMAIN B[h].times
        BY <1>2, <1>3, <3>2, BlockFields, SMTT(30)
      <4> QED
        BY <1>2, <3>3, <4>1, BlockFields
    <3>5. \A k \in DOMAIN B[h].times : B[h].times[k] \in r.known => k <= r.num
      BY <1>5, <3>2, <3>3
    <3> QED
      BY <2>1, <2>4, <3>1, <3>3, <3>4, <3>5 DEF HeaderSound
  <2> QED
    BY <1>1, <1>11, <2>2, <2>3, <2>4 DEF HeaderSound
<1>15. InOrder'
  BY DEF MongoInv, InOrder
<1> QED
  BY <1>2, <1>6, <1>9, <1>10, <1>13, <1>14, <1>15 DEF MongoInv

\* A new block is in the last file, or in one that starts in a later millisecond.
LEMMA SaveSampleStep ==
    ASSUME MongoInv, NEW t \in 1 .. MaxTime, SaveSample(t)
    PROVE  MongoInv'
<1> DEFINE last == Len(blocks)
           new(f) == Append(blocks, [file |-> f, times |-> <<t>>])
           Starts(f) == {Millis(blocks[b].times[1]) : b \in {c \in 1..last : blocks[c].file = f}}
<1>1. SoundBlocks(blocks) /\ docs' = docs /\ r' = r /\ t \in Nat
  BY MongoAssumption DEF MongoInv, BlocksSound, SoundBlocks, SaveSample
<1>2. \A b \in DOMAIN blocks : t > Last(blocks[b].times)
  BY DEF SaveSample
<1>3. \/ blocks = <<>> /\ blocks' = new(1)
      \/ /\ blocks # <<>>
         /\ Len(blocks[last].times) < MaxPerBlock
         /\ blocks' = [blocks EXCEPT ![last].times = Append(@, t)]
      \/ blocks # <<>> /\ blocks' = new(blocks[last].file)
      \/ /\ blocks # <<>>
         /\ Millis(t) \notin Starts(blocks[last].file)
         /\ blocks' = new(blocks[last].file + 1)
  BY DEF SaveSample
<1>4. SoundBlocks(blocks') /\ Extended(blocks, blocks', t)
  <2>1. CASE blocks = <<>> /\ blocks' = new(1)
    <3>1. DOMAIN blocks = {}
      BY <2>1
    <3> QED
      BY <1>1, <1>2, <2>1, <3>1, NewBlock
  <2>2. CASE blocks # <<>> /\ blocks' = [blocks EXCEPT ![last].times = Append(@, t)]
    BY <1>1, <1>2, <2>2, LongerBlock
  <2>3. CASE blocks # <<>>
    <3>1. PICK l \in DOMAIN blocks : l = last
      <4>1. blocks \in Seq([file : Nat, times : Seq(Nat) \ {<<>>}])
        BY <1>1 DEF SoundBlocks
      <4>2. Len(blocks) \in DOMAIN blocks
        BY <2>3, <4>1
      <4> QED
        BY <4>2
    <3>2. PICK f \in Nat : f = blocks[l].file
      BY <1>1, BlockFields
    <3>3. ASSUME NEW b \in DOMAIN blocks
          PROVE  blocks[b].file <= f /\ blocks[b].file \in Nat
      <4>1. b = l \/ b < l
        BY <1>1, <3>1, BlockFields
      <4>2. b < l => blocks[b].file <= blocks[l].file
        BY <1>1 DEF SoundBlocks
      <4>3. blocks[b].file \in Nat
        BY <1>1, BlockFields
      <4> QED
        BY <3>2, <4>1, <4>2, <4>3
    <3>4. ASSUME NEW b \in DOMAIN blocks
          PROVE  /\ blocks[b].times[1] \in Nat /\ blocks[b].times[1] <= t
                 /\ Millis(blocks[b].times[1]) \in Nat /\ Millis(t) \in Nat
                 /\ Millis(blocks[b].times[1]) <= Millis(t)
      <4>1. blocks[b].times[1] \in Nat /\ blocks[b].times[1] <= Last(blocks[b].times)
            /\ Last(blocks[b].times) \in Nat
        BY <1>1, BlockFields
      <4>2. blocks[b].times[1] <= t
        BY <1>1, <1>2, <4>1
      <4> QED
        BY <1>1, <4>1, <4>2, MillisMonotone
    <3>5. ASSUME NEW b \in DOMAIN blocks, blocks[b].file < f
          PROVE  Millis(blocks[b].times[1]) < Millis(t)
      <4>1. Millis(blocks[b].times[1]) < Millis(blocks[l].times[1])
        BY <1>1, <3>2, <3>5, FileOrder
      <4> QED
        BY <3>4, <4>1
    <3>6. CASE blocks' = new(blocks[last].file)
      BY <1>1, <1>2, <3>1, <3>2, <3>3, <3>5, <3>6, NewBlock
    <3>7. CASE /\ Millis(t) \notin Starts(blocks[last].file)
               /\ blocks' = new(blocks[last].file + 1)
      <4>1. ASSUME NEW b \in DOMAIN blocks
            PROVE  /\ blocks[b].file <= f + 1
                   /\ Millis(blocks[b].times[1]) < Millis(t)
        <5>1. blocks[b].file = f => Millis(blocks[b].times[1]) \in Starts(f)
          BY <1>1, BlockFields
        <5>2. blocks[b].file = f => Millis(blocks[b].times[1]) # Millis(t)
          BY <3>1, <3>2, <3>7, <5>1
        <5>3. Millis(blocks[b].times[1]) < Millis(t)
          BY <3>3, <3>4, <3>5, <5>2
        <5> QED
          BY <3>3, <5>3
      <4>2. f + 1 \in Nat /\ blocks' = new(f + 1)
        BY <3>1, <3>2, <3>7
      <4> QED
        BY <1>1, <1>2, <4>1, <4>2, NewBlock
    <3> QED
      BY <1>3, <2>2, <2>3, <3>6, <3>7
  <2> QED
    BY <1>3, <2>1, <2>3
<1> QED
  BY <1>1, <1>2, <1>4, Grown

-----------------------------------------------------------------------------
(* The specification.                                                      *)

LEMMA InitStep == MongoInit => MongoInv
<1> SUFFICES ASSUME MongoInit PROVE MongoInv
  OBVIOUS
<1>1. /\ r = [pc |-> "idle", start |-> 0, goal |-> 0, files |-> {}, file |-> 0,
              entries |-> {}, bid |-> 0, header |-> 0, num |-> 0, val |-> 0,
              out |-> <<>>, known |-> {}]
      /\ blocks = <<>> /\ docs = <<>>
  BY DEF MongoInit
<1>2. r \in Reader
  <2>1. PICK out \in Seq(Nat) : out = <<>>
    BY EmptySeq
  <2>2. r = [pc |-> "idle", start |-> 0, goal |-> 0, files |-> {}, file |-> 0,
              entries |-> {}, bid |-> 0, header |-> 0, num |-> 0, val |-> 0,
              out |-> out, known |-> {}]
    BY <1>1, <2>1
  <2> HIDE <1>1
  <2> QED
    BY <2>2 DEF Reader
<1>3. r.pc = "idle" /\ r.out = <<>> /\ r.known = {}
  BY <1>1
<1>4. ~Reading /\ ~BeforeHeader
  BY <1>3 DEF Reading, BeforeHeader
<1>5. BlocksSound
  <2>1. blocks \in Seq([file : Nat, times : Seq(Nat) \ {<<>>}])
    BY <1>1, EmptySeq
  <2> QED
    BY <1>1, <2>1 DEF BlocksSound
<1>6. DocsSound
  <2>1. docs \in Seq(SUBSET [block : Nat, start : Nat, end : Nat])
    BY <1>1, EmptySeq
  <2> QED
    BY <1>1, <1>3, <2>1 DEF DocsSound
<1>7. FilesSound /\ HeaderSound /\ OutSound /\ InOrder
  BY <1>3, <1>4 DEF FilesSound, HeaderSound, OutSound, InOrder
<1> QED
  BY <1>2, <1>5, <1>6, <1>7 DEF MongoInv

LEMMA InvNext == MongoInv /\ [MongoNext]_mongoVars => MongoInv'
<1> SUFFICES ASSUME MongoInv, [MongoNext]_mongoVars PROVE MongoInv'
  OBVIOUS
<1>1. ASSUME NEW t \in 1 .. MaxTime, SaveSample(t) PROVE MongoInv'
  BY <1>1, SaveSampleStep
<1>2. ASSUME NEW f \in 1 .. Len(blocks), EnterFile(f) PROVE MongoInv'
  BY <1>2, EnterFileStep
<1>3. ASSUME NEW start \in Start, Find(start) PROVE MongoInv'
  BY <1>3, FindStep
<1>4. CASE CallNext
  BY <1>4, CallNextStep
<1>5. CASE QueryFails
  BY <1>5, QueryFailsStep
<1>6. CASE ReadFileDocs
  BY <1>6, ReadFileDocsStep
<1>7. CASE ReadBlockDocs
  BY <1>7, ReadBlockDocsStep
<1>8. CASE GetHeader
  BY <1>8, GetHeaderStep
<1>9. CASE FindSample
  BY <1>9, FindSampleStep
<1>10. CASE NextFromDatablock
  BY <1>10, NextFromDatablockStep
<1>11. CASE NextBlock
  BY <1>11, NextBlockStep
<1>12. CASE NextFile
  BY <1>12, NextFileStep
<1>13. CASE NoNextFile
  BY <1>13, NoNextFileStep
<1>14. CASE ReadOn
  BY <1>14, ReadOnStep
<1>15. CASE UNCHANGED mongoVars
  <2>1. blocks' = blocks /\ docs' = docs /\ r' = r
    BY <1>15 DEF mongoVars
  <2>2. Reading' = Reading /\ Block' = Block /\ Place' = Place /\ BeforeHeader' = BeforeHeader
    BY <2>1 DEF Reading, Block, Place, BeforeHeader
  <2>3. BlocksSound' /\ DocsSound' /\ FilesSound' /\ InOrder'
    <3>1. Kept
      BY <2>1 DEF Kept
    <3>2. r.pc \in {"idle", "none", "files"} => FilesSound'
      BY <2>1 DEF FilesSound
    <3> QED
      BY <2>1, <3>1, <3>2, Frame DEF MongoInv, InOrder
  <2>4. OutSound'
    BY <2>1, <2>2 DEF MongoInv, OutSound, Owed, Behind
  <2>5. HeaderSound'
    BY <2>1, <2>2 DEF MongoInv, HeaderSound, EntriesOf, CoverKnown
  <2> QED
    BY <2>1, <2>3, <2>4, <2>5 DEF MongoInv
<1> QED
  BY <1>1, <1>2, <1>3, <1>4, <1>5, <1>6, <1>7, <1>8, <1>9, <1>10, <1>11, <1>12, <1>13,
     <1>14, <1>15 DEF MongoNext

\* The archive, the collection and the reader fit each other: the reader has
\* returned what it owes up to its place, and nothing from beyond that place
\* (RawDataReaderMONGO::find and next, DatablockMONGO).
THEOREM MongoInvariance == MongoSpec => []MongoInv
<1>1. MongoInit => MongoInv
  BY InitStep
<1>2. MongoInv /\ [MongoNext]_mongoVars => MongoInv'
  BY InvNext
<1> QED
  BY <1>1, <1>2, PTL DEF MongoSpec

\* The samples come in the order of time and none comes twice, across blocks,
\* files and the headers that are read again after the last block of the
\* collection (RawDataReaderMONGO::next, DatablockMONGO::getNextDatablock).
THEOREM SamplesInOrder == MongoSpec => []InOrder
<1>1. MongoInv => InOrder
  BY DEF MongoInv
<1> QED
  BY <1>1, MongoInvariance, PTL

\* Of what the collection knew when find() was called, nothing from the start
\* time on is passed over, but for samples in the millisecond of the start
\* (DatablockMONGO::selectFid, selectBid and getNextDatablock).
THEOREM NonePassedOver == MongoSpec => []NothingPassedOver
<1>1. ASSUME MongoInv, NEW t \in r.known, Owed(t),
             r.pc = "end" \/ (r.out # <<>> /\ t < Last(r.out))
      PROVE  t \in ToSet(r.out)
  <2>1. CASE r.pc = "end"
    BY <1>1, <2>1 DEF MongoInv, OutSound
  <2>2. CASE r.out # <<>> /\ t < Last(r.out)
    <3>1. r \in Reader /\ SoundBlocks(blocks) /\ OutSound
      BY <1>1 DEF MongoInv, BlocksSound, SoundBlocks
    <3>2. r.out \in Seq(Nat) /\ r.val \in Nat
      BY <3>1 DEF Reader
    <3>3. PICK n \in DOMAIN r.out : r.out[n] = Last(r.out) /\ r.out[n] \in Nat
      BY <2>2, <3>2 DEF Last
    <3>4. Reading
      BY <2>2, <3>1 DEF OutSound
    <3>5. PICK here \in DOMAIN blocks : here = Block
      BY <3>1, <3>4 DEF OutSound
    <3>6. /\ r.out[n] <= Last(blocks[here].times)
          /\ \A k \in DOMAIN blocks[here].times : k > Place => r.out[n] < blocks[here].times[k]
      BY <3>1, <3>4, <3>5 DEF OutSound
    <3>7. PICK b \in DOMAIN blocks : t \in ToSet(blocks[b].times)
      BY <1>1 DEF MongoInv, DocsSound
    <3>8. PICK k \in DOMAIN blocks[b].times : blocks[b].times[k] = t
      BY <3>7 DEF ToSet
    <3>9. /\ b \in Nat /\ here \in Nat /\ k \in Nat /\ t \in Nat
          /\ Last(blocks[here].times) \in Nat
      BY <3>1, <3>8, BlockFields
    <3>10. Place \in Nat
      BY <3>2 DEF Place
    <3>11. ~(here < b)
      <4> SUFFICES ASSUME here < b PROVE FALSE
        OBVIOUS
      <4>1. Last(blocks[here].times) < blocks[b].times[1]
        BY <3>1 DEF SoundBlocks
      <4>2. blocks[b].times[1] <= t /\ blocks[b].times[1] \in Nat
        BY <3>1, <3>8, BlockFields
      <4> QED
        BY <2>2, <3>3, <3>6, <3>9, <4>1, <4>2
    <3>12. ~(b = here /\ k > Place)
      BY <2>2, <3>3, <3>6, <3>8, <3>9
    <3>13. Behind(b, k)
      BY <3>5, <3>9, <3>10, <3>11, <3>12 DEF Behind
    <3> QED
      BY <1>1, <3>1, <3>4, <3>8, <3>13 DEF OutSound
  <2> QED
    BY <1>1, <2>1, <2>2
<1>2. MongoInv => NothingPassedOver
  BY <1>1 DEF NothingPassedOver, Owed
<1> QED
  BY <1>2, MongoInvariance, PTL
=============================================================================
