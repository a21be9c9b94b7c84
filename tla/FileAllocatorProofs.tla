------------------------ MODULE FileAllocatorProofs ------------------------
(***************************************************************************)
(* Proofs about the blocks of an index file: for any requests, any sizes   *)
(* of nodes and of files, and any number of operations.                    *)
(***************************************************************************)
EXTENDS FileAllocator, FiniteSetTheorems, Recursion

-----------------------------------------------------------------------------
(* The sum of the bytes of some nodes.                                     *)

SumOf(d, S) == MapThenSumSet(LAMBDA o : d[o].bytes, S)

Sized(d, S) == IsFiniteSet(S) /\ \A o \in S : d[o].bytes \in Nat

Pick1(s) == CHOOSE x \in s : TRUE

\* The fold over the subsets of S that gives the sum.
IsFold(f, d, S) ==
    /\ f \in [SUBSET S -> Nat]
    /\ f = [s \in SUBSET S |-> IF s = {} THEN 0
                               ELSE d[Pick1(s)].bytes + f[s \ {Pick1(s)}]]

LEMMA Picked ==
    ASSUME NEW S, IsFiniteSet(S), NEW s \in SUBSET S, s # {}
    PROVE  /\ Pick1(s) \in s /\ s \ {Pick1(s)} \in SUBSET S
           /\ Cardinality(s) \in Nat /\ Cardinality(s \ {Pick1(s)}) \in Nat
           /\ Cardinality(s \ {Pick1(s)}) < Cardinality(s)
<1>1. Pick1(s) \in s
  BY DEF Pick1
<1>2. IsFiniteSet(s)
  BY FS_Subset
<1>3. /\ IsFiniteSet(s \ {Pick1(s)})
      /\ Cardinality(s \ {Pick1(s)}) = Cardinality(s) - 1
  BY <1>1, <1>2, FS_RemoveElement
<1>4. Cardinality(s) \in Nat /\ Cardinality(s \ {Pick1(s)}) \in Nat
  BY <1>2, <1>3, FS_CardinalityType
<1> QED
  BY <1>1, <1>3, <1>4

LEMMA FoldExists ==
    ASSUME NEW d, NEW S, Sized(d, S)
    PROVE  \E f : IsFold(f, d, S) /\ \A g : IsFold(g, d, S) => g = f
<1> DEFINE step(f, s) == IF s = {} THEN 0 ELSE d[Pick1(s)].bytes + f[s \ {Pick1(s)}]
           F == [f \in [SUBSET S -> Nat] |-> [s \in SUBSET S |-> step(f, s)]]
           m == [s \in SUBSET S |-> Cardinality(s)]
<1>1. m \in [SUBSET S -> Nat]
  <2> SUFFICES ASSUME NEW s \in SUBSET S PROVE Cardinality(s) \in Nat
    OBVIOUS
  <2> QED
    BY FS_Subset, FS_CardinalityType DEF Sized
<1>2. \A f \in [SUBSET S -> Nat] : [s \in SUBSET S |-> step(f, s)] \in [SUBSET S -> Nat]
  <2> TAKE f \in [SUBSET S -> Nat]
  <2> SUFFICES ASSUME NEW s \in SUBSET S, s # {} PROVE step(f, s) \in Nat
    OBVIOUS
  <2>1. Pick1(s) \in S /\ s \ {Pick1(s)} \in SUBSET S
    BY Picked DEF Sized
  <2>2. d[Pick1(s)].bytes \in Nat /\ f[s \ {Pick1(s)}] \in Nat
    BY <2>1 DEF Sized
  <2> QED
    BY <2>2
<1>3. F \in [[SUBSET S -> Nat] -> [SUBSET S -> Nat]]
  <2> HIDE DEF step
  <2> QED
    BY <1>2
<1>4. ASSUME NEW f \in [SUBSET S -> Nat], NEW g \in [SUBSET S -> Nat], NEW s \in SUBSET S,
             \A t \in SUBSET S : m[t] < m[s] => f[t] = g[t]
      PROVE  F[f][s] = F[g][s]
  <2>1. F[f][s] = step(f, s) /\ F[g][s] = step(g, s)
    <3> HIDE DEF step
    <3> QED
      OBVIOUS
  <2>2. CASE s = {}
    BY <2>1, <2>2
  <2>3. CASE s # {}
    <3>1. m[s \ {Pick1(s)}] < m[s] /\ s \ {Pick1(s)} \in SUBSET S
      BY <2>3, Picked DEF Sized
    <3>2. f[s \ {Pick1(s)}] = g[s \ {Pick1(s)}]
      BY <1>4, <3>1
    <3> QED
      BY <2>1, <2>3, <3>2
  <2> QED
    BY <2>2, <2>3
<1>5. Recursive(F, m, SUBSET S, Nat)
  <2> HIDE DEF F, m
  <2> QED
    BY <1>1, <1>3, <1>4 DEF Recursive, DependsBelow
<1>6. \E f \in [SUBSET S -> Nat] : f = F[f] /\ \A g \in [SUBSET S -> Nat] : g = F[g] => g = f
  <2> DEFINE D == SUBSET S
  <2>1. Recursive(F, m, D, Nat)
    BY <1>5
  <2> HIDE DEF F, m, D
  <2>2. \E f \in [D -> Nat] : f = F[f] /\ \A g \in [D -> Nat] : g = F[g] => g = f
    BY <2>1, RecursionDefines
  <2> QED
    BY <2>2 DEF D
<1>7. \A g : IsFold(g, d, S) <=> g \in [SUBSET S -> Nat] /\ g = F[g]
  BY DEF IsFold
<1> HIDE DEF F
<1> QED
  BY <1>6, <1>7

LEMMA FoldIsNat ==
    ASSUME NEW d, NEW S, Sized(d, S), NEW f,
           f = [s \in SUBSET S |-> IF s = {} THEN 0
                                   ELSE d[Pick1(s)].bytes + f[s \ {Pick1(s)}]]
    PROVE  IsFold(f, d, S)
<1> DEFINE m == [s \in SUBSET S |-> Cardinality(s)]
           T == {s \in SUBSET S : f[s] \notin Nat}
<1>1. \A s \in SUBSET S : m[s] \in Nat
  BY FS_Subset, FS_CardinalityType DEF Sized
<1>2. T = {}
  <2> SUFFICES ASSUME T # {} PROVE FALSE
    OBVIOUS
  <2>1. PICK s \in T : \A t \in SUBSET S : m[t] < m[s] => t \notin T
    <3> DEFINE D == SUBSET S
    <3>1. (\A s \in D : m[s] \in Nat) /\ T \subseteq D /\ T # {}
      BY <1>1
    <3> HIDE DEF D, m, T
    <3>2. \E s \in T : \A t \in D : m[t] < m[s] => t \notin T
      BY <3>1, LeastOf
    <3> QED
      BY <3>2 DEF D
  <2>2. f[s] = IF s = {} THEN 0 ELSE d[Pick1(s)].bytes + f[s \ {Pick1(s)}]
    OBVIOUS
  <2>3. s # {}
    BY <2>2
  <2>4. Pick1(s) \in S /\ s \ {Pick1(s)} \in SUBSET S /\ m[s \ {Pick1(s)}] < m[s]
    BY <2>3, Picked DEF Sized
  <2>5. f[s \ {Pick1(s)}] \in Nat /\ d[Pick1(s)].bytes \in Nat
    BY <2>1, <2>4 DEF Sized
  <2> QED
    BY <2>2, <2>5
<1> QED
  BY <1>2 DEF IsFold

LEMMA SumIsFold ==
    ASSUME NEW d, NEW S, Sized(d, S), NEW f, IsFold(f, d, S)
    PROVE  SumOf(d, S) = f[S]
<1> DEFINE iter == CHOOSE g : g = [s \in SUBSET S |->
                       IF s = {} THEN 0 ELSE d[Pick1(s)].bytes + g[s \ {Pick1(s)}]]
<1>1. SumOf(d, S) = iter[S]
  BY Zenon DEF SumOf, MapThenSumSet, MapThenFoldSet, Pick1
<1>2. iter = [s \in SUBSET S |->
                IF s = {} THEN 0 ELSE d[Pick1(s)].bytes + iter[s \ {Pick1(s)}]]
  BY Zenon DEF IsFold
<1> HIDE DEF iter
<1>3. IsFold(iter, d, S)
  BY <1>2, FoldIsNat
<1>4. iter = f
  BY <1>3, FoldExists
<1> QED
  BY <1>1, <1>4

\* A fold over more nodes agrees on those that both have.
LEMMA SumOfPart ==
    ASSUME NEW d, NEW S, Sized(d, S), NEW f, IsFold(f, d, S), NEW T \in SUBSET S
    PROVE  SumOf(d, T) = f[T]
<1> DEFINE g == [s \in SUBSET T |-> f[s]]
<1>1. Sized(d, T) /\ SUBSET T \subseteq SUBSET S
  BY FS_Subset DEF Sized
<1>2. IsFold(g, d, T)
  <2>1. g \in [SUBSET T -> Nat]
    BY <1>1 DEF IsFold
  <2>2. ASSUME NEW s \in SUBSET T
        PROVE  g[s] = IF s = {} THEN 0 ELSE d[Pick1(s)].bytes + g[s \ {Pick1(s)}]
    BY <1>1 DEF IsFold
  <2>3. g = [s \in SUBSET T |-> IF s = {} THEN 0 ELSE d[Pick1(s)].bytes + g[s \ {Pick1(s)}]]
    <3> HIDE DEF g
    <3> QED
      BY <2>1, <2>2
  <2> QED
    BY <2>1, <2>3 DEF IsFold
<1>3. SumOf(d, T) = g[T]
  BY <1>1, <1>2, SumIsFold
<1> QED
  BY <1>3

LEMMA SumSteps ==
    ASSUME NEW d, NEW S, Sized(d, S)
    PROVE  \A T \in SUBSET S :
              /\ SumOf(d, T) \in Nat
              /\ SumOf(d, T) = IF T = {} THEN 0
                               ELSE d[Pick1(T)].bytes + SumOf(d, T \ {Pick1(T)})
<1> TAKE T \in SUBSET S
<1>1. PICK f : IsFold(f, d, S)
  BY FoldExists
<1>2. SumOf(d, T) = f[T] /\ (T \ {Pick1(T)}) \in SUBSET S
      /\ SumOf(d, T \ {Pick1(T)}) = f[T \ {Pick1(T)}]
  <2>1. (T \ {Pick1(T)}) \in SUBSET S
    OBVIOUS
  <2> QED
    BY <1>1, <2>1, SumOfPart
<1>3. f[T] \in Nat /\ f[T] = IF T = {} THEN 0 ELSE d[Pick1(T)].bytes + f[T \ {Pick1(T)}]
  BY <1>1 DEF IsFold
<1> QED
  BY <1>2, <1>3

LEMMA SumIsNat ==
    ASSUME NEW d, NEW S, Sized(d, S)
    PROVE  SumOf(d, S) \in Nat
BY SumSteps

LEMMA SumOfNone == ASSUME NEW d PROVE SumOf(d, {}) = 0
<1>1. Sized(d, {}) /\ {} \in SUBSET {}
  BY FS_EmptySet DEF Sized
<1> QED
  BY <1>1, SumSteps

\* A set of nodes for which something is wrong, with as few nodes as possible.
LEMMA FewestNodes ==
    ASSUME NEW S, IsFiniteSet(S), NEW T, T \subseteq SUBSET S, T # {}
    PROVE  \E s \in T : \A t \in SUBSET S : Cardinality(t) < Cardinality(s) => t \notin T
<1> DEFINE m == [s \in SUBSET S |-> Cardinality(s)]
           D == SUBSET S
<1>1. (\A s \in D : m[s] \in Nat) /\ \A s \in D : m[s] = Cardinality(s)
  BY FS_Subset, FS_CardinalityType
<1> HIDE DEF m
<1>2. \E s \in T : \A t \in D : m[t] < m[s] => t \notin T
  <2> HIDE DEF D
  <2>1. T \subseteq D
    BY DEF D
  <2> QED
    BY <1>1, <2>1, LeastOf
<1> QED
  BY <1>1, <1>2

\* The sum does not depend on the node that is counted first.
LEMMA SumSplits ==
    ASSUME NEW d, NEW S, Sized(d, S), NEW o \in S
    PROVE  SumOf(d, S) = d[o].bytes + SumOf(d, S \ {o})
<1> DEFINE Wrong(s) == \E x \in s : SumOf(d, s) # d[x].bytes + SumOf(d, s \ {x})
           T == {s \in SUBSET S : Wrong(s)}
<1>1. T = {}
  <2> SUFFICES ASSUME T # {} PROVE FALSE
    OBVIOUS
  <2>1. PICK s \in T : \A t \in SUBSET S : Cardinality(t) < Cardinality(s) => t \notin T
    <3> HIDE DEF Wrong
    <3>1. T \subseteq SUBSET S /\ IsFiniteSet(S)
      BY DEF Sized
    <3> HIDE DEF T
    <3> QED
      BY <3>1, FewestNodes
  <2>2. s \in SUBSET S /\ Wrong(s)
    OBVIOUS
  <2>3. PICK x \in s : SumOf(d, s) # d[x].bytes + SumOf(d, s \ {x})
    BY <2>2
  <2> DEFINE c == Pick1(s)
  <2>4. /\ c \in s /\ s \ {c} \in SUBSET S /\ Cardinality(s \ {c}) < Cardinality(s)
        /\ SumOf(d, s) = d[c].bytes + SumOf(d, s \ {c})
    <3>1. s # {} /\ s \in SUBSET S
      BY <2>2, <2>3
    <3>2. IsFiniteSet(S)
      BY DEF Sized
    <3>3. /\ Pick1(s) \in s /\ s \ {Pick1(s)} \in SUBSET S
          /\ Cardinality(s \ {Pick1(s)}) < Cardinality(s)
      BY <3>1, <3>2, Picked
    <3>4. SumOf(d, s) = d[Pick1(s)].bytes + SumOf(d, s \ {Pick1(s)})
      BY <3>1, SumSteps
    <3> QED
      BY <3>3, <3>4
  <2> HIDE DEF c
  <2>5. c # x
    BY <2>3, <2>4
  <2>6. Cardinality(s \ {x}) < Cardinality(s)
    <3>1. IsFiniteSet(s) /\ Cardinality(s) \in Nat
      BY <2>2, FS_Subset, FS_CardinalityType DEF Sized
    <3>2. Cardinality(s \ {x}) = Cardinality(s) - 1
      BY <3>1, FS_RemoveElement
    <3> QED
      BY <3>1, <3>2
  <2>7. ~Wrong(s \ {c}) /\ ~Wrong(s \ {x})
    <3>1. s \ {c} \in SUBSET S /\ s \ {x} \in SUBSET S
      BY <2>2
    <3>2. s \ {c} \notin T /\ s \ {x} \notin T
      BY <2>1, <2>4, <2>6, <3>1
    <3> HIDE DEF Wrong
    <3> QED
      BY <3>1, <3>2
  <2>8. /\ SumOf(d, s \ {c}) = d[x].bytes + SumOf(d, (s \ {c}) \ {x})
        /\ SumOf(d, s \ {x}) = d[c].bytes + SumOf(d, (s \ {x}) \ {c})
    BY <2>3, <2>4, <2>5, <2>7
  <2>9. (s \ {c}) \ {x} = (s \ {x}) \ {c}
    OBVIOUS
  <2>10. /\ d[x].bytes \in Nat /\ d[c].bytes \in Nat /\ SumOf(d, (s \ {x}) \ {c}) \in Nat
    <3>1. (s \ {x}) \ {c} \in SUBSET S /\ x \in S /\ c \in S
      BY <2>2, <2>3, <2>4
    <3> QED
      BY <3>1, SumSteps DEF Sized
  <2>11. SumOf(d, s) = d[x].bytes + SumOf(d, s \ {x})
    <3> DEFINE i == d[x].bytes
               j == d[c].bytes
               r == SumOf(d, (s \ {x}) \ {c})
    <3>1. /\ SumOf(d, s) = j + SumOf(d, s \ {c}) /\ SumOf(d, s \ {c}) = i + r
          /\ SumOf(d, s \ {x}) = j + r /\ i \in Nat /\ j \in Nat /\ r \in Nat
      BY <2>4, <2>8, <2>9, <2>10
    <3> HIDE DEF i, j, r
    <3>2. SumOf(d, s) = i + SumOf(d, s \ {x})
      BY <3>1
    <3> QED
      BY <3>2 DEF i
  <2> QED
    BY <2>3, <2>11
<1>2. S \notin T /\ S \in SUBSET S
  BY <1>1
<1> QED
  BY <1>2

\* Equal nodes have an equal sum.
LEMMA SumSame ==
    ASSUME NEW d, NEW e, NEW S, Sized(d, S), \A o \in S : e[o].bytes = d[o].bytes
    PROVE  SumOf(e, S) = SumOf(d, S)
<1> DEFINE T == {s \in SUBSET S : SumOf(e, s) # SumOf(d, s)}
<1>1. Sized(e, S)
  BY DEF Sized
<1>2. T = {}
  <2> SUFFICES ASSUME T # {} PROVE FALSE
    OBVIOUS
  <2>1. PICK s \in T : \A t \in SUBSET S : Cardinality(t) < Cardinality(s) => t \notin T
    <3>1. T \subseteq SUBSET S /\ IsFiniteSet(S)
      BY DEF Sized
    <3> HIDE DEF T
    <3> QED
      BY <3>1, FewestNodes
  <2>2. /\ SumOf(d, s) = IF s = {} THEN 0 ELSE d[Pick1(s)].bytes + SumOf(d, s \ {Pick1(s)})
        /\ SumOf(e, s) = IF s = {} THEN 0 ELSE e[Pick1(s)].bytes + SumOf(e, s \ {Pick1(s)})
    BY <1>1, SumSteps
  <2>3. s # {}
    BY <2>2
  <2>4. Pick1(s) \in S /\ s \ {Pick1(s)} \in SUBSET S
        /\ Cardinality(s \ {Pick1(s)}) < Cardinality(s)
    BY <2>3, Picked DEF Sized
  <2>5. s \ {Pick1(s)} \notin T
    BY <2>1, <2>4
  <2> QED
    BY <2>2, <2>3, <2>4, <2>5
<1>3. S \notin T /\ S \in SUBSET S
  BY <1>2
<1> QED
  BY <1>3

-----------------------------------------------------------------------------
(* Walks along the nodes.                                                  *)

\* A walk from next to next gets nearer to where it stops, by the measure m.
Walk(S, V, m, stop, end, next, step) ==
    /\ V # {} /\ m \in [S -> Nat] /\ stop \in SUBSET S
    /\ end \in [stop -> V] /\ next \in [S \ stop -> S] /\ step \in [S \ stop -> [V -> V]]
    /\ \A p \in S \ stop : m[next[p]] < m[p]

LEMMA WalkExists ==
    ASSUME NEW S, NEW V, NEW m, NEW stop, NEW end, NEW next, NEW step,
           Walk(S, V, m, stop, end, next, step)
    PROVE  \E f \in [S -> V] :
              \A p \in S : f[p] = IF p \in stop THEN end[p] ELSE step[p][f[next[p]]]
<1> DEFINE val(f, p) == IF p \in stop THEN end[p] ELSE step[p][f[next[p]]]
           F == [f \in [S -> V] |-> [p \in S |-> val(f, p)]]
<1> USE DEF Walk
<1>1. F \in [[S -> V] -> [S -> V]]
  <2>1. ASSUME NEW f \in [S -> V], NEW p \in S PROVE val(f, p) \in V
    OBVIOUS
  <2> HIDE DEF val
  <2> QED
    BY <2>1
<1>2. ASSUME NEW f \in [S -> V], NEW g \in [S -> V], NEW p \in S,
             \A q \in S : m[q] < m[p] => f[q] = g[q]
      PROVE  F[f][p] = F[g][p]
  <2>1. F[f][p] = val(f, p) /\ F[g][p] = val(g, p)
    <3> HIDE DEF val
    <3> QED
      OBVIOUS
  <2>2. val(f, p) = val(g, p)
    BY <1>2
  <2> QED
    BY <2>1, <2>2
<1>3. \A f \in [S -> V], p \in S : F[f][p] = val(f, p)
  <2> HIDE DEF val
  <2> QED
    OBVIOUS
<1> HIDE DEF F
<1>4. Recursive(F, m, S, V)
  BY <1>1, <1>2 DEF Recursive, DependsBelow
<1>5. \E f \in [S -> V] : f = F[f]
  BY <1>4, RecursionDefines
<1>6. PICK f \in [S -> V] : f = F[f]
  BY <1>5
<1>7. \A p \in S : f[p] = val(f, p)
  BY <1>3, <1>6
<1> QED
  BY <1>7

\* The links lead upwards, to nodes of the file.
Ascending(d, top) ==
    /\ top \in Nat /\ DOMAIN d \subseteq 1 .. top
    /\ \A o \in DOMAIN d :
          d[o].next = None \/ (d[o].next \in DOMAIN d /\ d[o].next > o)

\* How far it is to the end of the file, at most.
Distance(d, top) == [p \in DOMAIN d \cup {None} |-> IF p = None THEN 0 ELSE (top + 1) - p]

LEMMA DistanceFalls ==
    ASSUME NEW d, NEW top, Ascending(d, top)
    PROVE  /\ None \notin DOMAIN d /\ DOMAIN d \subseteq Nat \ {0}
           /\ Distance(d, top) \in [DOMAIN d \cup {None} -> Nat]
           /\ \A p \in DOMAIN d :
                 /\ d[p].next \in DOMAIN d \cup {None}
                 /\ Distance(d, top)[d[p].next] < Distance(d, top)[p]
           /\ \A p, q \in DOMAIN d : p < q => Distance(d, top)[q] < Distance(d, top)[p]
<1>1. None \notin DOMAIN d /\ DOMAIN d \subseteq Nat \ {0} /\ top \in Nat
      /\ \A p \in DOMAIN d : p <= top
  BY DEF Ascending, None
<1>2. \A p \in DOMAIN d : Distance(d, top)[p] = (top + 1) - p
  BY <1>1 DEF Distance
<1>3. Distance(d, top)[None] = 0
  BY DEF Distance
<1>4. \A p \in DOMAIN d : (top + 1) - p \in Nat \ {0}
  BY <1>1
<1>5. Distance(d, top) \in [DOMAIN d \cup {None} -> Nat]
  BY <1>1, <1>4 DEF Distance
<1>6. ASSUME NEW p \in DOMAIN d, NEW q \in DOMAIN d, p < q
      PROVE  Distance(d, top)[q] < Distance(d, top)[p]
  BY <1>1, <1>2, <1>6
<1>7. ASSUME NEW p \in DOMAIN d
      PROVE  /\ d[p].next \in DOMAIN d \cup {None}
             /\ Distance(d, top)[d[p].next] < Distance(d, top)[p]
  <2>1. CASE d[p].next = None
    BY <1>2, <1>3, <1>4, <2>1
  <2>2. CASE d[p].next \in DOMAIN d /\ d[p].next > p
    BY <1>1, <1>6, <2>2
  <2> QED
    BY <2>1, <2>2 DEF Ascending
<1> QED
  BY <1>1, <1>5, <1>6, <1>7

\* The first node of a list, or the last, with something wrong.
LEMMA LastSuch ==
    ASSUME NEW d, NEW top, Ascending(d, top), NEW T, T \subseteq DOMAIN d, T # {}
    PROVE  \E p \in T : \A q \in DOMAIN d : q > p => q \notin T
<1> DEFINE S == DOMAIN d \cup {None}
           m == Distance(d, top)
<1>1. PICK p \in T : \A q \in S : m[q] < m[p] => q \notin T
  <2>1. (\A x \in S : m[x] \in Nat) /\ T \subseteq S
    BY DistanceFalls
  <2> HIDE DEF S, m
  <2> QED
    BY <2>1, LeastOf
<1>2. \A q \in DOMAIN d : q > p => m[q] < m[p]
  BY DistanceFalls
<1> QED
  BY <1>1, <1>2

\* A chain begins at h and stays among the nodes of S.
Chain(d, h, S) ==
    /\ h \in DOMAIN d /\ S \subseteq DOMAIN d
    /\ d[h].next \in S \cup {None}
    /\ \A o \in S : d[o].next \in S \cup {None}

ListedIn(d, h) ==
    LET walk[o \in DOMAIN d \cup {None}] ==
            IF o = None THEN {} ELSE {o} \cup walk[d[o].next]
    IN walk[d[h].next]

LEMMA ListedNow == ASSUME NEW h PROVE Listed(h) = ListedIn(disk, h) /\ Listed(h)' = ListedIn(disk', h)
BY Zenon DEF Listed, ListedIn

ListedFrom(d) ==
    CHOOSE f : f = [o \in DOMAIN d \cup {None} |-> IF o = None THEN {} ELSE {o} \cup f[d[o].next]]

LEMMA ListedFromIs ==
    ASSUME NEW d, NEW top, Ascending(d, top)
    PROVE  /\ ListedFrom(d)[None] = {}
           /\ \A o \in DOMAIN d : ListedFrom(d)[o] = {o} \cup ListedFrom(d)[d[o].next]
<1> DEFINE S == DOMAIN d \cup {None}
           V == SUBSET DOMAIN d
           m == Distance(d, top)
           end == [p \in {None} |-> {}]
           next == [p \in DOMAIN d |-> d[p].next]
           step == [p \in DOMAIN d |-> [v \in V |-> {p} \cup v]]
<1>1. /\ V # {} /\ m \in [S -> Nat] /\ {None} \in SUBSET S /\ end \in [{None} -> V]
      /\ S \ {None} = DOMAIN d /\ next \in [S \ {None} -> S] /\ step \in [S \ {None} -> [V -> V]]
      /\ \A p \in S \ {None} : m[next[p]] < m[p]
  <2>1. S \ {None} = DOMAIN d /\ m \in [S -> Nat]
    BY DistanceFalls
  <2>2. next \in [DOMAIN d -> S]
    BY DistanceFalls
  <2>3. \A p \in DOMAIN d : m[next[p]] < m[p]
    BY DistanceFalls
  <2>4. V # {} /\ {None} \in SUBSET S /\ end \in [{None} -> V]
    OBVIOUS
  <2>5. step \in [DOMAIN d -> [V -> V]]
    OBVIOUS
  <2> HIDE DEF S, V, m, end, next, step
  <2> QED
    BY <2>1, <2>2, <2>3, <2>4, <2>5
<1>2. PICK f \in [S -> V] : \A p \in S : f[p] = IF p \in {None} THEN end[p] ELSE step[p][f[next[p]]]
  <2> DEFINE stop == {None}
  <2>1. /\ V # {} /\ m \in [S -> Nat] /\ stop \in SUBSET S /\ end \in [stop -> V]
        /\ next \in [S \ stop -> S] /\ step \in [S \ stop -> [V -> V]]
        /\ \A p \in S \ stop : m[next[p]] < m[p]
    BY <1>1
  <2> HIDE DEF S, V, m, end, next, step, stop
  <2>3. Walk(S, V, m, stop, end, next, step)
    BY <2>1 DEF Walk
  <2>2. \E f \in [S -> V] : \A p \in S : f[p] = IF p \in stop THEN end[p] ELSE step[p][f[next[p]]]
    BY <2>3, WalkExists
  <2> QED
    BY <2>2 DEF stop
<1>3. f = [o \in S |-> IF o = None THEN {} ELSE {o} \cup f[d[o].next]]
  <2>1. \A p \in S : f[p] = IF p = None THEN {} ELSE {p} \cup f[d[p].next]
    <3> TAKE p \in S
    <3>1. CASE p = None
      BY <1>2, <3>1
    <3>2. CASE p # None
      <4>1. p \in DOMAIN d /\ next[p] = d[p].next /\ f[next[p]] \in V
        BY <1>1, <3>2
      <4>2. step[p][f[next[p]]] = {p} \cup f[next[p]]
        BY <4>1
      <4> QED
        BY <1>2, <3>2, <4>1, <4>2
    <3> QED
      BY <3>1, <3>2
  <2> QED
    BY <2>1
<1>4. ListedFrom(d) = [o \in S |-> IF o = None THEN {} ELSE {o} \cup ListedFrom(d)[d[o].next]]
  BY <1>3, Zenon DEF ListedFrom
<1>5. None \notin DOMAIN d
  BY DistanceFalls
<1> QED
  BY <1>4, <1>5

LEMMA ListedStart == ASSUME NEW d, NEW h PROVE ListedIn(d, h) = ListedFrom(d)[d[h].next]
BY Zenon DEF ListedIn, ListedFrom

\* A chain leads to nodes of the chain only.
LEMMA ChainListed ==
    ASSUME NEW d, NEW top, Ascending(d, top), NEW h, NEW S, Chain(d, h, S)
    PROVE  ListedIn(d, h) \subseteq S
<1> DEFINE T == {p \in S : ~(ListedFrom(d)[p] \subseteq S)}
<1>1. T = {}
  <2> SUFFICES ASSUME T # {} PROVE FALSE
    OBVIOUS
  <2>1. PICK p \in T : \A q \in DOMAIN d : q > p => q \notin T
    <3>1. T \subseteq DOMAIN d
      BY DEF Chain
    <3> HIDE DEF T
    <3> QED
      BY <3>1, LastSuch
  <2>2. p \in S /\ p \in DOMAIN d /\ d[p].next \in S \cup {None}
    BY DEF Chain
  <2>3. ListedFrom(d)[p] = {p} \cup ListedFrom(d)[d[p].next]
    BY <2>2, ListedFromIs
  <2>4. ListedFrom(d)[d[p].next] \subseteq S
    <3>1. CASE d[p].next = None
      BY <3>1, ListedFromIs
    <3>2. CASE d[p].next # None
      <4>1. d[p].next > p /\ d[p].next \in DOMAIN d /\ d[p].next \in S
        BY <2>2, <3>2 DEF Ascending
      <4> QED
        BY <2>1, <4>1
    <3> QED
      BY <3>1, <3>2
  <2> QED
    BY <2>2, <2>3, <2>4
<1>2. d[h].next \in S \cup {None}
  BY DEF Chain
<1>3. ListedFrom(d)[d[h].next] \subseteq S
  BY <1>1, <1>2, ListedFromIs
<1> QED
  BY <1>3, ListedStart

\* A search along the links, that stops at the first node of a set.
LEMMA SearchExists ==
    ASSUME NEW d, NEW top, Ascending(d, top), NEW D, D \subseteq DOMAIN d \cup {None},
           NEW stop, \A p \in D : p \in stop \/ (p # None /\ d[p].next \in D)
    PROVE  \E f : f = [p \in D |-> IF p \in stop THEN p ELSE f[d[p].next]]
<1>1. CASE D = {}
  <2> DEFINE f == [p \in {} |-> p]
  <2>1. f = [p \in D |-> IF p \in stop THEN p ELSE f[d[p].next]]
    BY <1>1
  <2> QED
    BY <2>1
<1>2. CASE D # {}
  <2> DEFINE m == [p \in D |-> Distance(d, top)[p]]
             here == D \cap stop
             end == [p \in here |-> p]
             next == [p \in D \ here |-> d[p].next]
             step == [p \in D \ here |-> [v \in D |-> v]]
  <2>1. \A p \in D \ here : p \in DOMAIN d /\ d[p].next \in D
    OBVIOUS
  <2>2. m \in [D -> Nat] /\ \A p \in D \ here : m[next[p]] < m[p]
    <3>1. /\ Distance(d, top) \in [DOMAIN d \cup {None} -> Nat]
          /\ \A p \in DOMAIN d : Distance(d, top)[d[p].next] < Distance(d, top)[p]
      BY DistanceFalls
    <3>2. m \in [D -> Nat]
      BY <3>1
    <3>3. ASSUME NEW p \in D \ here PROVE m[next[p]] < m[p]
      <4>1. p \in DOMAIN d /\ next[p] = d[p].next /\ next[p] \in D
        BY <2>1
      <4>2. m[next[p]] = Distance(d, top)[next[p]] /\ m[p] = Distance(d, top)[p]
        BY <4>1
      <4> HIDE DEF m, next
      <4> QED
        BY <3>1, <4>1, <4>2
    <3> HIDE DEF m, next
    <3> QED
      BY <3>2, <3>3
  <2>3. Walk(D, D, m, here, end, next, step)
    <3>1. /\ here \in SUBSET D /\ end \in [here -> D]
          /\ next \in [D \ here -> D] /\ step \in [D \ here -> [D -> D]]
      BY <2>1
    <3> HIDE DEF m, here, end, next, step
    <3> QED
      BY <1>2, <2>2, <3>1 DEF Walk
  <2>4. \E f \in [D -> D] : \A p \in D : f[p] = IF p \in here THEN end[p] ELSE step[p][f[next[p]]]
    <3> HIDE DEF m, here, end, next, step
    <3> QED
      BY <2>3, WalkExists
  <2>5. PICK f \in [D -> D] : \A p \in D : f[p] = IF p \in here THEN end[p] ELSE step[p][f[next[p]]]
    BY <2>4
  <2>6. ASSUME NEW p \in D PROVE f[p] = IF p \in stop THEN p ELSE f[d[p].next]
    <3>1. CASE p \in stop
      BY <2>5, <3>1
    <3>2. CASE p \notin stop
      <4>1. next[p] = d[p].next /\ f[next[p]] \in D /\ p \notin here
        BY <2>1, <3>2
      <4>2. step[p][f[next[p]]] = f[next[p]]
        BY <3>2, <4>1
      <4> QED
        BY <2>5, <3>2, <4>1, <4>2
    <3> QED
      BY <3>1, <3>2
  <2>7. f = [p \in D |-> IF p \in stop THEN p ELSE f[d[p].next]]
    BY <2>6
  <2> QED
    BY <2>7
<1> QED
  BY <1>1, <1>2

-----------------------------------------------------------------------------
(* Lists.                                                                  *)

IsFirst(x, S) == IF S = {} THEN x = None ELSE x \in S /\ \A y \in S : x <= y

IsLast(x, S) == IF S = {} THEN x = None ELSE x \in S /\ \A y \in S : y <= x

Under(S, o) == {p \in S : p < o}

Over(S, o) == {p \in S : p > o}

\* The head h leads to the nodes of S, in their order, and back.
Links(d, h, S) ==
    /\ IsFiniteSet(S) /\ S \subseteq DOMAIN d /\ S \subseteq Nat \ {0}
    /\ h \in DOMAIN d \ S /\ h \in Nat /\ \A o \in S : h < o
    /\ d[h] \in Node /\ \A o \in S : d[o] \in Node
    /\ IsFirst(d[h].next, S) /\ IsLast(d[h].prev, S)
    /\ \A o \in S : IsLast(d[o].prev, Under(S, o)) /\ IsFirst(d[o].next, Over(S, o))

List(d, h, S) == Links(d, h, S) /\ d[h].bytes = SumOf(d, S)

LEMMA LinksChain ==
    ASSUME NEW d, NEW h, NEW S, Links(d, h, S)
    PROVE  Chain(d, h, S)
BY DEF Links, Chain, IsFirst, Over

\* A chain that has all nodes of a list leads to all of them.
LEMMA LinksListed ==
    ASSUME NEW d, NEW top, Ascending(d, top), NEW h, NEW S, Links(d, h, S)
    PROVE  ListedIn(d, h) = S
<1> DEFINE T == {p \in S : ~(p \in ListedFrom(d)[p] /\ Over(S, p) \subseteq ListedFrom(d)[p])}
<1>1. T = {}
  <2> SUFFICES ASSUME T # {} PROVE FALSE
    OBVIOUS
  <2>1. PICK p \in T : \A q \in DOMAIN d : q > p => q \notin T
    <3>1. T \subseteq DOMAIN d
      BY DEF Links
    <3> HIDE DEF T
    <3> QED
      BY <3>1, LastSuch
  <2>2. p \in S /\ p \in DOMAIN d /\ p \in Nat /\ IsFirst(d[p].next, Over(S, p))
    BY DEF Links
  <2>3. ListedFrom(d)[p] = {p} \cup ListedFrom(d)[d[p].next]
    BY <2>2, ListedFromIs
  <2>4. Over(S, p) \subseteq ListedFrom(d)[p]
    <3>1. CASE Over(S, p) = {}
      BY <3>1
    <3>2. CASE Over(S, p) # {}
      <4> DEFINE n == d[p].next
      <4>1. n \in S /\ n > p /\ \A q \in Over(S, p) : n <= q
        BY <2>2, <3>2 DEF IsFirst, Over
      <4>2. n \in DOMAIN d /\ n \in Nat /\ S \subseteq Nat
        BY <4>1 DEF Links
      <4>3. n \notin T
        BY <2>1, <4>1, <4>2
      <4>4. n \in ListedFrom(d)[n] /\ Over(S, n) \subseteq ListedFrom(d)[n]
        BY <4>1, <4>3
      <4>5. \A q \in Over(S, p) : q = n \/ q \in Over(S, n)
        BY <4>1, <4>2 DEF Over
      <4> QED
        BY <2>3, <4>4, <4>5
    <3> QED
      BY <3>1, <3>2
  <2> QED
    BY <2>2, <2>3, <2>4
<1>2. S \subseteq ListedIn(d, h)
  <2>1. CASE S = {}
    BY <2>1
  <2>2. CASE S # {}
    <3> DEFINE n == d[h].next
    <3>1. n \in S /\ \A q \in S : n <= q
      BY <2>2 DEF Links, IsFirst
    <3>2. S \subseteq Nat
      BY DEF Links
    <3>3. n \in ListedFrom(d)[n] /\ Over(S, n) \subseteq ListedFrom(d)[n]
      BY <1>1, <3>1
    <3>4. \A q \in S : q = n \/ q \in Over(S, n)
      BY <3>1, <3>2 DEF Over
    <3> QED
      BY <3>3, <3>4, ListedStart
  <2> QED
    BY <2>1, <2>2
<1> QED
  BY <1>2, LinksChain, ChainListed

\* What the head of a list, or a link, is not.
LEMMA LinksOrder ==
    ASSUME NEW d, NEW h, NEW S, Links(d, h, S), NEW o \in S
    PROVE  /\ o \in Nat \ {0} /\ h \in Nat /\ h < o /\ d[o] \in Node
           /\ d[o].next \in S \cup {None} /\ d[o].prev \in S \cup {None}
           /\ d[o].next # None => d[o].next > o
           /\ d[o].prev # None => d[o].prev < o
           /\ d[o].prev # None => d[d[o].prev].next = o
           /\ d[o].next # None => d[d[o].next].prev = o
           /\ d[o].prev = None <=> d[h].next = o
           /\ d[o].next = None <=> d[h].prev = o
           /\ d[h].next \in S /\ d[h].prev \in S
<1> USE DEF Links, IsFirst, IsLast, Under, Over, None
<1>1. /\ S \subseteq Nat \ {0} /\ o \in Nat \ {0} /\ d[o] \in Node /\ h \in Nat /\ h < o
      /\ d[h].next \in S /\ d[h].prev \in S
  OBVIOUS
<1>2. d[o].next \in S \cup {None} /\ (d[o].next # None => d[o].next > o)
  OBVIOUS
<1>3. d[o].prev \in S \cup {None} /\ (d[o].prev # None => d[o].prev < o)
  OBVIOUS
<1>4. ASSUME d[o].prev # None PROVE d[d[o].prev].next = o
  <2> DEFINE p == d[o].prev
  <2>1. p \in S /\ p < o /\ (\A q \in S : q < o => q <= p) /\ p \in Nat
    BY <1>1, <1>3, <1>4
  <2>2. o \in Over(S, p)
    BY <1>1, <2>1
  <2>3. d[p].next \in Over(S, p) /\ d[p].next <= o
    BY <2>1, <2>2
  <2>4. d[p].next \in S /\ d[p].next \in Nat /\ ~(d[p].next < o)
    BY <1>1, <2>1, <2>3
  <2> HIDE DEF Links, IsFirst, IsLast, Under, Over
  <2>5. \A x \in Nat : x <= o /\ ~(x < o) => x = o
    BY <1>1
  <2> QED
    BY <2>3, <2>4, <2>5
<1>5. ASSUME d[o].next # None PROVE d[d[o].next].prev = o
  <2> DEFINE n == d[o].next
  <2>1. n \in S /\ n > o /\ (\A q \in S : q > o => n <= q) /\ n \in Nat
    BY <1>1, <1>2, <1>5
  <2>2. o \in Under(S, n)
    BY <1>1, <2>1
  <2>3. d[n].prev \in Under(S, n) /\ o <= d[n].prev
    BY <2>1, <2>2
  <2>4. d[n].prev \in S /\ d[n].prev \in Nat /\ ~(d[n].prev > o)
    BY <1>1, <2>1, <2>3
  <2> HIDE DEF Links, IsFirst, IsLast, Under, Over
  <2>5. \A x \in Nat : o <= x /\ ~(x > o) => x = o
    BY <1>1
  <2> QED
    BY <2>3, <2>4, <2>5
<1>6. d[o].prev = None <=> d[h].next = o
  <2>1. (Under(S, o) = {}) <=> \A q \in S : o <= q
    BY <1>1
  <2>2. d[o].prev = None <=> Under(S, o) = {}
    BY <1>1
  <2>3. d[h].next = o <=> \A q \in S : o <= q
    <3>1. d[h].next \in S /\ \A q \in S : d[h].next <= q
      BY <1>1
    <3>2. (\A q \in S : o <= q) => o <= d[h].next /\ d[h].next <= o
      BY <3>1
    <3> HIDE DEF Links, IsFirst, IsLast, Under, Over
    <3>3. d[h].next \in Nat /\ o \in Nat
      BY <1>1
    <3> QED
      BY <3>1, <3>2, <3>3
  <2> QED
    BY <2>1, <2>2, <2>3
<1>7. d[o].next = None <=> d[h].prev = o
  <2>1. (Over(S, o) = {}) <=> \A q \in S : q <= o
    BY <1>1
  <2>2. d[o].next = None <=> Over(S, o) = {}
    BY <1>1
  <2>3. d[h].prev = o <=> \A q \in S : q <= o
    BY <1>1
  <2> QED
    BY <2>1, <2>2, <2>3
<1> QED
  BY <1>1, <1>2, <1>3, <1>4, <1>5, <1>6, <1>7

\* In e, the nodes before and after o in the list lead past it.
Unlinked(d, e, h, S, o) == LET p == d[o].prev n == d[o].next IN
    /\ DOMAIN d \subseteq DOMAIN e /\ e[h] \in Node
    /\ e[h].next = IF p = None THEN n ELSE d[h].next
    /\ e[h].prev = IF n = None THEN p ELSE d[h].prev
    /\ \A x \in S \ {o} :
          /\ e[x] \in Node
          /\ e[x].next = IF x = p THEN n ELSE d[x].next
          /\ e[x].prev = IF x = n THEN p ELSE d[x].prev

LEMMA UnlinkedLinks ==
    ASSUME NEW d, NEW h, NEW S, Links(d, h, S), NEW o \in S, NEW e, Unlinked(d, e, h, S, o)
    PROVE  Links(e, h, S \ {o})
<1> DEFINE p == d[o].prev
           n == d[o].next
           R == S \ {o}
<1>1. /\ IsFiniteSet(R) /\ R \subseteq DOMAIN e /\ R \subseteq Nat \ {0}
      /\ h \in DOMAIN e \ R /\ h \in Nat /\ (\A x \in R : h < x)
      /\ e[h] \in Node /\ \A x \in R : e[x] \in Node
  BY FS_Subset DEF Links, Unlinked
<1>2. /\ S \subseteq Nat \ {0} /\ o \in Nat \ {0} /\ n \in S \cup {None} /\ p \in S \cup {None}
      /\ (n # None => n > o) /\ (p # None => p < o)
      /\ (\A q \in S : q < o => p # None /\ q <= p) /\ (\A q \in S : q > o => n # None /\ n <= q)
  BY DEF Links, IsFirst, IsLast, Under, Over, None
<1>3. ASSUME NEW x \in R PROVE IsFirst(e[x].next, Over(R, x))
  <2>1. x \in Nat /\ IsFirst(d[x].next, Over(S, x)) /\ (d[x].next = o <=> x = p)
    <3>1. x \in S /\ x # o /\ x # None /\ o # None
      BY <1>2 DEF None
    <3>2. d[x].next = o => d[o].prev = x
      BY <3>1, LinksOrder
    <3>3. x = p => d[x].next = o
      BY <3>1, LinksOrder
    <3>4. x \in Nat /\ IsFirst(d[x].next, Over(S, x))
      BY <3>1 DEF Links
    <3> QED
      BY <3>2, <3>3, <3>4
  <2>2. CASE x = p
    <3>1. e[x].next = n /\ x < o
      BY <1>2, <2>1, <2>2 DEF Unlinked, None
    <3>2. \A y : y \in Over(R, x) <=> y \in S /\ y > o
      <4>1. \A y \in S : y \in Nat /\ o \in Nat /\ x \in Nat /\ (y < o => y <= x)
        BY <1>2, <2>1, <2>2
      <4>2. \A y \in S : y # o /\ y > x <=> y > o
        BY <3>1, <4>1
      <4> QED
        BY <4>2 DEF Over
    <3>3. CASE n = None
      <4>1. Over(R, x) = {}
        BY <1>2, <3>2, <3>3
      <4> QED
        BY <3>1, <3>3, <4>1 DEF IsFirst
    <3>4. CASE n # None
      <4>1. n \in Over(R, x) /\ \A y \in Over(R, x) : n <= y
        BY <1>2, <3>2, <3>4
      <4> QED
        BY <3>1, <4>1 DEF IsFirst
    <3> QED
      BY <3>3, <3>4
  <2>3. CASE x # p
    <3>1. e[x].next = d[x].next /\ d[x].next # o
      BY <2>1, <2>3 DEF Unlinked
    <3>2. Over(R, x) = Over(S, x) \ {o}
      BY DEF Over
    <3>3. Over(S, x) # {} => d[x].next \in Over(R, x)
      BY <2>1, <3>1, <3>2 DEF IsFirst
    <3> QED
      BY <2>1, <3>1, <3>2, <3>3 DEF IsFirst
  <2> QED
    BY <2>2, <2>3
<1>4. ASSUME NEW x \in R PROVE IsLast(e[x].prev, Under(R, x))
  <2>1. x \in Nat /\ IsLast(d[x].prev, Under(S, x)) /\ (d[x].prev = o <=> x = n)
    <3>1. x \in S /\ x # o /\ x # None /\ o # None
      BY <1>2 DEF None
    <3>2. d[x].prev = o => d[o].next = x
      BY <3>1, LinksOrder
    <3>3. x = n => d[x].prev = o
      BY <3>1, LinksOrder
    <3>4. x \in Nat /\ IsLast(d[x].prev, Under(S, x))
      BY <3>1 DEF Links
    <3> QED
      BY <3>2, <3>3, <3>4
  <2>2. CASE x = n
    <3>1. e[x].prev = p /\ x > o
      BY <1>2, <2>1, <2>2 DEF Unlinked, None
    <3>2. \A y : y \in Under(R, x) <=> y \in S /\ y < o
      <4>1. \A y \in S : y \in Nat /\ o \in Nat /\ x \in Nat /\ (y > o => x <= y)
        BY <1>2, <2>1, <2>2
      <4>2. \A y \in S : y # o /\ y < x <=> y < o
        BY <3>1, <4>1
      <4> QED
        BY <4>2 DEF Under
    <3>3. CASE p = None
      <4>1. Under(R, x) = {}
        BY <1>2, <3>2, <3>3
      <4> QED
        BY <3>1, <3>3, <4>1 DEF IsLast
    <3>4. CASE p # None
      <4>1. p \in Under(R, x) /\ \A y \in Under(R, x) : y <= p
        BY <1>2, <3>2, <3>4
      <4> QED
        BY <3>1, <4>1 DEF IsLast
    <3> QED
      BY <3>3, <3>4
  <2>3. CASE x # n
    <3>1. e[x].prev = d[x].prev /\ d[x].prev # o
      BY <2>1, <2>3 DEF Unlinked
    <3>2. Under(R, x) = Under(S, x) \ {o}
      BY DEF Under
    <3>3. Under(S, x) # {} => d[x].prev \in Under(R, x)
      BY <2>1, <3>1, <3>2 DEF IsLast
    <3> QED
      BY <2>1, <3>1, <3>2, <3>3 DEF IsLast
  <2> QED
    BY <2>2, <2>3
<1>5. IsFirst(e[h].next, R)
  <2>1. d[h].next \in S /\ (\A y \in S : d[h].next <= y) /\ (p = None <=> d[h].next = o)
    <3>1. d[h].next \in S /\ (p = None <=> d[h].next = o)
      BY LinksOrder
    <3>2. \A y \in S : d[h].next <= y
      BY DEF Links, IsFirst
    <3> QED
      BY <3>1, <3>2
  <2>2. e[h].next = IF p = None THEN n ELSE d[h].next
    BY DEF Unlinked
  <2>3. CASE p # None
    BY <2>1, <2>2, <2>3 DEF IsFirst
  <2>4. CASE p = None
    <3>1. \A y \in R : y > o /\ n # None /\ n <= y
      <4>1. \A y \in R : y \in Nat /\ o \in Nat /\ o <= y /\ y # o /\ y \in S
        BY <1>2, <2>1, <2>4
      <4>2. \A y \in R : y > o
        BY <4>1
      <4> QED
        BY <1>2, <4>1, <4>2
    <3>2. n # None => n \in R
      BY <1>2
    <3> QED
      BY <2>2, <2>4, <3>1, <3>2 DEF IsFirst
  <2> QED
    BY <2>3, <2>4
<1>6. IsLast(e[h].prev, R)
  <2>1. d[h].prev \in S /\ (\A y \in S : y <= d[h].prev) /\ (n = None <=> d[h].prev = o)
    <3>1. d[h].prev \in S /\ (n = None <=> d[h].prev = o)
      BY LinksOrder
    <3>2. \A y \in S : y <= d[h].prev
      BY DEF Links, IsLast
    <3> QED
      BY <3>1, <3>2
  <2>2. e[h].prev = IF n = None THEN p ELSE d[h].prev
    BY DEF Unlinked
  <2>3. CASE n # None
    BY <2>1, <2>2, <2>3 DEF IsLast
  <2>4. CASE n = None
    <3>1. \A y \in R : y < o /\ p # None /\ y <= p
      <4>1. \A y \in R : y \in Nat /\ o \in Nat /\ y <= o /\ y # o /\ y \in S
        BY <1>2, <2>1, <2>4
      <4>2. \A y \in R : y < o
        BY <4>1
      <4> QED
        BY <1>2, <4>1, <4>2
    <3>2. p # None => p \in R
      BY <1>2
    <3> QED
      BY <2>2, <2>4, <3>1, <3>2 DEF IsLast
  <2> QED
    BY <2>3, <2>4
<1> HIDE DEF R
<1> QED
  BY <1>1, <1>3, <1>4, <1>5, <1>6 DEF Links, R

\* In e, o is linked between the nodes p and n.
Linked(d, e, h, S, o, p, n) ==
    /\ DOMAIN d \cup {o} \subseteq DOMAIN e /\ e[h] \in Node
    /\ e[h].next = IF p = None THEN o ELSE d[h].next
    /\ e[h].prev = IF n = None THEN o ELSE d[h].prev
    /\ e[o] \in Node /\ e[o].prev = p /\ e[o].next = n
    /\ \A x \in S :
          /\ e[x] \in Node
          /\ e[x].next = IF x = p THEN o ELSE d[x].next
          /\ e[x].prev = IF x = n THEN o ELSE d[x].prev

LEMMA LinkedLinks ==
    ASSUME NEW d, NEW h, NEW S, Links(d, h, S), NEW o \in Nat, o \notin S, h < o,
           NEW p, IsLast(p, Under(S, o)), NEW n, IsFirst(n, Over(S, o)),
           NEW e, Linked(d, e, h, S, o, p, n)
    PROVE  Links(e, h, S \cup {o})
<1> DEFINE R == S \cup {o}
<1>1. /\ IsFiniteSet(R) /\ R \subseteq DOMAIN e /\ R \subseteq Nat \ {0}
      /\ h \in DOMAIN e \ R /\ h \in Nat /\ (\A x \in R : h < x)
      /\ e[h] \in Node /\ \A x \in R : e[x] \in Node
  <2>1. IsFiniteSet(R)
    BY FS_AddElement DEF Links
  <2> QED
    BY <2>1 DEF Links, Linked
<1>2. /\ S \subseteq Nat \ {0} /\ o \in Nat \ {0} /\ n \in S \cup {None} /\ p \in S \cup {None}
      /\ (n # None => n > o) /\ (p # None => p < o)
      /\ (\A q \in S : q < o => p # None /\ q <= p) /\ (\A q \in S : q > o => n # None /\ n <= q)
      /\ None \notin S /\ \A q \in S : q < o \/ q > o
  <2>1. S \subseteq Nat \ {0} /\ o \in Nat \ {0} /\ h \in Nat
    BY DEF Links
  <2>2. None \notin S /\ \A q \in S : q < o \/ q > o
    BY <2>1 DEF None
  <2>3. n \in S \cup {None} /\ (n # None => n > o) /\ \A q \in S : q > o => n # None /\ n <= q
    BY <2>1, <2>2 DEF IsFirst, Over
  <2>4. p \in S \cup {None} /\ (p # None => p < o) /\ \A q \in S : q < o => p # None /\ q <= p
    BY <2>1, <2>2 DEF IsLast, Under
  <2> QED
    BY <2>1, <2>2, <2>3, <2>4
<1>3. ASSUME NEW x \in S PROVE IsFirst(e[x].next, Over(R, x)) /\ IsLast(e[x].prev, Under(R, x))
  <2>1. /\ x \in Nat /\ IsFirst(d[x].next, Over(S, x)) /\ IsLast(d[x].prev, Under(S, x))
        /\ e[x].next = (IF x = p THEN o ELSE d[x].next)
        /\ e[x].prev = IF x = n THEN o ELSE d[x].prev
    BY DEF Links, Linked
  <2>2. IsFirst(e[x].next, Over(R, x))
    <3>1. CASE x = p
      <4>1. e[x].next = o /\ x < o
        BY <1>2, <2>1, <3>1
      <4>2. \A y \in S : y > x => o <= y
        <5>1. \A y \in S : y \in Nat /\ o \in Nat /\ x \in Nat /\ (y < o => y <= x) /\ (y < o \/ y > o)
          BY <1>2, <3>1
        <5> QED
          BY <5>1
      <4>3. o \in Over(R, x) /\ \A y \in Over(R, x) : o <= y
        BY <1>2, <4>1, <4>2 DEF Over
      <4> QED
        BY <4>1, <4>3 DEF IsFirst
    <3>2. CASE x # p
      <4>1. e[x].next = d[x].next
        BY <2>1, <3>2
      <4>2. CASE x > o
        <5>1. Over(R, x) = Over(S, x)
          BY <1>2, <2>1, <4>2 DEF Over
        <5> QED
          BY <2>1, <4>1, <5>1
      <4>3. CASE x < o
        <5>1. p # None /\ p \in S /\ x <= p /\ x \in Nat /\ p \in Nat
          BY <1>2, <4>3
        <5>2. x < p /\ p < o
          BY <1>2, <3>2, <5>1
        <5>3. p \in Over(S, x)
          BY <5>1, <5>2 DEF Over
        <5>4. d[x].next \in Over(S, x) /\ d[x].next <= p /\ \A y \in Over(S, x) : d[x].next <= y
          BY <2>1, <5>3 DEF IsFirst
        <5>5. d[x].next \in Nat /\ o \in Nat
          BY <1>2, <5>4 DEF Over
        <5>6. d[x].next <= o
          BY <5>1, <5>2, <5>4, <5>5
        <5>7. Over(R, x) = Over(S, x) \cup {o}
          BY <4>3 DEF Over
        <5> QED
          BY <4>1, <5>4, <5>6, <5>7 DEF IsFirst
      <4> QED
        BY <1>2, <4>2, <4>3
    <3> QED
      BY <3>1, <3>2
  <2>3. IsLast(e[x].prev, Under(R, x))
    <3>1. CASE x = n
      <4>1. e[x].prev = o /\ o < x
        BY <1>2, <2>1, <3>1
      <4>2. \A y \in S : y < x => y <= o
        <5>1. \A y \in S : y \in Nat /\ o \in Nat /\ x \in Nat /\ (y > o => x <= y) /\ (y < o \/ y > o)
          BY <1>2, <3>1
        <5> QED
          BY <5>1
      <4>3. o \in Under(R, x) /\ \A y \in Under(R, x) : y <= o
        BY <1>2, <4>1, <4>2 DEF Under
      <4> QED
        BY <4>1, <4>3 DEF IsLast
    <3>2. CASE x # n
      <4>1. e[x].prev = d[x].prev
        BY <2>1, <3>2
      <4>2. CASE x < o
        <5>1. Under(R, x) = Under(S, x)
          BY <1>2, <2>1, <4>2 DEF Under
        <5> QED
          BY <2>1, <4>1, <5>1
      <4>3. CASE x > o
        <5>1. n # None /\ n \in S /\ n <= x /\ x \in Nat /\ n \in Nat
          BY <1>2, <4>3
        <5>2. n < x /\ n > o
          BY <1>2, <3>2, <5>1
        <5>3. n \in Under(S, x)
          BY <5>1, <5>2 DEF Under
        <5>4. d[x].prev \in Under(S, x) /\ n <= d[x].prev /\ \A y \in Under(S, x) : y <= d[x].prev
          BY <2>1, <5>3 DEF IsLast
        <5>5. d[x].prev \in Nat /\ o \in Nat
          BY <1>2, <5>4 DEF Under
        <5>6. o <= d[x].prev
          BY <5>1, <5>2, <5>4, <5>5
        <5>7. Under(R, x) = Under(S, x) \cup {o}
          BY <4>3 DEF Under
        <5> QED
          BY <4>1, <5>4, <5>6, <5>7 DEF IsLast
      <4> QED
        BY <1>2, <4>2, <4>3
    <3> QED
      BY <3>1, <3>2
  <2> QED
    BY <2>2, <2>3
<1>4. IsFirst(e[o].next, Over(R, o)) /\ IsLast(e[o].prev, Under(R, o))
  <2>1. Over(R, o) = Over(S, o) /\ Under(R, o) = Under(S, o)
    BY <1>2 DEF Over, Under
  <2> QED
    BY <2>1 DEF Linked
<1>5. IsFirst(e[h].next, R)
  <2>1. e[h].next = IF p = None THEN o ELSE d[h].next
    BY DEF Linked
  <2>2. CASE p = None
    <3>1. \A y \in S : ~(y < o) /\ (y < o \/ y > o) /\ y \in Nat /\ o \in Nat
      BY <1>2, <2>2
    <3>2. \A y \in R : o <= y
      BY <1>2, <3>1
    <3> QED
      BY <2>1, <2>2, <3>2 DEF IsFirst
  <2>3. CASE p # None
    <3>1. p \in S /\ p < o
      BY <1>2, <2>3
    <3>2. d[h].next \in S /\ \A y \in S : d[h].next <= y
      BY <3>1 DEF Links, IsFirst
    <3>3. d[h].next \in Nat /\ p \in Nat /\ o \in Nat /\ d[h].next <= p
      BY <1>2, <3>1, <3>2
    <3>4. d[h].next <= o
      BY <3>1, <3>3
    <3> QED
      BY <2>1, <2>3, <3>2, <3>4 DEF IsFirst
  <2> QED
    BY <2>2, <2>3
<1>6. IsLast(e[h].prev, R)
  <2>1. e[h].prev = IF n = None THEN o ELSE d[h].prev
    BY DEF Linked
  <2>2. CASE n = None
    <3>1. \A y \in S : ~(y > o) /\ (y < o \/ y > o) /\ y \in Nat /\ o \in Nat
      BY <1>2, <2>2
    <3>2. \A y \in R : y <= o
      BY <1>2, <3>1
    <3> QED
      BY <2>1, <2>2, <3>2 DEF IsLast
  <2>3. CASE n # None
    <3>1. n \in S /\ n > o
      BY <1>2, <2>3
    <3>2. d[h].prev \in S /\ \A y \in S : y <= d[h].prev
      BY <3>1 DEF Links, IsLast
    <3>3. d[h].prev \in Nat /\ n \in Nat /\ o \in Nat /\ n <= d[h].prev
      BY <1>2, <3>1, <3>2
    <3>4. o <= d[h].prev
      BY <3>1, <3>3
    <3> QED
      BY <2>1, <2>3, <3>2, <3>4 DEF IsLast
  <2> QED
    BY <2>2, <2>3
<1> HIDE DEF R
<1>7. \A x \in R : IsLast(e[x].prev, Under(R, x)) /\ IsFirst(e[x].next, Over(R, x))
  BY <1>3, <1>4 DEF R
<1> QED
  BY <1>1, <1>5, <1>6, <1>7 DEF Links, R

-----------------------------------------------------------------------------
(* Operations and their writes.                                            *)

Disk == UNION {[D -> Node] : D \in SUBSET Nat}

File == [disk : Disk, size : Nat]

Op == [disk : Disk, size : Nat, ok : BOOLEAN, past : SUBSET File]

\* The file as it is now.
FileOf(op) == [disk |-> op.disk, size |-> op.size]

\* r is op after one write.
Wrote(op, r, o, n) ==
    /\ r \in Op /\ r.ok /\ r.size = op.size
    /\ DOMAIN r.disk = DOMAIN op.disk \cup {o}
    /\ r.disk[o] = n
    /\ \A x \in DOMAIN op.disk \ {o} : r.disk[x] = op.disk[x]
    /\ r.past = op.past \cup {FileOf(r)}

LEMMA OfDisk ==
    ASSUME NEW d \in Disk
    PROVE  d \in [DOMAIN d -> Node] /\ DOMAIN d \subseteq Nat
BY DEF Disk

LEMMA SameNode ==
    ASSUME NEW x \in Node, NEW y \in Node,
           x.bytes = y.bytes, x.prev = y.prev, x.next = y.next
    PROVE  x = y
BY DEF Node

LEMMA Written ==
    ASSUME NEW op \in Op, op.ok, NEW o \in Nat, NEW n \in Node
    PROVE  Wrote(op, Write(op, o, n), o, n)
<1> DEFINE D == DOMAIN op.disk \cup {o}
           d == [x \in D |-> IF x = o THEN n ELSE op.disk[x]]
           past == op.past \cup {[disk |-> d, size |-> op.size]}
           r == [op EXCEPT !.disk = d, !.past = past]
<1>1. op.disk \in [DOMAIN op.disk -> Node] /\ DOMAIN op.disk \subseteq Nat
  BY OfDisk DEF Op
<1>2. d \in [D -> Node] /\ D \in SUBSET Nat
  BY <1>1
<1>3. d \in Disk
  BY <1>2 DEF Disk
<1>4. DOMAIN d = D /\ d[o] = n /\ \A x \in DOMAIN op.disk \ {o} : d[x] = op.disk[x]
  OBVIOUS
<1>5. Write(op, o, n) = r
  BY Zenon DEF Write
<1> HIDE DEF d
<1>6. r \in Op /\ r.disk = d /\ r.size = op.size /\ r.ok /\ r.past = past
  <2>1. past \in SUBSET File
    BY <1>3 DEF Op, File
  <2> HIDE DEF past
  <2> QED
    BY <1>3, <2>1 DEF Op
<1> HIDE DEF r
<1> QED
  BY <1>4, <1>5, <1>6, Zenon DEF Wrote, FileOf

LEMMA PrevSet ==
    ASSUME NEW op \in Op, op.ok, NEW o \in DOMAIN op.disk, o # None, NEW p \in Nat
    PROVE  /\ Wrote(op, SetPrev(op, o, p), o, [op.disk[o] EXCEPT !.prev = p])
           /\ op.disk[o] \in Node
<1>1. op.disk[o] \in Node /\ o \in Nat
  BY OfDisk DEF Op
<1>2. [op.disk[o] EXCEPT !.prev = p] \in Node
  BY <1>1 DEF Node
<1> QED
  BY <1>1, <1>2, Written DEF SetPrev

LEMMA NextSet ==
    ASSUME NEW op \in Op, op.ok, NEW o \in DOMAIN op.disk, NEW n \in Nat
    PROVE  /\ Wrote(op, SetNext(op, o, n), o, [op.disk[o] EXCEPT !.next = n])
           /\ op.disk[o] \in Node
<1>1. op.disk[o] \in Node /\ o \in Nat
  BY OfDisk DEF Op
<1>2. [op.disk[o] EXCEPT !.next = n] \in Node
  BY <1>1 DEF Node
<1> QED
  BY <1>1, <1>2, Written DEF SetNext

LEMMA Asserted ==
    ASSUME NEW op \in Op, op.ok, NEW c, c
    PROVE  Assert(op, c) = op
BY DEF Assert, Op

\* What a change of one list keeps meanwhile: the chain stays among the
\* nodes of S, and nothing changes elsewhere.
Between(d, e, h, S) ==
    /\ DOMAIN e = DOMAIN d \cup S /\ h \in DOMAIN d
    /\ \A x \in S \cup {h} : e[x] \in Node
    /\ \A x \in DOMAIN d \ (S \cup {h}) : e[x] = d[x]
    /\ \A x \in S \cap DOMAIN d : e[x].bytes = d[x].bytes
    /\ e[h].next \in S \cup {None}
    /\ \A x \in S : e[x].next = None \/ (e[x].next \in S /\ e[x].next > x)

Meanwhile(op, r, h, S) ==
    \A f \in r.past : f \in op.past \/ (f.size = op.size /\ Between(op.disk, f.disk, h, S))

LEMMA LinksBetween ==
    ASSUME NEW d, NEW h, NEW S, Links(d, h, S)
    PROVE  Between(d, d, h, S)
<1>1. \A x \in S : d[x].next = None \/ (d[x].next \in S /\ d[x].next > x)
  BY LinksOrder
<1>2. d[h].next \in S \cup {None}
  BY LinksChain DEF Chain
<1> QED
  BY <1>1, <1>2 DEF Between, Links

\* A search in front of a node finds the node before it.
LEMMA BeforeIs ==
    ASSUME NEW d, NEW top, Ascending(d, top), NEW h, NEW S, Links(d, h, S),
           NEW o \in S, d[h].next # o
    PROVE  Before(d, h, o) = d[o].prev /\ d[o].prev \in S /\ d[d[o].prev].next = o
<1> DEFINE D == DOMAIN d \cup {None}
           stop == {p \in D : p = None \/ d[p].next = o}
           walk == CHOOSE f : f = [p \in D |-> IF p = None \/ d[p].next = o THEN p
                                               ELSE f[d[p].next]]
           p0 == d[o].prev
<1>1. /\ p0 \in S /\ d[p0].next = o /\ p0 < o /\ o \in Nat \ {0}
      /\ \A q \in S : q < o => q <= p0
  <2>1. o # None /\ p0 # None
    BY LinksOrder DEF None
  <2>2. \A q \in S : q < o => q <= p0
    BY DEF Links, IsLast, Under
  <2> QED
    BY <2>1, <2>2, LinksOrder
<1>2. walk = [p \in D |-> IF p = None \/ d[p].next = o THEN p ELSE walk[d[p].next]]
  <2>1. \A p \in D : p \in stop \/ (p # None /\ d[p].next \in D)
    BY DEF Ascending
  <2>2. \E f : f = [p \in D |-> IF p \in stop THEN p ELSE f[d[p].next]]
    <3> HIDE DEF stop
    <3>1. D \subseteq DOMAIN d \cup {None}
      OBVIOUS
    <3> HIDE DEF D
    <3> QED
      BY <2>1, <3>1, SearchExists
  <2>3. PICK f : f = [p \in D |-> IF p \in stop THEN p ELSE f[d[p].next]]
    BY <2>2
  <2>4. f = [p \in D |-> IF p = None \/ d[p].next = o THEN p ELSE f[d[p].next]]
    BY <2>3
  <2> QED
    BY <2>4, Zenon
<1>3. Before(d, h, o) = walk[d[h].next]
  BY Zenon DEF Before
<1> HIDE DEF walk
<1> DEFINE T == {p \in S : p < o /\ walk[p] # p0}
<1>4. T = {}
  <2> SUFFICES ASSUME T # {} PROVE FALSE
    OBVIOUS
  <2>1. PICK p \in T : \A q \in DOMAIN d : q > p => q \notin T
    <3>1. T \subseteq DOMAIN d
      BY DEF Links
    <3> HIDE DEF T
    <3> QED
      BY <3>1, LastSuch
  <2>2. p \in S /\ p < o /\ p \in D /\ p # None /\ p \in Nat
    BY DEF Links, None
  <2>3. walk[p] = IF d[p].next = o THEN p ELSE walk[d[p].next]
    BY <1>2, <2>2
  <2>4. IsFirst(d[p].next, Over(S, p)) /\ o \in Over(S, p)
    BY <1>1, <2>2 DEF Links, Over
  <2>5. d[p].next \in S /\ d[p].next > p /\ d[p].next <= o /\ d[p].next \in Nat
    BY <2>4 DEF IsFirst, Over, Links
  <2>6. CASE d[p].next = o
    <3>1. d[o].prev = p
      BY <1>1, <2>2, <2>6, LinksOrder DEF None
    <3> QED
      BY <2>3, <2>6, <3>1
  <2>7. CASE d[p].next # o
    <3>1. d[p].next < o
      BY <1>1, <2>5, <2>7
    <3>2. d[p].next \notin T
      BY <2>1, <2>5 DEF Links
    <3> QED
      BY <2>3, <2>5, <2>7, <3>1, <3>2
  <2> QED
    BY <2>6, <2>7
<1>5. d[h].next \in S /\ d[h].next < o
  <2>1. d[h].next \in S /\ d[h].next <= o
    BY <1>1 DEF Links, IsFirst
  <2>2. d[h].next \in Nat /\ o \in Nat /\ d[h].next # o
    BY <1>1, <2>1 DEF Links
  <2> QED
    BY <2>1, <2>2
<1>6. walk[d[h].next] = p0
  BY <1>4, <1>5
<1> QED
  BY <1>1, <1>3, <1>6

\* The place of a node is behind the last one that comes before it.
LEMMA PlaceIs ==
    ASSUME NEW d, NEW top, Ascending(d, top), NEW h, NEW S, Links(d, h, S),
           NEW o \in Nat, o \notin S, d[h].next # None, ~(o < d[h].next)
    PROVE  IsLast(Place(d, h, o), Under(S, o)) /\ Place(d, h, o) \in S /\ Place(d, h, o) < o
<1> DEFINE D == DOMAIN d
           stop == {p \in D : ~(d[p].next # None /\ d[p].next < o)}
           walk == CHOOSE f : f = [p \in D |-> IF d[p].next # None /\ d[p].next < o
                                               THEN f[d[p].next] ELSE p]
<1>1. walk = [p \in D |-> IF d[p].next # None /\ d[p].next < o THEN walk[d[p].next] ELSE p]
  <2>1. \A p \in D : p \in stop \/ (p # None /\ d[p].next \in D)
    BY DistanceFalls DEF Ascending
  <2>2. \E f : f = [p \in D |-> IF p \in stop THEN p ELSE f[d[p].next]]
    <3> HIDE DEF stop
    <3>1. D \subseteq DOMAIN d \cup {None}
      OBVIOUS
    <3> HIDE DEF D
    <3> QED
      BY <2>1, <3>1, SearchExists
  <2>3. PICK f : f = [p \in D |-> IF p \in stop THEN p ELSE f[d[p].next]]
    BY <2>2
  <2>4. f = [p \in D |-> IF d[p].next # None /\ d[p].next < o THEN f[d[p].next] ELSE p]
    BY <2>3
  <2> QED
    BY <2>4, Zenon
<1>2. Place(d, h, o) = walk[d[h].next]
  BY Zenon DEF Place
<1> HIDE DEF walk
<1> DEFINE T == {p \in S : p < o /\ ~(walk[p] \in S /\ IsLast(walk[p], Under(S, o)))}
<1>3. T = {}
  <2> SUFFICES ASSUME T # {} PROVE FALSE
    OBVIOUS
  <2>1. PICK p \in T : \A q \in DOMAIN d : q > p => q \notin T
    <3>1. T \subseteq DOMAIN d
      BY DEF Links
    <3> HIDE DEF T
    <3> QED
      BY <3>1, LastSuch
  <2>2. p \in S /\ p < o /\ p \in D /\ p \in Nat /\ S \subseteq Nat
    BY DEF Links
  <2>3. walk[p] = IF d[p].next # None /\ d[p].next < o THEN walk[d[p].next] ELSE p
    BY <1>1, <2>2
  <2>4. CASE d[p].next # None /\ d[p].next < o
    <3>1. d[p].next \in S /\ d[p].next > p
      BY <2>2, <2>4, LinksOrder
    <3>2. d[p].next \notin T
      BY <2>1, <3>1 DEF Links
    <3> QED
      BY <2>3, <2>4, <3>1, <3>2
  <2>5. CASE ~(d[p].next # None /\ d[p].next < o)
    <3>1. \A q \in Under(S, o) : q <= p
      <4> SUFFICES ASSUME NEW q \in S, q < o, q > p PROVE FALSE
        BY <2>2 DEF Under
      <4>1. q \in Over(S, p) /\ IsFirst(d[p].next, Over(S, p))
        BY <2>2 DEF Over, Links
      <4>2. d[p].next \in S /\ d[p].next <= q /\ d[p].next > p
        BY <4>1 DEF IsFirst, Over
      <4>3. d[p].next \in Nat /\ q \in Nat /\ d[p].next # None
        BY <2>2, <4>2 DEF None
      <4>4. d[p].next < o
        BY <4>2, <4>3
      <4> QED
        BY <2>5, <4>3, <4>4
    <3>2. p \in Under(S, o)
      BY <2>2 DEF Under
    <3> QED
      BY <2>2, <2>3, <2>5, <3>1, <3>2 DEF IsLast
  <2> QED
    BY <2>4, <2>5
<1>4. d[h].next \in S /\ d[h].next < o
  <2>1. d[h].next \in S
    BY LinksChain DEF Chain
  <2>2. d[h].next \in Nat /\ d[h].next # o
    BY <2>1 DEF Links
  <2> QED
    BY <2>1, <2>2
<1>5. Place(d, h, o) \in S /\ IsLast(Place(d, h, o), Under(S, o))
  BY <1>2, <1>3, <1>4
<1>6. d[h].next \in Under(S, o)
  BY <1>4 DEF Under
<1> QED
  BY <1>5, <1>6 DEF IsLast, Under

\* What a list says of the sizes of its nodes.
LEMMA ListSized ==
    ASSUME NEW d, NEW h, NEW S, Links(d, h, S)
    PROVE  Sized(d, S)
BY DEF Links, Sized, Node

\* Removing a node from a list: what is written in each case, and the result.
LEMMA RemoveWrites ==
    ASSUME NEW op \in Op, op.ok, NEW top, Ascending(op.disk, top),
           NEW h, NEW S, List(op.disk, h, S), NEW o \in S
    PROVE  LET d == op.disk
               p == d[o].prev
               n == d[o].next
               r == RemoveNode(op, h, o)
               head == [bytes |-> d[h].bytes - d[o].bytes,
                        next |-> IF p = None THEN n ELSE d[h].next,
                        prev |-> IF n = None THEN p ELSE d[h].prev]
               last(a) == IF n = None THEN a ELSE SetPrev(a, n, p)
           IN  /\ p = None => r = Write(last(op), h, head)
               /\ p # None => r = Write(last(SetNext(op, p, n)), h, head)
               /\ head \in Node
<1> DEFINE d == op.disk
           p == d[o].prev
           n == d[o].next
           head == [bytes |-> d[h].bytes - d[o].bytes,
                    next |-> IF p = None THEN n ELSE d[h].next,
                    prev |-> IF n = None THEN p ELSE d[h].prev]
           last(a) == IF n = None THEN a ELSE SetPrev(a, n, p)
<1>1. Links(d, h, S) /\ d[h].bytes = SumOf(d, S)
  BY DEF List
<1>2. /\ d[h] \in Node /\ d[o] \in Node /\ h \in DOMAIN d /\ o \in DOMAIN d
      /\ (p = None <=> d[h].next = o) /\ (n = None <=> d[h].prev = o)
      /\ p \in S \cup {None} /\ n \in S \cup {None} /\ S \subseteq DOMAIN d
  <2>1. d[h] \in Node /\ d[o] \in Node /\ h \in DOMAIN d /\ S \subseteq DOMAIN d
    BY <1>1 DEF Links
  <2> QED
    BY <1>1, <2>1, LinksOrder
<1>3. d[h].bytes >= d[o].bytes /\ d[h].bytes \in Nat /\ d[o].bytes \in Nat
  <2>1. Sized(d, S)
    BY <1>1, ListSized
  <2>2. SumOf(d, S) = d[o].bytes + SumOf(d, S \ {o})
    BY <2>1, SumSplits
  <2>3. SumOf(d, S \ {o}) \in Nat /\ SumOf(d, S) \in Nat
    BY <2>1, SumSteps
  <2> QED
    BY <1>1, <1>2, <2>2, <2>3 DEF Node
<1>4. head \in Node
  BY <1>2, <1>3 DEF Node
<1>5. ASSUME p = None PROVE RemoveNode(op, h, o) = Write(last(op), h, head)
  <2>1. Assert(op, d[h].bytes >= d[o].bytes) = op
    BY <1>3, Asserted
  <2>2. d[h].next = o
    BY <1>2, <1>5
  <2>3. SetPrev(op, n, None) = last(op)
    BY <1>5 DEF SetPrev
  <2>4. head = [bytes |-> d[h].bytes - d[o].bytes, next |-> n,
                prev |-> IF n = None THEN None ELSE d[h].prev]
    BY <1>5
  <2> QED
    BY <2>1, <2>2, <2>3, <2>4, Zenon DEF RemoveNode
<1>6. ASSUME p # None PROVE RemoveNode(op, h, o) = Write(last(SetNext(op, p, n)), h, head)
  <2>1. d[h].next # o
    BY <1>2, <1>6
  <2>2. Before(d, h, o) = p
    BY <1>1, <2>1, BeforeIs
  <2> DEFINE b == SetNext(op, p, n)
             u == last(b)
  <2>3. u \in Op /\ u.ok /\ SetPrev(b, n, p) = u
    <3>1. p \in DOMAIN d /\ p \in Nat /\ n \in Nat
      BY <1>2, <1>6 DEF Node
    <3>2. Wrote(op, b, p, [d[p] EXCEPT !.next = n])
      BY <3>1, NextSet
    <3>3. b \in Op /\ b.ok /\ DOMAIN d \subseteq DOMAIN b.disk
      BY <3>2 DEF Wrote
    <3>4. CASE n = None
      BY <3>3, <3>4 DEF SetPrev
    <3>5. CASE n # None
      <4> HIDE DEF b
      <4>1. n \in DOMAIN b.disk
        BY <1>2, <3>3, <3>5
      <4>2. Wrote(b, SetPrev(b, n, p), n, [b.disk[n] EXCEPT !.prev = p])
        BY <3>1, <3>3, <3>5, <4>1, PrevSet
      <4> QED
        BY <3>5, <4>2 DEF Wrote
    <3> QED
      BY <3>4, <3>5
  <2> HIDE DEF u
  <2>4. Assert(u, d[h].bytes >= d[o].bytes) = u
    BY <1>3, <2>3, Asserted
  <2>5. head = [d[h] EXCEPT !.bytes = @ - d[o].bytes, !.prev = IF @ = o THEN d[o].prev ELSE @]
    <3> DEFINE new == [d[h] EXCEPT !.bytes = @ - d[o].bytes, !.prev = IF @ = o THEN d[o].prev ELSE @]
    <3>1. /\ new.bytes = d[h].bytes - d[o].bytes /\ new.next = d[h].next
          /\ new.prev = IF d[h].prev = o THEN p ELSE d[h].prev
      BY <1>2 DEF Node
    <3>2. new \in Node
      <4>1. d[h].bytes - d[o].bytes \in Nat
        BY <1>3
      <4> QED
        BY <1>2, <4>1 DEF Node
    <3>3. new.bytes = head.bytes /\ new.prev = head.prev /\ new.next = head.next
      BY <1>2, <1>6, <3>1
    <3> HIDE DEF new, head
    <3>4. new = head
      BY <1>4, <3>2, <3>3, SameNode
    <3> QED
      BY <3>4 DEF new
  <2>6. RemoveNode(op, h, o) =
          Write(Assert(SetPrev(SetNext(op, Before(d, h, o), n), n, Before(d, h, o)),
                       d[h].bytes >= d[o].bytes), h,
                [d[h] EXCEPT !.bytes = @ - d[o].bytes, !.prev = IF @ = o THEN d[o].prev ELSE @])
    BY <1>6, <2>1, <2>2, Zenon DEF RemoveNode
  <2> QED
    BY <2>2, <2>3, <2>4, <2>5, <2>6, Zenon DEF u
<1> HIDE DEF head, last
<1>7. /\ p = None => RemoveNode(op, h, o) = Write(last(op), h, head)
      /\ p # None => RemoveNode(op, h, o) = Write(last(SetNext(op, p, n)), h, head)
      /\ head \in Node
  BY <1>4, <1>5, <1>6
<1> QED
  BY <1>7, Zenon DEF head, last

\* op has come to a while it changes the list h of nodes of S.
Working(op, a, h, S) ==
    /\ op \in Op /\ a \in Op /\ a.ok /\ a.size = op.size
    /\ h \notin S
    /\ Between(op.disk, a.disk, h, S)
    /\ Meanwhile(op, a, h, S)

\* The links that a change may write.
MayWrite(d, h, S, x, n) ==
    /\ n \in Node
    /\ x = h => n.next \in S \cup {None}
    /\ x # h => /\ x \in S
                /\ x \in DOMAIN d => n.bytes = d[x].bytes
                /\ n.next = None \/ (n.next \in S /\ n.next > x)

LEMMA WorkBegins ==
    ASSUME NEW op \in Op, op.ok, NEW h, NEW S, Links(op.disk, h, S)
    PROVE  Working(op, op, h, S)
<1>1. Between(op.disk, op.disk, h, S) /\ h \notin S
  BY LinksBetween DEF Links
<1> QED
  BY <1>1 DEF Working, Meanwhile

LEMMA Meant ==
    ASSUME NEW op, NEW a, NEW h, NEW S, Meanwhile(op, a, h, S), a.size = op.size,
           NEW r, NEW x, NEW n, Wrote(a, r, x, n), Between(op.disk, r.disk, h, S)
    PROVE  Meanwhile(op, r, h, S)
<1> SUFFICES ASSUME NEW f \in r.past, f \notin op.past
             PROVE  f.size = op.size /\ Between(op.disk, f.disk, h, S)
  BY DEF Meanwhile
<1>1. CASE f \in a.past
  BY <1>1 DEF Meanwhile
<1>2. CASE f = FileOf(r)
  <2>1. f.size = r.size /\ f.disk = r.disk /\ r.size = a.size
    BY <1>2 DEF FileOf, Wrote
  <2> QED
    BY <2>1
<1> QED
  BY <1>1, <1>2 DEF Wrote

LEMMA WorkGoesOn ==
    ASSUME NEW op, NEW a, NEW h, NEW S, Working(op, a, h, S),
           NEW r, NEW x, NEW n, Wrote(a, r, x, n), MayWrite(op.disk, h, S, x, n)
    PROVE  Working(op, r, h, S)
<1>1. /\ DOMAIN r.disk = DOMAIN a.disk \cup {x} /\ r.disk[x] = n
      /\ \A y \in DOMAIN a.disk \ {x} : r.disk[y] = a.disk[y]
  BY DEF Wrote
<1>2. /\ DOMAIN a.disk = DOMAIN op.disk \cup S /\ h \in DOMAIN op.disk /\ h \notin S
      /\ x \in S \cup {h}
  BY DEF Working, Between, MayWrite
<1>3. Between(op.disk, r.disk, h, S)
  <2>1. \A y \in S \cup {h} : r.disk[y] \in Node
    BY <1>1, <1>2 DEF Working, Between, MayWrite
  <2>2. \A y \in DOMAIN op.disk \ (S \cup {h}) : r.disk[y] = op.disk[y]
    BY <1>1, <1>2 DEF Working, Between
  <2>3. \A y \in S \cap DOMAIN op.disk : r.disk[y].bytes = op.disk[y].bytes
    BY <1>1, <1>2 DEF Working, Between, MayWrite
  <2>4. r.disk[h].next \in S \cup {None}
    BY <1>1, <1>2 DEF Working, Between, MayWrite
  <2>5. ASSUME NEW y \in S
        PROVE  r.disk[y].next = None \/ (r.disk[y].next \in S /\ r.disk[y].next > y)
    <3>1. CASE y = x
      BY <1>1, <1>2, <3>1 DEF MayWrite
    <3>2. CASE y # x
      <4>1. r.disk[y] = a.disk[y]
        BY <1>1, <1>2, <3>2
      <4> QED
        BY <4>1 DEF Working, Between
    <3> QED
      BY <3>1, <3>2
  <2>6. DOMAIN r.disk = DOMAIN op.disk \cup S
    BY <1>1, <1>2
  <2> QED
    BY <1>2, <2>1, <2>2, <2>3, <2>4, <2>5, <2>6 DEF Between
<1>4. Meanwhile(op, r, h, S)
  BY <1>3, Meant DEF Working
<1> QED
  BY <1>3, <1>4 DEF Working, Wrote

\* The first write enters a node that no other leads to.
LEMMA WorkBeginsWith ==
    ASSUME NEW op \in Op, op.ok, NEW h, NEW S, Links(op.disk, h, S),
           NEW o \in Nat, o \notin S, o # h,
           NEW r, NEW n, Wrote(op, r, o, n), MayWrite(op.disk, h, S \cup {o}, o, n)
    PROVE  Working(op, r, h, S \cup {o})
<1> DEFINE d == op.disk
           R == S \cup {o}
<1>1. /\ DOMAIN r.disk = DOMAIN d \cup {o} /\ r.disk[o] = n
      /\ \A y \in DOMAIN d \ {o} : r.disk[y] = d[y]
  BY DEF Wrote
<1>2. Between(d, d, h, S) /\ S \subseteq DOMAIN d /\ h \in DOMAIN d /\ h \notin S
  BY LinksBetween DEF Links
<1>3. Between(d, r.disk, h, R)
  <2>1. \A y \in R \cup {h} : r.disk[y] \in Node
    BY <1>1, <1>2 DEF Between, MayWrite
  <2>2. \A y \in DOMAIN d \ (R \cup {h}) : r.disk[y] = d[y]
    BY <1>1
  <2>3. \A y \in R \cap DOMAIN d : r.disk[y].bytes = d[y].bytes
    BY <1>1 DEF MayWrite
  <2>4. r.disk[h].next \in R \cup {None}
    BY <1>1, <1>2 DEF Between
  <2>5. ASSUME NEW y \in R
        PROVE  r.disk[y].next = None \/ (r.disk[y].next \in R /\ r.disk[y].next > y)
    <3>1. CASE y = o
      BY <1>1, <3>1 DEF MayWrite
    <3>2. CASE y # o
      <4>1. r.disk[y] = d[y] /\ y \in S
        BY <1>1, <1>2, <3>2
      <4> QED
        BY <1>2, <4>1 DEF Between
    <3> QED
      BY <3>1, <3>2
  <2>6. DOMAIN r.disk = DOMAIN d \cup R
    BY <1>1, <1>2
  <2> QED
    BY <1>2, <2>1, <2>2, <2>3, <2>4, <2>5, <2>6 DEF Between
<1>4. Meanwhile(op, op, h, R)
  BY DEF Meanwhile
<1>5. Meanwhile(op, r, h, R)
  BY <1>3, <1>4, Meant
<1> QED
  BY <1>2, <1>3, <1>5 DEF Working, Wrote

\* remove_node: the list is without the node, the sum without its bytes.
LEMMA RemoveSound ==
    ASSUME NEW op \in Op, op.ok, NEW top, Ascending(op.disk, top),
           NEW h, NEW S, List(op.disk, h, S), NEW o \in S
    PROVE  /\ Working(op, RemoveNode(op, h, o), h, S)
           /\ List(RemoveNode(op, h, o).disk, h, S \ {o})
<1> DEFINE d == op.disk
           p == d[o].prev
           n == d[o].next
           r == RemoveNode(op, h, o)
           head == [bytes |-> d[h].bytes - d[o].bytes,
                    next |-> IF p = None THEN n ELSE d[h].next,
                    prev |-> IF n = None THEN p ELSE d[h].prev]
           last(a) == IF n = None THEN a ELSE SetPrev(a, n, p)
           a1 == IF p = None THEN op ELSE SetNext(op, p, n)
           a2 == last(a1)
<1>1. Links(d, h, S) /\ d[h].bytes = SumOf(d, S) /\ op.ok
  BY DEF List
<1>2. r = Write(a2, h, head) /\ head \in Node
  <2> HIDE DEF head, last
  <2>1. /\ p = None => r = Write(last(op), h, head)
        /\ p # None => r = Write(last(SetNext(op, p, n)), h, head)
        /\ head \in Node
    BY RemoveWrites, Zenon DEF head, last
  <2> QED
    BY <2>1, Zenon
<1>3. /\ h \in Nat /\ h \in DOMAIN d /\ h \notin S /\ S \subseteq DOMAIN d /\ S \subseteq Nat \ {0}
      /\ d[h] \in Node /\ \A x \in S : d[x] \in Node
  BY <1>1 DEF Links
<1>4. /\ p \in S \cup {None} /\ n \in S \cup {None} /\ p \in Nat /\ n \in Nat
      /\ (p # None => p < o) /\ (n # None => n > o) /\ o \in Nat
      /\ None \notin S /\ (p = None <=> d[h].next = o) /\ d[h].next \in S
  <2>1. None \notin S
    BY <1>3 DEF None
  <2>2. d[o] \in Node
    BY <1>3
  <2> QED
    BY <1>1, <1>3, <2>1, <2>2, LinksOrder DEF Node
<1>5. \A x \in S : d[x].next = None \/ (d[x].next \in S /\ d[x].next > x)
  BY <1>1, LinksOrder
<1>6. /\ Working(op, a1, h, S) /\ DOMAIN a1.disk = DOMAIN d /\ a1.disk[h] = d[h]
      /\ \A x \in S : /\ a1.disk[x] \in Node /\ a1.disk[x].bytes = d[x].bytes
                      /\ a1.disk[x].prev = d[x].prev
                      /\ a1.disk[x].next = IF x = p THEN n ELSE d[x].next
  <2>1. Working(op, op, h, S)
    BY <1>1, WorkBegins
  <2>2. CASE p = None
    <3>1. a1 = op /\ \A x \in S : x # p
      BY <1>4, <2>2
    <3> HIDE DEF a1
    <3> QED
      BY <1>3, <2>1, <3>1
  <2>3. CASE p # None
    <3> DEFINE new == [d[p] EXCEPT !.next = n]
    <3>1. p \in S /\ p \in DOMAIN d /\ a1 = SetNext(op, p, n)
      BY <1>3, <1>4, <2>3
    <3>2. Wrote(op, a1, p, new)
      BY <1>1, <1>4, <3>1, NextSet
    <3>3. /\ new \in Node /\ new.bytes = d[p].bytes /\ new.prev = d[p].prev /\ new.next = n
      BY <1>3, <1>4, <3>1 DEF Node
    <3>4. n = None \/ (n \in S /\ n > p)
      BY <1>3, <1>4, <3>1
    <3> HIDE DEF new, a1
    <3>5. MayWrite(d, h, S, p, new)
      BY <1>3, <3>1, <3>3, <3>4 DEF MayWrite
    <3>6. Working(op, a1, h, S)
      BY <2>1, <3>2, <3>5, WorkGoesOn
    <3>7. /\ DOMAIN a1.disk = DOMAIN d /\ a1.disk[p] = new
          /\ \A x \in DOMAIN d \ {p} : a1.disk[x] = d[x]
      BY <3>1, <3>2 DEF Wrote
    <3>8. ASSUME NEW x \in S
          PROVE  /\ a1.disk[x] \in Node /\ a1.disk[x].bytes = d[x].bytes
                 /\ a1.disk[x].prev = d[x].prev
                 /\ a1.disk[x].next = IF x = p THEN n ELSE d[x].next
      BY <1>3, <3>3, <3>7
    <3>9. a1.disk[h] = d[h]
      BY <1>3, <3>1, <3>7
    <3> QED
      BY <3>6, <3>7, <3>8, <3>9
  <2> QED
    BY <2>2, <2>3
<1> HIDE DEF a1
<1>7. /\ Working(op, a2, h, S) /\ DOMAIN a2.disk = DOMAIN d /\ a2.disk[h] = d[h]
      /\ \A x \in S : /\ a2.disk[x] \in Node /\ a2.disk[x].bytes = d[x].bytes
                      /\ a2.disk[x].prev = IF x = n THEN p ELSE d[x].prev
                      /\ a2.disk[x].next = IF x = p THEN n ELSE d[x].next
  <2>1. CASE n = None
    <3>1. a2 = a1 /\ \A x \in S : x # n
      BY <1>4, <2>1
    <3> HIDE DEF a2
    <3> QED
      BY <1>6, <3>1
  <2>2. CASE n # None
    <3> DEFINE new == [a1.disk[n] EXCEPT !.prev = p]
    <3>1. n \in S /\ n \in DOMAIN d /\ a2 = SetPrev(a1, n, p) /\ n # p
      BY <1>3, <1>4, <2>2
    <3>2. Wrote(a1, a2, n, new)
      <4>1. a1 \in Op /\ a1.ok
        BY <1>6 DEF Working
      <4> QED
        BY <1>4, <1>6, <2>2, <3>1, <4>1, PrevSet
    <3>3. /\ new \in Node /\ new.bytes = d[n].bytes /\ new.prev = p /\ new.next = d[n].next
      <4>1. a1.disk[n] \in Node /\ a1.disk[n].bytes = d[n].bytes /\ a1.disk[n].next = d[n].next
        BY <1>6, <3>1
      <4> QED
        BY <1>4, <4>1 DEF Node
    <3> HIDE DEF new, a2
    <3>5. MayWrite(d, h, S, n, new)
      BY <1>3, <1>5, <3>1, <3>3 DEF MayWrite
    <3>6. Working(op, a2, h, S)
      BY <1>6, <3>2, <3>5, WorkGoesOn
    <3>7. /\ DOMAIN a2.disk = DOMAIN d /\ a2.disk[n] = new
          /\ \A x \in DOMAIN d \ {n} : a2.disk[x] = a1.disk[x]
      BY <1>6, <3>1, <3>2 DEF Wrote
    <3>8. ASSUME NEW x \in S
          PROVE  /\ a2.disk[x] \in Node /\ a2.disk[x].bytes = d[x].bytes
                 /\ a2.disk[x].prev = (IF x = n THEN p ELSE d[x].prev)
                 /\ a2.disk[x].next = IF x = p THEN n ELSE d[x].next
      <4>1. CASE x = n
        BY <3>1, <3>3, <3>7, <4>1
      <4>2. CASE x # n
        <5>1. a2.disk[x] = a1.disk[x]
          BY <1>3, <3>7, <4>2
        <5> QED
          BY <1>6, <4>2, <5>1
      <4> QED
        BY <4>1, <4>2
    <3>9. a2.disk[h] = d[h]
      BY <1>3, <1>6, <3>1, <3>7
    <3> QED
      BY <3>6, <3>7, <3>8, <3>9
  <2> QED
    BY <2>1, <2>2
<1> HIDE DEF a2
<1>8. /\ head.next = (IF p = None THEN n ELSE d[h].next)
      /\ head.prev = (IF n = None THEN p ELSE d[h].prev)
      /\ head.bytes = d[h].bytes - d[o].bytes
  OBVIOUS
<1> HIDE DEF head
<1>9. Wrote(a2, r, h, head)
  BY <1>2, <1>3, <1>7, Written DEF Working
<1> HIDE DEF r
<1>10. Working(op, r, h, S)
  <2>1. MayWrite(d, h, S, h, head)
    BY <1>2, <1>4, <1>8 DEF MayWrite
  <2> QED
    BY <1>7, <1>9, <2>1, WorkGoesOn
<1>11. /\ DOMAIN r.disk = DOMAIN d /\ r.disk[h] = head
       /\ \A x \in S : r.disk[x] = a2.disk[x]
  BY <1>3, <1>7, <1>9 DEF Wrote
<1>12. Links(r.disk, h, S \ {o})
  <2>1. Unlinked(d, r.disk, h, S, o)
    BY <1>2, <1>7, <1>8, <1>11 DEF Unlinked
  <2> QED
    BY <1>1, <2>1, UnlinkedLinks
<1>13. r.disk[h].bytes = SumOf(r.disk, S \ {o})
  <2>1. Sized(d, S) /\ Sized(d, S \ {o})
    BY <1>1, ListSized, FS_Subset DEF Sized
  <2>2. SumOf(d, S) = d[o].bytes + SumOf(d, S \ {o})
    BY <2>1, SumSplits
  <2>3. SumOf(r.disk, S \ {o}) = SumOf(d, S \ {o})
    BY <1>7, <1>11, <2>1, SumSame
  <2>4. d[o].bytes \in Nat /\ SumOf(d, S \ {o}) \in Nat
    BY <1>3, <2>1, SumIsNat DEF Node
  <2> QED
    BY <1>1, <1>8, <1>11, <2>2, <2>3, <2>4
<1> QED
  BY <1>10, <1>12, <1>13 DEF List, r

\* The writes that link the node o between p and n.
Linking(op, h, o, bytes, p, n) ==
    LET head == op.disk[h]
        a1 == Write(op, o, [bytes |-> bytes, prev |-> p, next |-> n])
        a2 == IF n = None THEN a1 ELSE SetPrev(a1, n, o)
        a3 == IF p = None THEN a2 ELSE SetNext(a2, p, o)
    IN Write(a3, h, [bytes |-> head.bytes + bytes,
                     prev |-> IF n = None THEN o ELSE head.prev,
                     next |-> IF p = None THEN o ELSE head.next])

\* All files since op have a node o with so many bytes.
Given(op, a, o, bytes) ==
    a.disk[o].bytes = bytes /\ \A f \in a.past : f \in op.past \/ f.disk[o].bytes = bytes

LEMMA StillGiven ==
    ASSUME NEW op, NEW a, NEW o, NEW bytes, Given(op, a, o, bytes), o \in DOMAIN a.disk,
           NEW r, NEW x, NEW n, Wrote(a, r, x, n), x = o => n.bytes = bytes
    PROVE  Given(op, r, o, bytes)
<1>1. r.disk[o].bytes = bytes
  BY DEF Wrote, Given
<1>2. \A f \in r.past : f \in a.past \/ f.disk = r.disk
  BY DEF Wrote, FileOf
<1> QED
  BY <1>1, <1>2 DEF Given

LEMMA LinkingSound ==
    ASSUME NEW op \in Op, op.ok, NEW h, NEW S, List(op.disk, h, S),
           NEW o \in Nat, o \notin S, h < o, NEW bytes \in Nat,
           o \in DOMAIN op.disk => op.disk[o].bytes = bytes,
           NEW p, IsLast(p, Under(S, o)), NEW n, IsFirst(n, Over(S, o))
    PROVE  /\ Working(op, Linking(op, h, o, bytes, p, n), h, S \cup {o})
           /\ List(Linking(op, h, o, bytes, p, n).disk, h, S \cup {o})
           /\ Given(op, Linking(op, h, o, bytes, p, n), o, bytes)
<1> DEFINE d == op.disk
           R == S \cup {o}
           r == Linking(op, h, o, bytes, p, n)
           node == [bytes |-> bytes, prev |-> p, next |-> n]
           head == [bytes |-> d[h].bytes + bytes,
                    prev |-> IF n = None THEN o ELSE d[h].prev,
                    next |-> IF p = None THEN o ELSE d[h].next]
           a1 == Write(op, o, node)
           a2 == IF n = None THEN a1 ELSE SetPrev(a1, n, o)
           a3 == IF p = None THEN a2 ELSE SetNext(a2, p, o)
<1>1. Links(d, h, S) /\ d[h].bytes = SumOf(d, S)
  BY DEF List
<1>2. r = Write(a3, h, head)
  BY Zenon DEF Linking
<1>3. /\ h \in Nat /\ h \in DOMAIN d /\ h \notin S /\ S \subseteq DOMAIN d /\ S \subseteq Nat \ {0}
      /\ d[h] \in Node /\ (\A x \in S : d[x] \in Node) /\ o # h /\ h \notin R
  BY <1>1 DEF Links
<1>4. /\ p \in S \cup {None} /\ n \in S \cup {None} /\ p \in Nat /\ n \in Nat
      /\ (p # None => p < o) /\ (n # None => n > o) /\ None \notin S /\ o # None
  BY <1>3 DEF IsLast, IsFirst, Under, Over, None
<1>5. /\ (\A x \in S : d[x].next = None \/ (d[x].next \in S /\ d[x].next > x))
      /\ d[h].next \in S \cup {None}
  BY <1>1, LinksOrder, LinksChain DEF Chain
<1>6. node \in Node /\ head \in Node
  BY <1>3, <1>4 DEF Node
<1>7. /\ node.bytes = bytes /\ node.prev = p /\ node.next = n
      /\ head.bytes = d[h].bytes + bytes
      /\ head.prev = (IF n = None THEN o ELSE d[h].prev)
      /\ head.next = (IF p = None THEN o ELSE d[h].next)
  OBVIOUS
<1> HIDE DEF node, head
<1>8. Wrote(op, a1, o, node)
  BY <1>6, Written
<1> HIDE DEF a1
<1>9. Working(op, a1, h, R) /\ Given(op, a1, o, bytes)
  <2>1. MayWrite(d, h, R, o, node)
    BY <1>3, <1>4, <1>6, <1>7 DEF MayWrite
  <2>2. Working(op, a1, h, R)
    BY <1>1, <1>3, <1>8, <2>1, WorkBeginsWith
  <2>3. a1.disk[o].bytes = bytes /\ \A f \in a1.past : f \in op.past \/ f.disk = a1.disk
    BY <1>7, <1>8 DEF Wrote, FileOf
  <2> QED
    BY <2>2, <2>3 DEF Given
<1>10. /\ DOMAIN a1.disk = DOMAIN d \cup R /\ a1.disk[o] = node
       /\ \A x \in DOMAIN d \ {o} : a1.disk[x] = d[x]
  BY <1>3, <1>8 DEF Wrote
<1>11. /\ Working(op, a2, h, R) /\ Given(op, a2, o, bytes)
       /\ DOMAIN a2.disk = DOMAIN d \cup R /\ a2.disk[o] = node /\ a2.disk[h] = d[h]
       /\ \A x \in S : /\ a2.disk[x] \in Node /\ a2.disk[x].bytes = d[x].bytes
                       /\ a2.disk[x].prev = IF x = n THEN o ELSE d[x].prev
                       /\ a2.disk[x].next = d[x].next
  <2>1. CASE n = None
    <3>1. a2 = a1 /\ \A x \in S : x # n
      BY <1>4, <2>1
    <3> HIDE DEF a2
    <3> QED
      BY <1>3, <1>9, <1>10, <3>1
  <2>2. CASE n # None
    <3> DEFINE new == [a1.disk[n] EXCEPT !.prev = o]
    <3>1. n \in S /\ n \in DOMAIN d /\ a2 = SetPrev(a1, n, o) /\ n # o /\ n # h
      BY <1>3, <1>4, <2>2
    <3>2. Wrote(a1, a2, n, new)
      <4>1. a1 \in Op /\ a1.ok
        BY <1>9 DEF Working
      <4> QED
        BY <1>10, <2>2, <3>1, <4>1, PrevSet
    <3>3. /\ new \in Node /\ new.bytes = d[n].bytes /\ new.prev = o /\ new.next = d[n].next
      <4>1. a1.disk[n] = d[n] /\ d[n] \in Node
        BY <1>3, <1>10, <3>1
      <4> QED
        BY <4>1 DEF Node
    <3> HIDE DEF new, a2
    <3>5. MayWrite(d, h, R, n, new)
      BY <1>3, <1>5, <3>1, <3>3 DEF MayWrite
    <3>6. Working(op, a2, h, R) /\ Given(op, a2, o, bytes)
      BY <1>9, <1>10, <3>1, <3>2, <3>5, WorkGoesOn, StillGiven
    <3>7. /\ DOMAIN a2.disk = DOMAIN d \cup R /\ a2.disk[n] = new
          /\ \A x \in (DOMAIN d \cup R) \ {n} : a2.disk[x] = a1.disk[x]
      BY <1>10, <3>1, <3>2 DEF Wrote
    <3>8. ASSUME NEW x \in S
          PROVE  /\ a2.disk[x] \in Node /\ a2.disk[x].bytes = d[x].bytes
                 /\ a2.disk[x].prev = (IF x = n THEN o ELSE d[x].prev)
                 /\ a2.disk[x].next = d[x].next
      <4>1. CASE x = n
        BY <3>1, <3>3, <3>7, <4>1
      <4>2. CASE x # n
        <5>1. a2.disk[x] = d[x]
          BY <1>3, <1>10, <3>7, <4>2
        <5> QED
          BY <1>3, <4>2, <5>1
      <4> QED
        BY <4>1, <4>2
    <3>9. a2.disk[h] = d[h] /\ a2.disk[o] = node
      BY <1>3, <1>10, <3>1, <3>7
    <3> QED
      BY <3>6, <3>7, <3>8, <3>9
  <2> QED
    BY <2>1, <2>2
<1> HIDE DEF a2
<1>12. /\ Working(op, a3, h, R) /\ Given(op, a3, o, bytes)
       /\ DOMAIN a3.disk = DOMAIN d \cup R /\ a3.disk[o] = node /\ a3.disk[h] = d[h]
       /\ \A x \in S : /\ a3.disk[x] \in Node /\ a3.disk[x].bytes = d[x].bytes
                       /\ a3.disk[x].prev = (IF x = n THEN o ELSE d[x].prev)
                       /\ a3.disk[x].next = IF x = p THEN o ELSE d[x].next
  <2>1. CASE p = None
    <3>1. a3 = a2 /\ \A x \in S : x # p
      BY <1>4, <2>1
    <3> HIDE DEF a3
    <3> QED
      BY <1>11, <3>1
  <2>2. CASE p # None
    <3> DEFINE new == [a2.disk[p] EXCEPT !.next = o]
    <3>1. p \in S /\ p \in DOMAIN d /\ a3 = SetNext(a2, p, o) /\ p # o /\ p # h /\ p # n
      BY <1>3, <1>4, <2>2
    <3>2. Wrote(a2, a3, p, new)
      <4>1. a2 \in Op /\ a2.ok
        BY <1>11 DEF Working
      <4> QED
        BY <1>11, <3>1, <4>1, NextSet
    <3>3. /\ new \in Node /\ new.bytes = d[p].bytes /\ new.prev = d[p].prev /\ new.next = o
      <4>1. a2.disk[p] \in Node /\ a2.disk[p].bytes = d[p].bytes /\ a2.disk[p].prev = d[p].prev
        BY <1>11, <3>1
      <4> QED
        BY <4>1 DEF Node
    <3> HIDE DEF new, a3
    <3>4. p < o
      BY <1>4, <2>2
    <3>5. MayWrite(d, h, R, p, new)
      BY <1>3, <3>1, <3>3, <3>4 DEF MayWrite
    <3>6. Working(op, a3, h, R) /\ Given(op, a3, o, bytes)
      BY <1>11, <3>1, <3>2, <3>5, WorkGoesOn, StillGiven
    <3>7. /\ DOMAIN a3.disk = DOMAIN d \cup R /\ a3.disk[p] = new
          /\ \A x \in (DOMAIN d \cup R) \ {p} : a3.disk[x] = a2.disk[x]
      BY <1>11, <3>1, <3>2 DEF Wrote
    <3>8. ASSUME NEW x \in S
          PROVE  /\ a3.disk[x] \in Node /\ a3.disk[x].bytes = d[x].bytes
                 /\ a3.disk[x].prev = (IF x = n THEN o ELSE d[x].prev)
                 /\ a3.disk[x].next = IF x = p THEN o ELSE d[x].next
      <4>1. CASE x = p
        BY <3>1, <3>3, <3>7, <4>1
      <4>2. CASE x # p
        <5>1. a3.disk[x] = a2.disk[x]
          BY <1>3, <3>7, <4>2
        <5> QED
          BY <1>11, <4>2, <5>1
      <4> QED
        BY <4>1, <4>2
    <3>9. a3.disk[h] = d[h] /\ a3.disk[o] = node
      BY <1>3, <1>11, <3>1, <3>7
    <3> QED
      BY <3>6, <3>7, <3>8, <3>9
  <2> QED
    BY <2>1, <2>2
<1> HIDE DEF a3
<1>13. Wrote(a3, r, h, head)
  BY <1>2, <1>3, <1>6, <1>12, Written DEF Working
<1> HIDE DEF r
<1>14. Working(op, r, h, R) /\ Given(op, r, o, bytes)
  <2>1. MayWrite(d, h, R, h, head)
    BY <1>5, <1>6, <1>7 DEF MayWrite
  <2> QED
    BY <1>3, <1>12, <1>13, <2>1, WorkGoesOn, StillGiven
<1>15. /\ DOMAIN r.disk = DOMAIN d \cup R /\ r.disk[h] = head
       /\ \A x \in R : r.disk[x] = a3.disk[x]
  BY <1>3, <1>12, <1>13 DEF Wrote
<1>16. Links(r.disk, h, R)
  <2>1. Linked(d, r.disk, h, S, o, p, n)
    BY <1>6, <1>7, <1>12, <1>15 DEF Linked
  <2> QED
    BY <1>1, <2>1, LinkedLinks
<1>17. r.disk[h].bytes = SumOf(r.disk, R)
  <2>1. Sized(r.disk, R) /\ Sized(d, S)
    BY <1>1, <1>16, ListSized
  <2>2. SumOf(r.disk, R) = r.disk[o].bytes + SumOf(r.disk, R \ {o})
    BY <2>1, SumSplits
  <2>3. R \ {o} = S
    OBVIOUS
  <2>4. SumOf(r.disk, S) = SumOf(d, S)
    BY <1>12, <1>15, <2>1, SumSame
  <2>5. SumOf(d, S) \in Nat /\ r.disk[o].bytes = bytes
    BY <1>7, <1>12, <1>15, <2>1, SumIsNat
  <2> QED
    <3>1. SumOf(r.disk, R) = bytes + SumOf(d, S)
      BY <2>2, <2>3, <2>4, <2>5, Zenon
    <3>2. r.disk[h].bytes = SumOf(d, S) + bytes
      BY <1>1, <1>7, <1>15, Zenon
    <3> QED
      BY <2>5, <3>1, <3>2
<1> QED
  BY <1>14, <1>16, <1>17 DEF List, r

\* A head with more bytes, and another first or last node.
WithFirst(n, b, x) == [n EXCEPT !.bytes = @ + b, !.next = x]

WithLast(n, b, x, p) == [n EXCEPT !.bytes = @ + b, !.prev = IF @ = p THEN x ELSE @]

LEMMA FirstChanges ==
    ASSUME NEW n \in Node, NEW b \in Nat, NEW x \in Nat
    PROVE  /\ WithFirst(n, b, x) \in Node /\ WithFirst(n, b, x).bytes = n.bytes + b
           /\ WithFirst(n, b, x).prev = n.prev /\ WithFirst(n, b, x).next = x
<1>1. n.bytes + b \in Nat
  BY DEF Node
<1> QED
  BY <1>1 DEF Node, WithFirst

LEMMA LastChanges ==
    ASSUME NEW n \in Node, NEW b \in Nat, NEW x \in Nat, NEW p
    PROVE  /\ WithLast(n, b, x, p) \in Node /\ WithLast(n, b, x, p).bytes = n.bytes + b
           /\ WithLast(n, b, x, p).prev = (IF n.prev = p THEN x ELSE n.prev)
           /\ WithLast(n, b, x, p).next = n.next
<1>1. n.bytes + b \in Nat /\ n.prev \in Nat
  BY DEF Node
<1> QED
  BY <1>1 DEF Node, WithLast

\* insert_node: the list is with the node, the sum with its bytes.
LEMMA InsertSound ==
    ASSUME NEW op \in Op, op.ok, NEW top, Ascending(op.disk, top),
           NEW h, NEW S, List(op.disk, h, S),
           NEW o \in Nat, o \notin S, h < o, NEW bytes \in Nat,
           o \in DOMAIN op.disk => op.disk[o].bytes = bytes
    PROVE  /\ Working(op, InsertNode(op, h, o, bytes), h, S \cup {o})
           /\ List(InsertNode(op, h, o, bytes).disk, h, S \cup {o})
           /\ Given(op, InsertNode(op, h, o, bytes), o, bytes)
<1> DEFINE d == op.disk
           first == d[h].next
           r == InsertNode(op, h, o, bytes)
<1>1. Links(d, h, S)
  BY DEF List
<1>2. /\ IsFirst(first, S) /\ IsLast(d[h].prev, S) /\ S \subseteq Nat \ {0} /\ o \in Nat
      /\ d[h] \in Node /\ h \in DOMAIN d
  BY <1>1 DEF Links
<1>3. SUFFICES \E p, n : /\ IsLast(p, Under(S, o)) /\ IsFirst(n, Over(S, o))
                         /\ r = Linking(op, h, o, bytes, p, n)
  <2>1. PICK p, n : /\ IsLast(p, Under(S, o)) /\ IsFirst(n, Over(S, o))
                    /\ r = Linking(op, h, o, bytes, p, n)
    BY <1>3
  <2> HIDE DEF r
  <2> QED
    BY <2>1, LinkingSound DEF r
<1>4. CASE first = None
  <2>1. S = {}
    BY <1>2, <1>4 DEF IsFirst, None
  <2>2. IsLast(None, Under(S, o)) /\ IsFirst(None, Over(S, o))
    BY <2>1 DEF IsLast, IsFirst, Under, Over
  <2>3. r = Linking(op, h, o, bytes, None, None)
    BY <1>4, Zenon DEF InsertNode, Linking
  <2> QED
    BY <2>2, <2>3
<1>5. CASE first # None /\ o < first
  <2>1. first \in S /\ \A x \in S : first <= x
    BY <1>2, <1>5 DEF IsFirst
  <2>2. \A x \in S : x > o
    <3>1. \A x \in S : x \in Nat /\ first \in Nat /\ o < first /\ first <= x
      BY <1>2, <1>5, <2>1
    <3> QED
      BY <3>1
  <2>3. Under(S, o) = {} /\ Over(S, o) = S
    BY <1>2, <2>2 DEF Under, Over
  <2>4. IsLast(None, Under(S, o)) /\ IsFirst(first, Over(S, o))
    BY <1>2, <2>3 DEF IsLast
  <2> DEFINE a == SetPrev(Write(op, o, [bytes |-> bytes, prev |-> None, next |-> first]), first, o)
             head == WithFirst(d[h], bytes, o)
             new == [bytes |-> d[h].bytes + bytes, prev |-> d[h].prev, next |-> o]
  <2>5. head = new
    <3>1. new \in Node /\ new.bytes = d[h].bytes + bytes /\ new.prev = d[h].prev /\ new.next = o
      BY <1>2 DEF Node
    <3>2. head \in Node /\ head.bytes = d[h].bytes + bytes /\ head.prev = d[h].prev /\ head.next = o
      <4>1. d[h] \in Node /\ bytes \in Nat /\ o \in Nat
        BY <1>2
      <4> HIDE DEF d
      <4> QED
        BY <4>1, FirstChanges
    <3> HIDE DEF head, new
    <3> QED
      BY <3>1, <3>2, SameNode
  <2>6. r = Write(a, h, head)
    <3>1. ~(o >= first)
      <4>1. first \in Nat /\ o < first
        BY <1>2, <1>5, <2>1
      <4> QED
        BY <4>1
    <3> QED
      BY <1>5, <3>1, Zenon DEF InsertNode, WithFirst
  <2>7. Linking(op, h, o, bytes, None, first) = Write(a, h, new)
    BY <1>5, Zenon DEF Linking
  <2> QED
    BY <2>4, <2>5, <2>6, <2>7, Zenon
<1>6. CASE first # None /\ ~(o < first)
  <2> DEFINE p == Place(d, h, o)
             n == d[p].next
  <2>1. IsLast(p, Under(S, o)) /\ p \in S /\ p < o
    BY <1>1, <1>6, PlaceIs
  <2>2. p \in Nat /\ p # None /\ IsFirst(n, Over(S, p)) /\ (n = None <=> d[h].prev = p)
    <3>1. p \in Nat /\ p # None
      BY <1>2, <2>1 DEF None
    <3>2. IsFirst(n, Over(S, p))
      BY <1>1, <2>1 DEF Links
    <3>3. n = None <=> d[h].prev = p
      BY <1>1, <2>1, LinksOrder
    <3> QED
      BY <3>1, <3>2, <3>3
  <2>3. Over(S, p) = Over(S, o)
    <3>1. \A x \in S : x \in Nat /\ x # o /\ (x < o => x <= p)
      BY <1>2, <2>1 DEF IsLast, Under
    <3>2. \A x \in S : x > p <=> x > o
      BY <1>2, <2>1, <2>2, <3>1
    <3> QED
      BY <3>2 DEF Over
  <2>4. IsFirst(n, Over(S, o))
    BY <2>2, <2>3
  <2> DEFINE a1 == Write(op, o, [bytes |-> bytes, prev |-> p, next |-> n])
             a == SetNext(SetPrev(a1, n, o), p, o)
             head == WithLast(d[h], bytes, o, p)
             new == [bytes |-> d[h].bytes + bytes,
                     prev |-> IF n = None THEN o ELSE d[h].prev, next |-> d[h].next]
  <2>5. head = new
    <3>1. new \in Node /\ new.bytes = d[h].bytes + bytes /\ new.next = d[h].next
          /\ new.prev = IF n = None THEN o ELSE d[h].prev
      BY <1>2 DEF Node
    <3>2. head \in Node /\ head.bytes = d[h].bytes + bytes /\ head.next = d[h].next
          /\ head.prev = IF d[h].prev = p THEN o ELSE d[h].prev
      BY <1>2, LastChanges
    <3>3. new.prev = head.prev
      BY <2>2, <3>1, <3>2
    <3> HIDE DEF head, new
    <3> QED
      BY <3>1, <3>2, <3>3, SameNode
  <2>6. r = Write(a, h, head)
    <3>1. first # None /\ o >= first /\ ~(o < first)
      <4>1. first \in Nat
        BY <1>2, <1>6 DEF IsFirst, None
      <4> QED
        BY <1>6, <4>1
    <3> QED
      BY <3>1, Zenon DEF InsertNode, WithLast
  <2>7. Linking(op, h, o, bytes, p, n) = Write(a, h, new)
    <3>1. SetPrev(a1, n, o) = IF n = None THEN a1 ELSE SetPrev(a1, n, o)
      BY Zenon DEF SetPrev
    <3> QED
      BY <2>2, <3>1, Zenon DEF Linking
  <2> QED
    BY <2>1, <2>4, <2>5, <2>6, <2>7, Zenon
<1> QED
  BY <1>4, <1>5, <1>6

-----------------------------------------------------------------------------
(* Files in which no two blocks share a byte.                              *)

ApartIn(d, a, b) == End(d, a) <= b \/ End(d, b) <= a

AllApart(d, N) == \A a, b \in N : a # b => ApartIn(d, a, b)

\* Whatever the lists of the file lead to is apart from what callers own.
Safe(d, own) == \E top, U, A :
    /\ Ascending(d, top) /\ Chain(d, Used, U) /\ Chain(d, Avail, A)
    /\ own \subseteq DOMAIN d /\ U \cap A = {} /\ own \cap A = {}
    /\ AllApart(d, own \cup U \cup A)

AllSafe(op, own) == \A f \in op.past : Safe(f.disk, own)

LEMMA Heads ==
    /\ Used \in Nat \ {0} /\ Avail \in Nat \ {0} /\ First \in Nat \ {0}
    /\ Used < Avail /\ Avail < First /\ Used < First /\ NodeSize \in Nat \ {0}
BY SizeAssumption DEF Used, Avail, First

LEMMA BetweenAscends ==
    ASSUME NEW d, NEW top, Ascending(d, top), NEW h, NEW S, NEW e, Between(d, e, h, S),
           S \subseteq 1 .. top, \A x \in S : h < x
    PROVE  Ascending(e, top)
<1>1. DOMAIN e = DOMAIN d \cup S /\ h \in DOMAIN d /\ h \notin S
  BY DEF Between, Ascending
<1>2. ASSUME NEW x \in DOMAIN e
      PROVE  e[x].next = None \/ (e[x].next \in DOMAIN e /\ e[x].next > x)
  <2>1. CASE x \in S
    BY <1>1, <2>1 DEF Between
  <2>2. CASE x = h
    <3>1. e[h].next \in S \cup {None}
      BY DEF Between
    <3>2. \A n \in S : n > h
      <4>1. h \in Nat /\ S \subseteq Nat
        BY <1>1 DEF Ascending
      <4> QED
        BY <4>1
    <3> QED
      BY <1>1, <2>2, <3>1, <3>2
  <2>3. CASE x \notin S \cup {h}
    <3>1. x \in DOMAIN d /\ e[x] = d[x]
      BY <1>1, <2>3 DEF Between
    <3> QED
      BY <1>1, <3>1 DEF Ascending
  <2> QED
    BY <2>1, <2>2, <2>3
<1>3. top \in Nat /\ DOMAIN e \subseteq 1 .. top
  BY <1>1 DEF Ascending
<1> QED
  BY <1>2, <1>3 DEF Ascending

LEMMA BetweenChains ==
    ASSUME NEW d, NEW h, NEW S, NEW e, Between(d, e, h, S),
           NEW g, NEW T, Chain(d, g, T), g # h, g \notin S, S \cap T = {}, h \notin T
    PROVE  Chain(e, h, S) /\ Chain(e, g, T)
<1>1. Chain(e, h, S)
  BY DEF Between, Chain
<1>2. /\ \A x \in T \cup {g} : x \in DOMAIN d \ (S \cup {h})
      /\ DOMAIN d \subseteq DOMAIN e
  BY DEF Between, Chain
<1>3. \A x \in T \cup {g} : e[x] = d[x]
  BY <1>2 DEF Between
<1>4. Chain(e, g, T)
  BY <1>2, <1>3 DEF Chain
<1> QED
  BY <1>1, <1>4

\* While one list changes, the file is safe.
LEMMA BetweenSafe ==
    ASSUME NEW d, NEW top, Ascending(d, top), NEW U, NEW A, U \cap A = {},
           {Used, Avail} \cap (U \cup A) = {},
           NEW e,
           \/ Between(d, e, Used, U) /\ Chain(d, Avail, A) /\ U \subseteq 1 .. top
              /\ \A x \in U : Used < x
           \/ Between(d, e, Avail, A) /\ Chain(d, Used, U) /\ A \subseteq 1 .. top
              /\ \A x \in A : Avail < x,
           NEW own, own \subseteq DOMAIN e, own \cap A = {},
           AllApart(e, own \cup U \cup A)
    PROVE  Safe(e, own)
<1>1. Used # Avail
  BY Heads
<1>2. Ascending(e, top) /\ Chain(e, Used, U) /\ Chain(e, Avail, A)
  <2>1. CASE Between(d, e, Used, U) /\ Chain(d, Avail, A) /\ U \subseteq 1 .. top
              /\ \A x \in U : Used < x
    <3>1. Ascending(e, top)
      BY <2>1, BetweenAscends
    <3>2. Avail \notin U /\ U \cap A = {} /\ Used \notin A
      OBVIOUS
    <3>3. Chain(e, Used, U) /\ Chain(e, Avail, A)
      BY <1>1, <2>1, <3>2, BetweenChains
    <3> QED
      BY <3>1, <3>3
  <2>2. CASE Between(d, e, Avail, A) /\ Chain(d, Used, U) /\ A \subseteq 1 .. top
              /\ \A x \in A : Avail < x
    <3>1. Ascending(e, top)
      BY <2>2, BetweenAscends
    <3>2. Used \notin A /\ A \cap U = {} /\ Avail \notin U
      OBVIOUS
    <3>3. Chain(e, Used, U) /\ Chain(e, Avail, A)
      BY <1>1, <2>2, <3>2, BetweenChains
    <3> QED
      BY <3>1, <3>3
  <2> QED
    BY <2>1, <2>2
<1> QED
  BY <1>2 DEF Safe

LEMMA ApartSame ==
    ASSUME NEW d, NEW e, NEW N, AllApart(d, N), \A x \in N : e[x].bytes = d[x].bytes
    PROVE  AllApart(e, N)
BY DEF AllApart, ApartIn, End

-----------------------------------------------------------------------------
(* The nodes of a file between operations.                                 *)

\* The nodes of N tile the file from the first to its end.
Tiled(d, N, top) ==
    /\ \A o \in N : o >= First /\ End(d, o) <= top
    /\ AllApart(d, N)
    /\ N \cup {top} = {First} \cup {End(d, o) : o \in N}

\* The lists of a file have the nodes of U and of A, and no list those of X.
Kept(d, top, U, A, X) ==
    /\ d \in Disk /\ top \in Nat
    /\ DOMAIN d = {Used, Avail} \cup U \cup A \cup X
    /\ U \cap A = {} /\ X \cap (U \cup A) = {} /\ {Used, Avail} \cap (U \cup A \cup X) = {}
    /\ List(d, Used, U) /\ List(d, Avail, A)
    /\ Ascending(d, top)

LEMMA ListSame ==
    ASSUME NEW d, NEW h, NEW S, List(d, h, S), NEW e, \A x \in S \cup {h} : e[x] = d[x],
           S \cup {h} \subseteq DOMAIN e
    PROVE  List(e, h, S)
<1>1. Sized(d, S) /\ Links(d, h, S)
  BY ListSized DEF List
<1>2. SumOf(e, S) = SumOf(d, S)
  BY <1>1, SumSame
<1>3. h \notin S
  BY <1>1 DEF Links
<1>4. Links(e, h, S)
  BY <1>1, <1>3 DEF Links
<1> QED
  BY <1>2, <1>4 DEF List

\* One of the two lists has the nodes of S, and the other those of T.
Sides(h, S, U, A) == (h = Used /\ S = U) \/ (h = Avail /\ S = A)

Other(h) == IF h = Used THEN Avail ELSE Used

\* What makes the work on one list safe: the other chain, and the blocks.
SafeWork(op, r, h, S, top, U, A, own) ==
    /\ Working(op, r, h, S) /\ Ascending(op.disk, top)
    /\ U \cap A = {} /\ {Used, Avail} \cap (U \cup A) = {}
    /\ Sides(h, S, U, A) /\ Chain(op.disk, Other(h), IF h = Used THEN A ELSE U)
    /\ \A x \in S : x \in Nat /\ h < x /\ x <= top
    /\ own \subseteq DOMAIN op.disk \ {Used, Avail} /\ own \cap A = {}
    /\ AllSafe(op, own) /\ AllApart(r.disk, own \cup U \cup A)
    /\ \A x \in S \ DOMAIN op.disk : Given(op, r, x, r.disk[x].bytes)

LEMMA WorkSafe ==
    ASSUME NEW op, NEW r, NEW h, NEW S, NEW top, NEW U, NEW A, NEW own,
           SafeWork(op, r, h, S, top, U, A, own)
    PROVE  AllSafe(r, own)
<1> USE DEF SafeWork
<1> SUFFICES ASSUME NEW f \in r.past PROVE Safe(f.disk, own)
  BY DEF AllSafe
<1>1. CASE f \in op.past
  BY <1>1 DEF AllSafe
<1>2. CASE f \notin op.past
  <2>1. Between(op.disk, f.disk, h, S) /\ Between(op.disk, r.disk, h, S)
    BY <1>2 DEF Working, Meanwhile
  <2>2. Used # Avail /\ Used \in Nat \ {0} /\ Avail \in Nat \ {0}
    BY Heads
  <2>3. \A x \in own \cup U \cup A : f.disk[x].bytes = r.disk[x].bytes
    <3>1. ASSUME NEW x \in S PROVE f.disk[x].bytes = r.disk[x].bytes
      <4>1. CASE x \in DOMAIN op.disk
        BY <2>1, <4>1 DEF Between
      <4>2. CASE x \notin DOMAIN op.disk
        BY <1>2, <4>2 DEF Given
      <4> QED
        BY <4>1, <4>2
    <3>2. ASSUME NEW x \in DOMAIN op.disk \ {Used, Avail}, x \notin S
          PROVE  f.disk[x].bytes = r.disk[x].bytes
      <4>1. x \notin S \cup {h}
        BY <3>2 DEF Sides
      <4> QED
        BY <2>1, <3>2, <4>1 DEF Between
    <3>3. \A x \in own \cup U \cup A : x \in S \/ x \in DOMAIN op.disk \ {Used, Avail}
      <4>1. CASE h = Used
        BY <2>2, <4>1 DEF Sides, Chain, Other
      <4>2. CASE h = Avail
        BY <2>2, <4>2 DEF Sides, Chain, Other
      <4> QED
        BY <4>1, <4>2 DEF Sides
    <3> QED
      BY <3>1, <3>2, <3>3
  <2>4. AllApart(f.disk, own \cup U \cup A)
    BY <2>3, ApartSame
  <2>5. own \subseteq DOMAIN f.disk
    BY <2>1 DEF Between
  <2>6. S \subseteq 1 .. top
    BY <2>2 DEF Sides, Ascending
  <2>7. CASE h = Used
    <3>1. S = U /\ Chain(op.disk, Avail, A)
      BY <2>2, <2>7 DEF Sides, Other
    <3> QED
      BY <2>1, <2>4, <2>5, <2>6, <2>7, <3>1, BetweenSafe
  <2>8. CASE h = Avail
    <3>1. S = A /\ Chain(op.disk, Used, U)
      BY <2>2, <2>8 DEF Sides, Other
    <3> QED
      BY <2>1, <2>4, <2>5, <2>6, <2>8, <3>1, BetweenSafe
  <2> QED
    BY <2>7, <2>8 DEF Sides
<1> QED
  BY <1>1, <1>2

\* A list changes between operations on it; what is elsewhere stays.
LEMMA WorkKept ==
    ASSUME NEW op, NEW r, NEW h, NEW S, Working(op, r, h, S), NEW T, List(r.disk, h, T), T \subseteq S,
           NEW U, NEW A, NEW X, Kept(op.disk, op.size, U, A, X),
           {Used, Avail} \cap S = {}, h \in {Used, Avail},
           \A x \in S : x \in Nat /\ h < x /\ x <= op.size,
           S \cap (IF h = Used THEN A ELSE U) = {}, (IF h = Used THEN U ELSE A) \subseteq S,
           NEW Y, Y = (X \cup S) \ T
    PROVE  /\ h = Used => Kept(r.disk, op.size, T, A, Y)
           /\ h = Avail => Kept(r.disk, op.size, U, T, Y)
<1>1. Used # Avail /\ Used \in Nat \ {0} /\ Avail \in Nat \ {0}
  BY Heads
<1>2. /\ Between(op.disk, r.disk, h, S) /\ r \in Op
      /\ DOMAIN r.disk = {Used, Avail} \cup U \cup A \cup X \cup S
  BY DEF Working, Between, Kept
<1>3. r.disk \in Disk /\ op.size \in Nat
  BY <1>2 DEF Op, Kept
<1>4. Ascending(r.disk, op.size)
  <2>1. S \subseteq 1 .. op.size
    BY <1>1, <1>3
  <2> QED
    BY <1>2, <2>1, BetweenAscends DEF Kept
<1>5. ASSUME h = Used PROVE Kept(r.disk, op.size, T, A, Y)
  <2>1. \A x \in A \cup {Avail} : x \in DOMAIN op.disk \ (S \cup {h})
    BY <1>1, <1>5 DEF Kept
  <2>2. List(r.disk, Avail, A)
    <3>1. \A x \in A \cup {Avail} : r.disk[x] = op.disk[x]
      BY <1>2, <2>1 DEF Between
    <3>2. A \cup {Avail} \subseteq DOMAIN r.disk
      BY <1>2
    <3>3. List(op.disk, Avail, A)
      BY DEF Kept
    <3> QED
      BY <3>1, <3>2, <3>3, ListSame
  <2>3. /\ {Used, Avail} \cup T \cup A \cup Y = {Used, Avail} \cup U \cup A \cup X \cup S
        /\ T \cap A = {} /\ Y \cap (T \cup A) = {} /\ {Used, Avail} \cap (T \cup A \cup Y) = {}
    BY <1>1, <1>5 DEF Kept
  <2> QED
    BY <1>2, <1>3, <1>4, <1>5, <2>2, <2>3 DEF Kept
<1>6. ASSUME h = Avail PROVE Kept(r.disk, op.size, U, T, Y)
  <2>1. \A x \in U \cup {Used} : x \in DOMAIN op.disk \ (S \cup {h})
    BY <1>1, <1>6 DEF Kept
  <2>2. List(r.disk, Used, U)
    <3>1. \A x \in U \cup {Used} : r.disk[x] = op.disk[x]
      BY <1>2, <2>1 DEF Between
    <3>2. U \cup {Used} \subseteq DOMAIN r.disk
      BY <1>2
    <3>3. List(op.disk, Used, U)
      BY DEF Kept
    <3> QED
      BY <3>1, <3>2, <3>3, ListSame
  <2>3. /\ {Used, Avail} \cup U \cup T \cup Y = {Used, Avail} \cup U \cup A \cup X \cup S
        /\ U \cap T = {} /\ Y \cap (U \cup T) = {} /\ {Used, Avail} \cap (U \cup T \cup Y) = {}
    BY <1>1, <1>6 DEF Kept
  <2> QED
    BY <1>2, <1>3, <1>4, <1>6, <2>2, <2>3 DEF Kept
<1> QED
  BY <1>5, <1>6

ListOf(h, U, A) == IF h = Used THEN U ELSE A

LEMMA KeptList ==
    ASSUME NEW d, NEW top, NEW U, NEW A, NEW X, Kept(d, top, U, A, X), NEW h \in {Used, Avail}
    PROVE  /\ List(d, h, ListOf(h, U, A)) /\ Links(d, h, ListOf(h, U, A))
           /\ Chain(d, Other(h), ListOf(Other(h), U, A))
           /\ \A x \in U \cup A \cup X : x \in Nat /\ x <= top /\ x \notin {Used, Avail}
           /\ \A x \in ListOf(h, U, A) : x \in Nat /\ h < x /\ x <= top
           /\ ListOf(h, U, A) \cap ListOf(Other(h), U, A) = {}
           /\ \A x \in U \cup A \cup X : d[x] \in Node
<1>1. Used # Avail
  BY Heads
<1>2. List(d, h, ListOf(h, U, A)) /\ List(d, Other(h), ListOf(Other(h), U, A))
  BY <1>1 DEF ListOf, Other, Kept
<1>3. Links(d, h, ListOf(h, U, A)) /\ Chain(d, Other(h), ListOf(Other(h), U, A))
  BY <1>2, LinksChain DEF List
<1>4. \A x \in U \cup A \cup X : x \in Nat /\ x <= top /\ x \notin {Used, Avail}
  BY DEF Kept, Ascending
<1>5. \A x \in ListOf(h, U, A) : h < x
  BY <1>3 DEF Links
<1>6. ListOf(h, U, A) \cap ListOf(Other(h), U, A) = {}
  BY <1>1 DEF ListOf, Other, Kept
<1>7. ListOf(h, U, A) \subseteq U \cup A
  BY DEF ListOf
<1>8. \A x \in U \cup A \cup X : d[x] \in Node
  BY OfDisk DEF Kept
<1> QED
  BY <1>2, <1>3, <1>4, <1>5, <1>6, <1>7, <1>8

\* r is what op has become, with the same blocks and other lists.
Became(op, r, own, U, A, X) ==
    /\ r \in Op /\ r.ok /\ r.size = op.size
    /\ Kept(r.disk, r.size, U, A, X)
    /\ AllSafe(r, own)
    /\ \A x \in DOMAIN op.disk \ {Used, Avail} : r.disk[x].bytes = op.disk[x].bytes

\* The lists of op have the nodes of U and of A; nothing that is owned is free.
Sound(op, U, A, X, own) ==
    /\ op \in Op /\ op.ok /\ Kept(op.disk, op.size, U, A, X)
    /\ own \subseteq U \cup A \cup X /\ own \cap A = {} /\ AllSafe(op, own)

CanRemove(op, U, A, X, own, h, o) ==
    /\ Sound(op, U, A, X, own) /\ AllApart(op.disk, own \cup U \cup A)
    /\ h \in {Used, Avail} /\ o \in ListOf(h, U, A)

Without(op, r, U, A, X, own, h, o) ==
    /\ h = Used => Became(op, r, own, U \ {o}, A, X \cup {o})
    /\ h = Avail => Became(op, r, own, U, A \ {o}, X \cup {o})

LEMMA RemoveKept ==
    ASSUME NEW op, NEW U, NEW A, NEW X, NEW own, NEW h, NEW o, CanRemove(op, U, A, X, own, h, o)
    PROVE  Without(op, RemoveNode(op, h, o), U, A, X, own, h, o)
<1> DEFINE S == ListOf(h, U, A)
           r == RemoveNode(op, h, o)
<1> USE DEF CanRemove, Sound
<1>1. /\ List(op.disk, h, S) /\ Chain(op.disk, Other(h), ListOf(Other(h), U, A))
      /\ \A x \in S : x \in Nat /\ h < x /\ x <= op.size
      /\ S \cap ListOf(Other(h), U, A) = {} /\ Used # Avail
      /\ Ascending(op.disk, op.size) /\ U \cap A = {}
      /\ {Used, Avail} \cap (U \cup A \cup X) = {} /\ X \cap (U \cup A) = {}
      /\ DOMAIN op.disk = {Used, Avail} \cup U \cup A \cup X
  <2>1. Used # Avail
    BY Heads
  <2>2. /\ Ascending(op.disk, op.size) /\ U \cap A = {}
        /\ {Used, Avail} \cap (U \cup A \cup X) = {} /\ X \cap (U \cup A) = {}
        /\ DOMAIN op.disk = {Used, Avail} \cup U \cup A \cup X
    BY DEF Kept
  <2> QED
    BY <2>1, <2>2, KeptList
<1>2. Working(op, r, h, S) /\ List(r.disk, h, S \ {o})
  BY <1>1, RemoveSound
<1> HIDE DEF r
<1>3. S \subseteq U \cup A
  BY DEF ListOf
<1>4. r \in Op /\ r.ok /\ r.size = op.size /\ Between(op.disk, r.disk, h, S)
  BY <1>2 DEF Working
<1>5. \A x \in DOMAIN op.disk \ {Used, Avail} : r.disk[x].bytes = op.disk[x].bytes
  <2> TAKE x \in DOMAIN op.disk \ {Used, Avail}
  <2>1. CASE x \in S
    BY <1>4, <2>1 DEF Between
  <2>2. CASE x \notin S
    BY <1>4, <2>2 DEF Between
  <2> QED
    BY <2>1, <2>2
<1>6. AllSafe(r, own)
  <2>1. AllApart(r.disk, own \cup U \cup A)
    <3>1. own \cup U \cup A \subseteq DOMAIN op.disk \ {Used, Avail}
      BY <1>1
    <3> QED
      BY <1>5, <3>1, ApartSame
  <2>2. Sides(h, S, U, A)
    BY <1>1 DEF Sides, ListOf
  <2>3. ListOf(Other(h), U, A) = IF h = Used THEN A ELSE U
    BY <1>1 DEF ListOf, Other
  <2>4. own \subseteq DOMAIN op.disk \ {Used, Avail} /\ S \ DOMAIN op.disk = {}
    BY <1>1, <1>3
  <2>5. {Used, Avail} \cap (U \cup A) = {}
    BY <1>1
  <2> HIDE DEF S
  <2>6. SafeWork(op, r, h, S, op.size, U, A, own)
    BY <1>1, <1>2, <2>1, <2>2, <2>3, <2>4, <2>5 DEF SafeWork
  <2> QED
    BY <2>6, WorkSafe
<1>7. /\ h = Used => Kept(r.disk, op.size, U \ {o}, A, X \cup {o})
      /\ h = Avail => Kept(r.disk, op.size, U, A \ {o}, X \cup {o})
  <2> DEFINE T == S \ {o}
             Y == (X \cup S) \ T
  <2>1. Y = X \cup {o} /\ T \subseteq S /\ {Used, Avail} \cap S = {}
    BY <1>1, <1>3
  <2>2. S \cap (IF h = Used THEN A ELSE U) = {} /\ (IF h = Used THEN U ELSE A) \subseteq S
    BY <1>1 DEF ListOf, Other
  <2>3. /\ h = Used => Kept(r.disk, op.size, T, A, Y)
        /\ h = Avail => Kept(r.disk, op.size, U, T, Y)
    <3>1. List(r.disk, h, T) /\ Y = (X \cup S) \ T
      BY <1>2
    <3> HIDE DEF T, Y, S
    <3> QED
      BY <1>1, <1>2, <2>1, <2>2, <3>1, WorkKept
  <2>4. (h = Used => T = U \ {o}) /\ (h = Avail => T = A \ {o})
    BY <1>1 DEF ListOf
  <2> QED
    BY <2>1, <2>3, <2>4
<1> QED
  BY <1>4, <1>5, <1>6, <1>7 DEF Became, Without, r

CanLink(op, U, A, X, own, h, o, bytes) ==
    /\ Sound(op, U, A, X, own)
    /\ h \in {Used, Avail} /\ o \in Nat /\ First <= o /\ o <= op.size /\ o \notin U \cup A
    /\ bytes \in Nat /\ (o \in X => op.disk[o].bytes = bytes)
    /\ h = Avail => o \notin own

HasLinked(op, r, U, A, X, own, h, o, bytes) ==
    /\ CanLink(op, U, A, X, own, h, o, bytes)
    /\ Working(op, r, h, ListOf(h, U, A) \cup {o})
    /\ List(r.disk, h, ListOf(h, U, A) \cup {o}) /\ Given(op, r, o, bytes)
    /\ AllApart(r.disk, own \cup U \cup A \cup {o})

With(op, r, U, A, X, own, h, o, bytes) ==
    /\ h = Used => Became(op, r, own, U \cup {o}, A, X \ {o})
    /\ h = Avail => Became(op, r, own, U, A \cup {o}, X \ {o})
    /\ r.disk[o].bytes = bytes

LEMMA LinkingKept ==
    ASSUME NEW op, NEW r, NEW U, NEW A, NEW X, NEW own, NEW h, NEW o, NEW bytes,
           HasLinked(op, r, U, A, X, own, h, o, bytes)
    PROVE  With(op, r, U, A, X, own, h, o, bytes)
<1> DEFINE S == ListOf(h, U, A) \cup {o}
           V == IF h = Used THEN U \cup {o} ELSE U
           B == IF h = Avail THEN A \cup {o} ELSE A
<1> USE DEF CanLink, Sound, HasLinked
<1>1. /\ Chain(op.disk, Other(h), ListOf(Other(h), U, A))
      /\ \A x \in ListOf(h, U, A) : x \in Nat /\ h < x /\ x <= op.size
      /\ ListOf(h, U, A) \cap ListOf(Other(h), U, A) = {} /\ Used # Avail
      /\ Ascending(op.disk, op.size) /\ U \cap A = {}
      /\ {Used, Avail} \cap (U \cup A \cup X) = {} /\ X \cap (U \cup A) = {}
      /\ DOMAIN op.disk = {Used, Avail} \cup U \cup A \cup X
  <2>1. Used # Avail
    BY Heads
  <2>2. /\ Ascending(op.disk, op.size) /\ U \cap A = {}
        /\ {Used, Avail} \cap (U \cup A \cup X) = {} /\ X \cap (U \cup A) = {}
        /\ DOMAIN op.disk = {Used, Avail} \cup U \cup A \cup X
    BY DEF Kept
  <2> QED
    BY <2>1, <2>2, KeptList
<1>2. h < o /\ o \notin {Used, Avail}
  <2>1. h \in Nat /\ h < First /\ First \in Nat /\ Used < First /\ Avail < First
        /\ Used \in Nat /\ Avail \in Nat
    BY Heads
  <2> QED
    BY <2>1
<1>3. /\ \A x \in S : x \in Nat /\ h < x /\ x <= op.size
      /\ S \cap ListOf(Other(h), U, A) = {}
      /\ ListOf(Other(h), U, A) = IF h = Used THEN A ELSE U
  <2>1. ListOf(Other(h), U, A) = IF h = Used THEN A ELSE U
    BY <1>1 DEF ListOf, Other
  <2>2. o \notin ListOf(Other(h), U, A)
    BY <2>1
  <2> QED
    BY <1>1, <1>2, <2>1, <2>2
<1>4. r \in Op /\ r.ok /\ r.size = op.size /\ Between(op.disk, r.disk, h, S)
  BY DEF Working
<1>5. \A x \in DOMAIN op.disk \ {Used, Avail} : r.disk[x].bytes = op.disk[x].bytes
  <2> TAKE x \in DOMAIN op.disk \ {Used, Avail}
  <2>1. CASE x \in S
    BY <1>4, <2>1 DEF Between
  <2>2. CASE x \notin S
    BY <1>4, <2>2 DEF Between
  <2> QED
    BY <2>1, <2>2
<1>6. Sides(h, S, V, B) /\ V \cap B = {} /\ {Used, Avail} \cap (V \cup B) = {}
      /\ (IF h = Used THEN B ELSE V) = (IF h = Used THEN A ELSE U) /\ own \cap B = {}
      /\ own \cup V \cup B = own \cup U \cup A \cup {o}
  BY <1>1, <1>2 DEF Sides, ListOf
<1>7. AllSafe(r, own)
  <2>1. AllApart(r.disk, own \cup V \cup B)
    BY <1>6
  <2>2. own \subseteq DOMAIN op.disk \ {Used, Avail}
    BY <1>1
  <2>3. \A x \in S \ DOMAIN op.disk : Given(op, r, x, r.disk[x].bytes)
    <3>1. \A x \in S \ DOMAIN op.disk : x = o
      BY <1>1 DEF ListOf
    <3>2. r.disk[o].bytes = bytes
      BY DEF Given
    <3> QED
      BY <3>1, <3>2
  <2>4. Chain(op.disk, Other(h), IF h = Used THEN B ELSE V)
    BY <1>1, <1>3, <1>6
  <2> HIDE DEF S, V, B
  <2>5. Working(op, r, h, S)
    BY DEF S
  <2>6. SafeWork(op, r, h, S, op.size, V, B, own)
    BY <1>1, <1>3, <1>6, <2>1, <2>2, <2>3, <2>4, <2>5 DEF SafeWork
  <2> QED
    BY <2>6, WorkSafe
<1>8. /\ h = Used => Kept(r.disk, op.size, U \cup {o}, A, X \ {o})
      /\ h = Avail => Kept(r.disk, op.size, U, A \cup {o}, X \ {o})
  <2> DEFINE Y == (X \cup S) \ S
  <2>1. Y = X \ {o} /\ {Used, Avail} \cap S = {}
    BY <1>1, <1>2 DEF ListOf
  <2>2. S \cap (IF h = Used THEN A ELSE U) = {} /\ (IF h = Used THEN U ELSE A) \subseteq S
    BY <1>1, <1>3 DEF ListOf
  <2>3. /\ h = Used => Kept(r.disk, op.size, S, A, Y)
        /\ h = Avail => Kept(r.disk, op.size, U, S, Y)
    <3>1. List(r.disk, h, S) /\ Y = (X \cup S) \ S /\ Working(op, r, h, S) /\ S \subseteq S
      OBVIOUS
    <3> HIDE DEF Y, S
    <3> QED
      BY <1>3, <2>1, <2>2, <3>1, WorkKept
  <2>4. (h = Used => S = U \cup {o}) /\ (h = Avail => S = A \cup {o})
    BY <1>1 DEF ListOf
  <2> QED
    BY <2>1, <2>3, <2>4
<1> QED
  BY <1>4, <1>5, <1>7, <1>8 DEF Became, Given, With

\* With a block of so many bytes at o, too, no two would share a byte.
FitsAt(d, N, o, bytes) == \E e :
    /\ \A x \in N \ {o} : e[x].bytes = d[x].bytes
    /\ e[o].bytes = bytes
    /\ AllApart(e, N \cup {o})

LEMMA InsertKept ==
    ASSUME NEW op, NEW U, NEW A, NEW X, NEW own, NEW h, NEW o, NEW bytes,
           CanLink(op, U, A, X, own, h, o, bytes), FitsAt(op.disk, own \cup U \cup A, o, bytes)
    PROVE  With(op, InsertNode(op, h, o, bytes), U, A, X, own, h, o, bytes)
<1> DEFINE S == ListOf(h, U, A)
           r == InsertNode(op, h, o, bytes)
<1> USE DEF CanLink, Sound
<1>0. PICK e : /\ \A x \in (own \cup U \cup A) \ {o} : e[x].bytes = op.disk[x].bytes
               /\ e[o].bytes = bytes /\ AllApart(e, own \cup U \cup A \cup {o})
  BY DEF FitsAt
<1>1. List(op.disk, h, S) /\ S \subseteq U \cup A /\ o \notin S
  BY KeptList DEF ListOf
<1>2. h < o /\ o \notin {Used, Avail}
  <2>1. h \in Nat /\ h < First /\ First \in Nat /\ Used < First /\ Avail < First
        /\ Used \in Nat /\ Avail \in Nat
    BY Heads
  <2> QED
    BY <2>1
<1>3. /\ Ascending(op.disk, op.size)
      /\ DOMAIN op.disk = {Used, Avail} \cup U \cup A \cup X
      /\ {Used, Avail} \cap (U \cup A \cup X) = {}
  BY DEF Kept
<1>4. o \in DOMAIN op.disk => op.disk[o].bytes = bytes
  BY <1>2, <1>3
<1>5. Working(op, r, h, S \cup {o}) /\ List(r.disk, h, S \cup {o}) /\ Given(op, r, o, bytes)
  <2> HIDE DEF S
  <2> QED
    BY <1>1, <1>2, <1>3, <1>4, InsertSound
<1> HIDE DEF r
<1>6. AllApart(r.disk, own \cup U \cup A \cup {o})
  <2>1. \A x \in own \cup U \cup A \cup {o} : r.disk[x].bytes = e[x].bytes
    <3> TAKE x \in own \cup U \cup A \cup {o}
    <3>1. CASE x = o
      BY <1>0, <1>5, <3>1 DEF Given
    <3>2. CASE x # o
      <4>1. x \in DOMAIN op.disk /\ x \notin {Used, Avail} /\ e[x].bytes = op.disk[x].bytes
        BY <1>0, <1>3, <3>2
      <4>2. Between(op.disk, r.disk, h, S \cup {o})
        BY <1>5 DEF Working
      <4>3. x \in S \cup {o} => r.disk[x].bytes = op.disk[x].bytes
        BY <4>1, <4>2 DEF Between
      <4>4. x \notin S \cup {o} => r.disk[x] = op.disk[x]
        BY <4>1, <4>2 DEF Between
      <4> QED
        BY <4>1, <4>3, <4>4
    <3> QED
      BY <3>1, <3>2
  <2> QED
    BY <1>0, <2>1, ApartSame
<1> HIDE DEF CanLink, S
<1>7. S \cup {o} = ListOf(h, U, A) \cup {o}
  BY DEF S
<1>8. HasLinked(op, r, U, A, X, own, h, o, bytes)
  BY <1>5, <1>6, <1>7 DEF HasLinked
<1> QED
  BY <1>8, LinkingKept DEF r

\* Between operations: every node is in a list, and the blocks tile the file.
Done(op, U, A, own) ==
    Sound(op, U, A, {}, own) /\ Tiled(op.disk, U \cup A, op.size)

\* The block at x lies in a file of so many bytes.
Fits(d, x, top) ==
    /\ x \in Nat /\ First <= x /\ d[x] \in Node
    /\ d[x].bytes \in Nat /\ End(d, x) \in Nat
    /\ End(d, x) <= top /\ x < End(d, x)
    /\ x < top /\ Used < x /\ Avail < x

Settled(op, U, A, own) ==
    /\ U \cap A = {} /\ DOMAIN op.disk = {Used, Avail} \cup U \cup A
    /\ {Used, Avail} \cap (U \cup A) = {} /\ U \cup A = DOMAIN op.disk \ {Used, Avail}
    /\ op \in Op /\ op.ok /\ AllSafe(op, own)
    /\ op.disk \in Disk /\ op.size \in Nat /\ Ascending(op.disk, op.size)
    /\ List(op.disk, Used, U) /\ List(op.disk, Avail, A)
    /\ Links(op.disk, Used, U) /\ Links(op.disk, Avail, A)
    /\ Chain(op.disk, Used, U) /\ Chain(op.disk, Avail, A)
    /\ Tiled(op.disk, U \cup A, op.size) /\ AllApart(op.disk, U \cup A)
    /\ own \subseteq U /\ Sound(op, U, A, {}, own)
    /\ \A x \in U \cup A : Fits(op.disk, x, op.size)

LEMMA DoneFacts ==
    ASSUME NEW op, NEW U, NEW A, NEW own, Done(op, U, A, own)
    PROVE  Settled(op, U, A, own)
<1>1. /\ U \cap A = {} /\ DOMAIN op.disk = {Used, Avail} \cup U \cup A
      /\ {Used, Avail} \cap (U \cup A) = {}
      /\ op.disk \in Disk /\ op.size \in Nat /\ Ascending(op.disk, op.size)
      /\ List(op.disk, Used, U) /\ List(op.disk, Avail, A)
      /\ own \subseteq U \cup A /\ own \cap A = {}
      /\ op \in Op /\ op.ok /\ AllSafe(op, own)
  BY DEF Done, Sound, Kept
<1>2. Links(op.disk, Used, U) /\ Links(op.disk, Avail, A)
  BY <1>1 DEF List
<1>3. Chain(op.disk, Used, U) /\ Chain(op.disk, Avail, A)
  BY <1>2, LinksChain
<1>4. /\ Tiled(op.disk, U \cup A, op.size) /\ Sound(op, U, A, {}, own)
      /\ AllApart(op.disk, U \cup A)
      /\ \A x \in U \cup A : First <= x /\ End(op.disk, x) <= op.size
  BY DEF Done, Tiled
<1>5. ASSUME NEW x \in U \cup A
      PROVE  /\ x \in Nat /\ op.disk[x] \in Node /\ op.disk[x].bytes \in Nat
             /\ End(op.disk, x) \in Nat
             /\ x < End(op.disk, x) /\ x < op.size /\ Used < x /\ Avail < x
  <2>1. x \in Nat /\ op.disk[x] \in Node
    BY <1>2 DEF Links
  <2>2. op.disk[x].bytes \in Nat
    BY <2>1 DEF Node
  <2>3. End(op.disk, x) \in Nat /\ x < End(op.disk, x)
    BY <2>1, <2>2, Heads DEF End
  <2>4. Used \in Nat /\ Avail \in Nat /\ First \in Nat /\ Used < First /\ Avail < First
    BY Heads
  <2>5. First <= x /\ End(op.disk, x) <= op.size
    BY <1>4
  <2>6. x < op.size /\ Used < x /\ Avail < x
    BY <1>1, <2>1, <2>3, <2>4, <2>5
  <2> QED
    BY <2>1, <2>2, <2>3, <2>6
<1>6. own \subseteq U /\ U \cup A = DOMAIN op.disk \ {Used, Avail}
  BY <1>1
<1>7. \A x \in U \cup A : Fits(op.disk, x, op.size)
  BY <1>4, <1>5 DEF Fits
<1> QED
  BY <1>1, <1>2, <1>3, <1>4, <1>6, <1>7 DEF Settled

\* Links that stay as they are lead to the same nodes.
LEMMA SameNext ==
    ASSUME NEW d, NEW e, DOMAIN e = DOMAIN d, \A x \in DOMAIN d : e[x].next = d[x].next
    PROVE  /\ \A top : Ascending(d, top) => Ascending(e, top)
           /\ \A h, S : Chain(d, h, S) => Chain(e, h, S)
BY DEF Ascending, Chain

\* A change that keeps the links, and no two blocks share a byte after it.
SafeWith(d, e, top, U, A, own) ==
    /\ DOMAIN e = DOMAIN d /\ (\A x \in DOMAIN d : e[x].next = d[x].next)
    /\ Ascending(d, top) /\ Chain(d, Used, U) /\ Chain(d, Avail, A) /\ U \cap A = {}
    /\ own \subseteq U /\ AllApart(e, U \cup A)

LEMMA StillSafe ==
    ASSUME NEW d, NEW e, NEW top, NEW U, NEW A, NEW own, SafeWith(d, e, top, U, A, own)
    PROVE  Safe(e, own)
<1>1. /\ DOMAIN e = DOMAIN d /\ (\A x \in DOMAIN d : e[x].next = d[x].next)
      /\ Ascending(d, top) /\ Chain(d, Used, U) /\ Chain(d, Avail, A) /\ U \cap A = {}
      /\ own \subseteq U /\ AllApart(e, U \cup A)
  BY DEF SafeWith
<1>2. Ascending(e, top) /\ Chain(e, Used, U) /\ Chain(e, Avail, A)
  BY <1>1, SameNext
<1>3. own \subseteq DOMAIN e /\ own \cap A = {} /\ own \cup U \cup A = U \cup A
  BY <1>1, <1>2 DEF Chain
<1>4. AllApart(e, own \cup U \cup A)
  BY <1>1, <1>3
<1> QED
  BY <1>1, <1>2, <1>3, <1>4 DEF Safe

\* What was written leaves a safe file.
LEMMA WroteSafe ==
    ASSUME NEW a, NEW own, AllSafe(a, own), NEW r, NEW x, NEW n, Wrote(a, r, x, n),
           Safe(r.disk, own)
    PROVE  AllSafe(r, own)
<1>1. FileOf(r).disk = r.disk
  BY DEF FileOf
<1> QED
  BY <1>1 DEF Wrote, AllSafe

-----------------------------------------------------------------------------
(* How the blocks tile the file.                                           *)

LEMMA TiledSame ==
    ASSUME NEW d, NEW e, NEW N, NEW top, Tiled(d, N, top), \A x \in N : e[x].bytes = d[x].bytes
    PROVE  Tiled(e, N, top)
<1>1. \A x \in N : End(e, x) = End(d, x)
  BY DEF End
<1>2. AllApart(e, N)
  BY ApartSame DEF Tiled
<1>3. {End(e, x) : x \in N} = {End(d, x) : x \in N}
  BY <1>1
<1> QED
  BY <1>1, <1>2, <1>3 DEF Tiled

\* In f, what was the block o in d is two blocks, o and new.
Divides(d, f, N, top, o, new) ==
    /\ Tiled(d, N, top) /\ N \subseteq Nat /\ (\A x \in N : d[x].bytes \in Nat)
    /\ o \in N /\ f[o].bytes \in Nat /\ f[new].bytes \in Nat
    /\ new = End(f, o) /\ End(f, new) = End(d, o)
    /\ \A x \in N \ {o} : f[x].bytes = d[x].bytes

LEMMA Divided ==
    ASSUME NEW d, NEW f, NEW N, NEW top, NEW o, NEW new, Divides(d, f, N, top, o, new), top \in Nat
    PROVE  /\ new \in Nat /\ new \notin N /\ First <= new /\ new <= top
           /\ Tiled(f, N \cup {new}, top)
<1> USE DEF Divides
<1>1. /\ First \in Nat /\ NodeSize \in Nat \ {0}
      /\ \A x \in N : /\ x \in Nat /\ d[x].bytes \in Nat /\ End(d, x) \in Nat
                      /\ x < End(d, x) /\ First <= x /\ End(d, x) <= top
  BY Heads DEF End, Tiled
<1>2. /\ new \in Nat /\ o < new /\ new < End(d, o) /\ End(f, o) = new
  <2>1. o \in Nat /\ f[o].bytes \in Nat /\ new = o + NodeSize + f[o].bytes
    BY DEF End
  <2>2. End(d, o) = new + NodeSize + f[new].bytes /\ f[new].bytes \in Nat
    BY DEF End
  <2> QED
    BY <1>1, <2>1, <2>2
<1>3. \A x \in N \ {o} : End(f, x) = End(d, x)
  BY DEF End
<1>4. \A x \in N \ {o} : End(d, x) <= o \/ End(d, o) <= x
  BY DEF Tiled, AllApart, ApartIn
<1>5. \A x \in N \ {o} : x # new
  BY <1>1, <1>2, <1>4
<1>6. First <= new /\ new <= top /\ End(f, new) <= top
  BY <1>1, <1>2
<1>7. AllApart(f, N \cup {new})
  <2> SUFFICES ASSUME NEW a \in N \cup {new}, NEW b \in N \cup {new}, a # b
               PROVE  End(f, a) <= b \/ End(f, b) <= a
    BY DEF AllApart, ApartIn
  <2>1. CASE a \in N \ {o} /\ b \in N \ {o}
    BY <1>3, <2>1 DEF Tiled, AllApart, ApartIn
  <2>2. CASE a \in N \ {o} /\ b = o
    BY <1>1, <1>2, <1>3, <1>4, <2>2
  <2>3. CASE a \in N \ {o} /\ b = new
    BY <1>1, <1>2, <1>3, <1>4, <2>3
  <2>4. CASE b \in N \ {o} /\ a = o
    BY <1>1, <1>2, <1>3, <1>4, <2>4
  <2>5. CASE b \in N \ {o} /\ a = new
    BY <1>1, <1>2, <1>3, <1>4, <2>5
  <2>6. CASE (a = o /\ b = new) \/ (a = new /\ b = o)
    BY <1>2, <2>6
  <2> QED
    BY <2>1, <2>2, <2>3, <2>4, <2>5, <2>6
<1>8. N \cup {new} \cup {top} = {First} \cup {End(f, x) : x \in N \cup {new}}
  <2>1. N \cup {top} = {First} \cup {End(d, x) : x \in N}
    BY DEF Tiled
  <2>2. {End(d, x) : x \in N} = {End(d, x) : x \in N \ {o}} \cup {End(d, o)}
    OBVIOUS
  <2>3. {End(d, x) : x \in N \ {o}} = {End(f, x) : x \in N \ {o}}
    BY <1>3
  <2>4. {End(f, x) : x \in N \cup {new}}
          = {End(f, x) : x \in N \ {o}} \cup {End(f, o), End(f, new)}
    OBVIOUS
  <2> QED
    BY <1>2, <2>1, <2>2, <2>3, <2>4
<1>9. \A x \in N \cup {new} : First <= x /\ End(f, x) <= top
  BY <1>1, <1>2, <1>3, <1>6
<1> QED
  BY <1>2, <1>5, <1>6, <1>7, <1>8, <1>9 DEF Tiled

\* In f, the blocks a and b of d, which follow each other, are one.
Joins(d, f, N, top, a, b) ==
    /\ Tiled(d, N, top) /\ N \subseteq Nat /\ (\A x \in N : d[x].bytes \in Nat)
    /\ a \in N /\ b \in N /\ End(d, a) = b /\ End(f, a) = End(d, b)
    /\ \A x \in N \ {a} : f[x].bytes = d[x].bytes

LEMMA Joined ==
    ASSUME NEW d, NEW f, NEW N, NEW top, NEW a, NEW b, Joins(d, f, N, top, a, b), top \in Nat
    PROVE  Tiled(f, N \ {b}, top)
<1> USE DEF Joins
<1>1. /\ First \in Nat /\ NodeSize \in Nat \ {0}
      /\ \A x \in N : /\ x \in Nat /\ d[x].bytes \in Nat /\ End(d, x) \in Nat
                      /\ x < End(d, x) /\ First <= x /\ End(d, x) <= top
  BY Heads DEF End, Tiled
<1>2. a # b /\ a < b /\ b < End(d, b) /\ b < top /\ First < b
  BY <1>1
<1>3. \A x \in N \ {a} : End(f, x) = End(d, x)
  BY DEF End
<1>4. \A x, y \in N : x # y => End(d, x) <= y \/ End(d, y) <= x
  BY DEF Tiled, AllApart, ApartIn
<1>5. \A x \in N \ {a} : End(d, x) # b
  <2> TAKE x \in N \ {a}
  <2>1. End(d, x) <= a \/ b <= x
    BY <1>4
  <2>2. x \in Nat /\ End(d, x) \in Nat /\ x < End(d, x) /\ a \in Nat /\ b \in Nat
    BY <1>1
  <2> QED
    BY <1>2, <2>1, <2>2
<1>6. \A x \in N \ {a, b} : End(d, x) <= a \/ End(d, b) <= x
  <2> TAKE x \in N \ {a, b}
  <2>1. (End(d, x) <= a \/ b <= x) /\ (End(d, x) <= b \/ End(d, b) <= x)
    BY <1>4
  <2>2. x \in Nat /\ End(d, x) \in Nat /\ x < End(d, x) /\ a \in Nat /\ b \in Nat
    BY <1>1
  <2>3. End(d, x) # b
    BY <1>5
  <2>4. CASE End(d, x) <= a
    BY <2>4
  <2>5. CASE b <= x
    BY <2>1, <2>2, <2>5
  <2> QED
    BY <2>1, <2>4, <2>5
<1>7. AllApart(f, N \ {b})
  <2> SUFFICES ASSUME NEW x \in N \ {b}, NEW y \in N \ {b}, x # y
               PROVE  End(f, x) <= y \/ End(f, y) <= x
    BY DEF AllApart, ApartIn
  <2>1. CASE x # a /\ y # a
    BY <1>3, <1>4, <2>1
  <2>2. CASE x = a
    BY <1>3, <1>6, <2>2
  <2>3. CASE y = a
    BY <1>3, <1>6, <2>3
  <2> QED
    BY <2>1, <2>2, <2>3
<1>8. (N \ {b}) \cup {top} = {First} \cup {End(f, x) : x \in N \ {b}}
  <2>1. N \cup {top} = {First} \cup {End(d, x) : x \in N}
    BY DEF Tiled
  <2>2. {End(d, x) : x \in N} = {End(d, x) : x \in N \ {a, b}} \cup {b, End(d, b)}
    OBVIOUS
  <2>3. {End(f, x) : x \in N \ {b}} = {End(d, x) : x \in N \ {a, b}} \cup {End(d, b)}
    <3>1. N \ {b} = (N \ {a, b}) \cup {a}
      BY <1>2
    <3>2. {End(f, x) : x \in N \ {a, b}} = {End(d, x) : x \in N \ {a, b}}
      BY <1>3
    <3>3. {End(f, x) : x \in (N \ {a, b}) \cup {a}}
            = {End(f, x) : x \in N \ {a, b}} \cup {End(f, a)}
      OBVIOUS
    <3> QED
      BY <3>1, <3>2, <3>3
  <2>4. b \notin {End(d, x) : x \in N \ {a, b}}
    BY <1>5
  <2>5. b # top /\ b # First /\ b # End(d, b)
    BY <1>1, <1>2
  <2> DEFINE E == {End(d, x) : x \in N \ {a, b}}
             F == {End(f, x) : x \in N \ {b}}
             c == End(d, b)
  <2>6. N \cup {top} = {First} \cup E \cup {b, c} /\ F = E \cup {c} /\ b \notin E /\ b # c
    BY <2>1, <2>2, <2>3, <2>4, <2>5
  <2> HIDE DEF E, F, c
  <2>7. (N \ {b}) \cup {top} = {First} \cup F
    BY <2>5, <2>6
  <2> QED
    BY <2>7 DEF F
<1>9. \A x \in N \ {b} : First <= x /\ End(f, x) <= top
  BY <1>1, <1>3
<1> QED
  BY <1>7, <1>8, <1>9 DEF Tiled

\* In f, the block at top follows those of N, which are as in d.
Appends(d, f, N, top) ==
    /\ Tiled(d, N, top) /\ top \in Nat /\ N \subseteq Nat
    /\ \A x \in N : d[x].bytes \in Nat /\ f[x].bytes = d[x].bytes
    /\ f[top].bytes \in Nat

\* A block more at the end of the file.
LEMMA Appended ==
    ASSUME NEW d, NEW f, NEW N, NEW top, Appends(d, f, N, top)
    PROVE  top \notin N /\ First <= top /\ Tiled(f, N \cup {top}, End(f, top))
<1> USE DEF Appends
<1>1. /\ First \in Nat /\ NodeSize \in Nat \ {0} /\ top < End(f, top) /\ End(f, top) \in Nat
      /\ \A x \in N : /\ x \in Nat /\ End(d, x) \in Nat /\ End(f, x) = End(d, x)
                      /\ x < End(d, x) /\ First <= x /\ End(d, x) <= top
  BY Heads DEF End, Tiled
<1>2. top \notin N /\ First <= top
  <2>1. First \in N \cup {top}
    BY DEF Tiled
  <2> QED
    BY <1>1, <2>1
<1>3. AllApart(f, N \cup {top})
  <2> SUFFICES ASSUME NEW a \in N \cup {top}, NEW b \in N \cup {top}, a # b
               PROVE  End(f, a) <= b \/ End(f, b) <= a
    BY DEF AllApart, ApartIn
  <2>1. CASE a \in N /\ b \in N
    BY <1>1, <2>1 DEF Tiled, AllApart, ApartIn
  <2>2. CASE a = top \/ b = top
    BY <1>1, <2>2
  <2> QED
    BY <2>1, <2>2
<1>4. N \cup {top} \cup {End(f, top)} = {First} \cup {End(f, x) : x \in N \cup {top}}
  <2>1. N \cup {top} = {First} \cup {End(d, x) : x \in N}
    BY DEF Tiled
  <2>2. {End(d, x) : x \in N} = {End(f, x) : x \in N}
    BY <1>1
  <2>3. {End(f, x) : x \in N \cup {top}} = {End(f, x) : x \in N} \cup {End(f, top)}
    OBVIOUS
  <2> QED
    BY <2>1, <2>2, <2>3
<1>5. \A x \in N \cup {top} : First <= x /\ End(f, x) <= End(f, top)
  BY <1>1, <1>2
<1> QED
  BY <1>2, <1>3, <1>4, <1>5 DEF Tiled

-----------------------------------------------------------------------------
(* allocate.                                                               *)

\* The blocks that callers own have become one more, of n bytes at least.
Grew(op, r, U, A, o, n) ==
    /\ Done(r, U \cup {o}, A, U) /\ o \notin U /\ r.disk[o].bytes >= n
    /\ \A x \in U : r.disk[x].bytes = op.disk[x].bytes

\* A free node becomes a used one: nothing else changes.
LEMMA TakeWholeKept ==
    ASSUME NEW op, NEW U, NEW A, Done(op, U, A, U), NEW o \in A,
           NEW n \in Nat, op.disk[o].bytes >= n
    PROVE  Grew(op, TakeWhole(op, o), U, A \ {o}, o, n)
<1> DEFINE r1 == RemoveNode(op, Avail, o)
           r == InsertNode(r1, Used, o, op.disk[o].bytes)
<1>1. /\ U \cap A = {} /\ o \in Nat /\ o <= op.size /\ op.disk[o] \in Node /\ Used # Avail
      /\ o \in DOMAIN op.disk \ {Used, Avail} /\ First <= o
      /\ U \cup A = DOMAIN op.disk \ {Used, Avail}
      /\ AllApart(op.disk, U \cup A) /\ Sound(op, U, A, {}, U)
  <2> o \in U \cup A
    OBVIOUS
  <2>1. /\ U \cap A = {} /\ U \cup A = DOMAIN op.disk \ {Used, Avail}
        /\ AllApart(op.disk, U \cup A) /\ op.size \in Nat
        /\ Fits(op.disk, o, op.size) /\ Sound(op, U, A, {}, U)
    <3>1. Settled(op, U, A, U)
      BY DoneFacts
    <3> QED
      BY <3>1 DEF Settled
  <2>2. Used # Avail /\ o <= op.size
    BY <2>1, Heads DEF Fits
  <2>3. o \in DOMAIN op.disk \ {Used, Avail}
    BY <2>1
  <2> QED
    BY <2>1, <2>2, <2>3 DEF Done, Fits
<1>2. Became(op, r1, U, U, A \ {o}, {o})
  <2>1. o \in ListOf(Avail, U, A)
    BY <1>1 DEF ListOf
  <2>2. U \cup U \cup A = U \cup A /\ U \subseteq U \cup A \cup {} /\ {} \cup {o} = {o}
    OBVIOUS
  <2>3. CanRemove(op, U, A, {}, U, Avail, o)
    BY <1>1, <2>1, <2>2 DEF CanRemove
  <2>4. Without(op, r1, U, A, {}, U, Avail, o)
    BY <2>3, RemoveKept
  <2> QED
    BY <2>2, <2>4 DEF Without
<1> HIDE DEF r1
<1>3. r1 \in Op /\ r1.ok /\ r1.size = op.size /\ Kept(r1.disk, r1.size, U, A \ {o}, {o})
      /\ AllSafe(r1, U) /\ \A x \in U \cup A : r1.disk[x].bytes = op.disk[x].bytes
  BY <1>1, <1>2 DEF Became
<1>4. Became(r1, r, U, U \cup {o}, A \ {o}, {})
  <2>1. op.disk[o].bytes \in Nat /\ r1.disk[o].bytes = op.disk[o].bytes
    BY <1>1, <1>3 DEF Node
  <2>2. U \cup U \cup (A \ {o}) \cup {o} = U \cup A /\ o \notin U \cup (A \ {o})
        /\ U \subseteq U \cup (A \ {o}) \cup {o} /\ U \cap (A \ {o}) = {} /\ {o} \ {o} = {}
    BY <1>1
  <2>3. AllApart(op.disk, U \cup U \cup (A \ {o}) \cup {o})
    BY <1>1, <2>2
  <2>4. \A x \in (U \cup U \cup (A \ {o})) \ {o} : op.disk[x].bytes = r1.disk[x].bytes
    BY <1>3
  <2>5. FitsAt(r1.disk, U \cup U \cup (A \ {o}), o, op.disk[o].bytes)
    BY <2>3, <2>4 DEF FitsAt
  <2>6. CanLink(r1, U, A \ {o}, {o}, U, Used, o, op.disk[o].bytes)
    BY <1>1, <1>3, <2>1, <2>2 DEF CanLink, Sound
  <2>7. With(r1, r, U, A \ {o}, {o}, U, Used, o, op.disk[o].bytes)
    BY <2>5, <2>6, InsertKept
  <2> QED
    BY <2>2, <2>7 DEF With
<1>5. Became(op, r, U, U \cup {o}, A \ {o}, {})
  <2>1. DOMAIN r1.disk \ {Used, Avail} = DOMAIN op.disk \ {Used, Avail}
    BY <1>1, <1>3 DEF Kept
  <2> HIDE DEF r
  <2>2. \A x \in DOMAIN op.disk \ {Used, Avail} : r.disk[x].bytes = op.disk[x].bytes
    BY <1>2, <1>4, <2>1 DEF Became
  <2> QED
    BY <1>3, <1>4, <2>2 DEF Became
<1>6. Tiled(r.disk, (U \cup {o}) \cup (A \ {o}), r.size)
  <2>1. (U \cup {o}) \cup (A \ {o}) = U \cup A
    BY <1>1
  <2>2. \A x \in U \cup A : r.disk[x].bytes = op.disk[x].bytes
    BY <1>1, <1>5 DEF Became
  <2>3. Tiled(op.disk, U \cup A, op.size) /\ r.size = op.size
    BY <1>5 DEF Done, Became
  <2> HIDE DEF r
  <2> QED
    BY <2>1, <2>2, <2>3, TiledSame
<1>7. Sound(r, U \cup {o}, A \ {o}, {}, U)
  BY <1>1, <1>5 DEF Became, Sound
<1>8. \A x \in U \cup A : r.disk[x].bytes = op.disk[x].bytes
  BY <1>1, <1>5 DEF Became
<1>9. r = TakeWhole(op, o)
  BY DEF TakeWhole, r1
<1> HIDE DEF r
<1> QED
  BY <1>1, <1>6, <1>7, <1>8, <1>9 DEF Done, Grew

\* A smaller block overlaps no more than before.
LEMMA SmallerApart ==
    ASSUME NEW d, NEW e, NEW N, AllApart(d, N), N \subseteq Nat,
           \A x \in N : d[x].bytes \in Nat /\ e[x].bytes \in Nat /\ e[x].bytes <= d[x].bytes
    PROVE  AllApart(e, N)
<1> SUFFICES ASSUME NEW a \in N, NEW b \in N, a # b PROVE End(e, a) <= b \/ End(e, b) <= a
  BY DEF AllApart, ApartIn
<1>1. End(d, a) <= b \/ End(d, b) <= a
  BY DEF AllApart, ApartIn
<1>2. \A x \in N : x \in Nat /\ End(d, x) \in Nat /\ End(e, x) \in Nat /\ End(e, x) <= End(d, x)
  BY Heads DEF End
<1> QED
  BY <1>1, <1>2

\* A free node gives away the end of its block.
Cut(d, e, A, o, n) ==
    /\ DOMAIN e = DOMAIN d
    /\ e[o] = [d[o] EXCEPT !.bytes = d[o].bytes - NodeSize - n]
    /\ e[Avail] = [d[Avail] EXCEPT !.bytes = @ - NodeSize - n]
    /\ \A x \in DOMAIN d \ {o, Avail} : e[x] = d[x]

LEMMA CutKept ==
    ASSUME NEW op, NEW U, NEW A, Done(op, U, A, U), NEW o \in A, NEW n \in Nat,
           op.disk[o].bytes >= NodeSize + n, NEW e \in Disk, Cut(op.disk, e, A, o, n)
    PROVE  Kept(e, op.size, U, A, {})
<1> DEFINE d == op.disk
           left == d[o].bytes - NodeSize - n
<1>1. Settled(op, U, A, U)
  BY DoneFacts
<1>2. /\ U \cap A = {} /\ DOMAIN d = {Used, Avail} \cup U \cup A
      /\ {Used, Avail} \cap (U \cup A) = {} /\ op.size \in Nat /\ Ascending(d, op.size)
      /\ List(d, Used, U) /\ List(d, Avail, A) /\ Links(d, Avail, A) /\ o \in U \cup A
  BY <1>1 DEF Settled
<1>3. DOMAIN e = DOMAIN d /\ (\A x \in DOMAIN d \ {o, Avail} : e[x] = d[x]) /\ o # Avail
      /\ Used # Avail
  BY <1>2, Heads DEF Cut
<1>4. /\ d[o] \in Node /\ d[Avail] \in Node /\ d[o].bytes \in Nat
      /\ left \in Nat /\ NodeSize \in Nat
  <2>1. d[o] \in Node /\ d[Avail] \in Node
    BY <1>2 DEF Links
  <2>2. d[o].bytes \in Nat
    BY <2>1 DEF Node
  <2> QED
    BY <2>1, <2>2, Heads
<1>5. d[Avail].bytes = d[o].bytes + SumOf(d, A \ {o}) /\ SumOf(d, A \ {o}) \in Nat
  <2>1. Sized(d, A) /\ d[Avail].bytes = SumOf(d, A)
    BY <1>2, ListSized DEF List
  <2>2. (A \ {o}) \in SUBSET A
    OBVIOUS
  <2>3. SumOf(d, A) = d[o].bytes + SumOf(d, A \ {o})
    BY <2>1, SumSplits
  <2>4. SumOf(d, A \ {o}) \in Nat
    BY <2>1, <2>2, SumSteps
  <2> QED
    BY <2>1, <2>3, <2>4
<1> DEFINE sum == d[Avail].bytes - NodeSize - n
<1>6. sum = left + SumOf(d, A \ {o}) /\ sum \in Nat
  BY <1>4, <1>5
<1>7. /\ e[o] = [d[o] EXCEPT !.bytes = left]
      /\ e[Avail] = [d[Avail] EXCEPT !.bytes = sum]
  BY <1>4 DEF Cut, Node
<1> HIDE DEF left, sum
<1>8. /\ e[o] \in Node /\ e[o].bytes = left /\ e[o].prev = d[o].prev /\ e[o].next = d[o].next
      /\ e[Avail] \in Node /\ e[Avail].bytes = sum
      /\ e[Avail].prev = d[Avail].prev /\ e[Avail].next = d[Avail].next
  BY <1>4, <1>6, <1>7 DEF Node
<1>9. \A x \in DOMAIN d : e[x].next = d[x].next /\ e[x].prev = d[x].prev
  BY <1>3, <1>8
<1>10. Links(e, Avail, A)
  <2>1. e[Avail] \in Node /\ \A x \in A : e[x] \in Node
    BY <1>2, <1>3, <1>8 DEF Links
  <2>2. A \subseteq DOMAIN d /\ Avail \in DOMAIN d
    BY <1>2
  <2> QED
    BY <1>2, <1>3, <1>9, <2>1, <2>2 DEF Links
<1>11. e[Avail].bytes = SumOf(e, A)
  <2>1. Sized(e, A) /\ Sized(d, A)
    BY <1>2, <1>10, ListSized
  <2>2. SumOf(e, A) = e[o].bytes + SumOf(e, A \ {o})
    BY <2>1, SumSplits
  <2>3. Sized(d, A \ {o})
    <3>1. IsFiniteSet(A \ {o})
      BY <2>1, FS_Subset DEF Sized
    <3> QED
      BY <2>1, <3>1 DEF Sized
  <2>4. \A x \in A \ {o} : e[x].bytes = d[x].bytes
    <3> TAKE x \in A \ {o}
    <3>1. x \in DOMAIN d \ {o, Avail}
      BY <1>2
    <3> QED
      BY <1>3, <3>1
  <2>5. SumOf(e, A \ {o}) = SumOf(d, A \ {o})
    BY <2>3, <2>4, SumSame
  <2> QED
    BY <1>6, <1>8, <2>2, <2>5
<1>12. List(e, Used, U)
  <2>1. \A x \in U \cup {Used} : e[x] = d[x]
    BY <1>2, <1>3
  <2>2. U \cup {Used} \subseteq DOMAIN e
    BY <1>2, <1>3
  <2> QED
    BY <1>2, <2>1, <2>2, ListSame
<1>13. Ascending(e, op.size)
  BY <1>2, <1>3, <1>9, SameNext
<1> QED
  BY <1>2, <1>3, <1>10, <1>11, <1>12, <1>13 DEF Kept, List

\* The end of a free block becomes a block of its own, in use.
LEMMA SplitOffKept ==
    ASSUME NEW op, NEW U, NEW A, Done(op, U, A, U), NEW o \in A, NEW n \in Nat,
           op.disk[o].bytes >= NodeSize + n
    PROVE  Grew(op, SplitOff(op, o, n), U, A, End(op.disk, o) - n - NodeSize, n)
<1> DEFINE d == op.disk
           left == d[o].bytes - NodeSize - n
           new == o + NodeSize + left
           cut == [d[o] EXCEPT !.bytes = left]
           rest == [d[Avail] EXCEPT !.bytes = @ - NodeSize - n]
           shrunk == Write(op, o, cut)
           counted == Write(shrunk, Avail, rest)
           r == InsertNode(counted, Used, new, n)
<1>1. Settled(op, U, A, U)
  BY DoneFacts
<1>2. /\ U \cap A = {} /\ DOMAIN d = {Used, Avail} \cup U \cup A
      /\ {Used, Avail} \cap (U \cup A) = {} /\ U \cup A = DOMAIN d \ {Used, Avail}
      /\ op \in Op /\ op.ok /\ AllSafe(op, U) /\ op.size \in Nat /\ Ascending(d, op.size)
      /\ List(d, Avail, A) /\ Links(d, Avail, A) /\ Chain(d, Used, U) /\ Chain(d, Avail, A)
      /\ Tiled(d, U \cup A, op.size) /\ AllApart(d, U \cup A)
      /\ \A x \in U \cup A : Fits(d, x, op.size)
  BY <1>1 DEF Settled
<1>3. /\ o \in U \cup A /\ Fits(d, o, op.size) /\ d[o] \in Node /\ d[Avail] \in Node /\ o # Avail
      /\ o \in Nat /\ d[o].bytes \in Nat /\ left \in Nat /\ NodeSize \in Nat \ {0}
      /\ Avail \in Nat /\ Used # Avail
  <2>1. o \in U \cup A
    OBVIOUS
  <2>2. Fits(d, o, op.size)
    BY <1>2, <2>1
  <2>3. d[Avail] \in Node /\ o # Avail
    BY <1>2 DEF Links
  <2> QED
    BY <2>1, <2>2, <2>3, Heads DEF Fits
<1>4. d[Avail].bytes = d[o].bytes + SumOf(d, A \ {o}) /\ SumOf(d, A \ {o}) \in Nat
  <2>1. Sized(d, A) /\ d[Avail].bytes = SumOf(d, A)
    BY <1>2, ListSized DEF List
  <2>2. (A \ {o}) \in SUBSET A
    OBVIOUS
  <2>3. SumOf(d, A) = d[o].bytes + SumOf(d, A \ {o})
    BY <2>1, SumSplits
  <2>4. SumOf(d, A \ {o}) \in Nat
    BY <2>1, <2>2, SumSteps
  <2> QED
    BY <2>1, <2>3, <2>4
<1>5. d[Avail].bytes >= NodeSize + n /\ (d[Avail].bytes - NodeSize) - n \in Nat
  BY <1>3, <1>4
<1>6. Assert(op, d[Avail].bytes >= NodeSize + n) = op
  BY <1>2, <1>5, Asserted
<1>7. SplitOff(op, o, n) = r
  BY <1>6 DEF SplitOff
<1>8. /\ cut \in Node /\ cut.bytes = left /\ cut.next = d[o].next
      /\ rest \in Node /\ rest.next = d[Avail].next
  <2>1. cut \in Node /\ cut.bytes = left /\ cut.next = d[o].next
    BY <1>3 DEF Node
  <2>2. rest \in Node /\ rest.next = d[Avail].next
    BY <1>3, <1>5 DEF Node
  <2> QED
    BY <2>1, <2>2
<1>9. Wrote(op, shrunk, o, cut)
  <2> HIDE DEF cut
  <2> QED
    BY <1>2, <1>3, <1>8, Written
<1>10. Wrote(shrunk, counted, Avail, rest)
  <2>1. shrunk \in Op /\ shrunk.ok
    BY <1>9 DEF Wrote
  <2> HIDE DEF rest, shrunk
  <2> QED
    BY <1>3, <1>8, <2>1, Written
<1> HIDE DEF shrunk, counted
<1> DEFINE d1 == shrunk.disk
           d2 == counted.disk
<1>11. /\ DOMAIN d1 = DOMAIN d /\ DOMAIN d2 = DOMAIN d /\ d1[o] = cut /\ d2[o] = cut
       /\ d2[Avail] = rest /\ d1[Avail] = d[Avail]
       /\ \A x \in DOMAIN d \ {o, Avail} : d1[x] = d[x] /\ d2[x] = d[x]
       /\ counted \in Op /\ counted.ok /\ counted.size = op.size /\ d2 \in Disk
  <2>1. /\ DOMAIN d1 = DOMAIN d /\ d1[o] = cut /\ \A x \in DOMAIN d \ {o} : d1[x] = d[x]
    BY <1>2, <1>3, <1>9 DEF Wrote
  <2>2. /\ DOMAIN d2 = DOMAIN d1 /\ d2[Avail] = rest /\ \A x \in DOMAIN d1 \ {Avail} : d2[x] = d1[x]
    BY <1>2, <1>10, <2>1 DEF Wrote
  <2>3. counted \in Op /\ counted.ok /\ counted.size = op.size
    BY <1>9, <1>10 DEF Wrote
  <2>4. d2 \in Disk
    BY <2>3 DEF Op
  <2> HIDE DEF d1, d2, cut, rest
  <2> QED
    BY <1>2, <1>3, <2>1, <2>2, <2>3, <2>4
<1>12. /\ \A x \in DOMAIN d : d1[x].next = d[x].next /\ d2[x].next = d[x].next
       /\ \A x \in (U \cup A) \ {o} : d1[x].bytes = d[x].bytes /\ d2[x].bytes = d[x].bytes
       /\ d1[o].bytes = left /\ d2[o].bytes = left
  <2>1. \A x \in DOMAIN d : d1[x].next = d[x].next /\ d2[x].next = d[x].next
    <3> HIDE DEF d1, d2, cut, rest
    <3> QED
      BY <1>8, <1>11
  <2>2. \A x \in (U \cup A) \ {o} : d1[x].bytes = d[x].bytes /\ d2[x].bytes = d[x].bytes
    <3> HIDE DEF d1, d2, cut, rest
    <3> QED
      BY <1>2, <1>11
  <2> QED
    BY <1>8, <1>11, <2>1, <2>2
<1> HIDE DEF cut, rest, d1, d2
<1>13. AllApart(d1, U \cup A) /\ AllApart(d2, U \cup A)
  <2>1. \A x \in U \cup A : x \in Nat /\ d[x].bytes \in Nat
    BY <1>2 DEF Fits
  <2>2. left <= d[o].bytes
    BY <1>3
  <2> HIDE DEF left
  <2>3. \A x \in U \cup A : /\ d1[x].bytes \in Nat /\ d1[x].bytes <= d[x].bytes
                            /\ d2[x].bytes \in Nat /\ d2[x].bytes <= d[x].bytes
    <3> TAKE x \in U \cup A
    <3>1. CASE x = o
      BY <1>3, <1>12, <2>2, <3>1
    <3>2. CASE x # o
      <4>1. d1[x].bytes = d[x].bytes /\ d2[x].bytes = d[x].bytes /\ d[x].bytes \in Nat
        BY <1>12, <2>1, <3>2
      <4> QED
        BY <4>1
    <3> QED
      BY <3>1, <3>2
  <2> DEFINE N == U \cup A
  <2>4. AllApart(d, N) /\ N \subseteq Nat
    BY <1>2, <2>1
  <2> HIDE DEF N, d
  <2>5. AllApart(d1, N)
    BY <2>1, <2>3, <2>4, SmallerApart DEF N
  <2>6. AllApart(d2, N)
    BY <2>1, <2>3, <2>4, SmallerApart DEF N
  <2> QED
    BY <2>5, <2>6 DEF N
<1>14. AllSafe(counted, U)
  <2>1. SafeWith(d, d1, op.size, U, A, U) /\ SafeWith(d, d2, op.size, U, A, U)
    BY <1>2, <1>11, <1>12, <1>13 DEF SafeWith
  <2>2. Safe(d1, U) /\ Safe(d2, U)
    BY <2>1, StillSafe
  <2>3. AllSafe(shrunk, U)
    BY <1>2, <1>9, <2>2, WroteSafe DEF d1
  <2> QED
    BY <1>10, <2>2, <2>3, WroteSafe DEF d2
<1>15. Kept(d2, op.size, U, A, {})
  <2>1. Cut(d, d2, A, o, n)
    BY <1>11 DEF Cut, cut, rest
  <2>2. d2 \in Disk
    BY <1>11
  <2> QED
    BY <2>1, <2>2, CutKept
<1> DEFINE f == [x \in U \cup A \cup {new} |-> IF x = new THEN [bytes |-> n] ELSE d2[x]]
           N == U \cup A
<1>16. /\ new \in Nat /\ new \notin N /\ First <= new /\ new <= op.size
       /\ Tiled(f, N \cup {new}, op.size)
  <2>1. new > o /\ new \in Nat /\ new + NodeSize + n = o + NodeSize + d[o].bytes
    BY <1>3
  <2>2. f[new].bytes = n /\ f[o].bytes = left /\ \A x \in N \ {o, new} : f[x].bytes = d[x].bytes
    <3> HIDE DEF new, left, d
    <3> QED
      BY <1>3, <1>12, <2>1
  <2>3. new = End(f, o) /\ End(f, new) = End(d, o)
    BY <2>1, <2>2 DEF End
  <2>4. N \subseteq Nat /\ \A x \in N : d[x].bytes \in Nat
    BY <1>2 DEF Fits
  <2>5. new \notin N
    <3>1. \A x \in N \ {o} : End(d, x) <= o \/ End(d, o) <= x
      BY <1>2, <1>3 DEF AllApart, ApartIn
    <3>2. \A x \in N : x \in Nat /\ x < End(d, x) /\ End(d, x) \in Nat
      BY <1>2 DEF Fits
    <3>3. new < End(d, o) /\ o \in Nat /\ o < new
      BY <1>3, <2>1 DEF End
    <3> HIDE DEF new, N, d
    <3>4. ASSUME NEW x \in N \ {o} PROVE x # new
      <4>1. x \in Nat /\ x < End(d, x) /\ End(d, x) \in Nat
        BY <3>2
      <4>2. End(d, o) \in Nat /\ new \in Nat
        BY <1>3, <2>1, <3>2 DEF N
      <4>3. End(d, x) <= o \/ End(d, o) <= x
        BY <3>1
      <4> QED
        BY <3>3, <4>1, <4>2, <4>3
    <3> QED
      BY <3>3, <3>4
  <2> HIDE DEF f, N, new, left, d
  <2>6. \A x \in N \ {o} : f[x].bytes = d[x].bytes
    BY <2>2, <2>5
  <2>7. Divides(d, f, N, op.size, o, new)
    BY <1>2, <1>3, <2>2, <2>3, <2>4, <2>6 DEF Divides, N
  <2> QED
    BY <1>2, <2>7, Divided
<1>17. With(counted, r, U, A, {}, U, Used, new, n)
  <2>1. U \cup U \cup A = N
    OBVIOUS
  <2>2. FitsAt(d2, U \cup U \cup A, new, n)
    <3>1. (\A x \in N \ {new} : f[x].bytes = d2[x].bytes) /\ f[new].bytes = n
      OBVIOUS
    <3>2. AllApart(f, N \cup {new})
      BY <1>16 DEF Tiled
    <3> HIDE DEF f, N, new
    <3> QED
      BY <2>1, <3>1, <3>2 DEF FitsAt
  <2>3. Sound(counted, U, A, {}, U)
    BY <1>2, <1>11, <1>14, <1>15 DEF Sound, d2
  <2>4. CanLink(counted, U, A, {}, U, Used, new, n)
    <3> HIDE DEF new
    <3> QED
      BY <1>3, <1>11, <1>16, <2>3 DEF CanLink
  <2> HIDE DEF new
  <2> QED
    BY <2>2, <2>4, InsertKept DEF d2
<1> HIDE DEF r, new
<1>18. Became(counted, r, U, U \cup {new}, A, {}) /\ r.disk[new].bytes = n
  <2>1. {} \ {new} = {}
    OBVIOUS
  <2> QED
    BY <1>17, <2>1 DEF With
<1>19. \A x \in N : r.disk[x].bytes = d2[x].bytes
  BY <1>2, <1>11, <1>18 DEF Became, d2
<1>20. Tiled(r.disk, (U \cup {new}) \cup A, r.size)
  <2>1. (U \cup {new}) \cup A = N \cup {new} /\ r.size = op.size
    BY <1>11, <1>18 DEF Became
  <2>2. \A x \in N \cup {new} : r.disk[x].bytes = f[x].bytes
    BY <1>16, <1>18, <1>19
  <2> HIDE DEF f
  <2> QED
    BY <1>16, <2>1, <2>2, TiledSame
<1>21. Sound(r, U \cup {new}, A, {}, U)
  BY <1>2, <1>18 DEF Became, Sound
<1>22. \A x \in U : r.disk[x].bytes = d[x].bytes
  BY <1>2, <1>12, <1>19
<1>23. new = End(d, o) - n - NodeSize
  BY <1>3 DEF End, new
<1>24. Grew(op, r, U, A, new, n)
  BY <1>16, <1>18, <1>20, <1>21, <1>22 DEF Grew, Done
<1> QED
  BY <1>7, <1>23, <1>24

\* A block of n bytes at the end of the file.
LEMMA AppendNodeKept ==
    ASSUME NEW op, NEW U, NEW A, Done(op, U, A, U), NEW n \in Nat
    PROVE  Grew(op, AppendNode(op, n), U, A, op.size, n)
<1> DEFINE d == op.disk
           o == op.size
           tail == d[Used].prev
           longer == [op EXCEPT !.size = @ + NodeSize + n,
                                !.past = @ \cup {[disk |-> op.disk, size |-> o + NodeSize + n]}]
           r == Linking(longer, Used, o, n, tail, None)
           N == U \cup A
<1>1. Settled(op, U, A, U)
  BY DoneFacts
<1>2. /\ U \cap A = {} /\ DOMAIN d = {Used, Avail} \cup U \cup A
      /\ {Used, Avail} \cap (U \cup A) = {}
      /\ op \in Op /\ op.ok /\ AllSafe(op, U) /\ op.size \in Nat /\ Ascending(d, op.size)
      /\ List(d, Used, U) /\ List(d, Avail, A) /\ Links(d, Used, U)
      /\ Chain(d, Used, U) /\ Chain(d, Avail, A)
      /\ Tiled(d, N, op.size) /\ AllApart(d, N) /\ d \in Disk
      /\ \A x \in N : Fits(d, x, op.size)
  BY <1>1 DEF Settled
<1> DEFINE top == o + NodeSize + n
<1>3. /\ top \in Nat /\ o < top /\ o \in Nat /\ First \in Nat /\ First <= o
      /\ Used < First /\ Avail < First /\ Used \in Nat /\ Avail \in Nat /\ Used # Avail
  <2>1. First <= o
    <3>1. First \in N \cup {o}
      BY <1>2 DEF Tiled
    <3>2. \A x \in N : x \in Nat /\ First <= x /\ x < o
      BY <1>2 DEF Fits
    <3> QED
      BY <1>2, <3>1, <3>2, Heads
  <2> QED
    BY <1>2, <2>1, Heads
<1>4. /\ longer \in Op /\ longer.ok /\ longer.disk = d /\ longer.size = top
      /\ longer.past = op.past \cup {[disk |-> d, size |-> top]}
  <2>1. [disk |-> d, size |-> top] \in File
    BY <1>2, <1>3 DEF File
  <2> HIDE DEF d
  <2> QED
    BY <1>2, <1>3, <2>1 DEF Op, d
<1>5. AppendNode(op, n) = r
  <2>1. tail = None <=> d[Used].next = None
    <3>1. U \subseteq Nat \ {0} /\ IsFirst(d[Used].next, U) /\ IsLast(d[Used].prev, U)
      BY <1>2 DEF Links
    <3> QED
      BY <3>1 DEF IsFirst, IsLast, None
  <2>2. longer.disk = d
    BY <1>4
  <2> DEFINE a1 == Write(longer, o, [bytes |-> n, prev |-> tail, next |-> None])
             a3 == IF tail = None THEN a1 ELSE SetNext(a1, tail, o)
  <2>3. r = Write(a3, Used, [bytes |-> d[Used].bytes + n, prev |-> o,
                             next |-> IF tail = None THEN o ELSE d[Used].next])
    <3> HIDE DEF longer, tail
    <3> QED
      BY <2>2 DEF Linking
  <2>4. (IF tail = None THEN o ELSE d[Used].next)
          = (IF d[Used].next = None THEN o ELSE d[Used].next)
    BY <2>1
  <2>5. AppendNode(op, n) = Write(a3, Used, [bytes |-> d[Used].bytes + n, prev |-> o,
                             next |-> IF d[Used].next = None THEN o ELSE d[Used].next])
    BY Zenon DEF AppendNode
  <2> QED
    BY <2>3, <2>4, <2>5
<1> HIDE DEF longer
<1>6. o \notin N /\ o \notin DOMAIN d
  <2>1. \A x \in N : x < o /\ x \in Nat
    BY <1>2 DEF Fits
  <2> QED
    BY <1>2, <1>3, <2>1
<1>7. Under(U, o) = U /\ Over(U, o) = {}
  <2>1. \A x \in U : x < o /\ x \in Nat
    BY <1>2 DEF Fits
  <2> QED
    BY <1>3, <2>1 DEF Under, Over
<1>8. /\ Working(longer, r, Used, U \cup {o}) /\ List(r.disk, Used, U \cup {o})
      /\ Given(longer, r, o, n)
  <2>1. IsLast(tail, Under(U, o)) /\ IsFirst(None, Over(U, o))
    BY <1>2, <1>7 DEF Links, IsFirst
  <2>2. List(longer.disk, Used, U) /\ Used < o /\ o \notin U /\ o \notin DOMAIN longer.disk
    BY <1>2, <1>3, <1>4, <1>6
  <2> HIDE DEF tail, o
  <2> QED
    BY <1>3, <1>4, <2>1, <2>2, LinkingSound
<1> HIDE DEF r
<1>9. AllSafe(longer, U)
  <2>1. SafeWith(d, d, op.size, U, A, U)
    BY <1>2 DEF SafeWith
  <2>2. Safe(d, U)
    BY <2>1, StillSafe
  <2> QED
    BY <1>2, <1>4, <2>2 DEF AllSafe
<1>10. Sound(longer, U, A, {}, U)
  <2>1. Ascending(d, top)
    <3>1. \A x \in 1 .. o : x \in 1 .. top
      BY <1>3
    <3> QED
      BY <1>2, <1>3, <3>1 DEF Ascending
  <2> HIDE DEF d, top
  <2> QED
    BY <1>2, <1>3, <1>4, <1>9, <2>1 DEF Sound, Kept
<1>11. \A x \in N : r.disk[x].bytes = d[x].bytes
  <2> TAKE x \in N
  <2>1. Between(d, r.disk, Used, U \cup {o}) /\ x \in DOMAIN d /\ x # Used
    BY <1>2, <1>4, <1>8 DEF Working
  <2>2. CASE x \in U \cup {o}
    BY <2>1, <2>2 DEF Between
  <2>3. CASE x \notin U \cup {o}
    BY <2>1, <2>3 DEF Between
  <2> QED
    BY <2>2, <2>3
<1>12. r.disk[o].bytes = n
  BY <1>8 DEF Given
<1>13. End(r.disk, o) = top
  BY <1>12 DEF End
<1>14. Tiled(r.disk, N \cup {o}, top)
  <2>1. N \subseteq Nat /\ \A x \in N : d[x].bytes \in Nat /\ r.disk[x].bytes = d[x].bytes
    BY <1>2, <1>11 DEF Fits
  <2> HIDE DEF N, d, o
  <2>2. Tiled(d, N, o) /\ o \in Nat /\ r.disk[o].bytes \in Nat
    BY <1>2, <1>3, <1>12 DEF o
  <2>3. Appends(d, r.disk, N, o)
    BY <2>1, <2>2 DEF Appends
  <2>4. Tiled(r.disk, N \cup {o}, End(r.disk, o))
    BY <2>3, Appended
  <2> QED
    BY <1>13, <2>4
<1>15. With(longer, r, U, A, {}, U, Used, o, n)
  <2>1. U \cup U \cup A \cup {o} = N \cup {o} /\ ListOf(Used, U, A) = U
    BY DEF ListOf
  <2>2. AllApart(r.disk, U \cup U \cup A \cup {o})
    BY <1>14, <2>1 DEF Tiled
  <2>3. CanLink(longer, U, A, {}, U, Used, o, n)
    BY <1>3, <1>4, <1>6, <1>10 DEF CanLink
  <2>4. HasLinked(longer, r, U, A, {}, U, Used, o, n)
    BY <1>8, <2>1, <2>2, <2>3 DEF HasLinked
  <2> HIDE DEF o
  <2> QED
    BY <2>4, LinkingKept
<1>16. Became(longer, r, U, U \cup {o}, A, {})
  <2>1. {} \ {o} = {}
    OBVIOUS
  <2> QED
    BY <1>15, <2>1 DEF With
<1>17. Done(r, U \cup {o}, A, U)
  <2>1. (U \cup {o}) \cup A = N \cup {o} /\ r.size = top
    BY <1>4, <1>16 DEF Became
  <2>2. Tiled(r.disk, (U \cup {o}) \cup A, r.size)
    BY <1>14, <2>1
  <2>3. Sound(r, U \cup {o}, A, {}, U)
    BY <1>2, <1>16 DEF Became, Sound
  <2> QED
    BY <2>2, <2>3 DEF Done
<1>18. Grew(op, r, U, A, o, n)
  BY <1>3, <1>6, <1>11, <1>12, <1>17 DEF Grew
<1> QED
  BY <1>5, <1>18

-----------------------------------------------------------------------------
(* free.                                                                   *)

\* What the blocks that callers own have in r is what they had in op.
Kin(op, r, U, A, own) ==
    Done(r, U, A, own) /\ \A x \in own : r.disk[x].bytes = op.disk[x].bytes

\* b follows a in the list of free nodes, and in the file.
Follows(op, U, A, own, a, b) ==
    /\ Done(op, U, A, own) /\ a \in A /\ b \in A
    /\ op.disk[a].next = b /\ End(op.disk, a) = b

\* e is d after the first write of a merge: a takes the block of b in.
Larger(d, e, a, b) ==
    /\ DOMAIN e = DOMAIN d /\ e[a] \in Node
    /\ e[a].bytes = d[a].bytes + NodeSize + d[b].bytes
    /\ e[a].next = d[b].next /\ e[a].prev = d[a].prev
    /\ \A x \in DOMAIN d \ {a} : e[x] = d[x]

LEMMA FollowsFacts ==
    ASSUME NEW op, NEW U, NEW A, NEW own, NEW a, NEW b, Follows(op, U, A, own, a, b)
    PROVE  /\ a \in Nat \ {0} /\ b \in Nat \ {0} /\ a < b /\ op.disk[a] \in Node /\ op.disk[b] \in Node
           /\ op.disk[b].prev = a /\ op.disk[b].next \in (A \ {a, b}) \cup {None}
           /\ op.disk[b].next # None => op.disk[b].next > b
           /\ op.disk[Avail].next \in A \ {b}
           /\ \A x \in A \ {a} : op.disk[x].next # b
<1> DEFINE d == op.disk
<1>1. Settled(op, U, A, own) /\ a \in A /\ b \in A /\ d[a].next = b
  BY DoneFacts DEF Follows
<1>2. Links(d, Avail, A)
  BY <1>1 DEF Settled
<1>3. /\ a \in Nat \ {0} /\ d[a] \in Node
      /\ b # None => b > a /\ d[b].prev = a
  BY <1>1, <1>2, LinksOrder
<1>4. /\ b \in Nat \ {0} /\ d[b] \in Node /\ d[b].next \in A \cup {None}
      /\ d[b].next # None => d[b].next > b
  BY <1>1, <1>2, LinksOrder
<1>5. b # None /\ a < b /\ d[b].prev = a
  BY <1>3, <1>4 DEF None
<1>6. d[b].next \notin {a, b}
  BY <1>3, <1>4, <1>5 DEF None
<1>7. ASSUME NEW x \in A \ {a} PROVE d[x].next # b
  <2>1. d[x].next # None => d[d[x].next].prev = x
    BY <1>2, LinksOrder
  <2> QED
    BY <1>5, <2>1
<1>8. d[Avail].next \in A \ {b}
  <2>1. d[Avail].next \in A /\ \A y \in A : d[Avail].next <= y
    BY <1>1, <1>2 DEF Links, IsFirst
  <2>2. d[Avail].next <= a
    BY <1>1, <2>1
  <2> QED
    BY <1>3, <1>4, <1>5, <2>1, <2>2
<1> QED
  BY <1>3, <1>4, <1>5, <1>6, <1>7, <1>8

LEMMA LargerSafe ==
    ASSUME NEW op, NEW U, NEW A, NEW own, NEW a, NEW b, Follows(op, U, A, own, a, b),
           NEW e, Larger(op.disk, e, a, b)
    PROVE  SafeWith(e, e, op.size, U, A \ {b}, own) /\ Tiled(e, (U \cup A) \ {b}, op.size)
<1> DEFINE d == op.disk
           N == U \cup A
<1>1. Settled(op, U, A, own) /\ a \in A /\ b \in A /\ d[a].next = b /\ End(d, a) = b
  BY DoneFacts DEF Follows
<1>2. /\ U \cap A = {} /\ DOMAIN d = {Used, Avail} \cup U \cup A
      /\ {Used, Avail} \cap (U \cup A) = {} /\ op.size \in Nat /\ Ascending(d, op.size)
      /\ Chain(d, Used, U) /\ Chain(d, Avail, A) /\ Tiled(d, N, op.size) /\ own \subseteq U
      /\ \A x \in N : Fits(d, x, op.size)
  BY <1>1 DEF Settled
<1>3. /\ a \in Nat \ {0} /\ b \in Nat \ {0} /\ a < b /\ d[a] \in Node /\ d[b] \in Node
      /\ d[b].prev = a /\ d[b].next \in (A \ {a, b}) \cup {None}
      /\ d[b].next # None => d[b].next > b
      /\ d[Avail].next \in A \ {b}
      /\ \A x \in A \ {a} : d[x].next # b
  BY FollowsFacts
<1>4. /\ DOMAIN e = DOMAIN d /\ e[a].bytes = d[a].bytes + NodeSize + d[b].bytes
      /\ e[a].next = d[b].next /\ \A x \in DOMAIN d \ {a} : e[x] = d[x]
  BY DEF Larger
<1>5. Ascending(e, op.size)
  <2>1. d[b].next = None \/ (d[b].next \in DOMAIN d /\ d[b].next > a)
    <3>1. d[b].next # None => d[b].next \in N
      BY <1>3
    <3>2. \A x \in N : x \in Nat /\ x \in DOMAIN d
      BY <1>2 DEF Fits
    <3> QED
      BY <1>3, <3>1, <3>2
  <2> HIDE DEF d
  <2> QED
    BY <1>2, <1>4, <2>1 DEF Ascending
<1>6. Chain(e, Used, U)
  <2>1. a \notin U \cup {Used}
    BY <1>1, <1>2
  <2>2. U \cup {Used} \subseteq DOMAIN d
    BY <1>2
  <2> HIDE DEF d
  <2> QED
    BY <1>2, <1>4, <2>1, <2>2 DEF Chain
<1>7. Chain(e, Avail, A \ {b})
  <2>1. Avail # a /\ Avail \in DOMAIN d /\ A \subseteq DOMAIN d
    BY <1>1, <1>2
  <2>2. e[Avail].next \in A \ {b}
    BY <1>3, <1>4, <2>1
  <2>3. ASSUME NEW x \in A \ {b} PROVE e[x].next \in (A \ {b}) \cup {None}
    <3>1. CASE x = a
      BY <1>3, <1>4, <3>1
    <3>2. CASE x # a
      <4>1. e[x] = d[x] /\ d[x].next \in A \cup {None}
        BY <1>2, <1>4, <2>1, <3>2 DEF Chain
      <4> QED
        BY <1>3, <3>2, <4>1
    <3> QED
      BY <3>1, <3>2
  <2>4. Avail \in DOMAIN e /\ A \ {b} \subseteq DOMAIN e
    BY <1>4, <2>1
  <2> HIDE DEF d
  <2> QED
    BY <2>2, <2>3, <2>4 DEF Chain
<1>8. Tiled(e, N \ {b}, op.size)
  <2>1. N \subseteq Nat /\ (\A x \in N : d[x].bytes \in Nat)
    BY <1>2 DEF Fits
  <2>2. a \in N /\ b \in N
    BY <1>1
  <2>3. End(e, a) = End(d, b)
    <3>1. b = a + NodeSize + d[a].bytes
      BY <1>1 DEF End
    <3>2. d[a].bytes \in Nat /\ d[b].bytes \in Nat /\ NodeSize \in Nat /\ a \in Nat
      BY <1>3, Heads DEF Node
    <3>3. e[a].bytes = d[a].bytes + NodeSize + d[b].bytes
      BY <1>4
    <3> DEFINE i == d[a].bytes
               j == d[b].bytes
    <3>4. End(e, a) = a + NodeSize + (i + NodeSize + j) /\ End(d, b) = b + NodeSize + j
      BY <3>3 DEF End
    <3>5. i \in Nat /\ j \in Nat /\ b = a + NodeSize + i
      BY <3>1, <3>2
    <3> HIDE DEF i, j
    <3> QED
      BY <3>2, <3>4, <3>5
  <2>4. \A x \in N \ {a} : e[x].bytes = d[x].bytes
    BY <1>2, <1>4
  <2> HIDE DEF N, d
  <2>5. Joins(d, e, N, op.size, a, b)
    BY <1>1, <1>2, <2>1, <2>2, <2>3, <2>4 DEF Joins
  <2> QED
    BY <1>2, <2>5, Joined
<1>9. AllApart(e, U \cup (A \ {b}))
  <2>1. U \cup (A \ {b}) = N \ {b}
    BY <1>1, <1>2
  <2> HIDE DEF N
  <2> QED
    BY <1>8, <2>1 DEF Tiled
<1> QED
  BY <1>2, <1>5, <1>6, <1>7, <1>8, <1>9 DEF SafeWith

\* e is d after all three writes of a merge.
TookIn(d, e, a, b) == LET next == d[b].next IN
    /\ DOMAIN e = DOMAIN d /\ \A x \in DOMAIN d : e[x] \in Node
    /\ \A x \in DOMAIN d : e[x].next = IF x = a THEN next ELSE d[x].next
    /\ \A x \in DOMAIN d : e[x].prev = IF x = next \/ (x = Avail /\ next = None)
                                       THEN a ELSE d[x].prev
    /\ e[a].bytes = d[a].bytes + NodeSize + d[b].bytes
    /\ e[Avail].bytes = d[Avail].bytes + NodeSize
    /\ \A x \in DOMAIN d \ {a, Avail} : e[x].bytes = d[x].bytes

LEMMA MergedList ==
    ASSUME NEW op, NEW U, NEW A, NEW own, NEW a, NEW b, Follows(op, U, A, own, a, b),
           NEW e, TookIn(op.disk, e, a, b)
    PROVE  List(e, Used, U) /\ List(e, Avail, A \ {b})
<1> DEFINE d == op.disk
           next == d[b].next
<1>1. Settled(op, U, A, own) /\ a \in A /\ b \in A /\ d[a].next = b /\ End(d, a) = b
  BY DoneFacts DEF Follows
<1>2. /\ U \cap A = {} /\ DOMAIN d = {Used, Avail} \cup U \cup A
      /\ {Used, Avail} \cap (U \cup A) = {} /\ Used # Avail
      /\ List(d, Used, U) /\ List(d, Avail, A) /\ Links(d, Avail, A) /\ Links(d, Used, U)
      /\ \A x \in DOMAIN d : d[x] \in Node
  <2>1. \A x \in DOMAIN d : d[x] \in Node
    BY <1>1, OfDisk DEF Settled
  <2> QED
    BY <1>1, <2>1, Heads DEF Settled
<1>3. /\ a \in Nat \ {0} /\ b \in Nat \ {0} /\ a < b /\ d[a] \in Node /\ d[b] \in Node
      /\ d[b].prev = a /\ next \in (A \ {a, b}) \cup {None}
  BY FollowsFacts
<1>4. /\ DOMAIN e = DOMAIN d /\ \A x \in DOMAIN d : e[x] \in Node
      /\ \A x \in DOMAIN d : e[x].next = IF x = a THEN next ELSE d[x].next
      /\ \A x \in DOMAIN d : e[x].prev = IF x = next \/ (x = Avail /\ next = None)
                                         THEN a ELSE d[x].prev
      /\ e[a].bytes = d[a].bytes + NodeSize + d[b].bytes
      /\ e[Avail].bytes = d[Avail].bytes + NodeSize
      /\ \A x \in DOMAIN d \ {a, Avail} : e[x].bytes = d[x].bytes
  BY DEF TookIn
<1>5. None \notin U \cup A /\ a # None
  BY <1>2, <1>3 DEF Links, None
<1>6. List(e, Used, U)
  <2>1. \A x \in U \cup {Used} : e[x] = d[x]
    <3> TAKE x \in U \cup {Used}
    <3>1. x \in DOMAIN d /\ x # a /\ x # Avail /\ x # next
      <4>1. next = None \/ next \in A
        BY <1>3
      <4>2. Used # None
        BY Heads DEF None
      <4> QED
        BY <1>1, <1>2, <1>5, <4>1, <4>2
    <3> HIDE DEF d, next
    <3>2. e[x] \in Node /\ d[x] \in Node /\ e[x].next = d[x].next /\ e[x].prev = d[x].prev
          /\ e[x].bytes = d[x].bytes
      BY <1>2, <1>4, <3>1
    <3> QED
      BY <3>2, SameNode
  <2>2. U \cup {Used} \subseteq DOMAIN e
    BY <1>2, <1>4
  <2> QED
    BY <1>2, <2>1, <2>2, ListSame
<1>7. Links(e, Avail, A \ {b})
  <2>1. Avail \in DOMAIN d /\ A \subseteq DOMAIN d /\ Avail \notin A
    BY <1>2
  <2>2. /\ e[Avail] \in Node /\ e[Avail].next = d[Avail].next
        /\ e[Avail].prev = IF next = None THEN a ELSE d[Avail].prev
    <3>1. Avail # a /\ Avail # next
      <4>1. next = None \/ next \in A
        BY <1>3
      <4>2. Avail # None
        BY Heads DEF None
      <4> QED
        BY <1>1, <2>1, <4>1, <4>2
    <3> HIDE DEF d, next
    <3> QED
      BY <1>4, <2>1, <3>1
  <2>3. ASSUME NEW x \in A \ {b}
        PROVE  /\ e[x] \in Node /\ e[x].next = IF x = a THEN next ELSE d[x].next
               /\ e[x].prev = IF x = next THEN a ELSE d[x].prev
    <3>1. x \in DOMAIN d /\ x # Avail
      BY <2>1
    <3> HIDE DEF d, next
    <3> QED
      BY <1>4, <3>1
  <2>4. Unlinked(d, e, Avail, A, b)
    <3>1. DOMAIN d \subseteq DOMAIN e
      BY <1>4
    <3>2. e[Avail].next = IF a = None THEN next ELSE d[Avail].next
      BY <1>5, <2>2
    <3> QED
      BY <1>3, <2>2, <2>3, <3>1, <3>2 DEF Unlinked
  <2> QED
    BY <1>1, <1>2, <2>4, UnlinkedLinks
<1>8. e[Avail].bytes = SumOf(e, A \ {b})
  <2>1. Sized(d, A) /\ Sized(e, A \ {b}) /\ d[Avail].bytes = SumOf(d, A)
    BY <1>2, <1>7, ListSized DEF List
  <2> DEFINE R == (A \ {b}) \ {a}
  <2>2. Sized(d, A \ {b}) /\ Sized(d, R)
    <3>1. IsFiniteSet(A \ {b}) /\ IsFiniteSet(R)
      BY <2>1, FS_Subset DEF Sized
    <3> QED
      BY <2>1, <3>1 DEF Sized
  <2>3. SumOf(d, A) = d[b].bytes + SumOf(d, A \ {b})
    BY <1>1, <2>1, SumSplits
  <2>4. a \in A \ {b}
    BY <1>1, <1>3
  <2>5. SumOf(d, A \ {b}) = d[a].bytes + SumOf(d, R)
    BY <2>2, <2>4, SumSplits
  <2>6. SumOf(e, A \ {b}) = e[a].bytes + SumOf(e, R)
    BY <2>1, <2>4, SumSplits
  <2>7. SumOf(e, R) = SumOf(d, R)
    <3>1. \A x \in R : e[x].bytes = d[x].bytes
      <4> TAKE x \in R
      <4>1. x \in DOMAIN d \ {a, Avail}
        BY <1>2
      <4> HIDE DEF d
      <4> QED
        BY <1>4, <4>1
    <3> HIDE DEF R
    <3> QED
      BY <2>2, <3>1, SumSame
  <2>8. SumOf(d, R) \in Nat
    BY <2>2, SumIsNat
  <2>9. d[a].bytes \in Nat /\ d[b].bytes \in Nat /\ NodeSize \in Nat
    BY <1>3, Heads DEF Node
  <2> DEFINE i == d[a].bytes
             j == d[b].bytes
             k == SumOf(d, R)
  <2>10. /\ i \in Nat /\ j \in Nat /\ k \in Nat /\ NodeSize \in Nat
         /\ SumOf(e, A \ {b}) = i + NodeSize + j + k
         /\ e[Avail].bytes = j + (i + k) + NodeSize
    BY <1>4, <2>1, <2>3, <2>5, <2>6, <2>7, <2>8, <2>9
  <2> HIDE DEF i, j, k
  <2> QED
    BY <2>10
<1> QED
  BY <1>6, <1>7, <1>8 DEF List

\* Merge: b is no longer free, and its block belongs to a.
LEMMA MergeKept ==
    ASSUME NEW op, NEW U, NEW A, NEW own, NEW a, NEW b, Follows(op, U, A, own, a, b)
    PROVE  Kin(op, Merge(op, a, b), U, A \ {b}, own)
<1> DEFINE d == op.disk
           next == d[b].next
           grown == [d[a] EXCEPT !.bytes = @ + NodeSize + d[b].bytes, !.next = next]
           head == [d[Avail] EXCEPT !.bytes = @ + NodeSize,
                                    !.prev = IF next = None THEN a ELSE @]
           larger == Write(op, a, grown)
           passed == SetPrev(larger, next, a)
           w == Write(passed, Avail, head)
           r == Forget(w, b)
           N == U \cup A
<1>1. Settled(op, U, A, own) /\ a \in A /\ b \in A /\ d[a].next = b /\ End(d, a) = b
  BY DoneFacts DEF Follows
<1>2. /\ U \cap A = {} /\ DOMAIN d = {Used, Avail} \cup U \cup A
      /\ {Used, Avail} \cap (U \cup A) = {} /\ Used # Avail
      /\ op \in Op /\ op.ok /\ AllSafe(op, own) /\ own \subseteq U
      /\ op.size \in Nat /\ Ascending(d, op.size) /\ Links(d, Avail, A) /\ Links(d, Used, U)
      /\ \A x \in DOMAIN d : d[x] \in Node /\ x \in Nat
  <2>1. \A x \in DOMAIN d : d[x] \in Node /\ x \in Nat
    BY <1>1, OfDisk DEF Settled
  <2> QED
    BY <1>1, <2>1, Heads DEF Settled
<1>3. /\ a \in Nat \ {0} /\ b \in Nat \ {0} /\ a < b /\ d[a] \in Node /\ d[b] \in Node
      /\ next \in (A \ {a, b}) \cup {None} /\ next # b
      /\ d[Avail] \in Node /\ Avail \in Nat /\ a # Avail /\ next # Avail
      /\ a \in DOMAIN d /\ Avail \in DOMAIN d
  <2>1. /\ a \in Nat \ {0} /\ b \in Nat \ {0} /\ a < b /\ d[a] \in Node /\ d[b] \in Node
        /\ next \in (A \ {a, b}) \cup {None}
    BY FollowsFacts
  <2>2. d[Avail] \in Node /\ Avail \in Nat \ {0} /\ a # Avail /\ a \in DOMAIN d /\ Avail \in DOMAIN d
    BY <1>1, <1>2, Heads
  <2>3. next # Avail /\ next # b
    BY <1>2, <2>1, <2>2 DEF None
  <2> QED
    BY <2>1, <2>2, <2>3
<1>4. next \in Nat
  BY <1>2, <1>3 DEF None
<1>5. /\ grown \in Node /\ grown.bytes = d[a].bytes + NodeSize + d[b].bytes
      /\ grown.next = next /\ grown.prev = d[a].prev
      /\ head \in Node /\ head.bytes = d[Avail].bytes + NodeSize
      /\ head.next = d[Avail].next
      /\ head.prev = IF next = None THEN a ELSE d[Avail].prev
  <2>1. d[a].bytes \in Nat /\ d[b].bytes \in Nat /\ d[Avail].bytes \in Nat /\ NodeSize \in Nat
    BY <1>3, Heads DEF Node
  <2> HIDE DEF next, d
  <2> DEFINE i == IF next = None THEN a ELSE d[Avail].prev
             j == d[a].bytes + NodeSize + d[b].bytes
             k == d[Avail].bytes + NodeSize
  <2>3. /\ grown = [d[a] EXCEPT !.bytes = j, !.next = next]
        /\ head = [d[Avail] EXCEPT !.bytes = k, !.prev = i]
    BY Zenon
  <2>4. i \in Nat /\ j \in Nat /\ k \in Nat
    BY <1>3, <2>1 DEF Node
  <2> HIDE DEF i, j, k, head, grown
  <2>2. /\ grown \in Node /\ grown.bytes = j
        /\ grown.next = next /\ grown.prev = d[a].prev
    BY <1>3, <1>4, <2>3, <2>4 DEF Node
  <2>5. /\ head \in Node /\ head.bytes = k
        /\ head.next = d[Avail].next /\ head.prev = i
    BY <1>3, <2>3, <2>4 DEF Node
  <2> QED
    BY <2>2, <2>5 DEF i, j, k
<1>6. Wrote(op, larger, a, grown)
  <2> HIDE DEF grown
  <2> QED
    BY <1>2, <1>3, <1>5, Written
<1> HIDE DEF larger, grown, head
<1> DEFINE d1 == larger.disk
<1>7. /\ larger \in Op /\ larger.ok /\ larger.size = op.size
      /\ DOMAIN d1 = DOMAIN d /\ d1[a] = grown /\ \A x \in DOMAIN d \ {a} : d1[x] = d[x]
  BY <1>2, <1>3, <1>6 DEF Wrote
<1>8. SafeWith(d1, d1, op.size, U, A \ {b}, own) /\ Tiled(d1, N \ {b}, op.size)
  <2>1. Larger(d, d1, a, b)
    BY <1>5, <1>7 DEF Larger
  <2> HIDE DEF d1
  <2> QED
    BY <2>1, LargerSafe
<1>9. AllSafe(larger, own)
  <2>1. Safe(d1, own)
    BY <1>8, StillSafe
  <2> QED
    BY <1>2, <1>6, <2>1, WroteSafe
\* What each of the next writes keeps.
<1> DEFINE Keeps(e) ==
    /\ DOMAIN e = DOMAIN d /\ \A x \in DOMAIN d : e[x].next = d1[x].next
    /\ \A x \in N \ {b} : e[x].bytes = d1[x].bytes
<1>10. ASSUME NEW e, Keeps(e)
       PROVE  SafeWith(d1, e, op.size, U, A \ {b}, own) /\ Tiled(e, N \ {b}, op.size)
  <2>1. AllApart(e, U \cup (A \ {b}))
    <3>1. U \cup (A \ {b}) = N \ {b}
      BY <1>1, <1>2
    <3>2. AllApart(d1, N \ {b})
      BY <1>8 DEF Tiled
    <3> HIDE DEF N, d1
    <3>3. AllApart(e, N \ {b})
      BY <1>10, <3>2, ApartSame
    <3> QED
      BY <3>1, <3>3
  <2>2. Tiled(e, N \ {b}, op.size)
    <3> HIDE DEF N, d1
    <3> QED
      BY <1>8, <1>10, TiledSame
  <2> HIDE DEF d1
  <2> QED
    BY <1>7, <1>8, <1>10, <2>1, <2>2 DEF SafeWith
<1> DEFINE d2 == passed.disk
<1>11. /\ passed \in Op /\ passed.ok /\ passed.size = op.size /\ AllSafe(passed, own)
       /\ DOMAIN d2 = DOMAIN d
       /\ \A x \in DOMAIN d : d2[x] \in Node /\ d2[x].next = d1[x].next /\ d2[x].bytes = d1[x].bytes
       /\ \A x \in DOMAIN d : d2[x].prev = IF x = next THEN a ELSE d1[x].prev
  <2>1. \A x \in DOMAIN d : d1[x] \in Node
    BY <1>2, <1>5, <1>7
  <2>2. CASE next = None
    <3>1. passed = larger
      BY <2>2 DEF SetPrev
    <3>2. next \notin DOMAIN d
      BY <1>2, <2>2, Heads DEF None, Links
    <3> HIDE DEF d, d1, next
    <3> QED
      BY <1>7, <1>9, <2>1, <3>1, <3>2 DEF d1
  <2>3. CASE next # None
    <3>1. next \in DOMAIN d1
      BY <1>2, <1>3, <1>7, <2>3
    <3> HIDE DEF next, d
    <3>2. Wrote(larger, passed, next, [d1[next] EXCEPT !.prev = a]) /\ d1[next] \in Node
      BY <1>3, <1>7, <2>3, <3>1, PrevSet
    <3> DEFINE m == [d1[next] EXCEPT !.prev = a]
    <3>3. m \in Node /\ m.next = d1[next].next /\ m.bytes = d1[next].bytes /\ m.prev = a
      BY <1>3, <3>2 DEF Node
    <3> HIDE DEF m, passed
    <3>4. /\ DOMAIN d2 = DOMAIN d /\ d2[next] = m
          /\ \A x \in DOMAIN d \ {next} : d2[x] = d1[x]
          /\ passed \in Op /\ passed.ok /\ passed.size = op.size
      BY <1>7, <3>1, <3>2 DEF Wrote, m
    <3> HIDE DEF d1, d2
    <3>5. \A x \in DOMAIN d : d2[x] \in Node /\ d2[x].next = d1[x].next /\ d2[x].bytes = d1[x].bytes
      BY <2>1, <3>3, <3>4
    <3>6. Keeps(d2)
      <4>1. N \ {b} \subseteq DOMAIN d
        BY <1>2
      <4> QED
        BY <3>4, <3>5, <4>1
    <3>7. AllSafe(passed, own)
      <4>1. SafeWith(d1, d2, op.size, U, A \ {b}, own)
        BY <1>10, <3>6
      <4>2. Safe(d2, own)
        BY <4>1, StillSafe
      <4> QED
        BY <1>9, <3>2, <4>2, WroteSafe DEF d2
    <3>8. \A x \in DOMAIN d : d2[x].prev = IF x = next THEN a ELSE d1[x].prev
      BY <3>3, <3>4
    <3> QED
      BY <3>4, <3>5, <3>7, <3>8
  <2> QED
    BY <2>2, <2>3
<1> HIDE DEF passed
<1>12. Wrote(passed, w, Avail, head)
  BY <1>3, <1>5, <1>11, Written
<1> HIDE DEF w
<1> DEFINE d3 == w.disk
<1>13. /\ w \in Op /\ w.ok /\ w.size = op.size /\ DOMAIN d3 = DOMAIN d /\ d3[Avail] = head
       /\ \A x \in DOMAIN d \ {Avail} : d3[x] = d2[x]
  BY <1>3, <1>11, <1>12 DEF Wrote
<1>14. TookIn(d, d3, a, b)
  <2> HIDE DEF d1, d2, d3, d, next
  <2>1. \A x \in DOMAIN d : d3[x] \in Node
    BY <1>5, <1>11, <1>13
  <2>2. \A x \in DOMAIN d : d3[x].next = IF x = a THEN next ELSE d[x].next
    BY <1>3, <1>5, <1>7, <1>11, <1>13
  <2>3. \A x \in DOMAIN d : d3[x].prev = IF x = next \/ (x = Avail /\ next = None)
                                         THEN a ELSE d[x].prev
    BY <1>3, <1>5, <1>7, <1>11, <1>13
  <2>4. d3[a].bytes = d[a].bytes + NodeSize + d[b].bytes
    BY <1>3, <1>5, <1>7, <1>11, <1>13
  <2>5. \A x \in DOMAIN d \ {a, Avail} : d3[x].bytes = d[x].bytes
    BY <1>7, <1>11, <1>13
  <2>6. d3[Avail].bytes = d[Avail].bytes + NodeSize
    BY <1>5, <1>13
  <2> QED
    BY <1>13, <2>1, <2>2, <2>3, <2>4, <2>5, <2>6 DEF TookIn, next
<1>15. List(d3, Used, U) /\ List(d3, Avail, A \ {b})
  <2> HIDE DEF d3
  <2> QED
    BY <1>14, MergedList
<1>16. Keeps(d3)
  <2> HIDE DEF d1, d2, d3, d
  <2>1. N \ {b} \subseteq DOMAIN d \ {Avail}
    BY <1>2
  <2>2. \A x \in N \ {b} : d3[x].bytes = d1[x].bytes
    BY <1>11, <1>13, <2>1
  <2>3. \A x \in DOMAIN d : d3[x].next = d1[x].next
    BY <1>3, <1>5, <1>7, <1>11, <1>13
  <2> QED
    BY <1>13, <2>2, <2>3
<1>17. SafeWith(d1, d3, op.size, U, A \ {b}, own) /\ Tiled(d3, N \ {b}, op.size)
  BY <1>10, <1>16
<1>18. AllSafe(w, own)
  <2>1. Safe(d3, own)
    BY <1>17, StillSafe
  <2> QED
    BY <1>11, <1>12, <2>1, WroteSafe
<1> DEFINE d4 == r.disk
<1>19. /\ r \in Op /\ r.ok /\ r.size = op.size /\ r.past = w.past
       /\ DOMAIN d4 = DOMAIN d \ {b} /\ \A x \in DOMAIN d \ {b} : d4[x] = d3[x]
       /\ d4 \in Disk
  <2>1. d3 \in Disk
    BY <1>13 DEF Op
  <2> DEFINE f == [x \in DOMAIN d3 \ {b} |-> d3[x]]
  <2>2. f \in Disk
    <3>1. d3 \in [DOMAIN d3 -> Node] /\ DOMAIN d3 \subseteq Nat
      BY <2>1, OfDisk
    <3> HIDE DEF d3
    <3>2. f \in [DOMAIN d3 \ {b} -> Node] /\ (DOMAIN d3 \ {b}) \in SUBSET Nat
      BY <3>1
    <3> HIDE DEF f
    <3> QED
      BY <3>2 DEF Disk
  <2>3. r = [w EXCEPT !.disk = f]
    BY DEF Forget
  <2>4. DOMAIN f = DOMAIN d \ {b} /\ \A x \in DOMAIN d \ {b} : f[x] = d3[x]
    BY <1>13
  <2> HIDE DEF f, r
  <2>5. r \in Op /\ r.ok = w.ok /\ r.size = w.size /\ r.past = w.past /\ r.disk = f
    BY <1>13, <2>2, <2>3 DEF Op
  <2> QED
    BY <1>13, <2>2, <2>4, <2>5
<1>20. r = Merge(op, a, b)
  BY Zenon DEF Merge, r, w, passed, larger, grown, head
<1> HIDE DEF r
<1>21. AllSafe(r, own)
  BY <1>18, <1>19 DEF AllSafe
<1>22. Kept(d4, op.size, U, A \ {b}, {})
  <2> HIDE DEF d3, d4, d1
  <2>1. DOMAIN d4 = {Used, Avail} \cup U \cup (A \ {b}) \cup {}
    <3>1. b \notin {Used, Avail} \cup U
      BY <1>1, <1>2
    <3> QED
      BY <1>2, <1>19, <3>1
  <2>2. List(d4, Used, U)
    <3>1. U \cup {Used} \subseteq DOMAIN d \ {b}
      BY <1>1, <1>2
    <3> QED
      BY <1>15, <1>19, <3>1, ListSame
  <2>3. List(d4, Avail, A \ {b})
    <3>1. (A \ {b}) \cup {Avail} \subseteq DOMAIN d \ {b}
      BY <1>1, <1>2
    <3> QED
      BY <1>15, <1>19, <3>1, ListSame
  <2>4. Ascending(d4, op.size)
    <3>1. Ascending(d1, op.size) /\ Chain(d1, Used, U) /\ Chain(d1, Avail, A \ {b})
      BY <1>17 DEF SafeWith
    <3>2. \A x \in DOMAIN d \ {b} : d4[x].next = d1[x].next
      BY <1>16, <1>19
    <3>3. \A x \in DOMAIN d \ {b} : d1[x].next \in U \cup (A \ {b}) \cup {None}
      BY <1>2, <3>1 DEF Chain
    <3>4. U \cup (A \ {b}) \subseteq DOMAIN d \ {b} /\ None \notin U
      BY <1>1, <1>2 DEF Links, None
    <3> QED
      BY <1>7, <1>19, <3>1, <3>2, <3>3, <3>4 DEF Ascending
  <2> QED
    BY <1>2, <1>19, <2>1, <2>2, <2>3, <2>4 DEF Kept
<1>23. Done(r, U, A \ {b}, own)
  <2>1. U \cup (A \ {b}) = N \ {b}
    BY <1>1, <1>2
  <2>2. Tiled(d4, N \ {b}, op.size)
    <3>1. \A x \in N \ {b} : d4[x].bytes = d3[x].bytes
      BY <1>2, <1>19
    <3> HIDE DEF N, d3, d4
    <3> QED
      BY <1>17, <3>1, TiledSame
  <2>3. own \subseteq U \cup (A \ {b}) \cup {} /\ own \cap (A \ {b}) = {}
    BY <1>2
  <2> QED
    BY <1>19, <1>21, <1>22, <2>1, <2>2, <2>3 DEF Done, Sound
<1>24. \A x \in own : r.disk[x].bytes = d[x].bytes
  <2>1. own \subseteq N \ {b} /\ a \notin own /\ own \subseteq DOMAIN d \ {b}
    BY <1>1, <1>2
  <2> HIDE DEF d3, d1, d
  <2>2. \A x \in own : d4[x] = d3[x] /\ d3[x].bytes = d1[x].bytes /\ d1[x] = d[x]
    BY <1>7, <1>16, <1>19, <2>1
  <2> QED
    BY <2>2
<1> QED
  BY <1>20, <1>23, <1>24 DEF Kin

\* Two neighbours in the list are merged when they are neighbours in the file.
CanMerge(op, U, A, own, a, b) ==
    /\ Done(op, U, A, own) /\ a \in A \cup {None} /\ b \in A \cup {None}
    /\ a # None /\ b # None => op.disk[a].next = b

HasMerged(op, r, U, A, own, a, b) ==
    \/ r = op
    \/ a \in A \ {b} /\ b \in A /\ Kin(op, r, U, A \ {b}, own)

LEMMA MergeIfKept ==
    ASSUME NEW op, NEW U, NEW A, NEW own, NEW a, NEW b, CanMerge(op, U, A, own, a, b)
    PROVE  HasMerged(op, MergeIfAdjacent(op, a, b), U, A, own, a, b)
<1> DEFINE r == MergeIfAdjacent(op, a, b)
<1>1. CASE op.ok /\ a # None /\ b # None /\ End(op.disk, a) = b
  <2>1. r = Merge(op, a, b)
    BY <1>1 DEF MergeIfAdjacent
  <2>2. Follows(op, U, A, own, a, b)
    BY <1>1 DEF Follows, CanMerge
  <2>3. Kin(op, r, U, A \ {b}, own)
    BY <2>1, <2>2, MergeKept
  <2>4. a < b /\ a \in Nat \ {0} /\ b \in Nat \ {0}
    BY <2>2, FollowsFacts
  <2>5. a \in A /\ b \in A /\ a # b
    BY <2>2, <2>4 DEF Follows
  <2> QED
    BY <2>3, <2>5 DEF HasMerged
<1>2. CASE ~(op.ok /\ a # None /\ b # None /\ End(op.disk, a) = b)
  <2>1. r = op
    BY <1>2 DEF MergeIfAdjacent
  <2> QED
    BY <2>1 DEF HasMerged
<1> QED
  BY <1>1, <1>2

\* The node o leaves the list of allocated blocks and enters the free list.
LEMMA MovedKept ==
    ASSUME NEW op, NEW U, NEW A, NEW o \in U, Done(op, U, A, U \ {o})
    PROVE  Kin(op, InsertNode(RemoveNode(op, Used, o), Avail, o, op.disk[o].bytes),
               U \ {o}, A \cup {o}, U \ {o})
<1> DEFINE own == U \ {o}
           V == U \ {o}
           d == op.disk
           r1 == RemoveNode(op, Used, o)
           r == InsertNode(r1, Avail, o, d[o].bytes)
<1>1. Settled(op, U, A, own)
  BY DoneFacts
<1>2. /\ U \cap A = {} /\ U \cup A = DOMAIN d \ {Used, Avail} /\ Used # Avail
      /\ DOMAIN d = {Used, Avail} \cup U \cup A
      /\ Tiled(d, U \cup A, op.size) /\ AllApart(d, U \cup A) /\ Sound(op, U, A, {}, own)
      /\ \A x \in U \cup A : Fits(d, x, op.size)
  BY <1>1, Heads DEF Settled
<1>3. o \in Nat /\ First <= o /\ o <= op.size /\ d[o].bytes \in Nat
  <2>1. o \in U \cup A
    OBVIOUS
  <2>2. Fits(d, o, op.size) /\ op.size \in Nat
    BY <1>1, <1>2, <2>1 DEF Settled
  <2> QED
    BY <2>2 DEF Fits
<1>4. Became(op, r1, own, V, A, {o})
  <2>1. own \cup U \cup A = U \cup A /\ o \in ListOf(Used, U, A) /\ {} \cup {o} = {o}
    BY <1>2 DEF ListOf
  <2>2. CanRemove(op, U, A, {}, own, Used, o)
    BY <1>2, <2>1 DEF CanRemove
  <2>3. Without(op, r1, U, A, {}, own, Used, o)
    BY <2>2, RemoveKept
  <2> QED
    BY <2>1, <2>3 DEF Without
<1> HIDE DEF r1
<1>5. /\ r1 \in Op /\ r1.ok /\ r1.size = op.size /\ Kept(r1.disk, r1.size, V, A, {o})
      /\ AllSafe(r1, own) /\ \A x \in U \cup A : r1.disk[x].bytes = d[x].bytes
  BY <1>2, <1>4 DEF Became
<1>6. Became(r1, r, own, V, A \cup {o}, {})
  <2>1. /\ own \cup V \cup A \cup {o} = U \cup A /\ o \notin V \cup A /\ {o} \ {o} = {}
        /\ own \subseteq V \cup A \cup {o} /\ own \cap A = {} /\ o \notin own
    BY <1>2
  <2>2. FitsAt(r1.disk, own \cup V \cup A, o, d[o].bytes)
    <3>1. \A x \in (own \cup V \cup A) \ {o} : d[x].bytes = r1.disk[x].bytes
      BY <1>5
    <3>2. AllApart(d, own \cup V \cup A \cup {o})
      BY <1>2, <2>1
    <3> QED
      BY <3>1, <3>2 DEF FitsAt
  <2>3. CanLink(r1, V, A, {o}, own, Avail, o, d[o].bytes)
    BY <1>3, <1>5, <2>1 DEF CanLink, Sound
  <2> HIDE DEF V, own, d
  <2>4. With(r1, r, V, A, {o}, own, Avail, o, d[o].bytes)
    BY <2>2, <2>3, InsertKept
  <2> QED
    BY <2>1, <2>4 DEF With
<1> HIDE DEF r
<1>7. \A x \in U \cup A : r.disk[x].bytes = d[x].bytes
  <2>1. DOMAIN r1.disk = {Used, Avail} \cup U \cup A /\ {Used, Avail} \cap (U \cup A) = {}
    BY <1>2, <1>5 DEF Kept
  <2>2. \A x \in U \cup A : r.disk[x].bytes = r1.disk[x].bytes
    BY <1>6, <2>1 DEF Became
  <2> QED
    BY <1>5, <2>2
<1>8. Done(r, V, A \cup {o}, own)
  <2>1. V \cup (A \cup {o}) = U \cup A /\ own \subseteq V \cup (A \cup {o}) \cup {}
        /\ own \cap (A \cup {o}) = {}
    BY <1>2
  <2>2. Tiled(r.disk, V \cup (A \cup {o}), r.size)
    <3>1. r.size = op.size
      BY <1>5, <1>6 DEF Became
    <3> QED
      BY <1>2, <1>7, <2>1, <3>1, TiledSame
  <2>3. Sound(r, V, A \cup {o}, {}, own)
    BY <1>6, <2>1 DEF Became, Sound
  <2> QED
    BY <2>2, <2>3 DEF Done
<1>9. Kin(op, r, V, A \cup {o}, own)
  BY <1>7, <1>8 DEF Kin
<1> QED
  BY <1>9 DEF r, r1

\* What is left of the blocks after one of them was freed.
Freed(op, r, V) == \E A : Kin(op, r, V, A, V)

LEMMA FreeNodeKept ==
    ASSUME NEW op, NEW U, NEW A, NEW o \in U, Done(op, U, A, U \ {o})
    PROVE  Freed(op, FreeNode(op, o), U \ {o})
<1> DEFINE V == U \ {o}
           B == A \cup {o}
           moved == InsertNode(RemoveNode(op, Used, o), Avail, o, op.disk[o].bytes)
           prev == moved.disk[o].prev
           left == MergeIfAdjacent(moved, prev, o)
           current == IF o \in DOMAIN left.disk THEN o ELSE prev
           next == left.disk[current].next
           r == MergeIfAdjacent(left, current, next)
<1>1. Kin(op, moved, V, B, V)
  BY MovedKept
<1>2. r = FreeNode(op, o)
  BY DEF FreeNode
<1> SUFFICES Freed(op, r, V)
  BY <1>2
<1> HIDE DEF moved
<1>3. Done(moved, V, B, V) /\ \A x \in V : moved.disk[x].bytes = op.disk[x].bytes
  BY <1>1 DEF Kin
<1>4. /\ Links(moved.disk, Avail, B) /\ DOMAIN moved.disk = {Used, Avail} \cup V \cup B
      /\ o \in B /\ V \cap B = {}
  <2>1. Settled(moved, V, B, V)
    BY <1>3, DoneFacts
  <2> QED
    BY <2>1 DEF Settled
<1>5. /\ prev \in B \cup {None} /\ o \in Nat \ {0}
      /\ prev # None => moved.disk[prev].next = o
      /\ moved.disk[o].next \in B \cup {None}
  <2> HIDE DEF B, V
  <2> QED
    BY <1>4, LinksOrder
<1>6. HasMerged(moved, left, V, B, V, prev, o)
  <2>1. CanMerge(moved, V, B, V, prev, o)
    BY <1>3, <1>4, <1>5 DEF CanMerge
  <2> HIDE DEF B, V, prev
  <2> QED
    BY <2>1, MergeIfKept
<1> HIDE DEF left
<1>7. ASSUME NEW C, Kin(op, left, V, C, V), current \in C, next \in C \cup {None}
      PROVE  Freed(op, r, V)
  <2>1. Done(left, V, C, V) /\ \A x \in V : left.disk[x].bytes = op.disk[x].bytes
    BY <1>7 DEF Kin
  <2>2. CanMerge(left, V, C, V, current, next)
    BY <1>7, <2>1 DEF CanMerge
  <2> HIDE DEF V, current, next
  <2>3. HasMerged(left, r, V, C, V, current, next)
    BY <2>2, MergeIfKept
  <2> HIDE DEF r
  <2>4. CASE r = left
    BY <1>7, <2>4 DEF Freed
  <2>5. CASE Kin(left, r, V, C \ {next}, V)
    <3>1. Kin(op, r, V, C \ {next}, V)
      BY <2>1, <2>5 DEF Kin
    <3> QED
      BY <3>1 DEF Freed
  <2> QED
    BY <2>3, <2>4, <2>5 DEF HasMerged
<1>8. CASE left = moved
  <2>1. o \in DOMAIN left.disk
    BY <1>4, <1>8
  <2>2. current = o
    BY <2>1
  <2>3. next \in B \cup {None}
    BY <1>5, <1>8, <2>2
  <2>4. Kin(op, left, V, B, V)
    BY <1>1, <1>8
  <2>5. current \in B
    BY <1>4, <2>2
  <2> HIDE DEF current, next, B, V, r
  <2> QED
    BY <1>7, <2>3, <2>4, <2>5
<1>9. CASE prev \in B \ {o} /\ Kin(moved, left, V, B \ {o}, V)
  <2> DEFINE C == B \ {o}
  <2>1. Done(left, V, C, V) /\ \A x \in V : left.disk[x].bytes = moved.disk[x].bytes
    BY <1>9 DEF Kin
  <2>2. Kin(op, left, V, C, V)
    BY <1>3, <2>1 DEF Kin
  <2>3. Links(left.disk, Avail, C) /\ DOMAIN left.disk = {Used, Avail} \cup V \cup C
    <3>1. Settled(left, V, C, V)
      BY <2>1, DoneFacts
    <3> QED
      BY <3>1 DEF Settled
  <2>4. o \notin {Used, Avail}
    <3>1. Settled(moved, V, B, V)
      BY <1>3, DoneFacts
    <3> QED
      BY <1>4, <3>1 DEF Settled
  <2>5. current = prev /\ prev \in C
    BY <1>9, <2>3, <2>4
  <2>6. left.disk[prev].next \in C \cup {None}
    <3> HIDE DEF C, prev
    <3> QED
      BY <2>3, <2>5, LinksOrder
  <2>7. current \in C /\ next \in C \cup {None}
    BY <2>5, <2>6
  <2> HIDE DEF C, prev, current, next, V, r
  <2> QED
    BY <1>7, <2>2, <2>7
<1> HIDE DEF prev, V, B, r
<1> QED
  BY <1>6, <1>8, <1>9 DEF HasMerged

-----------------------------------------------------------------------------
(* The invariant.                                                          *)

FreeBlocks == DOMAIN disk \ ({Used, Avail} \cup held)

\* Until the program dies: the lists lead to the blocks that callers hold, and to
\* all others, and together these tile the file.
SpaceInv == ~crashed =>
    /\ Kept(disk, size, held, FreeBlocks, {})
    /\ Tiled(disk, held \cup FreeBlocks, size)

LEMMA BeginDone ==
    ASSUME SpaceInv, ~crashed, NEW own, own \subseteq held
    PROVE  Done(Begin, held, FreeBlocks, own)
<1> DEFINE A == FreeBlocks
<1>1. Kept(disk, size, held, A, {}) /\ Tiled(disk, held \cup A, size)
  BY DEF SpaceInv
<1>2. /\ disk \in Disk /\ size \in Nat /\ held \cap A = {} /\ Ascending(disk, size)
      /\ Links(disk, Used, held) /\ Links(disk, Avail, A)
  BY <1>1 DEF Kept, List
<1>3. Safe(disk, own)
  <2>1. Chain(disk, Used, held) /\ Chain(disk, Avail, A)
    BY <1>2, LinksChain
  <2>2. AllApart(disk, held \cup A)
    BY <1>1 DEF Tiled
  <2> HIDE DEF A
  <2>3. SafeWith(disk, disk, size, held, A, own)
    BY <1>2, <2>1, <2>2 DEF SafeWith
  <2> QED
    BY <2>3, StillSafe
<1>4. /\ Begin \in Op /\ Begin.ok /\ Begin.disk = disk /\ Begin.size = size
      /\ Begin.past = {[disk |-> disk, size |-> size]}
  BY <1>2 DEF Begin, Op, File
<1>5. AllSafe(Begin, own)
  BY <1>3, <1>4 DEF AllSafe
<1>6. own \subseteq held \cup A \cup {} /\ own \cap A = {}
  BY <1>2
<1> QED
  BY <1>1, <1>4, <1>5, <1>6 DEF Done, Sound

LEMMA InitSpace == ASSUME Init PROVE SpaceInv
<1> USE DEF Init
<1>1. Used # Avail /\ Used \in Nat \ {0} /\ Avail \in Nat \ {0} /\ First \in Nat
      /\ Used < First /\ Avail < First
  BY Heads
<1>2. FreeBlocks = {} /\ DOMAIN disk = {Used, Avail} /\ held = {} /\ size = First
  BY DEF FreeBlocks
<1>3. Empty \in Node /\ Empty.bytes = 0 /\ Empty.prev = None /\ Empty.next = None
  BY DEF Empty, Node, None
<1>4. \A h \in {Used, Avail} : disk[h] = Empty
  OBVIOUS
<1>5. disk \in Disk
  <2>1. disk \in [{Used, Avail} -> Node] /\ {Used, Avail} \in SUBSET Nat
    BY <1>1, <1>3
  <2> HIDE DEF Init
  <2> QED
    BY <2>1 DEF Disk
<1> HIDE DEF Init
<1>6. ASSUME NEW h \in {Used, Avail} PROVE List(disk, h, {})
  <2>1. Links(disk, h, {})
    BY <1>1, <1>2, <1>3, <1>4, FS_EmptySet DEF Links, IsFirst, IsLast
  <2>2. SumOf(disk, {}) = 0
    BY SumOfNone
  <2> QED
    BY <1>3, <1>4, <2>1, <2>2 DEF List
<1>7. Ascending(disk, size)
  BY <1>1, <1>2, <1>3, <1>4 DEF Ascending
<1>8. Tiled(disk, {}, size)
  BY <1>2 DEF Tiled, AllApart
<1>9. Kept(disk, size, {}, {}, {})
  BY <1>1, <1>2, <1>5, <1>6, <1>7 DEF Kept
<1> QED
  BY <1>2, <1>8, <1>9 DEF SpaceInv

\* The first node that is large enough, if there is one.
LEMMA FirstFitIs ==
    ASSUME NEW top, Ascending(disk, top), NEW A, Chain(disk, Avail, A), NEW n
    PROVE  FirstFit(n) = None \/ (FirstFit(n) \in A /\ disk[FirstFit(n)].bytes >= n)
<1> DEFINE D == DOMAIN disk \cup {None}
           stop == {p \in D : p = None \/ disk[p].bytes >= n}
           walk == CHOOSE f : f = [p \in D |-> IF p = None \/ disk[p].bytes >= n THEN p
                                               ELSE f[disk[p].next]]
           Good(p) == p = None \/ (p \in A /\ disk[p].bytes >= n)
<1>1. walk = [p \in D |-> IF p = None \/ disk[p].bytes >= n THEN p ELSE walk[disk[p].next]]
  <2>1. \A p \in D : p \in stop \/ (p # None /\ disk[p].next \in D)
    BY DEF Ascending
  <2>2. \E f : f = [p \in D |-> IF p \in stop THEN p ELSE f[disk[p].next]]
    <3> HIDE DEF stop
    <3>1. D \subseteq DOMAIN disk \cup {None}
      OBVIOUS
    <3> HIDE DEF D
    <3> QED
      BY <2>1, <3>1, SearchExists
  <2>3. PICK f : f = [p \in D |-> IF p \in stop THEN p ELSE f[disk[p].next]]
    BY <2>2
  <2>4. f = [p \in D |-> IF p = None \/ disk[p].bytes >= n THEN p ELSE f[disk[p].next]]
    BY <2>3
  <2> QED
    BY <2>4, Zenon
<1>2. FirstFit(n) = walk[disk[Avail].next]
  BY Zenon DEF FirstFit
<1> HIDE DEF walk
<1> DEFINE T == {p \in A : ~Good(walk[p])}
<1>3. walk[None] = None
  BY <1>1
<1>4. T = {}
  <2> SUFFICES ASSUME T # {} PROVE FALSE
    OBVIOUS
  <2>1. PICK p \in T : \A q \in DOMAIN disk : q > p => q \notin T
    <3>1. T \subseteq DOMAIN disk
      BY DEF Chain
    <3> HIDE DEF T
    <3> QED
      BY <3>1, LastSuch
  <2>2. p \in A /\ p \in DOMAIN disk /\ p # None /\ disk[p].next \in A \cup {None}
    BY DistanceFalls DEF Chain
  <2>3. walk[p] = IF disk[p].bytes >= n THEN p ELSE walk[disk[p].next]
    BY <1>1, <2>2
  <2>4. CASE disk[p].next = None
    BY <1>3, <2>2, <2>3, <2>4
  <2>5. CASE disk[p].next # None
    <3>1. disk[p].next > p /\ disk[p].next \in DOMAIN disk /\ disk[p].next \in A
      BY <2>2, <2>5 DEF Ascending
    <3>2. disk[p].next \notin T
      BY <2>1, <3>1
    <3> QED
      BY <2>2, <2>3, <3>1, <3>2
  <2> QED
    BY <2>4, <2>5
<1>5. disk[Avail].next \in A \cup {None}
  BY DEF Chain
<1>6. Good(walk[disk[Avail].next])
  BY <1>3, <1>4, <1>5
<1> QED
  BY <1>2, <1>6

LEMMA EnoughIs ==
    ASSUME NEW n \in Request
    PROVE  Enough(n) \in Nat /\ Enough(n) >= n /\ Enough(n) >= MinimumSize
<1>1. n \in Nat /\ MinimumSize \in Nat
  BY SizeAssumption
<1>2. \E m \in {n, MinimumSize} : \A k \in {n, MinimumSize} : m >= k
  <2>1. CASE n >= MinimumSize
    BY <1>1, <2>1
  <2>2. CASE ~(n >= MinimumSize)
    BY <1>1, <2>2
  <2> QED
    BY <2>1, <2>2
<1>3. Enough(n) \in {n, MinimumSize} /\ \A k \in {n, MinimumSize} : Enough(n) >= k
  BY <1>2, Zenon DEF Enough, Max
<1> QED
  BY <1>1, <1>3

\* Whichever way allocate goes, callers own one block more.
LEMMA AllocationGrew ==
    ASSUME SpaceInv, ~crashed, NEW n \in Request
    PROVE  \E A : Grew(Begin, Allocation(n), held, A, AllocatedAt(n), Enough(n))
<1> DEFINE m == Enough(n)
           o == FirstFit(m)
<1>1. Done(Begin, held, FreeBlocks, held)
  BY BeginDone
<1>2. Settled(Begin, held, FreeBlocks, held) /\ Begin.disk = disk /\ Begin.size = size
  BY <1>1, DoneFacts DEF Begin
<1>3. m \in Nat
  BY EnoughIs
<1>4. o = None \/ (o \in FreeBlocks /\ disk[o].bytes >= m)
  <2>1. Ascending(disk, size) /\ Chain(disk, Avail, FreeBlocks)
    BY <1>2 DEF Settled
  <2> HIDE DEF m
  <2> QED
    BY <2>1, FirstFitIs
<1>5. CASE o = None
  <2>1. Allocation(n) = AppendNode(Begin, m) /\ AllocatedAt(n) = size
    BY <1>5 DEF Allocation, AllocatedAt
  <2> HIDE DEF m
  <2>2. Grew(Begin, AppendNode(Begin, m), held, FreeBlocks, Begin.size, m)
    BY <1>1, <1>3, AppendNodeKept
  <2> QED
    BY <1>2, <2>1, <2>2 DEF m
<1>6. CASE o # None /\ TooSmallToSplit(o, m)
  <2>1. Allocation(n) = TakeWhole(Begin, o) /\ AllocatedAt(n) = o
    BY <1>6 DEF Allocation, AllocatedAt
  <2> HIDE DEF m, o
  <2>2. Grew(Begin, TakeWhole(Begin, o), held, FreeBlocks \ {o}, o, m)
    BY <1>1, <1>2, <1>3, <1>4, <1>6, TakeWholeKept
  <2> QED
    BY <2>1, <2>2 DEF m
<1>7. CASE o # None /\ ~TooSmallToSplit(o, m)
  <2>1. Allocation(n) = SplitOff(Begin, o, m) /\ AllocatedAt(n) = End(disk, o) - m - NodeSize
    BY <1>7 DEF Allocation, AllocatedAt
  <2> HIDE DEF m, o
  <2>2. o \in FreeBlocks /\ o \in held \cup FreeBlocks
    BY <1>4, <1>7
  <2>3. disk[o].bytes \in Nat
    <3>1. Fits(disk, o, size)
      BY <1>2, <2>2 DEF Settled
    <3> QED
      BY <3>1 DEF Fits
  <2>4. disk[o].bytes >= NodeSize + m
    BY <1>3, <1>7, <2>3, SizeAssumption DEF TooSmallToSplit
  <2>5. Grew(Begin, SplitOff(Begin, o, m), held, FreeBlocks, End(disk, o) - m - NodeSize, m)
    BY <1>1, <1>2, <1>3, <2>2, <2>4, SplitOffKept
  <2> QED
    BY <2>1, <2>5 DEF m
<1> QED
  BY <1>5, <1>6, <1>7

\* Freeing leaves the other blocks as they are.
LEMMA FreeingKept ==
    ASSUME SpaceInv, ~crashed, NEW o \in held
    PROVE  Freed(Begin, FreeNode(Begin, o), held \ {o})
<1>1. Done(Begin, held, FreeBlocks, held \ {o})
  BY BeginDone
<1> QED
  BY <1>1, FreeNodeKept

\* An operation that returns leaves the file as the invariant says.
LEMMA CompleteSpace ==
    ASSUME NEW op, NEW U, NEW A, NEW own, Done(op, U, A, own), Complete(op, U)
    PROVE  SpaceInv'
<1>1. disk' = op.disk /\ size' = op.size /\ held' = U
  BY DEF Complete
<1>2. Settled(op, U, A, own)
  BY DoneFacts
<1>3. FreeBlocks' = A
  BY <1>1, <1>2 DEF Settled, FreeBlocks
<1>4. Kept(op.disk, op.size, U, A, {}) /\ Tiled(op.disk, U \cup A, op.size)
  BY DEF Done, Sound
<1> QED
  BY <1>1, <1>3, <1>4 DEF SpaceInv

LEMMA SpaceStep == ASSUME SpaceInv, [Next]_vars PROVE SpaceInv'
<1>1. CASE crashed'
  BY <1>1 DEF SpaceInv
<1>2. ASSUME NEW n \in Request, Allocate(n), ~crashed' PROVE SpaceInv'
  <2>1. ~crashed
    BY <1>2 DEF Allocate, Complete
  <2>2. PICK A : Grew(Begin, Allocation(n), held, A, AllocatedAt(n), Enough(n))
    BY <2>1, AllocationGrew
  <2>3. Done(Allocation(n), held \cup {AllocatedAt(n)}, A, held)
    BY <2>2 DEF Grew
  <2>4. Allocation(n).ok
    <3>1. Settled(Allocation(n), held \cup {AllocatedAt(n)}, A, held)
      BY <2>3, DoneFacts
    <3> QED
      BY <3>1 DEF Settled
  <2>5. Complete(Allocation(n), held \cup {AllocatedAt(n)})
    BY <1>2, <2>4 DEF Allocate
  <2> QED
    BY <2>3, <2>5, CompleteSpace
<1>3. ASSUME NEW o \in held, Release(o), ~crashed' PROVE SpaceInv'
  <2>1. ~crashed /\ Complete(FreeNode(Begin, o), held \ {o})
    BY <1>3 DEF Release, Complete
  <2>2. PICK A : Kin(Begin, FreeNode(Begin, o), held \ {o}, A, held \ {o})
    BY <2>1, FreeingKept DEF Freed
  <2>3. Done(FreeNode(Begin, o), held \ {o}, A, held \ {o})
    BY <2>2 DEF Kin
  <2> QED
    BY <2>1, <2>3, CompleteSpace
<1>4. ASSUME NEW n \in Request, DieAllocating(n) PROVE crashed'
  BY <1>4 DEF DieAllocating, DieIn
<1>5. ASSUME NEW o \in held, DieFreeing(o) PROVE crashed'
  BY <1>5 DEF DieFreeing, DieIn
<1>6. CASE UNCHANGED vars
  BY <1>6 DEF vars, SpaceInv, FreeBlocks
<1> QED
  BY <1>1, <1>2, <1>3, <1>4, <1>5, <1>6 DEF Next

-----------------------------------------------------------------------------
(* The theorems.                                                           *)

\* The invariant of the file, whatever was allocated and freed.
THEOREM SpaceInvariance == Spec => []SpaceInv
<1>1. Init => SpaceInv
  BY InitSpace
<1>2. SpaceInv /\ [Next]_vars => SpaceInv'
  BY SpaceStep
<1> QED
  BY <1>1, <1>2, PTL DEF Spec

LEMMA LastIs ==
    ASSUME NEW S, S \subseteq Nat, NEW x, IsLast(x, S)
    PROVE  x = LastOf(S)
<1>1. CASE S = {}
  BY <1>1 DEF IsLast, LastOf
<1>2. CASE S # {}
  <2>1. x \in S /\ \A y \in S : x >= y
    BY <1>2 DEF IsLast
  <2>2. \A z \in S : (\A y \in S : z >= y) => z = x
    BY <2>1
  <2>3. Max(S) = x
    BY <2>1, <2>2 DEF Max
  <2> QED
    BY <1>2, <2>3 DEF LastOf
<1> QED
  BY <1>1, <1>2

LEMMA FirstIs ==
    ASSUME NEW S, S \subseteq Nat, NEW x, IsFirst(x, S)
    PROVE  x = FirstOf(S)
<1>1. CASE S = {}
  BY <1>1 DEF IsFirst, FirstOf
<1>2. CASE S # {}
  <2>1. x \in S /\ \A y \in S : x =< y
    BY <1>2 DEF IsFirst
  <2>2. \A z \in S : (\A y \in S : z =< y) => z = x
    BY <2>1
  <2>3. Min(S) = x
    BY <2>1, <2>2 DEF Min
  <2> QED
    BY <1>2, <2>3 DEF FirstOf
<1> QED
  BY <1>1, <1>2

LEMMA SpaceListed ==
    ASSUME SpaceInv, ~crashed
    PROVE  /\ Listed(Used) = held /\ Listed(Avail) = FreeBlocks
           /\ List(disk, Used, held) /\ List(disk, Avail, FreeBlocks)
           /\ held \cap FreeBlocks = {} /\ Tiled(disk, held \cup FreeBlocks, size)
<1>1. Kept(disk, size, held, FreeBlocks, {}) /\ Tiled(disk, held \cup FreeBlocks, size)
  BY DEF SpaceInv
<1>2. /\ List(disk, Used, held) /\ List(disk, Avail, FreeBlocks) /\ Ascending(disk, size)
      /\ held \cap FreeBlocks = {}
  BY <1>1 DEF Kept
<1>3. Links(disk, Used, held) /\ Links(disk, Avail, FreeBlocks)
  BY <1>2 DEF List
<1>4. ListedIn(disk, Used) = held /\ ListedIn(disk, Avail) = FreeBlocks
  BY <1>2, <1>3, LinksListed
<1> QED
  BY <1>1, <1>2, <1>4, ListedNow

LEMMA ListShape ==
    ASSUME NEW h, NEW S, List(disk, h, S), Listed(h) = S
    PROVE  /\ disk[h].prev = LastOf(Listed(h))
           /\ disk[h].bytes = MapThenSumSet(LAMBDA o : disk[o].bytes, Listed(h))
           /\ \A o \in Listed(h) :
                  /\ disk[o].prev = LastOf({p \in Listed(h) : p < o})
                  /\ disk[o].next = FirstOf({p \in Listed(h) : p > o})
<1>1. /\ S \subseteq Nat /\ IsLast(disk[h].prev, S)
      /\ \A o \in S : IsLast(disk[o].prev, Under(S, o)) /\ IsFirst(disk[o].next, Over(S, o))
  BY DEF List, Links
<1>2. disk[h].prev = LastOf(S)
  BY <1>1, LastIs
<1>3. ASSUME NEW o \in S
      PROVE  disk[o].prev = LastOf(Under(S, o)) /\ disk[o].next = FirstOf(Over(S, o))
  <2>1. Under(S, o) \subseteq Nat /\ Over(S, o) \subseteq Nat
    BY <1>1 DEF Under, Over
  <2> QED
    BY <1>1, <2>1, LastIs, FirstIs
<1>4. \A o \in S : /\ disk[o].prev = LastOf({p \in S : p < o})
                   /\ disk[o].next = FirstOf({p \in S : p > o})
  BY <1>3 DEF Under, Over
<1>5. disk[h].bytes = SumOf(disk, S)
  BY DEF List
<1> DEFINE sum == MapThenSumSet(LAMBDA o : disk[o].bytes, S)
<1>6. disk[h].bytes = sum
  BY <1>5 DEF SumOf
<1> QED
  BY <1>2, <1>4, <1>6

\* allocate and free keep both lists sorted, linked forward and back to the same
\* nodes, and their heads right about the last node and the sum of the bytes.
THEOREM ListsStaySound == Spec => []ListsSound
<1>1. SpaceInv => ListsSound
  <2> SUFFICES ASSUME SpaceInv, ~crashed, NEW h \in {Used, Avail}
               PROVE  /\ disk[h].prev = LastOf(Listed(h))
                      /\ disk[h].bytes = MapThenSumSet(LAMBDA o : disk[o].bytes, Listed(h))
                      /\ \A o \in Listed(h) :
                             /\ disk[o].prev = LastOf({p \in Listed(h) : p < o})
                             /\ disk[o].next = FirstOf({p \in Listed(h) : p > o})
    BY Zenon DEF ListsSound
  <2>1. List(disk, h, Listed(h))
    BY SpaceListed
  <2> DEFINE S == Listed(h)
  <2>2. List(disk, h, S) /\ Listed(h) = S
    BY <2>1
  <2> QED
    BY <2>1, ListShape, Zenon
<1> QED
  BY <1>1, SpaceInvariance, PTL

\* Every byte after the heads belongs to exactly one block of one list.
THEOREM NoGapsEver == Spec => []NoGaps
<1>1. SpaceInv => NoGaps
  <2> SUFFICES ASSUME SpaceInv, ~crashed
               PROVE  /\ Listed(Used) \cap Listed(Avail) = {}
                      /\ \A a, b \in Nodes : a # b => Apart(a, b)
                      /\ Nodes \cup {size} = {First} \cup {End(disk, o) : o \in Nodes}
    BY DEF NoGaps
  <2>1. /\ Listed(Used) \cap Listed(Avail) = {} /\ Nodes = held \cup FreeBlocks
        /\ Tiled(disk, Nodes, size)
    BY SpaceListed DEF Nodes
  <2> QED
    BY <2>1 DEF Tiled, AllApart, ApartIn, Apart
<1> QED
  BY <1>1, SpaceInvariance, PTL

\* The list of allocated blocks is what callers hold.
THEOREM HeldStaysListed == Spec => []HeldListed
<1>1. SpaceInv => HeldListed
  BY SpaceListed DEF HeldListed
<1> QED
  BY <1>1, SpaceInvariance, PTL

\* In a safe file nothing is allocated that is free, or in a block of another.
LEMMA SafeHeldApart ==
    ASSUME Safe(disk', held')
    PROVE  HeldApart'
<1>1. PICK top, U, A : /\ Ascending(disk', top) /\ Chain(disk', Used, U) /\ Chain(disk', Avail, A)
                       /\ U \cap A = {} /\ held' \cap A = {}
                       /\ AllApart(disk', held' \cup U \cup A)
  BY DEF Safe
<1>2. Listed(Used)' \subseteq U /\ Listed(Avail)' \subseteq A
  <2>1. ListedIn(disk', Used) \subseteq U /\ ListedIn(disk', Avail) \subseteq A
    BY <1>1, ChainListed
  <2>2. Listed(Used)' = ListedIn(disk', Used) /\ Listed(Avail)' = ListedIn(disk', Avail)
    BY ListedNow
  <2> QED
    BY <2>1, <2>2
<1>3. Nodes' \subseteq U \cup A
  BY <1>2 DEF Nodes
<1>4. \A a, b \in held' \cup Nodes' : a # b => Apart(a, b)'
  BY <1>1, <1>3 DEF AllApart, ApartIn, Apart
<1>5. held' \cap Listed(Avail)' = {} /\ Listed(Used)' \cap Listed(Avail)' = {}
  BY <1>1, <1>2
<1> QED
  BY <1>4, <1>5, Zenon DEF HeldApart

LEMMA DiesSafe ==
    ASSUME NEW op, NEW own, AllSafe(op, own), DieIn(op, own)
    PROVE  Safe(disk', held')
BY DEF DieIn, AllSafe

\* When the program dies between two writes of allocate or free, whichever they are,
\* no two blocks share a byte in the file that it leaves.
THEOREM CrashesOnlyLose == Spec => CrashOnlyLoses
<1>1. ASSUME SpaceInv, [Next]_vars PROVE [~crashed /\ crashed' => HeldApart']_vars
  <2>1. SUFFICES ASSUME ~crashed, crashed', Next PROVE HeldApart'
    BY <1>1
  <2>2. ASSUME NEW n \in Request, Allocate(n) PROVE FALSE
    BY <2>1, <2>2 DEF Allocate, Complete
  <2>3. ASSUME NEW o \in held, Release(o) PROVE FALSE
    BY <2>1, <2>3 DEF Release, Complete
  <2>4. ASSUME NEW n \in Request, DieAllocating(n) PROVE Safe(disk', held')
    <3>1. PICK A : Grew(Begin, Allocation(n), held, A, AllocatedAt(n), Enough(n))
      BY <1>1, <2>1, AllocationGrew
    <3>2. AllSafe(Allocation(n), held)
      BY <3>1 DEF Grew, Done, Sound
    <3> QED
      BY <2>4, <3>2, DiesSafe DEF DieAllocating
  <2>5. ASSUME NEW o \in held, DieFreeing(o) PROVE Safe(disk', held')
    <3>1. PICK A : Kin(Begin, FreeNode(Begin, o), held \ {o}, A, held \ {o})
      BY <1>1, <2>1, FreeingKept DEF Freed
    <3>2. AllSafe(FreeNode(Begin, o), held \ {o})
      BY <3>1 DEF Kin, Done, Sound
    <3> QED
      BY <2>5, <3>2, DiesSafe DEF DieFreeing
  <2>6. Safe(disk', held')
    BY <2>1, <2>2, <2>3, <2>4, <2>5 DEF Next
  <2> QED
    BY <2>6, SafeHeldApart
<1> QED
  BY <1>1, SpaceInvariance, PTL DEF Spec, CrashOnlyLoses

-----------------------------------------------------------------------------
(* What callers see.                                                       *)

BlockOf(d, o) == [at |-> o + NodeSize, bytes |-> d[o].bytes]

LEMMA BlocksAre ==
    /\ Blocks = {BlockOf(disk, o) : o \in held}
    /\ Blocks' = {BlockOf(disk', o) : o \in held'}
BY DEF Blocks, BlockOf

\* Another block, apart from those that callers have.
LEMMA AllocatesBlock ==
    ASSUME NEW op, NEW A, NEW o, NEW m \in Nat, NEW n \in Request, m >= n,
           SpaceInv, ~crashed, Grew(Begin, op, held, A, o, m),
           disk' = op.disk, held' = held \cup {o}
    PROVE  Space!Allocate(n)
<1> DEFINE b == BlockOf(disk', o)
<1>1. /\ Done(op, held \cup {o}, A, held) /\ o \notin held /\ disk'[o].bytes >= m
      /\ \A x \in held : disk'[x].bytes = disk[x].bytes
  BY DEF Grew, Begin
<1>2. Settled(op, held \cup {o}, A, held)
  BY <1>1, DoneFacts
<1>3. /\ AllApart(disk', held \cup {o} \cup A)
      /\ \A x \in held \cup {o} : Fits(disk', x, op.size)
  BY <1>2 DEF Settled
<1>4. /\ NodeSize \in Nat \ {0} /\ First \in Nat /\ n \in Nat
      /\ \A x \in held \cup {o} : x \in Nat /\ disk'[x].bytes \in Nat /\ First <= x
  BY <1>3, Heads, SizeAssumption DEF Fits
<1>5. Blocks' = Blocks \cup {b}
  <2>1. \A x \in held : BlockOf(disk', x) = BlockOf(disk, x)
    BY <1>1 DEF BlockOf
  <2>2. Blocks' = {BlockOf(disk', x) : x \in held} \cup {b}
    BY BlocksAre
  <2> QED
    BY <2>1, <2>2, BlocksAre
<1>6. b \in Space!Block /\ b.at >= First /\ b.bytes >= n
  <2>1. o \in Nat /\ disk'[o].bytes \in Nat /\ First <= o /\ disk'[o].bytes >= m
    BY <1>1, <1>4
  <2>2. b.at = o + NodeSize /\ b.bytes = disk'[o].bytes
    BY DEF BlockOf
  <2>3. b.at \in Nat /\ b.at >= First /\ b.bytes >= n
    BY <1>4, <2>1, <2>2
  <2> QED
    BY <2>1, <2>2, <2>3 DEF BlockOf, Space!Block
<1>7. ASSUME NEW c \in Blocks PROVE Space!Apart(b, c) /\ b # c
  <2>1. PICK x \in held : c = BlockOf(disk', x)
    <3>1. \A x \in held : BlockOf(disk', x) = BlockOf(disk, x)
      BY <1>1 DEF BlockOf
    <3> QED
      BY <3>1, BlocksAre
  <2>2. /\ x \in Nat /\ disk'[x].bytes \in Nat /\ o \in Nat /\ disk'[o].bytes \in Nat /\ x # o
        /\ c.at = x + NodeSize /\ c.bytes = disk'[x].bytes
        /\ b.at = o + NodeSize /\ b.bytes = disk'[o].bytes
    BY <1>1, <1>4, <2>1 DEF BlockOf
  <2>3. \/ x + NodeSize + disk'[x].bytes <= o
        \/ o + NodeSize + disk'[o].bytes <= x
    BY <1>3, <2>2 DEF AllApart, ApartIn, End
  <2> DEFINE i == disk'[x].bytes
             j == disk'[o].bytes
  <2> HIDE DEF b
  <2>4. /\ i \in Nat /\ j \in Nat /\ x \in Nat /\ o \in Nat /\ x # o /\ NodeSize \in Nat \ {0}
        /\ c.at = x + NodeSize /\ c.bytes = i /\ b.at = o + NodeSize /\ b.bytes = j
        /\ (x + NodeSize + i <= o \/ o + NodeSize + j <= x)
    BY <1>4, <2>2, <2>3
  <2> HIDE DEF i, j
  <2>5. b.at # c.at
    BY <2>4
  <2>6. b.at + b.bytes <= c.at \/ c.at + c.bytes <= b.at
    BY <2>4
  <2> QED
    BY <2>5, <2>6 DEF Space!Apart
<1>8. b \in Blocks' \ Blocks
  BY <1>5, <1>7
<1> HIDE DEF b
<1> QED
  BY <1>5, <1>6, <1>7, <1>8 DEF Space!Allocate

LEMMA ReleasesBlock ==
    ASSUME NEW op, NEW A, NEW o \in held, SpaceInv, ~crashed,
           Kin(Begin, op, held \ {o}, A, held \ {o}), disk' = op.disk, held' = held \ {o}
    PROVE  \E b \in Blocks : Space!Release(b)
<1> DEFINE b == BlockOf(disk, o)
<1>1. \A x \in held \ {o} : BlockOf(disk', x) = BlockOf(disk, x)
  BY DEF Kin, Begin, BlockOf
<1>2. \A x \in held : x \in Nat
  <2>1. Settled(Begin, held, FreeBlocks, held)
    BY BeginDone, DoneFacts
  <2> QED
    BY <2>1 DEF Settled, Fits
<1>3. \A x \in held \ {o} : BlockOf(disk, x) # b
  <2> TAKE x \in held \ {o}
  <2>1. x + NodeSize # o + NodeSize
    BY <1>2, Heads
  <2>2. BlockOf(disk, x).at = x + NodeSize /\ b.at = o + NodeSize
    BY DEF BlockOf
  <2> QED
    BY <2>1, <2>2
<1>4. b \in Blocks
  BY BlocksAre
<1>5. Blocks' = {BlockOf(disk, x) : x \in held \ {o}}
  BY <1>1, BlocksAre
<1>6. Blocks' = Blocks \ {b}
  <2> HIDE DEF b
  <2>1. Blocks = {BlockOf(disk, x) : x \in held}
    BY BlocksAre
  <2>2. \A x \in held : x # o => BlockOf(disk, x) # b
    BY <1>3
  <2>3. BlockOf(disk, o) = b
    BY DEF b
  <2> QED
    BY <1>5, <2>1, <2>2, <2>3
<1> QED
  BY <1>4, <1>6 DEF Space!Release

\* FileAllocator implements FileSpace: what allocate returns is a block of the size that
\* was asked for, apart from all that callers have, and blocks stay until they are freed.
THEOREM AllocatorImplementsFileSpace == Spec => ImplementsFileSpace
<1>1. Init => Space!Init
  BY BlocksAre DEF Init, Space!Init
<1>2. ASSUME SpaceInv, [Next]_vars
      PROVE  [~crashed' => Space!Next \/ UNCHANGED Blocks]_vars
  <2>1. SUFFICES ASSUME ~crashed', Next PROVE Space!Next
    BY <1>2
  <2>2. ASSUME NEW n \in Request, Allocate(n) PROVE Space!Allocate(n)
    <3>1. ~crashed
      BY <2>1, <2>2 DEF Allocate, Complete
    <3>2. PICK A : Grew(Begin, Allocation(n), held, A, AllocatedAt(n), Enough(n))
      BY <1>2, <3>1, AllocationGrew
    <3>3. Allocation(n).ok
      BY <3>2 DEF Grew, Done, Sound
    <3>4. disk' = Allocation(n).disk /\ held' = held \cup {AllocatedAt(n)}
      BY <2>2, <3>3 DEF Allocate, Complete
    <3>5. Enough(n) \in Nat /\ Enough(n) >= n
      BY EnoughIs
    <3> DEFINE m == Enough(n)
               o == AllocatedAt(n)
               op == Allocation(n)
    <3>6. Grew(Begin, op, held, A, o, m) /\ disk' = op.disk /\ held' = held \cup {o}
          /\ m \in Nat /\ m >= n
      BY <3>2, <3>4, <3>5
    <3> HIDE DEF m, o, op
    <3> QED
      BY <1>2, <3>1, <3>6, AllocatesBlock
  <2>3. ASSUME NEW o \in held, Release(o) PROVE \E b \in Blocks : Space!Release(b)
    <3>1. ~crashed
      BY <2>1, <2>3 DEF Release, Complete
    <3> DEFINE op == FreeNode(Begin, o)
    <3>2. PICK A : Kin(Begin, op, held \ {o}, A, held \ {o})
      BY <1>2, <3>1, FreeingKept DEF Freed
    <3>3. disk' = op.disk /\ held' = held \ {o}
      BY <2>3 DEF Release, Complete
    <3> HIDE DEF op
    <3> QED
      BY <1>2, <3>1, <3>2, <3>3, ReleasesBlock
  <2>4. ASSUME NEW n \in Request, DieAllocating(n) PROVE FALSE
    BY <2>1, <2>4 DEF DieAllocating, DieIn
  <2>5. ASSUME NEW o \in held, DieFreeing(o) PROVE FALSE
    BY <2>1, <2>5 DEF DieFreeing, DieIn
  <2> QED
    BY <2>1, <2>2, <2>3, <2>4, <2>5 DEF Next, Space!Next
<1> QED
  BY <1>1, <1>2, SpaceInvariance, PTL DEF Spec, ImplementsFileSpace
=============================================================================
