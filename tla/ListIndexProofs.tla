-------------------------- MODULE ListIndexProofs ---------------------------
(***************************************************************************)
(* Proofs about the name table of an index file, which an engine fills     *)
(* that may stop anywhere, and about the list of sub-archives that reads   *)
(* it meanwhile: for any names, hash values, and lists of sub-archives.    *)
(***************************************************************************)
EXTENDS ListIndex, FiniteSetTheorems, SequenceTheorems, Recursion

-----------------------------------------------------------------------------
(* The entries that are reached.                                           *)

ReachedIn(t, e) ==
    LET reached[i \in DOMAIN e] ==
            \/ t[Hash[e[i].name]] = i
            \/ \E j \in 1 .. i - 1 : reached[j] /\ e[j].next = i
    IN  {i \in DOMAIN e : t # NoTable /\ reached[i]}

LEMMA ReachedNow == Reached = ReachedIn(table, entries)
BY DEF Reached, ReachedIn

LEMMA ReachedNext == Reached' = ReachedIn(table', entries')
BY DEF Reached, ReachedIn

IsReached(R, t, e) ==
    /\ R \subseteq DOMAIN e
    /\ \A i \in DOMAIN e :
          i \in R <=> /\ t # NoTable
                      /\ \/ t[SlotOf(e, i)] = i
                         \/ \E j \in R : j < i /\ e[j].next = i

\* The recursive definition means what it says.
LEMMA ReachedIsReached ==
    ASSUME NEW t, NEW e \in Seq(Entry)
    PROVE  IsReached(ReachedIn(t, e), t, e)
<1> DEFINE S == DOMAIN e
           step(f, i) == \/ t[Hash[e[i].name]] = i
                         \/ \E j \in 1 .. i - 1 : f[j] /\ e[j].next = i
           F == [f \in [S -> BOOLEAN] |-> [i \in S |-> step(f, i)]]
           m == [i \in S |-> i]
           reached == CHOOSE f : f = [i \in S |-> step(f, i)]
<1>1. S \subseteq Nat \ {0} /\ \A i \in S : \A j \in 1 .. i - 1 : j \in S /\ j < i
  OBVIOUS
<1>2. Recursive(F, m, S, BOOLEAN)
  <2>1. m \in [S -> Nat] /\ \A i \in S : m[i] = i
    BY <1>1
  <2>2. \A f \in [S -> BOOLEAN] : [i \in S |-> step(f, i)] \in [S -> BOOLEAN]
    OBVIOUS
  <2>3. F \in [[S -> BOOLEAN] -> [S -> BOOLEAN]]
    <3> HIDE DEF step
    <3> QED
      BY <2>2
  <2>4. ASSUME NEW f \in [S -> BOOLEAN], NEW g \in [S -> BOOLEAN], NEW i \in S,
               \A j \in S : m[j] < m[i] => f[j] = g[j]
        PROVE  F[f][i] = F[g][i]
    <3>1. \A j \in 1 .. i - 1 : f[j] = g[j]
      BY <1>1, <2>1, <2>4
    <3>2. step(f, i) = step(g, i)
      BY <3>1, Zenon
    <3>3. F[f][i] = step(f, i) /\ F[g][i] = step(g, i)
      <4> HIDE DEF step
      <4> QED
        OBVIOUS
    <3> QED
      BY <3>2, <3>3, Zenon
  <2> HIDE DEF F, m, S
  <2> QED
    BY <2>1, <2>3, <2>4 DEF Recursive, DependsBelow
<1>3. reached \in [S -> BOOLEAN] /\ reached = [i \in S |-> step(reached, i)]
  <2>1. PICK f \in [S -> BOOLEAN] : f = F[f]
    <3> HIDE DEF F, m, S
    <3> QED
      BY <1>2, RecursionDefines
  <2>2. f = [i \in S |-> step(f, i)]
    <3> HIDE DEF step
    <3> QED
      BY <2>1
  <2>3. reached = [i \in S |-> step(reached, i)]
    <3> HIDE DEF step, S
    <3> QED
      BY <2>2
  <2>4. \A i \in S : step(reached, i) \in BOOLEAN
    OBVIOUS
  <2> HIDE DEF step, S, reached
  <2> QED
    BY <2>3, <2>4
<1> DEFINE R == ReachedIn(t, e)
<1>4. R = {i \in S : t # NoTable /\ reached[i]}
  BY DEF ReachedIn
<1>5. \A i \in S : reached[i] <=> step(reached, i)
  <2> HIDE DEF step, S, reached
  <2> QED
    BY <1>3
<1> HIDE DEF R, reached
<1>6. ASSUME NEW i \in S
      PROVE  i \in R <=> /\ t # NoTable
                         /\ \/ t[SlotOf(e, i)] = i
                            \/ \E j \in R : j < i /\ e[j].next = i
  <2>1. \A j : j \in 1 .. i - 1 <=> j \in S /\ j < i
    OBVIOUS
  <2>2. i \in R <=> t # NoTable /\ step(reached, i)
    <3> HIDE DEF step
    <3> QED
      BY <1>4, <1>5
  <2>3. t # NoTable => ((\E j \in 1 .. i - 1 : reached[j] /\ e[j].next = i)
                        <=> \E j \in R : j < i /\ e[j].next = i)
    BY <1>4, <2>1
  <2> QED
    BY <2>2, <2>3 DEF SlotOf
<1>7. R \subseteq DOMAIN e
  BY <1>4
<1> QED
  BY <1>6, <1>7 DEF IsReached, R

LEMMA Numbers == ASSUME NEW e \in Seq(Entry) PROVE DOMAIN e \subseteq Nat \ {0}
OBVIOUS

\* What is reached is determined by the table and the entries.
LEMMA ReachedOnce ==
    ASSUME NEW t, NEW e \in Seq(Entry), NEW R, IsReached(R, t, e), NEW R2, IsReached(R2, t, e)
    PROVE  R = R2
<1> DEFINE T == {i \in DOMAIN e : ~(i \in R <=> i \in R2)}
           m == [i \in DOMAIN e |-> i]
<1>1. SUFFICES ASSUME T # {} PROVE FALSE
  BY DEF IsReached
<1>2. \A i \in DOMAIN e : m[i] \in Nat /\ m[i] = i
  BY Numbers
<1>3. PICK i \in T : \A j \in DOMAIN e : m[j] < m[i] => j \notin T
  <2>1. T \subseteq DOMAIN e
    OBVIOUS
  <2> HIDE DEF m, T
  <2> QED
    BY <1>1, <1>2, <2>1, LeastOf
<1>4. \A j \in DOMAIN e : j < i => (j \in R <=> j \in R2)
  BY <1>2, <1>3
<1>5. (\E j \in R : j < i /\ e[j].next = i) <=> (\E j \in R2 : j < i /\ e[j].next = i)
  BY <1>4 DEF IsReached
<1> QED
  BY <1>3, <1>5, Zenon DEF IsReached


-----------------------------------------------------------------------------
(* Writing and linking an entry.                                           *)

LEMMA AppendedEntry ==
    ASSUME NEW e \in Seq(Entry), NEW new \in Entry
    PROVE  /\ Append(e, new) \in Seq(Entry) /\ Len(Append(e, new)) = Len(e) + 1
           /\ DOMAIN Append(e, new) = 1 .. Len(e) + 1
           /\ DOMAIN e = 1 .. Len(e) /\ Len(e) \in Nat
           /\ Append(e, new)[Len(e) + 1] = new
           /\ \A i \in DOMAIN e : Append(e, new)[i] = e[i]
OBVIOUS

LEMMA TableSlots ==
    ASSUME NEW e \in Seq(Entry), NEW i \in DOMAIN e
    PROVE  SlotOf(e, i) \in 0 .. HashSize - 1 /\ e[i].name \in Name /\ e[i].next \in Nat
<1>1. e[i] \in Entry
  OBVIOUS
<1> QED
  BY <1>1, HashAssumption DEF Entry, SlotOf

\* An entry that no other leads to changes nothing.
LEMMA EntryWritten ==
    ASSUME NEW R, NEW t, t # NoTable, NEW e, NamesSound(R, t, e), IsReached(R, t, e),
           NEW new \in Entry, new.next = 0, NEW e2, e2 = Append(e, new)
    PROVE  IsReached(R, t, e2) /\ NamesSound(R, t, e2)
<1>1. /\ e \in Seq(Entry) /\ t \in [0 .. HashSize - 1 -> Nat]
      /\ LinksForward(t, e) /\ ListsOrdered(R, t, e) /\ Distinct(R, e)
  BY DEF NamesSound
<1> DEFINE k == Len(e) + 1
<1>2. /\ e2 \in Seq(Entry) /\ DOMAIN e2 = DOMAIN e \cup {k} /\ k \notin DOMAIN e
      /\ e2[k] = new /\ (\A i \in DOMAIN e : e2[i] = e[i])
      /\ R \subseteq DOMAIN e /\ k \in Nat \ {0} /\ \A i \in DOMAIN e : i \in Nat /\ i < k
  BY <1>1, AppendedEntry DEF IsReached
<1> HIDE DEF k
<1>3. \A i \in DOMAIN e : SlotOf(e2, i) = SlotOf(e, i)
  BY <1>2 DEF SlotOf
<1>4. IsReached(R, t, e2)
  <2>1. ASSUME NEW i \in DOMAIN e
        PROVE  i \in R <=> t[SlotOf(e2, i)] = i \/ \E j \in R : j < i /\ e2[j].next = i
    <3>1. (\E j \in R : j < i /\ e2[j].next = i) <=> (\E j \in R : j < i /\ e[j].next = i)
      BY <1>2
    <3> QED
      BY <1>3, <3>1 DEF IsReached
  <2>2. t[SlotOf(e2, k)] # k
    <3>1. SlotOf(e2, k) \in 0 .. HashSize - 1
      BY <1>2, TableSlots
    <3> QED
      BY <1>1, <1>2, <3>1 DEF LinksForward
  <2>3. \A j \in R : e2[j].next # k
    <3> TAKE j \in R
    <3>1. j \in DOMAIN e /\ e2[j].next = e[j].next
      BY <1>2
    <3> QED
      BY <1>1, <1>2, <3>1 DEF LinksForward
  <2>4. k \notin R
    BY <1>2
  <2> QED
    BY <1>2, <2>1, <2>2, <2>3, <2>4 DEF IsReached
<1>5. LinksForward(t, e2)
  <2>1. \A h \in 0 .. HashSize - 1 : t[h] # 0 => t[h] \in DOMAIN e2 /\ SlotOf(e2, t[h]) = h
    BY <1>1, <1>2, <1>3 DEF LinksForward
  <2>2. ASSUME NEW i \in DOMAIN e2, e2[i].next # 0
        PROVE  /\ e2[i].next \in DOMAIN e2 /\ i < e2[i].next
               /\ SlotOf(e2, e2[i].next) = SlotOf(e2, i)
    <3>1. i \in DOMAIN e /\ e2[i] = e[i]
      BY <1>2, <2>2
    <3>2. e[i].next \in DOMAIN e /\ i < e[i].next /\ SlotOf(e, e[i].next) = SlotOf(e, i)
      BY <1>1, <2>2, <3>1 DEF LinksForward
    <3> QED
      BY <1>2, <1>3, <3>1, <3>2
  <2> QED
    BY <2>1, <2>2 DEF LinksForward
<1>6. ListsOrdered(R, t, e2)
  BY <1>1, <1>2, <1>3 DEF ListsOrdered
<1>7. Distinct(R, e2)
  BY <1>1, <1>2 DEF Distinct
<1> QED
  BY <1>1, <1>2, <1>4, <1>5, <1>6, <1>7 DEF NamesSound

\* The table is extended by entry k, of slot h.
Linked(t, e, k, h, l, t2, e2) ==
    \/ t[h] = 0 /\ t2 = [t EXCEPT ![h] = k] /\ e2 = e
    \/ t[h] # 0 /\ e2 = [e EXCEPT ![l].next = k] /\ t2 = t

LEMMA EntryLinked ==
    ASSUME NEW R, NEW t, t # NoTable, NEW e, NamesSound(R, t, e), IsReached(R, t, e),
           NEW k, k = Len(e), k # 0, k \notin R, e[k].next = 0,
           \A i \in R : e[i].name # e[k].name /\ e[i].id # e[k].id,
           NEW h, h = SlotOf(e, k), NEW l,
           t[h] # 0 => l \in R /\ SlotOf(e, l) = h /\ e[l].next = 0,
           NEW t2, NEW e2, Linked(t, e, k, h, l, t2, e2)
    PROVE  IsReached(R \cup {k}, t2, e2) /\ NamesSound(R \cup {k}, t2, e2) /\ t2 # NoTable
<1>1. /\ e \in Seq(Entry) /\ t \in [0 .. HashSize - 1 -> Nat] /\ R \subseteq DOMAIN e
      /\ LinksForward(t, e) /\ ListsOrdered(R, t, e) /\ Distinct(R, e)
  BY DEF NamesSound, IsReached
<1>2. k \in DOMAIN e /\ h \in 0 .. HashSize - 1
  BY <1>1, TableSlots
<1>3. \A i \in DOMAIN e : i \in Nat \ {0} /\ i <= k
  BY <1>1
<1>4. \A i \in DOMAIN e : SlotOf(e, i) \in 0 .. HashSize - 1 /\ e[i] \in Entry
  BY <1>1, TableSlots
<1> DEFINE R2 == R \cup {k}
<1>5. CASE t[h] = 0
  <2>1. t2 = [t EXCEPT ![h] = k] /\ e2 = e
    BY <1>5 DEF Linked
  <2>2. /\ t2 \in [0 .. HashSize - 1 -> Nat]
        /\ \A g \in 0 .. HashSize - 1 : t2[g] = IF g = h THEN k ELSE t[g]
    BY <1>1, <1>2, <1>3, <2>1
  <2>3. t2 # NoTable
    BY <2>2, HashAssumption DEF NoTable
  <2>4. \A i \in R : SlotOf(e, i) # h
    BY <1>1, <1>5 DEF ListsOrdered
  <2>5. IsReached(R2, t2, e)
    <3> SUFFICES ASSUME NEW i \in DOMAIN e
                 PROVE  i \in R2 <=> t2[SlotOf(e, i)] = i \/ \E j \in R2 : j < i /\ e[j].next = i
      BY <1>1, <1>2, <2>3 DEF IsReached
    <3>1. CASE i = k
      BY <1>2, <2>2, <3>1
    <3>2. CASE i # k
      <4>1. i # 0
        BY <1>3
      <4>2. (\E j \in R2 : j < i /\ e[j].next = i) <=> (\E j \in R : j < i /\ e[j].next = i)
        BY <4>1
      <4>3. t2[SlotOf(e, i)] = i <=> t[SlotOf(e, i)] = i
        BY <1>4, <1>5, <2>2, <3>2, <4>1
      <4> QED
        BY <3>2, <4>2, <4>3 DEF IsReached
    <3> QED
      BY <3>1, <3>2
  <2>6. LinksForward(t2, e)
    BY <1>1, <1>2, <2>2 DEF LinksForward
  <2>7. ListsOrdered(R2, t2, e)
    <3>1. ASSUME NEW i \in R2 PROVE t2[SlotOf(e, i)] # 0 /\ t2[SlotOf(e, i)] <= i
      <4>1. CASE i = k
        BY <1>2, <1>3, <2>2, <4>1
      <4>2. CASE i \in R
        BY <1>1, <1>4, <2>2, <2>4, <4>2 DEF ListsOrdered
      <4> QED
        BY <4>1, <4>2
    <3>2. ASSUME NEW i \in R2, NEW j \in R2, SlotOf(e, i) = SlotOf(e, j), i < j
          PROVE  e[i].next # 0 /\ e[i].next <= j
      <4>1. i \in R
        BY <1>1, <1>2, <1>3, <3>2
      <4>2. j \in R
        BY <2>4, <3>2, <4>1
      <4> QED
        BY <1>1, <3>2, <4>1, <4>2 DEF ListsOrdered
    <3> QED
      BY <3>1, <3>2 DEF ListsOrdered
  <2>8. Distinct(R2, e)
    BY <1>1 DEF Distinct
  <2> QED
    BY <1>1, <2>1, <2>2, <2>3, <2>5, <2>6, <2>7, <2>8 DEF NamesSound
<1>6. CASE t[h] # 0
  <2>1. t2 = t /\ e2 = [e EXCEPT ![l].next = k]
    BY <1>6 DEF Linked
  <2>2. l \in R /\ l \in DOMAIN e /\ SlotOf(e, l) = h /\ e[l].next = 0 /\ l # k /\ l < k
    BY <1>1, <1>3, <1>6
  <2>3. /\ e2 \in Seq(Entry) /\ DOMAIN e2 = DOMAIN e
        /\ \A i \in DOMAIN e : /\ e2[i].name = e[i].name /\ e2[i].id = e[i].id
                               /\ e2[i].next = IF i = l THEN k ELSE e[i].next
    <3> DEFINE new == [e[l] EXCEPT !.next = k]
    <3>1. e[l] \in Entry /\ k \in Nat
      BY <1>2, <1>3, <1>4, <2>2
    <3>2. new \in Entry /\ new.name = e[l].name /\ new.id = e[l].id /\ new.next = k
      BY <3>1 DEF Entry
    <3>3. e2 = [e EXCEPT ![l] = new]
      BY <2>1
    <3> HIDE DEF new
    <3> QED
      BY <1>1, <2>2, <3>2, <3>3
  <2>4. \A i \in DOMAIN e : SlotOf(e2, i) = SlotOf(e, i)
    BY <2>3 DEF SlotOf
  <2>5. IsReached(R2, t, e2)
    <3> SUFFICES ASSUME NEW i \in DOMAIN e
                 PROVE  i \in R2 <=> t[SlotOf(e, i)] = i \/ \E j \in R2 : j < i /\ e2[j].next = i
      BY <1>1, <1>2, <2>3, <2>4 DEF IsReached
    <3>1. CASE i = k
      BY <2>2, <2>3, <3>1
    <3>2. CASE i # k
      <4>1. i # 0
        BY <1>3
      <4>2. (\E j \in R2 : j < i /\ e2[j].next = i) <=> (\E j \in R : j < i /\ e[j].next = i)
        <5>1. \A j \in DOMAIN e : e2[j].next = i <=> e[j].next = i
          BY <2>2, <2>3, <3>2, <4>1
        <5>2. e[k].next # i
          BY <4>1
        <5> QED
          BY <1>1, <1>2, <5>1, <5>2
      <4> QED
        BY <3>2, <4>2 DEF IsReached
    <3> QED
      BY <3>1, <3>2
  <2>6. LinksForward(t, e2)
    <3>1. \A g \in 0 .. HashSize - 1 : t[g] # 0 => t[g] \in DOMAIN e2 /\ SlotOf(e2, t[g]) = g
      BY <1>1, <2>3, <2>4 DEF LinksForward
    <3>2. ASSUME NEW i \in DOMAIN e, e2[i].next # 0
          PROVE  /\ e2[i].next \in DOMAIN e /\ i < e2[i].next
                 /\ SlotOf(e, e2[i].next) = SlotOf(e, i)
      <4>1. CASE i = l
        BY <1>2, <2>2, <2>3, <4>1
      <4>2. CASE i # l
        BY <1>1, <2>3, <3>2, <4>2 DEF LinksForward
      <4> QED
        BY <4>1, <4>2
    <3> QED
      BY <2>3, <2>4, <3>1, <3>2 DEF LinksForward
  <2>7. ListsOrdered(R2, t, e2)
    <3>1. ASSUME NEW i \in R2 PROVE t[SlotOf(e, i)] # 0 /\ t[SlotOf(e, i)] <= i
      <4>1. CASE i = k
        <5>1. t[h] # 0 /\ t[h] <= l /\ t[h] \in Nat
          BY <1>1, <1>2, <2>2 DEF ListsOrdered
        <5>2. l \in Nat /\ k \in Nat
          BY <1>2, <1>3, <2>2
        <5> QED
          BY <2>2, <4>1, <5>1, <5>2
      <4>2. CASE i \in R
        BY <1>1, <4>2 DEF ListsOrdered
      <4> QED
        BY <4>1, <4>2
    <3>2. ASSUME NEW i \in R2, NEW j \in R2, SlotOf(e, i) = SlotOf(e, j), i < j
          PROVE  e2[i].next # 0 /\ e2[i].next <= j
      <4>1. i \in R /\ i \in DOMAIN e /\ i # k
        BY <1>1, <1>2, <1>3, <3>2
      <4>2. CASE j \in R
        <5>1. e[i].next # 0 /\ e[i].next <= j
          BY <1>1, <3>2, <4>1, <4>2 DEF ListsOrdered
        <5> QED
          BY <2>2, <2>3, <4>1, <5>1
      <4>3. CASE j = k /\ i = l
        BY <1>2, <1>3, <2>3, <4>1, <4>3
      <4>4. CASE j = k /\ i # l
        <5>1. i < l
          <6>1. ~(l < i)
            BY <1>1, <2>2, <3>2, <4>1, <4>4 DEF ListsOrdered
          <6> QED
            BY <1>3, <2>2, <4>1, <4>4, <6>1
        <5>2. e[i].next # 0 /\ e[i].next <= l
          BY <1>1, <2>2, <3>2, <4>1, <4>4, <5>1 DEF ListsOrdered
        <5>3. e[i].next \in Nat /\ l \in Nat /\ k \in Nat
          BY <1>1, <1>2, <1>3, <2>2, <4>1, TableSlots
        <5> QED
          BY <2>2, <2>3, <4>1, <4>4, <5>2, <5>3
      <4> QED
        BY <4>2, <4>3, <4>4
    <3>3. \A i \in R2 : SlotOf(e2, i) = SlotOf(e, i)
      BY <1>1, <1>2, <2>4
    <3> QED
      BY <3>1, <3>2, <3>3 DEF ListsOrdered
  <2>8. Distinct(R2, e2)
    BY <1>1, <1>2, <2>3 DEF Distinct
  <2> QED
    BY <1>1, <2>1, <2>3, <2>5, <2>6, <2>7, <2>8 DEF NamesSound
<1> QED
  BY <1>5, <1>6


\* A slot that is not empty leads to a list, and the list has an end.
ListEnd(R, e, h) == \E l \in R : SlotOf(e, l) = h /\ e[l].next = 0

LEMMA ListEnds ==
    ASSUME NEW R, NEW t, t # NoTable, NEW e, NamesSound(R, t, e), IsReached(R, t, e),
           NEW h \in 0 .. HashSize - 1, t[h] # 0
    PROVE  /\ t[h] \in R /\ SlotOf(e, t[h]) = h
           /\ ListEnd(R, e, h)
<1>1. e \in Seq(Entry) /\ LinksForward(t, e) /\ R \subseteq DOMAIN e
  BY DEF NamesSound, IsReached
<1>2. t[h] \in R /\ SlotOf(e, t[h]) = h
  BY <1>1 DEF LinksForward, IsReached
<1> DEFINE T == {i \in R : SlotOf(e, i) = h}
           m == [i \in DOMAIN e |-> Len(e) - i]
<1>3. \A i \in DOMAIN e : m[i] \in Nat
  BY <1>1
<1>4. PICK l \in T : \A i \in DOMAIN e : m[i] < m[l] => i \notin T
  <2>1. T \subseteq DOMAIN e /\ T # {}
    BY <1>1, <1>2
  <2> HIDE DEF m, T
  <2> QED
    BY <1>3, <2>1, LeastOf
<1>5. e[l].next = 0
  <2> SUFFICES ASSUME e[l].next # 0 PROVE FALSE
    OBVIOUS
  <2>1. e[l].next \in DOMAIN e /\ l < e[l].next /\ SlotOf(e, e[l].next) = h /\ l \in DOMAIN e
    BY <1>1 DEF LinksForward
  <2>2. e[l].next \in T
    BY <2>1 DEF IsReached
  <2>3. m[e[l].next] < m[l]
    BY <1>1, <2>1
  <2> QED
    BY <1>4, <2>1, <2>2, <2>3
<1> QED
  BY <1>2, <1>5 DEF ListEnd

\* What follows an entry that is reached is reached.
LEMMA FollowerReached ==
    ASSUME NEW R, NEW t, t # NoTable, NEW e, NamesSound(R, t, e), IsReached(R, t, e),
           NEW i \in R, e[i].next # 0
    PROVE  e[i].next \in R /\ i < e[i].next /\ SlotOf(e, e[i].next) = SlotOf(e, i)
<1>1. LinksForward(t, e) /\ R \subseteq DOMAIN e
  BY DEF NamesSound, IsReached
<1> QED
  BY <1>1 DEF LinksForward, IsReached

-----------------------------------------------------------------------------
(* What the steps of the engine leave as it was.                           *)

\* Entries are added to what is reached, of new names.
Grown(R, e, R2, e2) ==
    /\ R \subseteq R2 /\ R \subseteq DOMAIN e /\ R2 \subseteq DOMAIN e2
    /\ \A i \in R : /\ e2[i].name = e[i].name /\ e2[i].id = e[i].id
                    /\ e[i].next # 0 => e2[i].next = e[i].next
    /\ \A i \in R, j \in R2 : j \notin R => e2[j].name # e[i].name

IdsIn(R, e, n) == {e[i].id : i \in {j \in R : e[j].name = n}}

LEMMA IdsNow == \A n : IdOf(n) = IdsIn(Reached, entries, n)
BY DEF IdOf, IdsIn

LEMMA IdsNext == \A n : IdOf(n)' = IdsIn(Reached', entries', n)
BY DEF IdOf, IdsIn

LEMMA SameIds ==
    ASSUME NEW R, NEW e, NEW e2, \A i \in R : e2[i] = e[i], NEW n
    PROVE  IdsIn(R, e2, n) = IdsIn(R, e, n)
<1>1. {j \in R : e2[j].name = n} = {j \in R : e[j].name = n}
  OBVIOUS
<1> QED
  BY <1>1 DEF IdsIn

LEMMA GrownIds ==
    ASSUME NEW R, NEW e, NEW R2, NEW e2, Grown(R, e, R2, e2), NEW n, IdsIn(R, e, n) # {}
    PROVE  IdsIn(R2, e2, n) = IdsIn(R, e, n)
<1>1. PICK i \in R : e[i].name = n
  BY DEF IdsIn
<1>2. \A j : j \in R2 /\ e2[j].name = n <=> j \in R /\ e[j].name = n
  BY <1>1 DEF Grown
<1>3. \A j : j \in R => e2[j].id = e[j].id
  BY DEF Grown
<1> QED
  BY <1>2, <1>3 DEF IdsIn

LEMMA HashFacts ==
    ASSUME IndexInv
    PROVE  /\ entries \in Seq(Entry) /\ IsReached(Reached, table, entries)
           /\ NamesSound(Reached, table, entries)
           /\ Reached \subseteq DOMAIN entries /\ DOMAIN entries \subseteq Nat \ {0}
           /\ \A i \in DOMAIN entries : /\ entries[i].name \in Name /\ entries[i].id \in Nat
                                        /\ entries[i].next \in Nat
                                        /\ SlotOf(entries, i) \in 0 .. HashSize - 1
<1>1. entries \in Seq(Entry) /\ NamesSound(Reached, table, entries)
  BY DEF IndexInv, NamesSound
<1>2. IsReached(Reached, table, entries)
  BY <1>1, ReachedNow, ReachedIsReached
<1>3. \A i \in DOMAIN entries : entries[i].id \in Nat
  <2>1. \A i \in DOMAIN entries : entries[i] \in Entry
    BY <1>1
  <2> QED
    BY <2>1 DEF Entry
<1> QED
  BY <1>1, <1>2, <1>3, TableSlots, Numbers DEF IsReached

\* Nothing is written.
LEMMA Unwritten ==
    ASSUME IndexInv, UNCHANGED hashVars
    PROVE  /\ Reached' = Reached /\ table' = table /\ entries' = entries
           /\ \A n : IdOf(n)' = IdOf(n)
           /\ NamesSound(Reached, table, entries)'
           /\ Grown(Reached, entries, Reached', entries')
<1>1. Reached' = Reached /\ table' = table /\ entries' = entries
  BY ReachedNow, ReachedNext DEF hashVars
<1>2. NamesSound(Reached', table', entries')
  BY <1>1 DEF IndexInv
<1>3. Grown(Reached, entries, Reached', entries')
  BY <1>1, HashFacts DEF Grown
<1>4. \A n : IdOf(n)' = IdOf(n)
  BY <1>1, IdsNow, IdsNext
<1> QED
  BY <1>1, <1>2, <1>3, <1>4

\* The engine is where it was, or another operation of it begins or ends.
LEMMA QuietEngine ==
    ASSUME IndexInv,
           \/ OpenForWriting \/ WriteCookie \/ Stop
           \/ \E n \in Name : FindExisting(n) \/ AddTree(n)
           \/ UNCHANGED indexVars
    PROVE  /\ IndexInv' /\ Grown(Reached, entries, Reached', entries')
           /\ made = "table" => made' = "table"
<1>1. UNCHANGED hashVars
  BY DEF OpenForWriting, WriteCookie, Stop, FindExisting, AddTree, indexVars
<1>2. /\ Reached' = Reached /\ table' = table /\ entries' = entries
      /\ \A n : IdOf(n)' = IdOf(n)
      /\ NamesSound(Reached, table, entries)'
      /\ Grown(Reached, entries, Reached', entries')
  BY <1>1, Unwritten
<1>3. EngineSound /\ AddingSound /\ trees \in Nat
      /\ (\A i \in DOMAIN entries : entries[i].id <= trees /\ entries[i].id \in Nat)
      /\ added \subseteq {n \in Name : IdOf(n) # {}}
  BY HashFacts DEF IndexInv
<1>4. EngineSound' /\ (made = "table" => made' = "table")
  BY <1>2, <1>3 DEF EngineSound, OpenForWriting, CanOpen, WriteCookie, Stop, Off, FindExisting,
                    AddTree, indexVars
<1>5. CASE \E n \in Name : AddTree(n)
  <2>1. PICK n \in Name : AddTree(n)
    BY <1>5
  <2>2. trees' = trees + 1 /\ engine'.pc = "insert" /\ engine'.name = n /\ IdOf(n) = {}
        /\ added' = added
    BY <2>1 DEF AddTree
  <2>3. \A i \in DOMAIN entries : entries[i].id < trees + 1 /\ entries[i].id <= trees + 1
    BY <1>3
  <2>4. AddingSound'
    BY <1>2, <2>2, <2>3 DEF AddingSound
  <2> QED
    BY <1>2, <1>3, <1>4, <2>2, <2>3, <2>4 DEF IndexInv
<1>6. CASE ~\E n \in Name : AddTree(n)
  <2>1. trees' = trees
    BY <1>6 DEF OpenForWriting, WriteCookie, Stop, FindExisting, indexVars
  <2>2. engine'.pc \notin {"insert", "link"} \/ engine' = engine
    BY <1>3, <1>6 DEF OpenForWriting, WriteCookie, Stop, Off, FindExisting, EngineSound, indexVars
  <2>3. AddingSound'
    BY <1>2, <1>3, <2>1, <2>2 DEF AddingSound
  <2>4. added' \subseteq {n \in Name : IdOf(n) # {}}
    BY <1>3, <1>6 DEF OpenForWriting, WriteCookie, Stop, FindExisting, indexVars
  <2> QED
    BY <1>2, <1>3, <1>4, <2>1, <2>3, <2>4 DEF IndexInv
<1> QED
  BY <1>5, <1>6


\* The table is made: it is empty.
LEMMA TableMade ==
    ASSUME IndexInv, InitNames
    PROVE  /\ IndexInv' /\ Grown(Reached, entries, Reached', entries')
           /\ made = "table" => made' = "table"
<1>1. engine.pc = "init" /\ made = "cookie" /\ table = NoTable /\ entries = <<>>
  <2>1. engine.pc = "init" /\ made = "cookie" /\ table = NoTable
    BY DEF InitNames, IndexInv, EngineSound
  <2>2. table \notin [0 .. HashSize - 1 -> Nat]
    BY <2>1, HashAssumption DEF NoTable
  <2> QED
    BY <2>1, <2>2 DEF IndexInv, NamesSound
<1>2. /\ table' = [h \in 0 .. HashSize - 1 |-> 0] /\ entries' = entries
      /\ made' = "table" /\ engine' = Idle /\ UNCHANGED <<trees, added>>
  BY DEF InitNames, MakeTable
<1>3. PICK e \in Seq(Entry) : e = entries /\ DOMAIN e = {}
  <2>1. entries \in Seq(Entry)
    BY HashFacts
  <2>2. DOMAIN <<>> = {}
    OBVIOUS
  <2> QED
    BY <1>1, <2>1, <2>2, Zenon
<1>4. Reached = {} /\ Reached' = {}
  BY <1>2, <1>3, HashFacts, ReachedNext, ReachedIsReached DEF IsReached
<1>5. table' # NoTable
  BY <1>2, HashAssumption DEF NoTable
<1>6. NamesSound(Reached', table', entries')
  <2>1. table' \in [0 .. HashSize - 1 -> Nat] /\ \A h \in 0 .. HashSize - 1 : table'[h] = 0
    BY <1>2
  <2> QED
    BY <1>2, <1>3, <1>4, <2>1 DEF NamesSound, LinksForward, ListsOrdered, Distinct
<1>7. EngineSound'
  BY <1>2, <1>5 DEF EngineSound, Idle
<1>8. AddingSound'
  BY <1>2 DEF AddingSound, Idle
<1>9. added = {}
  BY <1>4, IdsNow DEF IndexInv, IdsIn
<1>10. Grown(Reached, entries, Reached', entries')
  BY <1>4 DEF Grown
<1> QED
  BY <1>2, <1>3, <1>6, <1>7, <1>8, <1>9, <1>10 DEF IndexInv

LEMMA NameWritten ==
    ASSUME IndexInv, InsertName
    PROVE  /\ IndexInv' /\ Grown(Reached, entries, Reached', entries')
           /\ made = "table" => made' = "table"
<1>1. /\ engine.pc = "insert" /\ made = "table" /\ table # NoTable /\ engine.name \in Name
      /\ IdOf(engine.name) = {} /\ trees \in Nat
      /\ \A i \in DOMAIN entries : entries[i].id < trees
  BY DEF InsertName, IndexInv, EngineSound, AddingSound
<1> DEFINE new == [name |-> engine.name, id |-> trees, next |-> 0]
<1>2. new \in Entry /\ new.next = 0 /\ new.id = trees
  BY <1>1 DEF Entry
<1>3. /\ entries' = Append(entries, new) /\ table' = table
      /\ engine' = [engine EXCEPT !.pc = "link"] /\ UNCHANGED <<made, trees, added>>
  BY DEF InsertName, WriteEntry
<1>4. new = [name |-> engine'.name, id |-> trees', next |-> 0]
  BY <1>3 DEF IndexInv, EngineSound
<1> HIDE DEF new
<1>5. PICK e \in Seq(Entry) : e = entries
  BY HashFacts
<1>6. PICK e2 \in Seq(Entry) : /\ e2 = entries' /\ Len(e2) = Len(e) + 1
                               /\ DOMAIN e2 = DOMAIN e \cup {Len(e2)} /\ Len(e2) \notin DOMAIN e
                               /\ e2[Len(e2)] = new /\ \A i \in DOMAIN e : e2[i] = e[i]
  <2>1. PICK e2 : e2 = Append(e, new)
    OBVIOUS
  <2>2. /\ e2 \in Seq(Entry) /\ Len(e2) = Len(e) + 1 /\ DOMAIN e2 = 1 .. Len(e) + 1
        /\ DOMAIN e = 1 .. Len(e) /\ Len(e) \in Nat /\ e2[Len(e) + 1] = new
        /\ \A i \in DOMAIN e : e2[i] = e[i]
    BY <1>2, <2>1, AppendedEntry
  <2>3. e2 = entries'
    BY <1>3, <1>5, <2>1
  <2>4. DOMAIN e2 = DOMAIN e \cup {Len(e2)} /\ Len(e2) \notin DOMAIN e
    BY <2>2
  <2> QED
    BY <2>2, <2>3, <2>4
<1>7. IsReached(Reached, table', e2) /\ NamesSound(Reached, table', e2)
  <2>1. e2 = Append(e, new)
    BY <1>3, <1>5, <1>6
  <2> QED
    BY <1>1, <1>2, <1>3, <1>5, <2>1, HashFacts, EntryWritten
<1>8. Reached' = Reached /\ Reached \subseteq DOMAIN e
  BY <1>5, <1>6, <1>7, ReachedNext, ReachedIsReached, ReachedOnce, HashFacts
<1>9. \A n : IdOf(n)' = IdOf(n)
  <2>1. \A i \in Reached : e2[i] = e[i]
    BY <1>6, <1>8
  <2> QED
    BY <1>5, <1>6, <1>8, <2>1, IdsNow, IdsNext, SameIds
<1>10. EngineSound'
  BY <1>1, <1>3 DEF IndexInv, EngineSound
<1>11. AddingSound'
  <2>1. engine'.pc = "link" /\ engine'.name = engine.name
    BY <1>3 DEF IndexInv, EngineSound
  <2>2. Len(e2) > 0 /\ Len(e2) \notin Reached
    BY <1>6, <1>8
  <2>3. \A i \in DOMAIN e2 : i # Len(e2) => e2[i].id < trees'
    BY <1>1, <1>3, <1>5, <1>6
  <2> QED
    BY <1>1, <1>4, <1>6, <1>8, <1>9, <2>1, <2>2, <2>3 DEF AddingSound
<1>12. \A i \in DOMAIN e2 : e2[i].id <= trees
  BY <1>2, <1>5, <1>6 DEF IndexInv
<1>13. Grown(Reached, entries, Reached', entries')
  BY <1>5, <1>6, <1>8 DEF Grown
<1> QED
  BY <1>1, <1>3, <1>6, <1>7, <1>8, <1>9, <1>10, <1>11, <1>12, <1>13 DEF IndexInv

\* The entry is linked: it is reached, the last one of its list.
LEMMA NameLinked ==
    ASSUME IndexInv, LinkName
    PROVE  /\ IndexInv' /\ Grown(Reached, entries, Reached', entries')
           /\ made = "table" => made' = "table"
<1> DEFINE k == Len(entries)
           h == Hash[engine.name]
           l == LastOf(h)
<1>1. /\ engine.pc = "link" /\ made = "table" /\ table # NoTable /\ engine.name \in Name
      /\ IdOf(engine.name) = {} /\ trees \in Nat
      /\ k > 0 /\ k \notin Reached
      /\ entries[k] = [name |-> engine.name, id |-> trees, next |-> 0]
      /\ \A i \in DOMAIN entries : i # k => entries[i].id < trees
  BY DEF LinkName, IndexInv, EngineSound, AddingSound
<1>2. /\ entries \in Seq(Entry) /\ IsReached(Reached, table, entries)
      /\ NamesSound(Reached, table, entries) /\ Reached \subseteq DOMAIN entries
      /\ k \in DOMAIN entries /\ k # 0
  BY <1>1, HashFacts
<1>3. h = SlotOf(entries, k) /\ h \in 0 .. HashSize - 1
  BY <1>1, <1>2, TableSlots DEF SlotOf
<1>4. Linked(table, entries, k, h, l, table', entries')
  BY DEF LinkName, LinkEntry, Linked
<1>5. table[h] # 0 => l \in Reached /\ SlotOf(entries, l) = h /\ entries[l].next = 0
  <2> SUFFICES ASSUME table[h] # 0
               PROVE  l \in Reached /\ SlotOf(entries, l) = h /\ entries[l].next = 0
    OBVIOUS
  <2>1. PICK i \in Reached : SlotOf(entries, i) = h /\ entries[i].next = 0
    <3> HIDE DEF h, l, k
    <3>1. table # NoTable
      BY <1>1
    <3>2. NamesSound(Reached, table, entries) /\ IsReached(Reached, table, entries)
      BY <1>2
    <3>3. h \in 0 .. HashSize - 1
      BY <1>3
    <3>4. table[h] # 0
      OBVIOUS
    <3> QED
      <4>1. ListEnd(Reached, entries, h)
        BY <3>1, <3>2, <3>3, <3>4, ListEnds
      <4> QED
        BY <4>1 DEF ListEnd
  <2>2. \E e \in ListOf(h) : entries[e].next = 0
    <3>1. i \in ListOf(h)
      BY <2>1 DEF ListOf, SlotOf
    <3> QED
      BY <2>1, <3>1
  <2>3. l \in ListOf(h) /\ entries[l].next = 0
    BY <2>2 DEF LastOf
  <2> QED
    BY <2>3 DEF ListOf, SlotOf
<1>6. \A i \in Reached : entries[i].name # entries[k].name /\ entries[i].id # entries[k].id
  <2> TAKE i \in Reached
  <2>1. entries[i].name # engine.name
    BY <1>1, IdsNow DEF IdsIn
  <2>2. entries[i].id < trees /\ entries[i].id \in Nat
    BY <1>1, <1>2, HashFacts
  <2> QED
    BY <1>1, <2>1, <2>2
<1> HIDE DEF k, h, l
<1>7. /\ IsReached(Reached \cup {k}, table', entries')
      /\ NamesSound(Reached \cup {k}, table', entries') /\ table' # NoTable
  <2>1. k = Len(entries) /\ entries[k].next = 0
    BY <1>1 DEF k
  <2> QED
    BY <1>1, <1>2, <1>3, <1>4, <1>5, <1>6, <2>1, EntryLinked
<1>8. entries' \in Seq(Entry)
  BY <1>7 DEF NamesSound
<1>9. Reached' = Reached \cup {k}
  BY <1>7, <1>8, ReachedNext, ReachedIsReached, ReachedOnce
<1>10. /\ DOMAIN entries' = DOMAIN entries
       /\ \A i \in DOMAIN entries :
             /\ entries'[i].name = entries[i].name /\ entries'[i].id = entries[i].id
             /\ entries[i].next # 0 => entries'[i].next = entries[i].next
  <2>1. CASE entries' = entries
    BY <2>1
  <2>2. CASE table[h] # 0 /\ entries' = [entries EXCEPT ![l].next = k]
    <3>1. l \in DOMAIN entries /\ entries[l] \in Entry /\ entries[l].next = 0
      BY <1>2, <1>5, <2>2
    <3>2. /\ [entries[l] EXCEPT !.next = k].name = entries[l].name
          /\ [entries[l] EXCEPT !.next = k].id = entries[l].id
      BY <3>1 DEF Entry
    <3> QED
      BY <1>2, <2>2, <3>1, <3>2
  <2> QED
    BY <1>4, <2>1, <2>2 DEF Linked
<1>11. Grown(Reached, entries, Reached', entries')
  BY <1>2, <1>6, <1>9, <1>10 DEF Grown
<1>12. engine' = Idle /\ added' = added \cup {engine.name} /\ UNCHANGED <<made, trees>>
  BY DEF LinkName
<1>13. EngineSound'
  BY <1>1, <1>7, <1>12 DEF EngineSound, Idle
<1>14. AddingSound'
  BY <1>12 DEF AddingSound, Idle
<1>15. added' \subseteq {n \in Name : IdOf(n)' # {}}
  <2>1. ASSUME NEW n \in added PROVE n \in Name /\ IdOf(n)' # {}
    <3>1. n \in Name /\ IdOf(n) # {}
      BY DEF IndexInv
    <3> QED
      BY <1>11, <3>1, GrownIds, IdsNow, IdsNext
  <2>2. PICK name \in Name : name = engine.name
    BY <1>1
  <2>3. IdOf(name)' # {}
    <3>1. k \in Reached' /\ entries'[k].name = name
      BY <1>1, <1>2, <1>9, <1>10, <2>2
    <3>2. entries'[k].id \in IdsIn(Reached', entries', name)
      BY <3>1 DEF IdsIn
    <3> QED
      BY <3>2, IdsNext
  <2> QED
    BY <1>12, <2>1, <2>2, <2>3
<1>16. \A i \in DOMAIN entries' : entries'[i].id <= trees'
  BY <1>10, <1>12 DEF IndexInv
<1> QED
  BY <1>1, <1>7, <1>9, <1>11, <1>12, <1>13, <1>14, <1>15, <1>16 DEF IndexInv

\* The engine, whatever it does and wherever it is stopped.
LEMMA EngineStep ==
    ASSUME IndexInv, EngineNext \/ UNCHANGED indexVars
    PROVE  /\ IndexInv' /\ Grown(Reached, entries, Reached', entries')
           /\ made = "table" => made' = "table"
BY QuietEngine, TableMade, NameWritten, NameLinked DEF EngineNext


-----------------------------------------------------------------------------
(* The client, while the engine goes on.                                   *)

LEMMA KnownNow == \A n : n \in KnownNames <=> \E j \in Reached : entries[j].name = n
BY DEF KnownNames

LEMMA KnownNext == \A n : n \in KnownNames' <=> \E j \in Reached' : entries'[j].name = n
BY DEF KnownNames

LEMMA ListNow == \A h, i : i \in ListOf(h) <=> i \in Reached /\ SlotOf(entries, i) = h
BY DEF ListOf, SlotOf

LEMMA ListAfter == \A h, i : i \in ListOf(h)' <=> i \in Reached' /\ SlotOf(entries', i) = h
BY DEF ListOf, SlotOf

\* What was reached, known and listed stays so; and who looks for a name that was
\* known need not look at entries that are added.
LEMMA GrownFacts ==
    ASSUME IndexInv, Grown(Reached, entries, Reached', entries')
    PROVE  /\ \A i \in Reached :
                 /\ i \in Reached' /\ entries'[i].name = entries[i].name
                 /\ SlotOf(entries', i) = SlotOf(entries, i)
                 /\ entries[i].next # 0 => entries'[i].next = entries[i].next
           /\ \A j \in Reached' : entries'[j].name \in KnownNames => j \in Reached
           /\ KnownNames \subseteq KnownNames'
           /\ \A h : ListOf(h) \subseteq ListOf(h)'
<1>1. \A i \in Reached :
         /\ i \in Reached' /\ entries'[i].name = entries[i].name
         /\ entries[i].next # 0 => entries'[i].next = entries[i].next
  BY DEF Grown
<1>2. \A i \in Reached : SlotOf(entries', i) = SlotOf(entries, i)
  BY <1>1 DEF SlotOf
<1>3. \A j \in Reached' : entries'[j].name \in KnownNames => j \in Reached
  BY KnownNow DEF Grown
<1>4. \A n : n \in KnownNames => n \in KnownNames'
  BY <1>1, KnownNow, KnownNext
<1>5. \A h, i : i \in ListOf(h) => i \in ListOf(h)'
  BY <1>1, <1>2, ListNow, ListAfter
<1> QED
  BY <1>1, <1>2, <1>3, <1>4, <1>5

LEMMA BesideEngine ==
    ASSUME ListInv, UNCHANGED listVars, IndexInv',
           Grown(Reached, entries, Reached', entries'), made = "table" => made' = "table"
    PROVE  ListInv'
<1>1. /\ subs' = subs /\ opened' = opened /\ attached' = attached /\ names' = names
      /\ c' = c /\ basis' = basis /\ IndexInv
  BY DEF listVars, ListInv
<1>2. /\ \A i \in Reached :
            /\ i \in Reached' /\ entries'[i].name = entries[i].name
            /\ SlotOf(entries', i) = SlotOf(entries, i)
            /\ entries[i].next # 0 => entries'[i].next = entries[i].next
      /\ \A j \in Reached' : entries'[j].name \in KnownNames => j \in Reached
      /\ KnownNames \subseteq KnownNames'
      /\ \A h : ListOf(h) \subseteq ListOf(h)'
  BY <1>1, GrownFacts
<1>3. SubsSound'
  BY <1>1 DEF ListInv, SubsSound
<1>4. ClientType' /\ c.had \subseteq KnownNames
  BY <1>1, <1>2 DEF ListInv, ClientType
<1>5. ASSUME NEW i, PassedBy(i) PROVE PassedBy(i)'
  BY <1>1, <1>5 DEF PassedBy, ChannelsOf
<1>6. ASSUME c.pc = "walk" PROVE WalkSound'
  <2>1. WalkSound
    BY <1>6 DEF ListInv, ClientSound
  <2>2. c'.offset # 0 => (c.offset \in ListOf(Hash[c.name]))'
    <3>1. PICK h : h = Hash[c.name]
      OBVIOUS
    <3>2. PICK i : i = c.offset
      OBVIOUS
    <3>3. i # 0 => i \in ListOf(h)'
      BY <1>2, <2>1, <3>1, <3>2 DEF WalkSound
    <3> QED
      BY <1>1, <3>1, <3>2, <3>3, ListAfter DEF ListOf
  <2>3. ASSUME NEW j \in Reached', entries'[j].name = c.name, c.name \in c.had
        PROVE  c.offset # 0 /\ c.offset <= j
    <3>1. j \in Reached /\ entries[j].name = c.name
      BY <1>2, <1>4, <2>3
    <3> QED
      BY <2>1, <2>3, <3>1 DEF WalkSound
  <2> QED
    BY <1>1, <2>1, <2>2, <2>3 DEF WalkSound
<1>7. ASSUME c.pc = "found" PROVE FoundSound'
  <2>1. FoundSound
    BY <1>7 DEF ListInv, ClientSound
  <2>2. c.name \in ChannelsOf(c.sub, KnownNames) => c.name \in ChannelsOf(c.sub, KnownNames')
    BY <1>2 DEF ChannelsOf
  <2> QED
    BY <1>1, <1>5, <2>1, <2>2 DEF FoundSound
<1>8. ASSUME NEW i, CollectedSound(i) PROVE CollectedSound(i)'
  BY <1>1, <1>2, <1>8 DEF CollectedSound
<1>9. ASSUME c.pc = "names" PROVE NamesStillToCome'
  <2>1. NamesStillToCome
    BY <1>9 DEF ListInv, ClientSound
  <2>2. ASSUME AtSound(c.at) PROVE AtSound(c.at)'
    <3>1. CASE c.at = AtEnd
      BY <1>1, <3>1 DEF AtSound, AtEnd
    <3>2. CASE c.at # AtEnd
      <4>1. PICK i \in ListOf(c.at.slot) :
               c.at.entry.name = entries[i].name /\ c.at.entry.next \in {0, entries[i].next}
        BY <2>2, <3>2 DEF AtSound
      <4>2. i \in Reached /\ i \in ListOf(c.at.slot)'
        BY <1>1, <1>2, <4>1, ListNow
      <4>3. c.at.entry.name = entries'[i].name /\ c.at.entry.next \in {0, entries'[i].next}
        BY <1>2, <4>1, <4>2
      <4>4. c.at.slot \in 0 .. HashSize - 1
        BY <2>2, <3>2 DEF AtSound
      <4> QED
        BY <1>1, <4>2, <4>3, <4>4 DEF AtSound
    <3> QED
      BY <3>1, <3>2
  <2>3. ASSUME NEW j \in Reached, ToCome(c.at, j) PROVE ToCome(c.at, j)'
    BY <1>1, <1>2, <2>3 DEF ToCome
  <2>4. ASSUME attached, NEW j \in Reached', entries'[j].name \in c.had
        PROVE  entries'[j].name \in c.known \/ ToCome(c.at, j)'
    <3>1. j \in Reached /\ entries'[j].name = entries[j].name
      BY <1>2, <1>4, <2>4
    <3>2. entries[j].name \in c.known \/ ToCome(c.at, j)
      BY <2>1, <2>4, <3>1 DEF NamesStillToCome
    <3> QED
      BY <2>3, <3>1, <3>2
  <2> QED
    BY <1>1, <2>1, <2>2, <2>4 DEF NamesStillToCome
<1>10. ClientSound'
  BY <1>1, <1>5, <1>6, <1>7, <1>8, <1>9 DEF ListInv, ClientSound
<1>11. NamesComplete' /\ names' \subseteq Name \cup {EmptyName}
  BY <1>1, <1>2 DEF ListInv, NamesComplete
<1> QED
  BY <1>3, <1>4, <1>10, <1>11 DEF ListInv

-----------------------------------------------------------------------------
(* The steps of the client: none of them writes to the file.               *)

LEMMA QuietFile ==
    ASSUME ListInv, UNCHANGED indexVars
    PROVE  /\ IndexInv' /\ Reached' = Reached /\ table' = table /\ entries' = entries
           /\ made' = made /\ KnownNames' = KnownNames /\ \A h : ListOf(h)' = ListOf(h)
<1>1. UNCHANGED hashVars /\ made' = made /\ IndexInv
  BY DEF indexVars, ListInv
<1>2. IndexInv'
  BY <1>1, QuietEngine
<1>3. Reached' = Reached /\ table' = table /\ entries' = entries
  BY <1>1, Unwritten
<1>4. KnownNames' = KnownNames
  BY <1>3, KnownNow, KnownNext
<1>5. \A h, i : i \in ListOf(h)' <=> i \in ListOf(h)
  BY <1>3, ListNow, ListAfter
<1>6. \A h : ListOf(h)' = ListOf(h)
  BY <1>5
<1> QED
  BY <1>1, <1>2, <1>3, <1>4, <1>6

\* Most of them only move the client.
LEMMA OnlyClient ==
    ASSUME ListInv, UNCHANGED <<indexVars, subs, opened, attached, names, basis>>,
           ClientType', ClientSound'
    PROVE  ListInv'
<1>1. IndexInv' /\ KnownNames' = KnownNames /\ made' = made
  BY QuietFile
<1>2. SubsSound'
  BY <1>1 DEF ListInv, SubsSound
<1>3. NamesComplete' /\ names' \subseteq Name \cup {EmptyName}
  BY <1>1 DEF ListInv, NamesComplete
<1> QED
  BY <1>1, <1>2, <1>3 DEF ListInv

LEMMA CallsBegin ==
    ASSUME ListInv, CallIterator \/ \E n \in Name : CallFind(n)
    PROVE  ListInv'
<1>1. UNCHANGED <<indexVars, subs, opened, attached, names, basis>>
  BY DEF CallIterator, CallFind
<1>2. KnownNames' = KnownNames /\ subs' = subs /\ subs \in Seq(STRING)
  BY <1>1, QuietFile DEF ListInv, SubsSound
<1>3. ClientType'
  <2>1. c' \in [pc : {"find", "collect"}, name : Name \cup {EmptyName}, i : {1}, offset : {0},
                at : {AtEnd}, known : {{}}, had : {KnownNames}, sub : {EmptyName}]
    <3>1. CASE CallIterator
      BY <3>1 DEF CallIterator, Waits
    <3>2. CASE \E n \in Name : CallFind(n)
      BY <3>2 DEF CallFind, Waits
    <3> QED
      BY <3>1, <3>2
  <2>2. c'.pc = "find" => c'.name \in Name
    BY DEF CallIterator, CallFind, Waits
  <2> QED
    BY <1>2, <2>1, <2>2 DEF ClientType
<1>4. c'.i = 1 /\ c'.pc \in {"find", "collect"} /\ c'.known = {}
  BY DEF CallIterator, CallFind, Waits
<1>5. \A k \in DOMAIN subs : ~(k < 1)
  BY <1>2
<1>6. PassedBy(c.i)'
  BY <1>2, <1>4, <1>5 DEF PassedBy
<1>7. CollectedSound(c.i)'
  BY <1>2, <1>4, <1>5 DEF CollectedSound
<1>8. ClientSound'
  BY <1>4, <1>6, <1>7 DEF ClientSound
<1> QED
  BY <1>1, <1>3, <1>8, OnlyClient

\* A sub-archive is opened: it was not needed before.
LEMMA OpensOne ==
    ASSUME ListInv, Open
    PROVE  ListInv'
<1>1. /\ IndexInv' /\ KnownNames' = KnownNames /\ made' = made
      /\ subs' = subs /\ names' = names /\ c' = c /\ basis' = basis
  BY QuietFile DEF Open
<1>2. /\ c.pc \in {"find", "collect"} /\ c.i \in DOMAIN subs /\ Sub \in ToSet(subs)
      /\ Sub \notin opened /\ opened' = opened \cup {Sub}
      /\ attached' = IF Sub = Live THEN made = "table" ELSE attached
      /\ Sub \in DOMAIN Contents \cup {Live}
  <2>1. c.pc \in {"find", "collect"} /\ c.i <= Len(subs) /\ c.i \in Nat \ {0} /\ subs \in Seq(STRING)
    BY DEF Open, Searching, ListInv, ClientType, SubsSound
  <2>2. c.i \in DOMAIN subs /\ Sub \in ToSet(subs)
    BY <2>1 DEF Sub, ToSet
  <2> QED
    BY <2>1, <2>2 DEF Open
<1>3. SubsSound'
  BY <1>1, <1>2 DEF ListInv, SubsSound
<1>4. ClientType'
  BY <1>1 DEF ListInv, ClientType
<1>5. c.pc = "find" => PassedBy(c.i)'
  BY <1>1, <1>2 DEF ListInv, ClientSound, PassedBy, ChannelsOf
<1>6. ASSUME CollectedSound(c.i) PROVE CollectedSound(c.i)'
  BY <1>1, <1>2, <1>6 DEF CollectedSound
<1>7. ClientSound'
  BY <1>1, <1>2, <1>5, <1>6 DEF ListInv, ClientSound
<1>8. NamesComplete'
  BY <1>1 DEF ListInv, NamesComplete
<1> QED
  BY <1>1, <1>3, <1>4, <1>7, <1>8 DEF ListInv

LEMMA OneRemoved ==
    ASSUME NEW S, NEW s \in Seq(S), NEW i \in DOMAIN s
    PROVE  /\ RemoveAt(s, i) \in Seq(S)
           /\ Len(RemoveAt(s, i)) = Len(s) - 1
           /\ \A k \in DOMAIN RemoveAt(s, i) : RemoveAt(s, i)[k] = s[IF k < i THEN k ELSE k + 1]
<1> DEFINE a == SubSeq(s, 1, i - 1)
           b == SubSeq(s, i + 1, Len(s))
<1>1. i \in 1 .. Len(s) /\ Len(s) \in Nat
  OBVIOUS
<1>2. a \in Seq(S) /\ Len(a) = i - 1 /\ \A k \in 1 .. i - 1 : a[k] = s[k]
  BY <1>1
<1>3. b \in Seq(S) /\ Len(b) = Len(s) - i /\ \A k \in 1 .. Len(s) - i : b[k] = s[i + k]
  BY <1>1
<1>4. RemoveAt(s, i) = a \o b
  BY DEF RemoveAt
<1> HIDE DEF a, b
<1>5. a \o b \in Seq(S) /\ Len(a \o b) = Len(s) - 1
  BY <1>1, <1>2, <1>3
<1>6. ASSUME NEW k \in DOMAIN (a \o b) PROVE (a \o b)[k] = s[IF k < i THEN k ELSE k + 1]
  <2>1. k \in 1 .. Len(s) - 1
    BY <1>5
  <2>2. CASE k < i
    BY <1>1, <1>2, <1>3, <2>1, <2>2
  <2>3. CASE ~(k < i)
    <3>1. (a \o b)[k] = b[k - (i - 1)]
      BY <1>1, <1>2, <1>3, <2>1, <2>3
    <3>2. k - (i - 1) \in 1 .. Len(s) - i /\ i + (k - (i - 1)) = k + 1
      BY <1>1, <2>1, <2>3
    <3> QED
      BY <1>3, <2>3, <3>1, <3>2
  <2> QED
    BY <2>2, <2>3
<1> QED
  BY <1>4, <1>5, <1>6

\* A sub-archive that cannot be opened is dropped: those before it and those that
\* exist remain.
LEMMA DropsOne ==
    ASSUME ListInv, Drop
    PROVE  ListInv'
<1>1. /\ IndexInv' /\ KnownNames' = KnownNames /\ made' = made
      /\ opened' = opened /\ attached' = attached
      /\ names' = names /\ c' = c /\ basis' = basis
  BY QuietFile DEF Drop
<1>2. /\ c.pc \in {"find", "collect"} /\ c.i \in DOMAIN subs /\ subs \in Seq(STRING)
      /\ c.i \in Nat \ {0} /\ subs[c.i] \notin opened /\ subs[c.i] \notin DOMAIN Contents
      /\ subs' = RemoveAt(subs, c.i)
  <2>1. c.pc \in {"find", "collect"} /\ c.i <= Len(subs) /\ c.i \in Nat \ {0} /\ subs \in Seq(STRING)
    BY DEF Drop, Searching, ListInv, ClientType, SubsSound
  <2>2. c.i \in DOMAIN subs
    BY <2>1
  <2> QED
    BY <2>1, <2>2, ConfigAssumption DEF Drop, Sub
<1>3. /\ subs' \in Seq(STRING) /\ Len(subs') = Len(subs) - 1
      /\ \A k \in DOMAIN subs' : subs'[k] = subs[IF k < c.i THEN k ELSE k + 1]
  BY <1>2, OneRemoved
<1>4. \A k \in DOMAIN subs' : k \in Nat \ {0} /\ (IF k < c.i THEN k ELSE k + 1) \in DOMAIN subs
  BY <1>2, <1>3
<1>5. \A k \in DOMAIN subs : k # c.i => \E l \in DOMAIN subs' : subs'[l] = subs[k]
  <2> TAKE k \in DOMAIN subs
  <2> HAVE k # c.i
  <2>1. k \in Nat \ {0} /\ k <= Len(subs)
    BY <1>2
  <2>2. CASE k < c.i
    <3>1. k \in DOMAIN subs'
      BY <1>2, <1>3, <2>1, <2>2
    <3> QED
      BY <1>3, <2>2, <3>1
  <2>3. CASE k > c.i
    <3>1. k - 1 \in DOMAIN subs' /\ ~(k - 1 < c.i) /\ (k - 1) + 1 = k
      BY <1>2, <1>3, <2>1, <2>3
    <3> QED
      BY <1>3, <3>1
  <2> QED
    BY <1>2, <2>1, <2>2, <2>3
<1>6. SubsSound'
  <2>1. \A s \in ToSet(subs) : s # subs[c.i] => s \in ToSet(subs')
    BY <1>5 DEF ToSet
  <2>2. \A k \in DOMAIN subs' : subs'[k] # EmptyName
    BY <1>3, <1>4 DEF ListInv, SubsSound
  <2> QED
    BY <1>1, <1>2, <1>3, <2>1, <2>2 DEF ListInv, SubsSound
<1>7. \A k \in DOMAIN subs' : k < c.i => k \in DOMAIN subs /\ subs'[k] = subs[k]
  BY <1>3, <1>4
<1>8. ClientType'
  BY <1>1 DEF ListInv, ClientType
<1>9. c.pc = "find" => PassedBy(c.i)'
  BY <1>1, <1>2, <1>7 DEF ListInv, ClientSound, PassedBy, ChannelsOf
<1>10. ASSUME CollectedSound(c.i) PROVE CollectedSound(c.i)'
  BY <1>1, <1>2, <1>7, <1>10 DEF CollectedSound
<1>11. ClientSound'
  BY <1>1, <1>2, <1>9, <1>10 DEF ListInv, ClientSound
<1>12. NamesComplete'
  BY <1>1 DEF ListInv, NamesComplete
<1> QED
  BY <1>1, <1>6, <1>8, <1>11, <1>12 DEF ListInv

-----------------------------------------------------------------------------
(* A search.                                                               *)

\* Where the client is in the list.
LEMMA AtSub ==
    ASSUME ListInv, Searching
    PROVE  /\ c.i \in DOMAIN subs /\ c.i \in Nat \ {0} /\ Sub = subs[c.i] /\ Sub # EmptyName
           /\ Sub \in opened \ {Live} => Sub \in DOMAIN Contents
<1>1. c.pc \in {"find", "collect"} /\ c.i <= Len(subs) /\ c.i \in Nat \ {0} /\ subs \in Seq(STRING)
  BY DEF Searching, ListInv, ClientType, SubsSound
<1>2. c.i \in DOMAIN subs /\ subs[c.i] # EmptyName
  BY <1>1 DEF ListInv, SubsSound
<1>3. opened \subseteq DOMAIN Contents \cup {Live}
  BY DEF ListInv, SubsSound
<1> QED
  BY <1>1, <1>2, <1>3 DEF Sub

\* The types of the client, one by one.
LEMMA ClientFields ==
    ASSUME ListInv
    PROVE  /\ c.pc \in {"idle", "find", "walk", "found", "died", "collect", "names"}
           /\ c.name \in Name \cup {EmptyName} /\ c.i \in Nat \ {0} /\ c.offset \in Nat
           /\ c.known \subseteq Name \cup {EmptyName} /\ c.had \subseteq KnownNames
           /\ c.pc \in {"find", "walk", "found", "died"} => c.name \in Name
           /\ subs \in Seq(STRING) /\ DOMAIN subs \subseteq Nat \ {0}
BY DEF ListInv, ClientType, SubsSound

\* The search goes on with the next sub-archive, when this one does not have the name.
LEMMA PassesOne ==
    ASSUME ListInv, c.pc \in {"find", "walk"}, NextSub,
           UNCHANGED <<indexVars, subs, opened, attached, names, basis>>,
           c.i \in DOMAIN subs, subs[c.i] \in opened, c.name \notin ChannelsOf(subs[c.i], c.had)
    PROVE  ListInv'
<1>1. /\ c'.pc = "find" /\ c'.i = c.i + 1 /\ c'.name = c.name /\ c'.had = c.had
      /\ c.name \in Name /\ c.i \in Nat
  BY ClientFields DEF NextSub, ListInv, ClientType
<1>2. KnownNames' = KnownNames
  BY QuietFile
<1>3. ClientType'
  <2>1. c' \in [pc : {"find"}, name : Name \cup {EmptyName}, i : Nat \ {0}, offset : Nat,
                at : {c'.at}, known : SUBSET (Name \cup {EmptyName}), had : SUBSET KnownNames,
                sub : {c'.sub}]
    <3>1. c' = [c EXCEPT !.pc = "find", !.i = c.i + 1]
      BY DEF NextSub
    <3>2. c.i + 1 \in Nat \ {0}
      BY ClientFields
    <3> QED
      BY <3>1, <3>2 DEF ListInv, ClientType
  <2> QED
    BY <1>1, <1>2, <2>1 DEF ClientType
<1>4. PassedBy(c.i)
  BY DEF ListInv, ClientSound
<1>5. ASSUME NEW k \in DOMAIN subs, k < c.i + 1
      PROVE  subs[k] \in opened /\ c.name \notin ChannelsOf(subs[k], c.had)
  <2>1. k < c.i \/ k = c.i
    BY <1>1, <1>5, ClientFields
  <2> QED
    BY <1>4, <2>1 DEF PassedBy
<1>6. PassedBy(c.i)'
  BY <1>1, <1>5 DEF PassedBy, ChannelsOf
<1>7. ClientSound'
  BY <1>1, <1>6 DEF ClientSound
<1> QED
  BY <1>3, <1>7, OnlyClient

\* The search ends.
LEMMA FindsOne ==
    ASSUME ListInv, c.pc \in {"find", "walk"}, NEW s, Found(s),
           UNCHANGED <<indexVars, subs, opened, attached, names, basis>>,
           IF s = EmptyName THEN \A k \in DOMAIN subs : k < c.i
           ELSE /\ c.i \in DOMAIN subs /\ subs[c.i] = s /\ s \in opened
                /\ c.name \in ChannelsOf(s, KnownNames)
    PROVE  ListInv'
<1>1. /\ c'.pc = "found" /\ c'.i = c.i /\ c'.name = c.name /\ c'.had = c.had /\ c'.sub = s
      /\ c.name \in Name
  BY ClientFields DEF Found, ListInv, ClientType
<1>2. KnownNames' = KnownNames
  BY QuietFile
<1>3. ClientType'
  <2>1. c' \in [pc : {"found"}, name : Name \cup {EmptyName}, i : Nat \ {0}, offset : Nat,
                at : {c'.at}, known : SUBSET (Name \cup {EmptyName}), had : SUBSET KnownNames,
                sub : {c'.sub}]
    BY DEF Found, ListInv, ClientType
  <2> QED
    BY <1>1, <1>2, <2>1 DEF ClientType
<1>4. PassedBy(c.i)
  BY DEF ListInv, ClientSound
<1>5. CASE s = EmptyName
  <2>1. \A k \in DOMAIN subs : subs[k] \in opened /\ c.name \notin ChannelsOf(subs[k], c.had)
    BY <1>4, <1>5 DEF PassedBy
  <2>2. FoundSound'
    BY <1>1, <1>5, <2>1 DEF FoundSound, PassedBy, ChannelsOf
  <2>3. ClientSound'
    BY <1>1, <2>2 DEF ClientSound
  <2> QED
    BY <1>3, <2>3, OnlyClient
<1>6. CASE s # EmptyName
  <2>1. PassedBy(c.i)'
    BY <1>1, <1>4 DEF PassedBy, ChannelsOf
  <2>2. (c.name \in ChannelsOf(c.sub, KnownNames))'
    BY <1>1, <1>2, <1>6 DEF ChannelsOf
  <2>3. FoundSound'
    BY <1>1, <1>6, <2>1, <2>2 DEF FoundSound
  <2>4. ClientSound'
    BY <1>1, <2>3 DEF ClientSound
  <2> QED
    BY <1>3, <2>4, OnlyClient
<1> QED
  BY <1>5, <1>6

LEMMA SearchesOther ==
    ASSUME ListInv, FindInOther
    PROVE  ListInv'
<1>1. /\ c.pc = "find" /\ Searching /\ Sub \in opened \ {Live}
      /\ UNCHANGED <<indexVars, subs, opened, attached, names, basis>>
      /\ IF c.name \in Contents[Sub] THEN Found(Sub) ELSE NextSub
  BY DEF FindInOther
<1>2. c.i \in DOMAIN subs /\ Sub = subs[c.i] /\ Sub # EmptyName
  BY <1>1, AtSub
<1>3. \A live : ChannelsOf(subs[c.i], live) = Contents[subs[c.i]]
  BY <1>1, <1>2 DEF ChannelsOf
<1>4. CASE c.name \in Contents[Sub]
  <2>1. Found(Sub)
    BY <1>1, <1>4
  <2>2. c.name \in ChannelsOf(Sub, KnownNames)
    BY <1>2, <1>3, <1>4
  <2> QED
    BY <1>1, <1>2, <2>1, <2>2, FindsOne
<1>5. CASE c.name \notin Contents[Sub]
  <2>1. NextSub
    BY <1>1, <1>5
  <2>2. c.name \notin ChannelsOf(subs[c.i], c.had)
    BY <1>2, <1>3, <1>5
  <2> QED
    BY <1>1, <1>2, <2>1, <2>2, PassesOne
<1> QED
  BY <1>4, <1>5

LEMMA SearchEnds ==
    ASSUME ListInv, NotFound
    PROVE  ListInv'
<1>1. /\ c.pc = "find" /\ c.i > Len(subs) /\ Found(EmptyName)
      /\ UNCHANGED <<indexVars, subs, opened, attached, names, basis>>
  BY DEF NotFound
<1>2. \A k \in DOMAIN subs : k < c.i
  BY <1>1, ClientFields
<1> QED
  BY <1>1, <1>2, FindsOne

LEMMA AnswerGiven ==
    ASSUME ListInv, Answer
    PROVE  ListInv'
<1>1. c' = Waits /\ UNCHANGED <<indexVars, subs, opened, attached, names, basis>>
  BY DEF Answer
<1>2. ClientType' /\ ClientSound'
  BY <1>1 DEF Waits, ClientType, ClientSound
<1> QED
  BY <1>1, <1>2, OnlyClient

\* With a table, its lists are those that the engine makes.
LEMMA TableThere ==
    ASSUME ListInv, attached
    PROVE  /\ table # NoTable /\ ListsOrdered(Reached, table, entries)
           /\ table \in [0 .. HashSize - 1 -> Nat] /\ Live \in opened
<1>1. made = "table" /\ Live \in opened
  BY DEF ListInv, SubsSound
<1>2. table # NoTable
  BY <1>1 DEF ListInv, IndexInv, EngineSound
<1> QED
  BY <1>1, <1>2 DEF ListInv, IndexInv, NamesSound

LEMMA WalkBegins ==
    ASSUME ListInv, FindInLive
    PROVE  ListInv'
<1>1. /\ c.pc = "find" /\ Searching /\ Sub = Live /\ Live \in opened
      /\ UNCHANGED <<indexVars, subs, opened, attached, names, basis>>
      /\ c' = IF attached THEN [c EXCEPT !.pc = "walk", !.offset = table[Hash[c.name]]]
              ELSE [c EXCEPT !.pc = "died"]
  BY DEF FindInLive
<1>2. c.i \in DOMAIN subs /\ Sub = subs[c.i] /\ c.name \in Name
  BY <1>1, AtSub, ClientFields
<1>3. /\ KnownNames' = KnownNames /\ Reached' = Reached /\ entries' = entries /\ table' = table
      /\ \A h : ListOf(h)' = ListOf(h)
  BY <1>1, QuietFile
<1>4. CASE ~attached
  <2>1. c' = [c EXCEPT !.pc = "died"]
    BY <1>1, <1>4
  <2>2. ClientType' /\ ClientSound'
    BY <1>2, <1>3, <2>1 DEF ListInv, ClientType, ClientSound
  <2> QED
    BY <1>1, <2>2, OnlyClient
<1>5. CASE attached
  <2>0. PICK h : h = Hash[c.name]
    OBVIOUS
  <2>1. /\ table # NoTable /\ ListsOrdered(Reached, table, entries) /\ h \in 0 .. HashSize - 1
        /\ table \in [0 .. HashSize - 1 -> Nat]
    BY <1>2, <1>5, <2>0, TableThere, HashAssumption
  <2>2. PICK first \in Nat : first = table[h]
    BY <2>1
  <2>3. c' = [c EXCEPT !.pc = "walk", !.offset = first]
    BY <1>1, <1>5, <2>0, <2>2
  <2>4. /\ c'.pc = "walk" /\ c'.offset = first /\ c'.name = c.name /\ c'.i = c.i
        /\ c'.had = c.had
    BY <2>3 DEF ListInv, ClientType
  <2>5. ClientType'
    BY <1>2, <1>3, <2>3 DEF ListInv, ClientType
  <2>6. first # 0 => first \in ListOf(h)
    <3>1. NamesSound(Reached, table, entries) /\ IsReached(Reached, table, entries)
      BY HashFacts DEF ListInv
    <3>2. ASSUME first # 0 PROVE first \in Reached /\ SlotOf(entries, first) = h
      <4>1. table # NoTable /\ h \in 0 .. HashSize - 1 /\ table[h] # 0
        BY <2>1, <2>2, <3>2
      <4>2. table[h] \in Reached /\ SlotOf(entries, table[h]) = h
        BY <3>1, <4>1, ListEnds
      <4> QED
        BY <2>2, <4>2
    <3> QED
      BY <3>2, ListNow
  <2>7. ASSUME NEW j \in Reached, entries[j].name = c.name
        PROVE  first # 0 /\ first <= j
    <3>1. SlotOf(entries, j) = h
      BY <2>0, <2>7 DEF SlotOf
    <3> QED
      BY <2>1, <2>2, <3>1 DEF ListsOrdered
  <2>8. WalkSound'
    <3>1. (c.offset # 0 => c.offset \in ListOf(Hash[c.name]))'
      <4>1. first # 0 => first \in ListOf(h)'
        BY <1>3, <2>2, <2>6
      <4> QED
        BY <2>0, <2>4, <4>1, ListAfter DEF ListOf
    <3> QED
      BY <1>1, <1>2, <1>3, <1>5, <2>4, <2>7, <3>1 DEF WalkSound
  <2>9. PassedBy(c.i)'
    BY <1>1, <2>4 DEF ListInv, ClientSound, PassedBy, ChannelsOf
  <2>10. ClientSound'
    BY <2>4, <2>8, <2>9 DEF ClientSound
  <2> QED
    BY <1>1, <2>5, <2>10, OnlyClient
<1> QED
  BY <1>4, <1>5

LEMMA WalkStep ==
    ASSUME ListInv, Walk
    PROVE  ListInv'
<1>1. /\ c.pc = "walk" /\ UNCHANGED <<indexVars, subs, opened, attached, names, basis>>
      /\ IF c.offset = 0 THEN NextSub
         ELSE IF entries[c.offset].name = c.name THEN Found(Live)
         ELSE c' = [c EXCEPT !.offset = entries[c.offset].next]
  BY DEF Walk
<1>2. /\ c.name \in Name /\ c.i \in DOMAIN subs /\ subs[c.i] = Live /\ attached
      /\ c.had \subseteq KnownNames /\ Live # EmptyName
      /\ \A j \in Reached : entries[j].name = c.name /\ c.name \in c.had =>
            c.offset # 0 /\ c.offset <= j
  BY <1>1, ClientFields DEF ListInv, ClientSound, WalkSound, SubsSound
<1>3. table # NoTable /\ ListsOrdered(Reached, table, entries) /\ Live \in opened
  BY <1>2, TableThere
<1>4. /\ KnownNames' = KnownNames /\ Reached' = Reached /\ entries' = entries /\ table' = table
      /\ \A h : ListOf(h)' = ListOf(h)
  BY <1>1, QuietFile
<1>5. CASE c.offset = 0
  <2>1. c.name \notin c.had
    BY <1>2, <1>5, KnownNow
  <2>2. c.name \notin ChannelsOf(subs[c.i], c.had)
    BY <1>2, <2>1 DEF ChannelsOf
  <2>3. NextSub
    BY <1>1, <1>5
  <2> QED
    BY <1>1, <1>2, <1>3, <2>2, <2>3, PassesOne
<1>6. PICK h : h = Hash[c.name]
  OBVIOUS
<1>7. ASSUME c.offset # 0 PROVE c.offset \in Reached /\ SlotOf(entries, c.offset) = h
  BY <1>1, <1>6, <1>7, ListNow DEF ListInv, ClientSound, WalkSound
<1>8. CASE c.offset # 0 /\ entries[c.offset].name = c.name
  <2>1. Found(Live)
    BY <1>1, <1>8
  <2>2. c.name \in ChannelsOf(Live, KnownNames)
    BY <1>7, <1>8, KnownNow DEF ChannelsOf
  <2> QED
    BY <1>1, <1>2, <1>3, <2>1, <2>2, FindsOne
<1>9. CASE c.offset # 0 /\ entries[c.offset].name # c.name
  <2>1. PICK i \in Reached : i = c.offset /\ SlotOf(entries, i) = h /\ i \in DOMAIN entries
    BY <1>7, <1>9, HashFacts DEF ListInv
  <2>2. PICK next \in Nat : next = entries[i].next
    BY <2>1, HashFacts DEF ListInv
  <2>3. c' = [c EXCEPT !.offset = next]
    BY <1>1, <1>9, <2>1, <2>2
  <2>4. /\ c'.pc = "walk" /\ c'.offset = next /\ c'.name = c.name /\ c'.i = c.i
        /\ c'.had = c.had
    BY <1>1, <2>3 DEF ListInv, ClientType
  <2>5. ClientType'
    BY <1>2, <1>4, <2>3 DEF ListInv, ClientType
  <2>6. next # 0 => next \in ListOf(h)
    <3>1. NamesSound(Reached, table, entries) /\ IsReached(Reached, table, entries)
      BY HashFacts DEF ListInv
    <3>2. ASSUME next # 0 PROVE next \in Reached /\ SlotOf(entries, next) = SlotOf(entries, i)
      <4>1. table # NoTable /\ i \in Reached /\ entries[i].next # 0
        BY <1>3, <2>1, <2>2, <3>2
      <4>2. entries[i].next \in Reached /\ SlotOf(entries, entries[i].next) = SlotOf(entries, i)
        BY <3>1, <4>1, FollowerReached
      <4> QED
        BY <2>2, <4>2
    <3> QED
      BY <2>1, <3>2, ListNow
  <2>7. ASSUME NEW j \in Reached, entries[j].name = c.name, c.name \in c.had
        PROVE  next # 0 /\ next <= j
    <3>1. i <= j /\ SlotOf(entries, j) = h /\ i # j
      BY <1>2, <1>6, <1>9, <2>1, <2>7 DEF SlotOf
    <3>2. i \in Nat /\ j \in Nat
      BY <2>1, HashFacts DEF ListInv
    <3>3. i < j
      BY <3>1, <3>2
    <3> QED
      BY <1>3, <2>1, <2>2, <3>1, <3>3 DEF ListsOrdered
  <2>8. WalkSound'
    <3>1. (c.offset # 0 => c.offset \in ListOf(Hash[c.name]))'
      <4>1. next # 0 => next \in ListOf(h)'
        BY <1>4, <2>6
      <4> QED
        BY <1>6, <2>4, <4>1, ListAfter DEF ListOf
    <3> QED
      BY <1>1, <1>2, <1>4, <2>4, <2>7, <3>1 DEF WalkSound
  <2>9. PassedBy(c.i)'
    BY <1>1, <2>4 DEF ListInv, ClientSound, PassedBy, ChannelsOf
  <2>10. ClientSound'
    BY <2>4, <2>8, <2>9 DEF ClientSound
  <2> QED
    BY <1>1, <2>5, <2>10, OnlyClient
<1> QED
  BY <1>5, <1>8, <1>9

-----------------------------------------------------------------------------
(* The iterator over the names of the table.                               *)

\* The entries of slot h and of later ones are still to come.
StillToCome(at, h) == \A j \in Reached : SlotOf(entries, j) >= h => ToCome(at, j)

LEMMA NoneToCome ==
    ASSUME IndexInv, NEW j \in Reached
    PROVE  ~ToCome(AtEnd, j)
<1>1. SlotOf(entries, j) \in 0 .. HashSize - 1
  BY HashFacts
<1> QED
  BY <1>1, HashAssumption DEF ToCome, AtEnd

\* An iterator that starts at an entry of a list.
LEMMA AtEntry ==
    ASSUME IndexInv, table # NoTable, NEW i \in Reached, NEW at,
           at.slot = SlotOf(entries, i), at.entry = entries[i]
    PROVE  /\ AtSound(at)
           /\ \A j \in Reached : SlotOf(entries, j) = at.slot /\ i <= j => ToCome(at, j)
<1>1. /\ SlotOf(entries, i) \in 0 .. HashSize - 1 /\ i \in ListOf(at.slot)
      /\ ListsOrdered(Reached, table, entries)
  BY HashFacts, ListNow DEF IndexInv, NamesSound
<1>2. AtSound(at)
  BY <1>1 DEF AtSound
<1>3. ASSUME NEW j \in Reached, SlotOf(entries, j) = at.slot, i <= j
      PROVE  ToCome(at, j)
  <2>1. CASE i = j
    BY <1>3, <2>1 DEF ToCome
  <2>2. CASE i # j
    <3>1. i < j
      BY <1>3, <2>2, HashFacts
    <3>2. entries[i].next # 0 /\ entries[i].next <= j
      BY <1>1, <1>3, <3>1 DEF ListsOrdered
    <3> QED
      BY <1>3, <3>2 DEF ToCome
  <2> QED
    BY <2>1, <2>2
<1> QED
  BY <1>2, <1>3

LEMMA FromSlotSound ==
    ASSUME IndexInv, table # NoTable, NEW h \in 0 .. HashSize
    PROVE  AtSound(FromSlot(h)) /\ StillToCome(FromSlot(h), h)
<1> DEFINE used == {x \in h .. HashSize - 1 : table[x] # 0}
           k == CHOOSE x \in used : \A y \in used : x <= y
<1>1. /\ FromSlot(h) = IF used = {} THEN AtEnd
                       ELSE [slot |-> k, entry |-> entries[table[k]]]
      /\ ListsOrdered(Reached, table, entries)
  BY DEF FromSlot, IndexInv, NamesSound
<1>2. ASSUME NEW j \in Reached, SlotOf(entries, j) >= h
      PROVE  SlotOf(entries, j) \in used /\ table[SlotOf(entries, j)] <= j
  <2>1. /\ table[SlotOf(entries, j)] # 0 /\ table[SlotOf(entries, j)] <= j
        /\ SlotOf(entries, j) \in 0 .. HashSize - 1
    BY <1>1, HashFacts DEF ListsOrdered
  <2> QED
    BY <1>2, <2>1
<1>3. CASE used = {}
  BY <1>1, <1>2, <1>3 DEF AtSound, StillToCome
<1>4. CASE used # {}
  <2>1. k \in used /\ \A y \in used : k <= y
    <3> DEFINE m == [x \in used |-> x]
    <3>1. \A x \in used : m[x] \in Nat /\ m[x] = x
      BY HashAssumption
    <3>2. \E x \in used : \A y \in used : m[x] <= m[y]
      <4> HIDE DEF m, used
      <4> QED
        BY <1>4, <3>1, LeastMeasure
    <3>3. \E x \in used : \A y \in used : x <= y
      <4> HIDE DEF m, used
      <4> QED
        BY <3>1, <3>2
    <3> HIDE DEF used
    <3> QED
      BY <3>3
  <2>2. k \in 0 .. HashSize - 1 /\ table[k] # 0 /\ k >= h
    BY <2>1, HashAssumption
  <2> HIDE DEF used, k
  <2>3. PICK i \in Reached : i = table[k] /\ SlotOf(entries, i) = k
    <3>1. NamesSound(Reached, table, entries) /\ IsReached(Reached, table, entries)
      BY HashFacts
    <3>2. table[k] \in Reached /\ SlotOf(entries, table[k]) = k
      BY <2>2, <3>1, ListEnds
    <3> QED
      BY <3>2
  <2>4. PICK at : at = FromSlot(h) /\ at.slot = SlotOf(entries, i) /\ at.entry = entries[i]
    BY <1>1, <1>4, <2>3
  <2>5. /\ AtSound(at)
        /\ \A j \in Reached : SlotOf(entries, j) = at.slot /\ i <= j => ToCome(at, j)
    BY <2>4, AtEntry
  <2>6. ASSUME NEW j \in Reached, SlotOf(entries, j) >= h
        PROVE  ToCome(at, j)
    <3>1. SlotOf(entries, j) \in used /\ table[SlotOf(entries, j)] <= j
      BY <1>2, <2>6
    <3>2. k <= SlotOf(entries, j)
      BY <2>1, <3>1
    <3>3. CASE k = SlotOf(entries, j)
      BY <2>3, <2>4, <2>5, <3>1, <3>3
    <3>4. CASE k # SlotOf(entries, j)
      <4>1. SlotOf(entries, j) > at.slot
        <5>1. SlotOf(entries, j) \in 0 .. HashSize - 1
          BY HashFacts
        <5> QED
          BY <2>2, <2>3, <2>4, <3>2, <3>4, <5>1
      <4> QED
        BY <4>1 DEF ToCome
    <3> QED
      BY <3>3, <3>4
  <2> QED
    BY <2>4, <2>5, <2>6 DEF StillToCome
<1> QED
  BY <1>3, <1>4

\* What was to come is the name that is taken now, or is still to come.
NamesLeft(at, next) ==
    \A j \in Reached : ToCome(at, j) => entries[j].name = at.entry.name \/ ToCome(next, j)

LEMMA NextNameSound ==
    ASSUME IndexInv, table # NoTable, NEW at, AtSound(at), at # AtEnd
    PROVE  /\ AtSound(NextName(at)) /\ NamesLeft(at, NextName(at))
           /\ at.entry.name \in KnownNames
<1>1. PICK i \in ListOf(at.slot) :
         at.entry.name = entries[i].name /\ at.entry.next \in {0, entries[i].next}
  BY DEF AtSound
<1>2. /\ at.slot \in 0 .. HashSize - 1 /\ i \in Reached /\ SlotOf(entries, i) = at.slot
      /\ at.entry.name \in KnownNames
  BY <1>1, ListNow, KnownNow DEF AtSound
<1>3. CASE at.entry.next # 0
  <2>1. PICK l : l = at.entry.next /\ l # 0 /\ l = entries[i].next
    BY <1>1, <1>3
  <2>2. l \in Reached /\ SlotOf(entries, l) = at.slot
    <3>1. NamesSound(Reached, table, entries) /\ IsReached(Reached, table, entries)
      BY HashFacts
    <3>2. /\ entries[i].next \in Reached
          /\ SlotOf(entries, entries[i].next) = SlotOf(entries, i)
      BY <1>2, <2>1, <3>1, FollowerReached
    <3> QED
      BY <1>2, <2>1, <3>2
  <2>3. PICK next : /\ next = NextName(at)
                    /\ next = [at EXCEPT !.entry = entries[l]]
    BY <1>3, <2>1 DEF NextName
  <2>4. next.slot = at.slot /\ next.entry = entries[l]
    BY <2>3
  <2>5. /\ AtSound(next)
        /\ \A j \in Reached : SlotOf(entries, j) = next.slot /\ l <= j => ToCome(next, j)
    BY <2>2, <2>4, AtEntry
  <2>6. NamesLeft(at, next)
    <3> SUFFICES ASSUME NEW j \in Reached, ToCome(at, j), entries[j].name # at.entry.name
                 PROVE  ToCome(next, j)
      BY DEF NamesLeft
    <3>1. CASE SlotOf(entries, j) > at.slot
      BY <2>4, <3>1 DEF ToCome
    <3>2. CASE ~(SlotOf(entries, j) > at.slot)
      <4>1. SlotOf(entries, j) = at.slot /\ l <= j
        BY <2>1, <3>2 DEF ToCome
      <4> QED
        BY <2>4, <2>5, <4>1
    <3> QED
      BY <3>1, <3>2
  <2> QED
    BY <1>2, <2>3, <2>5, <2>6
<1>4. CASE at.entry.next = 0
  <2>1. PICK h \in 0 .. HashSize : h = at.slot + 1
    BY <1>2, HashAssumption
  <2>2. PICK next : next = NextName(at) /\ next = FromSlot(h)
    BY <1>4, <2>1 DEF NextName
  <2>3. AtSound(next) /\ StillToCome(next, h)
    BY <2>2, FromSlotSound
  <2>4. NamesLeft(at, next)
    <3> SUFFICES ASSUME NEW j \in Reached, ToCome(at, j), entries[j].name # at.entry.name
                 PROVE  ToCome(next, j)
      BY DEF NamesLeft
    <3>1. SlotOf(entries, j) > at.slot
      BY <1>4 DEF ToCome
    <3>2. SlotOf(entries, j) >= h
      <4>1. SlotOf(entries, j) \in 0 .. HashSize - 1
        BY HashFacts
      <4> QED
        BY <1>2, <2>1, <3>1, <4>1
    <3> QED
      BY <2>3, <3>2 DEF StillToCome
  <2> QED
    BY <1>2, <2>2, <2>3, <2>4
<1> QED
  BY <1>3, <1>4

-----------------------------------------------------------------------------
(* A collection of the names.                                              *)

\* The names of sub-archive number c.i are collected.
LEMMA CollectsOne ==
    ASSUME ListInv, c.pc \in {"collect", "names"},
           NEW some, some \subseteq Name \cup {EmptyName},
           some \subseteq Others \cup KnownNames \cup {EmptyName},
           NEW at, c' = [c EXCEPT !.pc = "collect", !.i = c.i + 1, !.known = c.known \cup some,
                                  !.at = at],
           UNCHANGED <<indexVars, subs, opened, attached, names, basis>>,
           c.i \in DOMAIN subs, subs[c.i] \in opened,
           subs[c.i] # Live => Contents[subs[c.i]] \subseteq c.known \cup some,
           subs[c.i] = Live /\ attached => c.had \subseteq c.known \cup some
    PROVE  ListInv'
<1>1. /\ c'.pc = "collect" /\ c'.i = c.i + 1 /\ c'.had = c.had
      /\ c'.known = c.known \cup some /\ c.i \in Nat
  BY ClientFields DEF ListInv, ClientType
<1>2. KnownNames' = KnownNames
  BY QuietFile
<1>3. ClientType'
  <2>1. PICK known : known = c.known \cup some
    OBVIOUS
  <2>2. known \subseteq Name \cup {EmptyName} /\ c.i + 1 \in Nat \ {0}
    BY <2>1, ClientFields
  <2>3. c' = [c EXCEPT !.pc = "collect", !.i = c.i + 1, !.known = known, !.at = at]
    BY <2>1
  <2>4. PICK i \in Nat \ {0} : i = c.i + 1
    BY <2>2
  <2>5. c' = [c EXCEPT !.pc = "collect", !.i = i, !.known = known, !.at = at]
    BY <2>3, <2>4
  <2>6. known \in SUBSET (Name \cup {EmptyName})
    BY <2>2
  <2>7. c' \in [pc : {"collect"}, name : Name \cup {EmptyName}, i : Nat \ {0}, offset : Nat,
                at : {at}, known : SUBSET (Name \cup {EmptyName}), had : SUBSET KnownNames,
                sub : {c.sub}]
    BY <2>5, <2>6 DEF ListInv, ClientType
  <2> QED
    BY <1>1, <1>2, <2>7 DEF ClientType
<1>4. CollectedSound(c.i)
  BY DEF ListInv, ClientSound
<1>5. ASSUME NEW k \in DOMAIN subs, k < c.i + 1
      PROVE  /\ subs[k] \in opened
             /\ subs[k] # Live => Contents[subs[k]] \subseteq c.known \cup some
             /\ subs[k] = Live /\ attached => c.had \subseteq c.known \cup some
  <2>1. k < c.i \/ k = c.i
    BY <1>1, <1>5, ClientFields
  <2> QED
    BY <1>4, <2>1 DEF CollectedSound
<1>6. c.known \cup some \subseteq Others \cup KnownNames \cup {EmptyName}
  BY <1>4 DEF CollectedSound
<1>7. CollectedSound(c.i)'
  BY <1>1, <1>2, <1>5, <1>6 DEF CollectedSound
<1>8. ClientSound'
  BY <1>1, <1>7 DEF ClientSound
<1> QED
  BY <1>3, <1>8, OnlyClient

LEMMA CollectsOther ==
    ASSUME ListInv, NamesOfOther
    PROVE  ListInv'
<1> DEFINE some == IF Contents[Sub] = {} THEN {EmptyName} ELSE Contents[Sub]
<1>1. /\ c.pc = "collect" /\ Searching /\ Sub \in opened \ {Live}
      /\ UNCHANGED <<indexVars, subs, opened, attached, names, basis>>
      /\ c' = [c EXCEPT !.i = c.i + 1, !.known = c.known \cup some]
  BY DEF NamesOfOther
<1>2. c.i \in DOMAIN subs /\ Sub = subs[c.i] /\ Sub \in DOMAIN Contents
  BY <1>1, AtSub
<1>3. /\ some \subseteq Name \cup {EmptyName} /\ Contents[Sub] \subseteq some
      /\ some \subseteq Others \cup {EmptyName}
  <2>1. Contents[Sub] \subseteq Name /\ Contents[Sub] \subseteq Others
    BY <1>2, ConfigAssumption DEF Others
  <2> QED
    BY <2>1
<1> HIDE DEF some
<1>4. c' = [c EXCEPT !.pc = "collect", !.i = c.i + 1, !.known = c.known \cup some,
                     !.at = c.at]
  BY <1>1 DEF ListInv, ClientType
<1> QED
  BY <1>1, <1>2, <1>3, <1>4, CollectsOne

\* Of what was known, nothing remains when the iterator is at its end.
LEMMA AllCollected ==
    ASSUME ListInv, NEW known,
           \A j \in Reached : entries[j].name \in c.had => entries[j].name \in known
    PROVE  c.had \subseteq known
BY ClientFields, KnownNow

LEMMA IteratesFirst ==
    ASSUME ListInv, FirstNameOfLive
    PROVE  ListInv'
<1>1. /\ c.pc = "collect" /\ Searching /\ Sub = Live /\ Live \in opened
      /\ UNCHANGED <<indexVars, subs, opened, attached, names, basis>>
  BY DEF FirstNameOfLive
<1>2. PICK at : at = IF attached THEN FromSlot(0) ELSE AtEnd
  OBVIOUS
<1>3. c' = [c EXCEPT !.pc = "names", !.at = at]
  BY <1>2 DEF FirstNameOfLive
<1>4. /\ c'.pc = "names" /\ c'.at = at /\ c'.i = c.i /\ c'.known = c.known /\ c'.had = c.had
      /\ c.i \in DOMAIN subs /\ subs[c.i] = Live
  BY <1>1, <1>3, AtSub DEF ListInv, ClientType
<1>5. /\ KnownNames' = KnownNames /\ Reached' = Reached /\ entries' = entries
      /\ \A h : ListOf(h)' = ListOf(h)
  BY <1>1, QuietFile
<1>6. ClientType'
  <2>1. c' \in [pc : {"names"}, name : Name \cup {EmptyName}, i : Nat \ {0}, offset : Nat,
                at : {at}, known : SUBSET (Name \cup {EmptyName}), had : SUBSET KnownNames,
                sub : {c.sub}]
    BY <1>3 DEF ListInv, ClientType
  <2> QED
    BY <1>4, <1>5, <2>1 DEF ClientType
<1>7. CollectedSound(c.i)'
  BY <1>1, <1>4, <1>5 DEF ListInv, ClientSound, CollectedSound
<1>8. attached => AtSound(at) /\ \A j \in Reached : ToCome(at, j)
  <2> SUFFICES ASSUME attached PROVE AtSound(at) /\ \A j \in Reached : ToCome(at, j)
    OBVIOUS
  <2>1. table # NoTable /\ 0 \in 0 .. HashSize /\ IndexInv
    BY TableThere, HashAssumption DEF ListInv
  <2>2. AtSound(at) /\ StillToCome(at, 0)
    BY <1>2, <2>1, FromSlotSound
  <2>3. \A j \in Reached : SlotOf(entries, j) >= 0
    BY <2>1, HashFacts
  <2> QED
    BY <2>2, <2>3 DEF StillToCome
<1>9. NamesStillToCome'
  <2>1. ASSUME AtSound(at) PROVE AtSound(c.at)'
    <3>1. \A h : ListOf(h)' = ListOf(h)
      BY <1>5
    <3> QED
      BY <1>4, <1>5, <2>1, <3>1 DEF AtSound, AtEnd
  <2>2. \A j \in Reached : ToCome(at, j) => ToCome(c.at, j)'
    BY <1>4, <1>5 DEF ToCome, SlotOf
  <2> QED
    BY <1>1, <1>2, <1>4, <1>5, <1>8, <2>1, <2>2 DEF NamesStillToCome
<1>10. ClientSound'
  BY <1>4, <1>7, <1>9 DEF ClientSound
<1> QED
  BY <1>1, <1>6, <1>10, OnlyClient

LEMMA IteratesNext ==
    ASSUME ListInv, NextNameOfLive
    PROVE  ListInv'
<1>1. /\ c.pc = "names" /\ UNCHANGED <<indexVars, subs, opened, attached, names, basis>>
      /\ CollectedSound(c.i) /\ NamesStillToCome /\ IndexInv
  BY DEF NextNameOfLive, ListInv, ClientSound
<1>2. c.i \in DOMAIN subs /\ subs[c.i] = Live /\ Live \in opened
  BY <1>1 DEF NamesStillToCome
<1>3. PICK at, n, known :
         /\ at = IF c.at = AtEnd THEN AtEnd ELSE NextName(c.at)
         /\ n = c.at.entry.name /\ known = c.known \cup {n}
  OBVIOUS
<1>4. c' = [c EXCEPT !.known = known, !.at = at,
                     !.pc = IF at = AtEnd THEN "collect" ELSE "names",
                     !.i = IF at = AtEnd THEN c.i + 1 ELSE c.i]
  BY <1>3 DEF NextNameOfLive
<1>5. n \in KnownNames \cup {EmptyName} /\ n \in Name \cup {EmptyName}
  <2>1. CASE c.at = AtEnd
    BY <1>3, <2>1 DEF AtEnd, NoEntry
  <2>2. CASE c.at # AtEnd
    <3>1. attached /\ AtSound(c.at)
      BY <1>1, <2>2 DEF NamesStillToCome
    <3>2. n \in KnownNames
      BY <1>1, <1>3, <2>2, <3>1, TableThere, NextNameSound
    <3>3. KnownNames \subseteq Name
      BY <1>1, KnownNow, HashFacts
    <3> QED
      BY <3>2, <3>3
  <2> QED
    BY <2>1, <2>2
<1>6. ASSUME attached
      PROVE  /\ AtSound(at)
             /\ \A j \in Reached : entries[j].name \in c.had =>
                   entries[j].name \in known \/ ToCome(at, j)
  <2>1. /\ AtSound(c.at) /\ table # NoTable
        /\ \A j \in Reached : entries[j].name \in c.had =>
              entries[j].name \in c.known \/ ToCome(c.at, j)
    BY <1>1, <1>6, TableThere DEF NamesStillToCome
  <2>2. CASE c.at = AtEnd
    <3>1. at = c.at
      BY <1>3, <2>2
    <3> QED
      BY <1>3, <2>1, <3>1
  <2>3. CASE c.at # AtEnd
    <3>1. at = NextName(c.at)
      BY <1>3, <2>3
    <3>2. AtSound(at) /\ NamesLeft(c.at, at)
      BY <1>1, <2>1, <2>3, <3>1, NextNameSound
    <3> QED
      BY <1>3, <2>1, <3>2 DEF NamesLeft
  <2> QED
    BY <2>2, <2>3
<1>7. CASE at = AtEnd
  <2>1. c' = [c EXCEPT !.pc = "collect", !.i = c.i + 1, !.known = c.known \cup {n}, !.at = at]
    BY <1>3, <1>4, <1>7
  <2>2. attached => c.had \subseteq c.known \cup {n}
    BY <1>1, <1>3, <1>6, <1>7, NoneToCome, AllCollected
  <2>3. /\ {n} \subseteq Name \cup {EmptyName}
        /\ {n} \subseteq Others \cup KnownNames \cup {EmptyName}
    BY <1>5
  <2> QED
    BY <1>1, <1>2, <2>1, <2>2, <2>3, CollectsOne
<1>8. CASE at # AtEnd
  <2>1. c' = [c EXCEPT !.pc = "names", !.known = known, !.at = at, !.i = c.i]
    BY <1>4, <1>8
  <2>2. /\ c'.pc = "names" /\ c'.at = at /\ c'.i = c.i /\ c'.known = known /\ c'.had = c.had
    BY <2>1 DEF ListInv, ClientType
  <2>3. /\ KnownNames' = KnownNames /\ Reached' = Reached /\ entries' = entries
        /\ \A h : ListOf(h)' = ListOf(h)
    BY <1>1, QuietFile
  <2>4. known \subseteq Name \cup {EmptyName}
    BY <1>3, <1>5, ClientFields
  <2>5. ClientType'
    <3>1. c' \in [pc : {"names"}, name : Name \cup {EmptyName}, i : Nat \ {0}, offset : Nat,
                  at : {at}, known : SUBSET (Name \cup {EmptyName}), had : SUBSET KnownNames,
                  sub : {c.sub}]
      BY <2>1, <2>4 DEF ListInv, ClientType
    <3> QED
      BY <2>2, <2>3, <3>1 DEF ClientType
  <2>6. CollectedSound(c.i)'
    <3>1. known \subseteq Others \cup KnownNames \cup {EmptyName}
      BY <1>1, <1>3, <1>5 DEF CollectedSound
    <3>2. c.known \subseteq known
      BY <1>3
    <3> QED
      BY <1>1, <2>2, <2>3, <3>1, <3>2 DEF CollectedSound
  <2>7. attached
    BY <1>1, <1>3, <1>8 DEF NamesStillToCome
  <2>8. AtSound(c.at)'
    BY <1>6, <2>2, <2>3, <2>7 DEF AtSound, AtEnd
  <2>9. \A j \in Reached : ToCome(at, j) => ToCome(c.at, j)'
    BY <2>2, <2>3 DEF ToCome, SlotOf
  <2>10. NamesStillToCome'
    BY <1>1, <1>2, <1>6, <2>2, <2>3, <2>7, <2>8, <2>9 DEF NamesStillToCome
  <2>11. ClientSound'
    BY <2>2, <2>6, <2>10 DEF ClientSound
  <2> QED
    BY <1>1, <2>5, <2>11, OnlyClient
<1> QED
  BY <1>7, <1>8

\* The list of names is the list of all.
LEMMA CollectionEnds ==
    ASSUME ListInv, Collected
    PROVE  ListInv'
<1>1. /\ c.pc = "collect" /\ c.i > Len(subs) /\ names' = c.known /\ c' = Waits
      /\ basis' = (IF Live \in opened /\ attached THEN c.had ELSE {})
      /\ UNCHANGED <<indexVars, subs, opened, attached>>
  BY DEF Collected
<1>2. IndexInv' /\ KnownNames' = KnownNames /\ made' = made
  BY <1>1, QuietFile
<1>3. \A k \in DOMAIN subs : k < c.i
  BY <1>1, ClientFields
<1>4. /\ CollectedSound(c.i) /\ c.known \subseteq Name \cup {EmptyName}
      /\ DOMAIN Contents \subseteq ToSet(subs) /\ opened \subseteq ToSet(subs)
  BY <1>1, ClientFields DEF ListInv, ClientSound, SubsSound
<1>5. \A s : s \in ToSet(subs) <=> \E k \in DOMAIN subs : subs[k] = s
  BY DEF ToSet
<1>6. Others \subseteq c.known
  <2> SUFFICES ASSUME NEW s \in DOMAIN Contents PROVE Contents[s] \subseteq c.known
    BY DEF Others
  <2>1. PICK k \in DOMAIN subs : subs[k] = s
    BY <1>4, <1>5
  <2>2. s # Live
    BY ConfigAssumption
  <2> QED
    BY <1>3, <1>4, <2>1, <2>2 DEF CollectedSound
<1>7. Live \in opened /\ attached => c.had \subseteq c.known
  <2> SUFFICES ASSUME Live \in opened, attached PROVE c.had \subseteq c.known
    OBVIOUS
  <2>1. PICK k \in DOMAIN subs : subs[k] = Live
    BY <1>4, <1>5
  <2> QED
    BY <1>3, <1>4, <2>1 DEF CollectedSound
<1>8. c.known \subseteq Others \cup KnownNames \cup {EmptyName}
  BY <1>4 DEF CollectedSound
<1>9. NamesComplete'
  <2>1. basis' \subseteq c.known
    BY <1>1, <1>7
  <2>2. Others' = Others
    BY DEF Others
  <2> QED
    BY <1>1, <1>2, <1>6, <1>8, <2>1, <2>2 DEF NamesComplete
<1>10. ClientType' /\ ClientSound'
  BY <1>1 DEF Waits, ClientType, ClientSound
<1>11. SubsSound'
  BY <1>1, <1>2 DEF ListInv, SubsSound
<1> QED
  BY <1>1, <1>2, <1>4, <1>9, <1>10, <1>11 DEF ListInv

\* The list as it is configured.
LEMMA ConfigSound ==
    /\ Config \in Seq(STRING) /\ \A i \in DOMAIN Config : Config[i] # EmptyName
    /\ DOMAIN Contents \subseteq ToSet(Config)
BY ConfigAssumption

LEMMA OpensAgain ==
    ASSUME ListInv, Reopen
    PROVE  ListInv'
<1>1. /\ c.pc = "idle" /\ subs' = Config /\ opened' = {} /\ attached' = FALSE
      /\ UNCHANGED <<indexVars, names, c, basis>>
  BY DEF Reopen
<1>2. IndexInv' /\ KnownNames' = KnownNames
  BY <1>1, QuietFile
<1>3. SubsSound'
  BY <1>1, ConfigSound DEF SubsSound
<1>4. ClientType' /\ ClientSound'
  BY <1>1, <1>2 DEF ListInv, ClientType, ClientSound
<1>5. NamesComplete' /\ names' \subseteq Name \cup {EmptyName}
  BY <1>1, <1>2 DEF ListInv, NamesComplete
<1> QED
  BY <1>2, <1>3, <1>4, <1>5 DEF ListInv

LEMMA ListInit ==
    ASSUME Init
    PROVE  ListInv
<1>1. /\ table = NoTable /\ entries = <<>> /\ made = "nothing" /\ trees = 0 /\ engine = Off
      /\ added = {} /\ subs = Config /\ opened = {} /\ attached = FALSE /\ names = {}
      /\ c = Waits
  BY DEF Init, IndexInit, HashInit
<1>2. entries \in Seq(Entry) /\ DOMAIN entries = {}
  BY <1>1
<1>3. IndexInv
  <2>1. NamesSound(Reached, table, entries)
    BY <1>1, <1>2 DEF NamesSound
  <2>2. EngineSound /\ AddingSound
    BY <1>1 DEF EngineSound, AddingSound, Off
  <2> QED
    BY <1>1, <1>2, <2>1, <2>2 DEF IndexInv
<1>4. SubsSound
  BY <1>1, ConfigSound DEF SubsSound
<1>5. ClientType /\ ClientSound
  BY <1>1 DEF Waits, ClientType, ClientSound
<1>6. NamesComplete
  BY <1>1 DEF NamesComplete
<1> QED
  BY <1>1, <1>3, <1>4, <1>5, <1>6 DEF ListInv

LEMMA StepOfFile ==
    ASSUME ListInv, [Next]_vars
    PROVE  /\ IndexInv' /\ Grown(Reached, entries, Reached', entries')
           /\ made = "table" => made' = "table"
<1>1. IndexInv
  BY DEF ListInv
<1>2. EngineNext \/ UNCHANGED indexVars
  BY DEF Next, ListNext, CallFind, CallIterator, Open, Drop, FindInOther, FindInLive, Walk,
         NotFound, NamesOfOther, FirstNameOfLive, NextNameOfLive, Collected, Answer, Reopen, vars
<1> QED
  BY <1>1, <1>2, EngineStep

LEMMA ListStep ==
    ASSUME ListInv, [Next]_vars
    PROVE  ListInv'
<1>1. CASE ListNext
  BY <1>1, CallsBegin, OpensOne, DropsOne, SearchesOther, WalkBegins, WalkStep, SearchEnds,
     CollectsOther, IteratesFirst, IteratesNext, CollectionEnds, AnswerGiven, OpensAgain
     DEF ListNext
<1>2. CASE UNCHANGED listVars
  BY <1>2, StepOfFile, BesideEngine
<1> QED
  BY <1>1, <1>2 DEF Next, vars

-----------------------------------------------------------------------------
(* The theorems.                                                           *)

\* The invariant of the file, of the engine that fills it, wherever it was stopped,
\* and of the client that searches the list or collects its names meanwhile.
THEOREM ListInvariance == Spec => []ListInv
<1>1. Init => ListInv
  BY ListInit
<1>2. ListInv /\ [Next]_vars => ListInv'
  BY ListStep
<1> QED
  BY <1>1, <1>2, PTL DEF Spec

\* NameHash: a reader meets complete entries at any moment, each name and each tree
\* once, and its walk over a list ends.
THEOREM ChainsAreSound == Spec => []ChainsSound
<1>1. ASSUME ListInv PROVE ChainsSound
  <2>1. /\ NamesSound(Reached, table, entries) /\ Reached \subseteq DOMAIN entries
        /\ entries \in Seq(Entry)
        /\ \A i \in DOMAIN entries : entries[i].next \in Nat
    BY <1>1, HashFacts DEF ListInv
  <2>2. CASE table = NoTable
    <3>1. DOMAIN table = {} /\ DOMAIN entries = {}
      <4>1. DOMAIN <<>> = {}
        OBVIOUS
      <4>2. table \notin [0 .. HashSize - 1 -> Nat]
        BY <2>2, HashAssumption DEF NoTable
      <4> QED
        BY <2>1, <2>2, <4>1, <4>2, Zenon DEF NamesSound, NoTable
    <3> QED
      BY <2>1, <3>1 DEF ChainsSound
  <2>3. CASE table # NoTable
    <3>1. /\ table \in [0 .. HashSize - 1 -> Nat] /\ LinksForward(table, entries)
          /\ Distinct(Reached, entries)
      BY <2>1, <2>3 DEF NamesSound
    <3>2. \A h \in DOMAIN table : table[h] # 0 =>
             table[h] \in DOMAIN entries /\ Hash[entries[table[h]].name] = h
      BY <3>1 DEF LinksForward, SlotOf
    <3>3. ASSUME NEW i \in Reached, entries[i].next # 0
          PROVE  /\ entries[i].next \in i + 1 .. Len(entries)
                 /\ Hash[entries[entries[i].next].name] = Hash[entries[i].name]
      <4>1. /\ i \in DOMAIN entries /\ entries[i].next \in DOMAIN entries /\ i < entries[i].next
            /\ Hash[entries[entries[i].next].name] = Hash[entries[i].name]
        BY <2>1, <3>1, <3>3 DEF LinksForward, SlotOf
      <4> QED
        BY <2>1, <4>1
    <3> QED
      BY <3>1, <3>2, <3>3 DEF ChainsSound, Distinct
  <2> QED
    BY <2>2, <2>3
<1> QED
  BY <1>1, ListInvariance, PTL

\* IndexFile: a channel that was added is found ever after, with the tree that was
\* made for it.
THEOREM ChannelsStay == Spec => AddedStays
<1>1. ASSUME ListInv, [Next]_vars
      PROVE  [/\ \A n \in added' : IdOf(n)' # {}
              /\ \A n \in Name : IdOf(n) # {} => IdOf(n)' = IdOf(n)]_indexVars
  <2>1. IndexInv' /\ Grown(Reached, entries, Reached', entries')
    BY <1>1, StepOfFile
  <2>2. \A n \in added' : IdOf(n)' # {}
    BY <2>1 DEF IndexInv
  <2>3. ASSUME NEW n \in Name, IdOf(n) # {} PROVE IdOf(n)' = IdOf(n)
    BY <2>1, <2>3, GrownIds, IdsNow, IdsNext
  <2> QED
    BY <2>2, <2>3
<1> QED
  BY <1>1, ListInvariance, PTL DEF Spec, AddedStays

\* ListIndex::findChannel answers with the first sub-archive that has the channel,
\* although the engine adds channels to one of them during the search.
THEOREM FirstIsFound == Spec => []FirstMatch
<1>1. ASSUME ListInv PROVE FirstMatch
  <2> SUFFICES ASSUME c.pc = "found" PROVE FirstMatch
    BY DEF FirstMatch
  <2>1. FoundSound /\ subs \in Seq(STRING)
    BY <1>1, ClientFields DEF ListInv, ClientSound
  <2> DEFINE at == {i \in 1 .. Len(subs) : subs[i] = c.sub}
             first == SelectInSeq(subs, LAMBDA s : s = c.sub)
             before == IF c.sub = EmptyName THEN Len(subs) ELSE first - 1
  <2>2. first = IF at # {} THEN Min(at) ELSE 0
    BY DEF SelectInSeq
  <2>3. c.sub # EmptyName => first \in Nat /\ first <= c.i /\ c.i \in Nat
    <3> SUFFICES ASSUME c.sub # EmptyName PROVE first \in Nat /\ first <= c.i /\ c.i \in Nat
      OBVIOUS
    <3>1. c.i \in at
      BY <2>1 DEF FoundSound
    <3> DEFINE m == [x \in at |-> x]
    <3>2. \A x \in at : m[x] \in Nat /\ m[x] = x
      OBVIOUS
    <3>3. \E x \in at : \A y \in at : x <= y
      <4> HIDE DEF m, at
      <4>1. \A x \in at : m[x] \in Nat
        BY <3>2
      <4>2. \E x \in at : \A y \in at : m[x] <= m[y]
        BY <3>1, <4>1, LeastMeasure
      <4> QED
        BY <3>2, <4>2
    <3>4. Min(at) \in at /\ \A y \in at : Min(at) <= y
      <4> HIDE DEF at
      <4> QED
        BY <3>3 DEF Min
    <3>5. at \subseteq Nat
      OBVIOUS
    <3> HIDE DEF at, first
    <3> QED
      BY <2>2, <3>1, <3>4, <3>5
  <2>4. ASSUME NEW i \in 1 .. before, subs[i] \in opened
        PROVE  c.name \notin ChannelsOf(subs[i], c.had)
    <3>1. i \in DOMAIN subs /\ i < (IF c.sub = EmptyName THEN Len(subs) + 1 ELSE c.i)
      <4> HIDE DEF first
      <4>1. CASE c.sub = EmptyName
        BY <2>1, <4>1
      <4>2. CASE c.sub # EmptyName
        <5>1. c.i \in DOMAIN subs
          BY <2>1, <4>2 DEF FoundSound
        <5> QED
          BY <2>1, <2>3, <4>2, <5>1
      <4> QED
        BY <4>1, <4>2
    <3> QED
      BY <2>1, <3>1 DEF FoundSound, PassedBy
  <2>5. c.sub # EmptyName => c.name \in ChannelsOf(c.sub, KnownNames)
    BY <2>1 DEF FoundSound
  <2> HIDE DEF first
  <2> QED
    BY <2>4, <2>5 DEF FirstMatch, first
<1> QED
  BY <1>1, ListInvariance, PTL

\* ListIndex::collectNames: the list of names has every channel that was there when
\* its collection began, and none that is in no sub-archive.
THEOREM AllNamesCollected == Spec => []NamesComplete
<1>1. ListInv => NamesComplete
  BY DEF ListInv
<1> QED
  BY <1>1, ListInvariance, PTL

=============================================================================
