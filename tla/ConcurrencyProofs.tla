------------------------- MODULE ConcurrencyProofs --------------------------
(***************************************************************************)
(* Proofs about the parts in which threads meet: the ordered mutexes and   *)
(* the concurrent list of the tools, and the archive server with its       *)
(* clients, monitors and requests for data.                                *)
(***************************************************************************)
EXTENDS ConcurrentList, ArchiveServer, ArchiveQueries,
        FiniteSetTheorems, FunctionTheorems, SequenceTheorems, TLAPS

-----------------------------------------------------------------------------
(***************************************************************************)
(* OrderedMutex and the list that uses it, for any number of threads,      *)
(* mutexes and items: the entries of the monitor are the locks, threads    *)
(* whose mutexes have different orders never wait for each other in a      *)
(* circle, and an iterator returns each item that stays on the list exactly *)
(* once.                                                                   *)
(***************************************************************************)

Where(s, m) == {i \in 1 .. Len(s) : s[i] = m}
Times(s, m) == Cardinality(Where(s, m))
One(b) == IF b THEN 1 ELSE 0

-----------------------------------------------------------------------------
(* How often a mutex is in a sequence.                                     *)

LEMMA WhereFinite ==
    ASSUME NEW s \in Seq(Mutex), NEW m
    PROVE  IsFiniteSet(Where(s, m)) /\ Times(s, m) \in Nat
<1>1. Len(s) \in Nat
  OBVIOUS
<1>2. IsFiniteSet(1 .. Len(s))
  BY <1>1, FS_Interval
<1>3. IsFiniteSet(Where(s, m))
  BY <1>2, FS_Subset DEF Where
<1> QED
  BY <1>3, FS_CardinalityType DEF Times

LEMMA TimesPositive ==
    ASSUME NEW s \in Seq(Mutex), NEW m, Times(s, m) > 0
    PROVE  \E i \in 1 .. Len(s) : s[i] = m
<1>1. Where(s, m) # {}
  BY WhereFinite, FS_EmptySet DEF Times
<1> QED
  BY <1>1 DEF Where

LEMMA TimesNone ==
    ASSUME NEW m
    PROVE  Times(<<>>, m) = 0
BY FS_EmptySet DEF Times, Where

\* An entry that is made counts for its mutex, ...
LEMMA TimesAppend ==
    ASSUME NEW s \in Seq(Mutex), NEW m \in Mutex, NEW n \in Mutex
    PROVE  /\ Append(s, m) \in Seq(Mutex)
           /\ Times(Append(s, m), n) = Times(s, n) + One(m = n)
<1> DEFINE a == Append(s, m)
           k == Len(s) + 1
<1>1. /\ a \in Seq(Mutex) /\ Len(a) = k /\ Len(s) \in Nat /\ a[k] = m
      /\ \A i \in 1 .. Len(s) : a[i] = s[i]
  OBVIOUS
<1> HIDE DEF a
<1>2. Where(a, n) = IF m = n THEN Where(s, n) \cup {k} ELSE Where(s, n)
  BY <1>1 DEF Where
<1>3. k \notin Where(s, n)
  BY <1>1 DEF Where
<1>4. IsFiniteSet(Where(s, n)) /\ Times(s, n) \in Nat
  BY WhereFinite
<1>5. Cardinality(Where(s, n) \cup {k}) = Cardinality(Where(s, n)) + 1
  BY <1>3, <1>4, FS_AddElement
<1>6. Times(a, n) = Times(s, n) + One(m = n)
  BY <1>2, <1>4, <1>5 DEF Times, One
<1> QED
  BY <1>1, <1>6 DEF a

\* A set of natural numbers that is not empty has a least element.
LEMMA MinOf ==
    ASSUME NEW S, S \subseteq Nat, S # {}
    PROVE  Min(S) \in S /\ \A y \in S : Min(S) <= y
<1> DEFINE less == {ss \in Nat \X Nat : ss[1] < ss[2]}
<1>1. IsWellFoundedOn(less, Nat)
  BY Zenon, NatLessThanWellFounded DEF OpToRel
<1>2. PICK x \in S : \A y \in S : <<y, x>> \notin less
  BY <1>1, WFMin
<1>3. \A y \in S : x <= y
  <2> TAKE y \in S
  <2>1. x \in Nat /\ y \in Nat
    OBVIOUS
  <2>2. y < x => <<y, x>> \in less
    BY <2>1
  <2> QED
    BY <1>2, <2>1, <2>2
<1> QED
  BY <1>3 DEF Min

\* ... and RemoveFirst takes out one entry, if there is one, whichever that is.
LEMMA FirstRemoved ==
    ASSUME NEW s \in Seq(Mutex), NEW m \in Mutex, \E i \in 1 .. Len(s) : s[i] = m
    PROVE  /\ RemoveFirst(s, m) \in Seq(Mutex)
           /\ Len(RemoveFirst(s, m)) = Len(s) - 1
           /\ \E k \in 1 .. Len(s) :
                 /\ s[k] = m
                 /\ \A i \in 1 .. Len(s) - 1 :
                       RemoveFirst(s, m)[i] = IF i < k THEN s[i] ELSE s[i + 1]
<1> DEFINE I == {i \in 1 .. Len(s) : s[i] = m}
           k == Min(I)
           front == SubSeq(s, 1, k - 1)
           back == SubSeq(s, k + 1, Len(s))
<1>1. I \subseteq Nat /\ I # {} /\ Len(s) \in Nat
  OBVIOUS
<1>2. k \in I
  BY <1>1, MinOf
<1>3. k \in 1 .. Len(s) /\ s[k] = m /\ k \in Nat
  BY <1>1, <1>2
<1>4. RemoveFirst(s, m) = front \o back
  BY <1>1 DEF RemoveFirst, RemoveAt, SelectInSeq
<1> HIDE DEF I, k
<1>5. /\ front \in Seq(Mutex) /\ Len(front) = k - 1
      /\ \A i \in 1 .. k - 1 : front[i] = s[i]
  BY <1>1, <1>3
<1>6. /\ back \in Seq(Mutex) /\ Len(back) = Len(s) - k
      /\ \A i \in 1 .. Len(s) - k : back[i] = s[k + i]
  BY <1>1, <1>3
<1> HIDE DEF front, back
<1>7. /\ front \o back \in Seq(Mutex) /\ Len(front \o back) = Len(front) + Len(back)
      /\ \A i \in 1 .. Len(front) + Len(back) : (front \o back)[i] =
            IF i <= Len(front) THEN front[i] ELSE back[i - Len(front)]
  BY <1>5, <1>6, ConcatProperties
<1>8. \A i \in 1 .. Len(s) - 1 :
         (front \o back)[i] = IF i < k THEN s[i] ELSE s[i + 1]
  <2> TAKE i \in 1 .. Len(s) - 1
  <2>1. CASE i < k
    BY <1>1, <1>3, <1>5, <1>6, <1>7, <2>1
  <2>2. CASE ~(i < k)
    <3>1. (front \o back)[i] = back[i - (k - 1)]
      BY <1>1, <1>3, <1>5, <1>6, <1>7, <2>2
    <3>2. i - (k - 1) \in 1 .. Len(s) - k /\ k + (i - (k - 1)) = i + 1
      BY <1>1, <1>3, <2>2
    <3>3. back[i - (k - 1)] = s[i + 1]
      BY <1>6, <3>2
    <3> QED
      BY <2>2, <3>1, <3>3
  <2> QED
    BY <2>1, <2>2
<1>9. Len(front \o back) = Len(s) - 1
  BY <1>1, <1>3, <1>5, <1>6, <1>7
<1> QED
  BY <1>3, <1>4, <1>7, <1>8, <1>9

LEMMA TimesRemove ==
    ASSUME NEW s \in Seq(Mutex), NEW m \in Mutex, NEW n \in Mutex,
           \E i \in 1 .. Len(s) : s[i] = m
    PROVE  /\ RemoveFirst(s, m) \in Seq(Mutex)
           /\ Times(RemoveFirst(s, m), n) = Times(s, n) - One(m = n)
<1> DEFINE r == RemoveFirst(s, m)
<1>1. r \in Seq(Mutex) /\ Len(r) = Len(s) - 1 /\ Len(s) \in Nat
  BY FirstRemoved
<1>2. PICK k \in 1 .. Len(s) :
         /\ s[k] = m
         /\ \A i \in 1 .. Len(s) - 1 : r[i] = IF i < k THEN s[i] ELSE s[i + 1]
  BY FirstRemoved
<1> HIDE DEF r
<1> DEFINE From == Where(r, n)
           To == Where(s, n) \ {k}
           f == [i \in From |-> IF i < k THEN i ELSE i + 1]
<1>3. \A i \in From : i \in 1 .. Len(s) - 1 /\ r[i] = n
  BY <1>1 DEF Where
<1>4. f \in [From -> To]
  BY <1>1, <1>2, <1>3 DEF Where
<1>5. \A i, j \in From : f[i] = f[j] => i = j
  BY <1>1, <1>2, <1>3
<1>6. \A j \in To : \E i \in From : f[i] = j
  <2> TAKE j \in To
  <2>1. j \in 1 .. Len(s) /\ s[j] = n /\ j # k
    BY DEF Where
  <2>2. CASE j < k
    <3>1. j \in From
      BY <1>1, <1>2, <2>1, <2>2 DEF Where
    <3> QED
      BY <2>2, <3>1
  <2>3. CASE j > k
    <3>1. j - 1 \in 1 .. Len(s) - 1 /\ ~(j - 1 < k) /\ (j - 1) + 1 = j
      BY <1>1, <1>2, <2>1, <2>3
    <3>2. r[j - 1] = s[(j - 1) + 1]
      BY <1>2, <3>1
    <3>3. j - 1 \in From
      BY <1>1, <2>1, <3>1, <3>2 DEF Where
    <3> QED
      BY <3>1, <3>3
  <2> QED
    BY <1>2, <2>1, <2>2, <2>3
<1>7. f \in Bijection(From, To)
  BY <1>4, <1>5, <1>6, Fun_IsBij
<1>8. IsFiniteSet(From) /\ IsFiniteSet(Where(s, n))
  BY <1>1, WhereFinite
<1>9. Cardinality(To) = Cardinality(From)
  BY <1>7, <1>8, FS_Bijection DEF ExistsBijection
<1>10. Cardinality(To) = IF k \in Where(s, n) THEN Cardinality(Where(s, n)) - 1
                         ELSE Cardinality(Where(s, n))
  BY <1>8, FS_RemoveElement
<1>11. k \in Where(s, n) <=> m = n
  BY <1>2 DEF Where
<1>12. Times(s, n) \in Nat
  BY WhereFinite
<1>13. Times(r, n) = Times(s, n) - One(m = n)
  BY <1>9, <1>10, <1>11, <1>12 DEF Times, One
<1> QED
  BY <1>1, <1>13 DEF r

-----------------------------------------------------------------------------
(* The mutexes.                                                            *)

Places == {Running} \cup {WaitsFor(m) : m \in Mutex} \cup {Forgets(m) : m \in Mutex}

LockType ==
    /\ entries \in [Thread -> Seq(Mutex)]
    /\ owner \in [Mutex -> Thread \cup {Nobody}]
    /\ depth \in [Mutex -> Nat]
    /\ at \in [Thread -> Places]

\* A mutex is taken as long as somebody has it.
DepthOfOwner == \A m \in Mutex : owner[m] = Nobody <=> depth[m] = 0

Held(t, m) == IF owner[m] = t THEN depth[m] ELSE 0
EntriesTrue ==
    \A t \in Thread, m \in Mutex :
        Times(entries[t], m) = Held(t, m) + One(at[t] \in {WaitsFor(m), Forgets(m)})

\* A thread waits for a mutex that is not below one that it has entered.  This is only
\* true of a thread that waits: taking out the first entry of a mutex that was refused
\* may leave the others out of order.
WaitsAbove ==
    \A t \in Thread, m \in Mutex :
        at[t] = WaitsFor(m) => \A i \in 1 .. Len(entries[t]) : Order[entries[t][i]] <= Order[m]

LockInv == LockType /\ DepthOfOwner /\ EntriesTrue /\ WaitsAbove

LEMMA PlacesDiffer ==
    ASSUME NEW m, NEW n
    PROVE  /\ Running # WaitsFor(m) /\ Running # Forgets(m) /\ WaitsFor(m) # Forgets(n)
           /\ WaitsFor(m) = WaitsFor(n) <=> m = n
           /\ Forgets(m) = Forgets(n) <=> m = n
<1>1. /\ Running.in = "none" /\ WaitsFor(m).in = "lock" /\ Forgets(n).in = "unlock"
      /\ Forgets(m).in = "unlock" /\ WaitsFor(m).mutex = m /\ WaitsFor(n).mutex = n
      /\ Forgets(m).mutex = m /\ Forgets(n).mutex = n
  BY DEF Running, WaitsFor, Forgets
<1> QED
  BY <1>1

LEMMA LockInvInit == LockInit => LockInv
<1> SUFFICES ASSUME LockInit PROVE LockInv
  OBVIOUS
<1>1. LockType
  BY DEF LockInit, LockType, Places
<1>2. DepthOfOwner
  BY DEF LockInit, DepthOfOwner
<1>3. EntriesTrue
  <2> SUFFICES ASSUME NEW t \in Thread, NEW m \in Mutex
               PROVE  Times(entries[t], m)
                         = Held(t, m) + One(at[t] \in {WaitsFor(m), Forgets(m)})
    BY DEF EntriesTrue
  <2>1. Times(entries[t], m) = 0
    BY TimesNone DEF LockInit
  <2>2. Held(t, m) = 0
    BY DEF LockInit, Held
  <2>3. at[t] \notin {WaitsFor(m), Forgets(m)}
    BY PlacesDiffer DEF LockInit
  <2> QED
    BY <2>1, <2>2, <2>3 DEF One
<1>4. WaitsAbove
  BY DEF LockInit, WaitsAbove
<1> QED
  BY <1>1, <1>2, <1>3, <1>4 DEF LockInv

\* The step of a thread and a mutex: what it leaves alone stays true, and the rest is
\* counted for each action.
LEMMA AskSound ==
    ASSUME LockInv, NEW t \in Thread, NEW m \in Mutex, Ask(t, m)
    PROVE  LockInv'
<1> DEFINE a == Append(entries[t], m)
<1>1. entries[t] \in Seq(Mutex) /\ at[t] = Running /\ Check(a)
  BY DEF LockInv, LockType, Ask
<1>2. a \in Seq(Mutex) /\ \A n \in Mutex : Times(a, n) = Times(entries[t], n) + One(m = n)
  BY <1>1, TimesAppend
<1>3. /\ entries' = [entries EXCEPT ![t] = a] /\ at' = [at EXCEPT ![t] = WaitsFor(m)]
      /\ UNCHANGED <<owner, depth>>
  BY DEF Ask
<1>4. \A i \in 1 .. Len(a) : Order[a[i]] <= Order[m]
  <2>1. Len(a) = Len(entries[t]) + 1 /\ a[Len(a)] = m /\ Len(entries[t]) \in Nat
    BY <1>1
  <2>2. Order[m] \in Nat
    BY OrderAssumption
  <2> HIDE DEF a
  <2> QED
    BY <1>1, <2>1, <2>2 DEF Check
<1> HIDE DEF a
<1>5. LockType'
  BY <1>2, <1>3 DEF LockInv, LockType, Places
<1>6. DepthOfOwner'
  BY <1>3 DEF LockInv, DepthOfOwner
<1>7. EntriesTrue'
  <2> SUFFICES ASSUME NEW u \in Thread, NEW n \in Mutex
               PROVE  Times(entries'[u], n)
                         = Held(u, n)' + One(at'[u] \in {WaitsFor(n), Forgets(n)})
    BY DEF EntriesTrue
  <2>1. Times(entries[u], n) = Held(u, n) + One(at[u] \in {WaitsFor(n), Forgets(n)})
    BY DEF LockInv, EntriesTrue
  <2>2. Held(u, n)' = Held(u, n)
    BY <1>3 DEF Held
  <2>3. CASE u # t
    BY <1>3, <2>1, <2>2, <2>3 DEF LockInv, LockType
  <2>4. CASE u = t
    <3>1. entries'[u] = a /\ at'[u] = WaitsFor(m)
      BY <1>3, <2>4 DEF LockInv, LockType
    <3>2. One(at[u] \in {WaitsFor(n), Forgets(n)}) = 0
      BY <1>1, <2>4, PlacesDiffer DEF One
    <3>3. One(at'[u] \in {WaitsFor(n), Forgets(n)}) = One(m = n)
      BY <3>1, PlacesDiffer DEF One
    <3>4. Held(u, n) \in Nat
      BY DEF LockInv, LockType, Held
    <3> QED
      BY <1>2, <2>1, <2>2, <2>4, <3>1, <3>2, <3>3, <3>4
  <2> QED
    BY <2>3, <2>4
<1>8. WaitsAbove'
  <2> SUFFICES ASSUME NEW u \in Thread, NEW n \in Mutex, at'[u] = WaitsFor(n)
               PROVE  \A i \in 1 .. Len(entries'[u]) : Order[entries'[u][i]] <= Order[n]
    BY DEF WaitsAbove
  <2>1. CASE u # t
    BY <1>3, <2>1 DEF LockInv, LockType, WaitsAbove
  <2>2. CASE u = t
    BY <1>3, <1>4, <2>2, PlacesDiffer DEF LockInv, LockType
  <2> QED
    BY <2>1, <2>2
<1> QED
  BY <1>5, <1>6, <1>7, <1>8 DEF LockInv

LEMMA RefuseSound ==
    ASSUME LockInv, NEW t \in Thread, NEW m \in Mutex, Refuse(t, m)
    PROVE  LockInv'
<1> DEFINE a == Append(entries[t], m)
           r == RemoveFirst(a, m)
<1>1. entries[t] \in Seq(Mutex) /\ at[t] = Running
  BY DEF LockInv, LockType, Refuse
<1>2. a \in Seq(Mutex) /\ \A n \in Mutex : Times(a, n) = Times(entries[t], n) + One(m = n)
  BY <1>1, TimesAppend
<1>3. \E i \in 1 .. Len(a) : a[i] = m
  <2>1. Len(a) \in 1 .. Len(a) /\ a[Len(a)] = m
    BY <1>1
  <2> QED
    BY <2>1
<1>4. entries' = [entries EXCEPT ![t] = r] /\ UNCHANGED <<owner, depth, at>>
  BY DEF Refuse
<1> HIDE DEF a
<1>5. r \in Seq(Mutex) /\ \A n \in Mutex : Times(r, n) = Times(a, n) - One(m = n)
  BY <1>2, <1>3, TimesRemove
<1> HIDE DEF r
<1>6. \A n \in Mutex : Times(r, n) = Times(entries[t], n)
  BY <1>1, <1>2, <1>5, WhereFinite DEF One
<1>7. LockType'
  BY <1>4, <1>5 DEF LockInv, LockType
<1>8. DepthOfOwner'
  BY <1>4 DEF LockInv, DepthOfOwner
<1>9. EntriesTrue'
  <2> SUFFICES ASSUME NEW u \in Thread, NEW n \in Mutex
               PROVE  Times(entries'[u], n)
                         = Held(u, n)' + One(at'[u] \in {WaitsFor(n), Forgets(n)})
    BY DEF EntriesTrue
  <2>1. Times(entries'[u], n) = Times(entries[u], n)
    BY <1>4, <1>6 DEF LockInv, LockType
  <2> QED
    BY <1>4, <2>1 DEF LockInv, EntriesTrue, Held
<1>10. WaitsAbove'
  <2> SUFFICES ASSUME NEW u \in Thread, NEW n \in Mutex, at[u] = WaitsFor(n)
               PROVE  \A i \in 1 .. Len(entries'[u]) : Order[entries'[u][i]] <= Order[n]
    BY <1>4 DEF WaitsAbove
  <2>1. u # t
    BY <1>1, PlacesDiffer
  <2> QED
    BY <1>4, <2>1 DEF LockInv, LockType, WaitsAbove
<1> QED
  BY <1>7, <1>8, <1>9, <1>10 DEF LockInv

LEMMA ObtainSound ==
    ASSUME LockInv, NEW t \in Thread, NEW m \in Mutex, Obtain(t, m)
    PROVE  LockInv'
<1>1. /\ at[t] = WaitsFor(m) /\ owner[m] \in {t, Nobody}
      /\ owner' = [owner EXCEPT ![m] = t] /\ depth' = [depth EXCEPT ![m] = @ + 1]
      /\ at' = [at EXCEPT ![t] = Running] /\ entries' = entries
  BY DEF Obtain
<1>2. LockType'
  <2>1. entries' \in [Thread -> Seq(Mutex)]
    BY <1>1 DEF LockInv, LockType
  <2>2. owner' \in [Mutex -> Thread \cup {Nobody}]
    BY <1>1 DEF LockInv, LockType
  <2>3. depth' \in [Mutex -> Nat]
    BY <1>1 DEF LockInv, LockType
  <2>4. at' \in [Thread -> Places]
    BY <1>1 DEF LockInv, LockType, Places
  <2> QED
    BY <2>1, <2>2, <2>3, <2>4 DEF LockType
<1>3. DepthOfOwner'
  BY <1>1, ThreadAssumption DEF LockInv, LockType, DepthOfOwner
<1>4. EntriesTrue'
  <2> SUFFICES ASSUME NEW u \in Thread, NEW n \in Mutex
               PROVE  Times(entries[u], n)
                         = Held(u, n)' + One(at'[u] \in {WaitsFor(n), Forgets(n)})
    BY <1>1 DEF EntriesTrue
  <2>1. Times(entries[u], n) = Held(u, n) + One(at[u] \in {WaitsFor(n), Forgets(n)})
    BY DEF LockInv, EntriesTrue
  <2>2. CASE u # t
    <3>1. at'[u] = at[u]
      BY <1>1, <2>2 DEF LockInv, LockType
    <3>2. Held(u, n)' = Held(u, n)
      BY <1>1, <2>2, ThreadAssumption DEF LockInv, LockType, Held
    <3> QED
      BY <2>1, <3>1, <3>2
  <2>3. CASE u = t
    <3>1. One(at[u] \in {WaitsFor(n), Forgets(n)}) = One(m = n)
      BY <1>1, <2>3, PlacesDiffer DEF One
    <3>2. One(at'[u] \in {WaitsFor(n), Forgets(n)}) = 0
      <4>1. at'[u] = Running
        BY <1>1, <2>3 DEF LockInv, LockType
      <4> QED
        BY <4>1, PlacesDiffer DEF One
    <3>3. Held(u, n) \in Nat /\ Held(u, n)' = Held(u, n) + One(m = n)
      BY <1>1, <2>3 DEF LockInv, LockType, DepthOfOwner, Held, One
    <3> QED
      BY <2>1, <3>1, <3>2, <3>3 DEF One
  <2> QED
    BY <2>2, <2>3
<1>5. WaitsAbove'
  <2> SUFFICES ASSUME NEW u \in Thread, NEW n \in Mutex, at'[u] = WaitsFor(n)
               PROVE  \A i \in 1 .. Len(entries[u]) : Order[entries[u][i]] <= Order[n]
    BY <1>1 DEF WaitsAbove
  <2>1. at[u] = WaitsFor(n)
    BY <1>1, PlacesDiffer DEF LockInv, LockType
  <2> QED
    BY <2>1 DEF LockInv, WaitsAbove
<1> QED
  BY <1>2, <1>3, <1>4, <1>5 DEF LockInv

LEMMA ReleaseSound ==
    ASSUME LockInv, NEW t \in Thread, NEW m \in Mutex, Release(t, m)
    PROVE  LockInv'
<1>1. /\ at[t] = Running /\ owner[m] = t
      /\ depth' = [depth EXCEPT ![m] = @ - 1]
      /\ owner' = [owner EXCEPT ![m] = IF depth[m] = 1 THEN Nobody ELSE t]
      /\ at' = [at EXCEPT ![t] = Forgets(m)] /\ entries' = entries
  BY DEF Release
<1>2. depth[m] \in Nat /\ depth[m] > 0
  BY <1>1, ThreadAssumption DEF LockInv, LockType, DepthOfOwner
<1>3. LockType'
  BY <1>1, <1>2 DEF LockInv, LockType, Places
<1>4. DepthOfOwner'
  <2> SUFFICES ASSUME NEW n \in Mutex PROVE (owner[n] = Nobody <=> depth[n] = 0)'
    BY DEF DepthOfOwner
  <2>1. CASE n # m
    BY <1>1, <2>1 DEF LockInv, LockType, DepthOfOwner
  <2>2. CASE n = m
    <3>1. depth'[n] = depth[m] - 1 /\ owner'[n] = IF depth[m] = 1 THEN Nobody ELSE t
      BY <1>1, <2>2 DEF LockInv, LockType
    <3> QED
      BY <1>2, <3>1, ThreadAssumption
  <2> QED
    BY <2>1, <2>2
<1>5. EntriesTrue'
  <2> SUFFICES ASSUME NEW u \in Thread, NEW n \in Mutex
               PROVE  Times(entries[u], n)
                         = Held(u, n)' + One(at'[u] \in {WaitsFor(n), Forgets(n)})
    BY <1>1 DEF EntriesTrue
  <2>1. Times(entries[u], n) = Held(u, n) + One(at[u] \in {WaitsFor(n), Forgets(n)})
    BY DEF LockInv, EntriesTrue
  <2>2. CASE u # t
    <3>1. at'[u] = at[u]
      BY <1>1, <2>2 DEF LockInv, LockType
    <3>2. Held(u, n)' = Held(u, n)
      BY <1>1, <2>2, ThreadAssumption DEF LockInv, LockType, Held
    <3> QED
      BY <2>1, <3>1, <3>2
  <2>3. CASE u = t
    <3>1. One(at[u] \in {WaitsFor(n), Forgets(n)}) = 0
      BY <1>1, <2>3, PlacesDiffer DEF One
    <3>2. One(at'[u] \in {WaitsFor(n), Forgets(n)}) = One(m = n)
      <4>1. at'[u] = Forgets(m)
        BY <1>1, <2>3 DEF LockInv, LockType
      <4> QED
        BY <4>1, PlacesDiffer DEF One
    <3>3. Held(u, n) \in Nat /\ Held(u, n)' = Held(u, n) - One(m = n)
      <4>1. CASE n # m
        BY <1>1, <4>1 DEF LockInv, LockType, Held, One
      <4>2. CASE n = m
        <5>1. depth'[n] = depth[m] - 1 /\ owner'[n] = IF depth[m] = 1 THEN Nobody ELSE t
          BY <1>1, <4>2 DEF LockInv, LockType
        <5>2. Held(u, n) = depth[m] /\ One(m = n) = 1
          BY <1>1, <2>3, <4>2 DEF Held, One
        <5>3. Held(u, n)' = depth[m] - 1
          BY <1>2, <2>3, <5>1, ThreadAssumption DEF Held
        <5> QED
          BY <1>2, <5>2, <5>3
      <4> QED
        BY <4>1, <4>2
    <3>4. One(m = n) \in Nat
      BY DEF One
    <3> QED
      BY <2>1, <3>1, <3>2, <3>3, <3>4
  <2> QED
    BY <2>2, <2>3
<1>6. WaitsAbove'
  <2> SUFFICES ASSUME NEW u \in Thread, NEW n \in Mutex, at'[u] = WaitsFor(n)
               PROVE  \A i \in 1 .. Len(entries[u]) : Order[entries[u][i]] <= Order[n]
    BY <1>1 DEF WaitsAbove
  <2>1. at[u] = WaitsFor(n)
    BY <1>1, PlacesDiffer DEF LockInv, LockType
  <2> QED
    BY <2>1 DEF LockInv, WaitsAbove
<1> QED
  BY <1>3, <1>4, <1>5, <1>6 DEF LockInv

LEMMA ForgetSound ==
    ASSUME LockInv, NEW t \in Thread, NEW m \in Mutex, Forget(t, m)
    PROVE  LockInv'
<1> DEFINE r == RemoveFirst(entries[t], m)
<1>1. /\ at[t] = Forgets(m) /\ entries[t] \in Seq(Mutex)
      /\ entries' = [entries EXCEPT ![t] = r]
      /\ at' = [at EXCEPT ![t] = Running] /\ UNCHANGED <<owner, depth>>
  BY DEF Forget, LockInv, LockType
<1>2. \E i \in 1 .. Len(entries[t]) : entries[t][i] = m
  <2>1. Times(entries[t], m) = Held(t, m) + 1
    BY <1>1 DEF LockInv, EntriesTrue, One
  <2>2. Held(t, m) \in Nat
    BY DEF LockInv, LockType, Held
  <2> QED
    BY <1>1, <2>1, <2>2, TimesPositive
<1>3. r \in Seq(Mutex) /\ \A n \in Mutex : Times(r, n) = Times(entries[t], n) - One(m = n)
  BY <1>1, <1>2, TimesRemove
<1> HIDE DEF r
<1>4. LockType'
  BY <1>1, <1>3 DEF LockInv, LockType, Places
<1>5. DepthOfOwner'
  BY <1>1 DEF LockInv, DepthOfOwner
<1>6. EntriesTrue'
  <2> SUFFICES ASSUME NEW u \in Thread, NEW n \in Mutex
               PROVE  Times(entries'[u], n)
                         = Held(u, n)' + One(at'[u] \in {WaitsFor(n), Forgets(n)})
    BY DEF EntriesTrue
  <2>1. Times(entries[u], n) = Held(u, n) + One(at[u] \in {WaitsFor(n), Forgets(n)})
    BY DEF LockInv, EntriesTrue
  <2>2. Held(u, n)' = Held(u, n) /\ Held(u, n) \in Nat
    BY <1>1 DEF LockInv, LockType, Held
  <2>3. CASE u # t
    BY <1>1, <2>1, <2>2, <2>3 DEF LockInv, LockType
  <2>4. CASE u = t
    <3>1. entries'[u] = r /\ at'[u] = Running
      BY <1>1, <2>4 DEF LockInv, LockType
    <3>2. One(at[u] \in {WaitsFor(n), Forgets(n)}) = One(m = n)
      BY <1>1, <2>4, PlacesDiffer DEF One
    <3>3. One(at'[u] \in {WaitsFor(n), Forgets(n)}) = 0
      BY <3>1, PlacesDiffer DEF One
    <3>4. One(m = n) \in Nat
      BY DEF One
    <3> QED
      BY <1>3, <2>1, <2>2, <2>4, <3>1, <3>2, <3>3, <3>4
  <2> QED
    BY <2>3, <2>4
<1>7. WaitsAbove'
  <2> SUFFICES ASSUME NEW u \in Thread, NEW n \in Mutex, at'[u] = WaitsFor(n)
               PROVE  \A i \in 1 .. Len(entries'[u]) : Order[entries'[u][i]] <= Order[n]
    BY DEF WaitsAbove
  <2>1. u # t
    BY <1>1, PlacesDiffer DEF LockInv, LockType
  <2> QED
    BY <1>1, <2>1 DEF LockInv, LockType, WaitsAbove
<1> QED
  BY <1>4, <1>5, <1>6, <1>7 DEF LockInv

LEMMA LockInvNext == LockInv /\ [LockNext]_lockVars => LockInv'
<1>1. ASSUME LockInv, NEW t \in Thread, NEW m \in Mutex, LockStep(t, m)
      PROVE  LockInv'
  BY <1>1, AskSound, RefuseSound, ObtainSound, ReleaseSound, ForgetSound DEF LockStep
<1>2. ASSUME LockInv, UNCHANGED lockVars
      PROVE  LockInv'
  BY <1>2 DEF LockInv, LockType, DepthOfOwner, EntriesTrue, WaitsAbove, Held, lockVars
<1> QED
  BY <1>1, <1>2 DEF LockNext

-----------------------------------------------------------------------------
\* Among threads that wait for each other's mutexes the orders would go up for ever: each
\* waits for a mutex that the next one has, and the next waits above all it has.
LEMMA NoCircle ==
    ASSUME LockInv, DistinctOrders
    PROVE  NoCircularWait
<1> SUFFICES ASSUME NEW S \in SUBSET Thread, S # {},
                    \A t \in S : Waiting(t) /\ owner[at[t].mutex] \in S \ {t}
             PROVE  FALSE
  BY DEF NoCircularWait
<1> DEFINE W(t) == at[t].mutex
           I == {MaxOrder - Order[W(t)] : t \in S}
<1>1. \A t \in S : W(t) \in Mutex /\ at[t] = WaitsFor(W(t))
  <2> TAKE t \in S
  <2>1. at[t] \in Places /\ at[t].in = "lock"
    BY DEF Waiting, LockInv, LockType
  <2>2. Running.in # "lock" /\ \A m \in Mutex : Forgets(m).in # "lock"
    BY DEF Running, Forgets
  <2>3. PICK m \in Mutex : at[t] = WaitsFor(m)
    BY <2>1, <2>2 DEF Places
  <2>4. W(t) = m
    BY <2>3 DEF WaitsFor
  <2> QED
    BY <2>3, <2>4
<1>2. \A m \in Mutex : Order[m] \in 0 .. MaxOrder /\ MaxOrder \in Nat
  BY OrderAssumption
<1>3. ASSUME NEW t \in S
      PROVE  owner[W(t)] \in S /\ Order[W(t)] < Order[W(owner[W(t)])]
  <2> DEFINE u == owner[W(t)]
  <2>1. u \in S /\ u # t /\ u \in Thread /\ W(t) \in Mutex /\ W(u) \in Mutex
    BY <1>1
  <2>2. Times(entries[u], W(t)) > 0
    <3>1. Held(u, W(t)) > 0 /\ Held(u, W(t)) \in Nat
      BY <2>1, ThreadAssumption DEF Held, LockInv, LockType, DepthOfOwner
    <3> DEFINE enters == at[u] \in {WaitsFor(W(t)), Forgets(W(t))}
    <3>2. Times(entries[u], W(t)) = Held(u, W(t)) + One(enters)
      BY <2>1 DEF LockInv, EntriesTrue
    <3>3. One(enters) \in Nat
      BY DEF One
    <3> QED
      BY <3>1, <3>2, <3>3
  <2>3. entries[u] \in Seq(Mutex)
    BY <2>1 DEF LockInv, LockType
  <2>4. PICK i \in 1 .. Len(entries[u]) : entries[u][i] = W(t)
    BY <2>2, <2>3, TimesPositive
  <2>5. Order[W(t)] <= Order[W(u)]
    BY <1>1, <2>1, <2>4 DEF LockInv, WaitsAbove
  <2>6. Order[W(t)] # Order[W(u)]
    <3> SUFFICES ASSUME Order[W(t)] = Order[W(u)] PROVE FALSE
      OBVIOUS
    <3>1. W(t) = W(u)
      BY <2>1 DEF DistinctOrders
    <3>2. owner[W(u)] # u
      BY <2>1
    <3> QED
      BY <3>1, <3>2
  <2> QED
    BY <1>2, <2>1, <2>5, <2>6
<1>4. I \subseteq Nat /\ I # {}
  BY <1>1, <1>2
<1>5. PICK x \in I : \A y \in I : x <= y
  <2> DEFINE less == {ss \in Nat \X Nat : ss[1] < ss[2]}
  <2>1. IsWellFoundedOn(less, Nat)
    BY Zenon, NatLessThanWellFounded DEF OpToRel
  <2> HIDE DEF I
  <2>2. PICK x \in I : \A y \in I : <<y, x>> \notin less
    BY <1>4, <2>1, WFMin
  <2>3. \A y \in I : x <= y
    <3> TAKE y \in I
    <3>1. x \in Nat /\ y \in Nat
      BY <1>4
    <3>2. y < x => <<y, x>> \in less
      BY <3>1
    <3> QED
      BY <2>2, <3>1, <3>2
  <2> QED
    BY <2>3
<1>6. PICK t \in S : x = MaxOrder - Order[W(t)]
  BY <1>5
<1> DEFINE u == owner[W(t)]
<1>7. u \in S /\ Order[W(t)] < Order[W(u)]
  BY <1>3
<1>8. MaxOrder - Order[W(u)] \in I
  BY <1>7
<1>9. x <= MaxOrder - Order[W(u)]
  BY <1>5, <1>8
<1>10. Order[W(t)] \in Nat /\ Order[W(u)] \in Nat /\ MaxOrder \in Nat
  BY <1>1, <1>2, <1>7
<1> QED
  BY <1>6, <1>7, <1>9, <1>10

-----------------------------------------------------------------------------
\* The list, its iterators and their users take mutexes in the way of OrderedMutex only.
LEMMA ListLocks == Init => LockInit
BY DEF Init

LEMMA ListStepLocks == [ListNext]_vars => [LockNext]_lockVars
<1> SUFFICES ASSUME [ListNext]_vars PROVE [LockNext]_lockVars
  OBVIOUS
<1>1. CASE UNCHANGED vars
  BY <1>1 DEF vars
<1>2. ASSUME NEW t \in Thread, UserCall(t) PROVE LockNext
  BY <1>2, ListAssumption DEF UserCall, BeginCall, LockNext, LockStep
<1>3. ASSUME NEW t \in Thread, GetGuard(t) \/ EndGuard(t) \/ EndCall(t) PROVE LockNext
  BY <1>3, ListAssumption DEF GetGuard, EndGuard, EndCall, LockNext, LockStep
<1>4. ASSUME NEW t \in Thread,
             \/ \E x \in Item : AddItem(t, x) \/ RemoveItem(t, x)
             \/ MakeIterator(t) \/ NextItem(t)
      PROVE  UNCHANGED lockVars
  BY <1>4 DEF AddItem, RemoveItem, MakeIterator, NextItem, InCall
<1>5. ASSUME NEW t \in Thread, NEW m \in Mutex, UserLock(t, m) PROVE LockNext
  BY <1>5 DEF UserLock, LockNext
<1> QED
  BY <1>1, <1>2, <1>3, <1>4, <1>5 DEF ListNext

LEMMA LocksInvariant == Spec => []LockInv
BY ListLocks, ListStepLocks, LockInvInit, LockInvNext, PTL DEF Spec

\* The entries of the monitor are the locks: for any number of threads and mutexes, and
\* however often a thread takes one of them again.
THEOREM MonitorIsTrue == Spec => []MonitorTrue
<1>1. LockInv => MonitorTrue
  BY DEF LockInv, EntriesTrue, MonitorTrue, Held, Entered, Times, Where, One
<1> QED
  BY <1>1, LocksInvariant, PTL

\* If no two mutexes have the same order, threads never wait for each other in a circle.
THEOREM NoDeadlock ==
    ASSUME DistinctOrders
    PROVE  Spec => []NoCircularWait
<1>1. LockInv => NoCircularWait
  BY NoCircle
<1> QED
  BY <1>1, LocksInvariant, PTL

-----------------------------------------------------------------------------
(* The iterator.                                                           *)

\* How often an item is among those that were returned.
LEMMA ReturnedType ==
    ASSUME ListTypeOK, NEW t \in Thread, NEW x
    PROVE  Returned(t, x) \in Nat
<1>1. got[t] \in Seq(Item)
  BY DEF ListTypeOK
<1>2. IsFiniteSet(1 .. Len(got[t])) /\ DOMAIN got[t] = 1 .. Len(got[t])
  BY <1>1, FS_Interval
<1>3. IsFiniteSet({i \in DOMAIN got[t] : got[t][i] = x})
  BY <1>2, FS_Subset
<1> QED
  BY <1>3, FS_CardinalityType DEF Returned

LEMMA ReturnedOneMore ==
    ASSUME ListTypeOK, NEW t \in Thread, NEW x, NEW y \in Item,
           got'[t] = Append(got[t], y)
    PROVE  Returned(t, x)' = Returned(t, x) + One(y = x)
<1> DEFINE g == got[t]
           k == Len(g) + 1
           before == {i \in DOMAIN g : g[i] = x}
           after == {i \in DOMAIN got'[t] : got'[t][i] = x}
<1>1. g \in Seq(Item)
  BY DEF ListTypeOK
<1>2. /\ DOMAIN g = 1 .. Len(g) /\ Len(g) \in Nat
      /\ DOMAIN got'[t] = 1 .. k /\ got'[t][k] = y
      /\ \A i \in 1 .. Len(g) : got'[t][i] = g[i]
  BY <1>1
<1> HIDE DEF g
<1>3. after = IF y = x THEN before \cup {k} ELSE before
  BY <1>2
<1>4. k \notin before /\ IsFiniteSet(before)
  <2>1. IsFiniteSet(1 .. Len(g))
    <3>1. 1 \in Int /\ Len(g) \in Int
      BY <1>2
    <3> QED
      BY <3>1, FS_Interval
  <2>2. IsFiniteSet(before)
    BY <1>2, <2>1, FS_Subset
  <2> QED
    BY <1>2, <2>2
<1> HIDE DEF before, after
<1>5. Cardinality(before \cup {k}) = Cardinality(before) + 1
  BY <1>4, FS_AddElement
<1>6. Cardinality(before) \in Nat
  BY <1>4, FS_CardinalityType
<1>7. Cardinality(after) = Cardinality(before) + One(y = x)
  BY <1>3, <1>5, <1>6 DEF One
<1> QED
  BY <1>7 DEF Returned, before, after, g

\* Where GetNext goes from position n: to the first element there or behind that
\* has an item, or to the end.
LEMMA GetNextGoes ==
    ASSUME ListTypeOK, NEW n \in 0 .. Len(list)
    PROVE  LET g == GetNext(n)
           IN  \/ /\ g = [item |-> NoItem, next |-> 0]
                  /\ n # 0 => \A i \in DOMAIN list : i >= n => list[i] = NoItem
               \/ /\ n # 0
                  /\ \E j \in DOMAIN list :
                        /\ j >= n /\ list[j] # NoItem
                        /\ \A i \in DOMAIN list :
                              i >= n /\ list[i] # NoItem => i >= j
                        /\ g = [item |-> list[j],
                                next |-> IF j = Len(list) THEN 0 ELSE j + 1]
<1> DEFINE items == {i \in DOMAIN list : i >= n /\ list[i] # NoItem}
<1>1. DOMAIN list \subseteq Nat
  BY DEF ListTypeOK
<1>2. CASE n = 0 \/ items = {}
  BY <1>2 DEF GetNext
<1>3. CASE n # 0 /\ items # {}
  <2>1. Min(items) \in items /\ \A i \in items : Min(items) <= i
    BY <1>1, <1>3, MinOf
  <2>2. GetNext(n) = [item |-> list[Min(items)],
                      next |-> IF Min(items) = Len(list) THEN 0
                                                         ELSE Min(items) + 1]
    BY <1>3 DEF GetNext
  <2>3. \A i \in DOMAIN list : i >= n /\ list[i] # NoItem => i >= Min(items)
    BY <1>1, <2>1
  <2> QED
    BY <1>3, <2>1, <2>2, <2>3
<1> QED
  BY <1>2, <1>3

\* The iterator of t after it has gone on from position n, if it was on track
\* there: count is how often an item has been returned, and each item that
\* stays and is before n has been returned.
LEMMA IteratorMoves ==
    ASSUME ListTypeOK, OneElement, NEW n \in 0 .. Len(list), NEW t \in Thread,
           NEW S, NoItem \notin S, NEW count,
           \A i \in DOMAIN list : list[i] \in S =>
              count[list[i]] = IF n = 0 \/ i < n THEN 1 ELSE 0
    PROVE  LET g == GetNext(n)
           IN  /\ g.item \in Item \cup {NoItem} /\ g.next \in 0 .. Len(list)
               /\ g \in [item : Item \cup {NoItem}, next : Nat]
               /\ g.item = NoItem => g.next = 0
               /\ \A i \in DOMAIN list : list[i] \in S =>
                     count[list[i]] + (IF g.item = list[i] THEN 1 ELSE 0)
                       = IF g.next = 0 \/ i < g.next THEN 1 ELSE 0
<1> DEFINE g == GetNext(n)
<1>1. /\ Len(list) \in Nat /\ DOMAIN list = 1 .. Len(list)
      /\ \A i \in DOMAIN list : list[i] \in Item \cup {NoItem}
  BY DEF ListTypeOK
<1>2. CASE /\ g = [item |-> NoItem, next |-> 0]
           /\ n # 0 => \A i \in DOMAIN list : i >= n => list[i] = NoItem
  <2>1. \A i \in DOMAIN list : list[i] \in S =>
           list[i] # NoItem /\ (n = 0 \/ i < n)
    BY <1>1, <1>2, ItemAssumption
  <2> QED
    BY <1>1, <1>2, <2>1
<1>3. ASSUME n # 0, NEW j \in DOMAIN list, j >= n, list[j] # NoItem,
             \A i \in DOMAIN list : i >= n /\ list[i] # NoItem => i >= j,
             g = [item |-> list[j],
                  next |-> IF j = Len(list) THEN 0 ELSE j + 1]
      PROVE  /\ g.item \in Item \cup {NoItem} /\ g.next \in 0 .. Len(list)
             /\ g \in [item : Item \cup {NoItem}, next : Nat]
             /\ g.item = NoItem => g.next = 0
             /\ \A i \in DOMAIN list : list[i] \in S =>
                   count[list[i]] + (IF g.item = list[i] THEN 1 ELSE 0)
                     = IF g.next = 0 \/ i < g.next THEN 1 ELSE 0
  <2> HIDE DEF g
  <2>1. g.item = list[j] /\ g.next = IF j = Len(list) THEN 0 ELSE j + 1
    BY <1>3
  <2>2. g.next \in 0 .. Len(list)
    BY <1>1, <2>1
  <2>3. g \in [item : Item \cup {NoItem}, next : Nat]
    BY <1>1, <1>3
  <2>4. ASSUME NEW i \in DOMAIN list, list[i] \in S
        PROVE  count[list[i]] + (IF g.item = list[i] THEN 1 ELSE 0)
                 = IF g.next = 0 \/ i < g.next THEN 1 ELSE 0
    <3>1. list[i] # NoItem
      BY <2>4, ItemAssumption
    <3>2. list[i] = list[j] => i = j
      BY <3>1 DEF OneElement
    <3>3. CASE i < n
      <4>1. count[list[i]] = 1 /\ i # j /\ i < j
        BY <1>1, <1>3, <2>4, <3>3
      <4> QED
        BY <1>1, <2>1, <3>2, <4>1
    <3>4. CASE ~(i < n) /\ i = j
      <4>1. count[list[i]] = 0
        BY <1>1, <1>3, <2>4, <3>4
      <4> QED
        BY <1>1, <2>1, <3>4, <4>1
    <3>5. CASE ~(i < n) /\ i # j
      <4>1. count[list[i]] = 0 /\ i > j
        BY <1>1, <1>3, <2>4, <3>1, <3>5
      <4> QED
        BY <1>1, <2>1, <3>2, <3>5, <4>1
    <3> QED
      BY <3>3, <3>4, <3>5
  <2> QED
    BY <1>1, <1>3, <2>1, <2>2, <2>3, <2>4
<1> QED
  BY <1>2, <1>3, GetNextGoes


-----------------------------------------------------------------------------
\* ListInv is inductive, one lemma for each action that changes the list, an
\* iterator or what a thread is about to add.
LEMMA ListInvInit == Init => ListInv
<1> SUFFICES ASSUME Init PROVE ListInv
  OBVIOUS
<1>1. ListTypeOK
  BY DEF Init, ListTypeOK, Calls
<1>2. OneElement
  BY DEF Init, OneElement, NoCall
<1>3. IteratorOnTrack
  BY DEF Init, IteratorOnTrack, Items
<1> QED
  BY <1>1, <1>2, <1>3 DEF ListInv

\* A step that only changes what a thread uses its Guard for, and starts to add
\* no item that is on the list or is being added.
LEMMA CallChanges ==
    ASSUME ListInv, UNCHANGED <<list, iter, stay, got>>,
           NEW t \in Thread, NEW c \in Calls, call' = [call EXCEPT ![t] = c],
           \A x \in Item : c = <<"add", x>> =>
              x \notin Items /\ \A u \in Thread : call[u] # c
    PROVE  ListInv'
<1>1. ListTypeOK'
  BY DEF ListInv, ListTypeOK
<1>2. OneElement'
  <2>1. Items' = Items
    BY DEF Items
  <2>2. \A u \in Thread : call'[u] = IF u = t THEN c ELSE call[u]
    BY DEF ListInv, ListTypeOK
  <2> QED
    BY <2>1, <2>2, ZenonT(30) DEF ListInv, OneElement
<1>3. IteratorOnTrack'
  BY DEF ListInv, IteratorOnTrack, Items, Returned, Passed
<1> QED
  BY <1>1, <1>2, <1>3 DEF ListInv

\* Add: only a removed element, or a new one at the end, gets the item.
LEMMA AddItemKeeps ==
    ASSUME ListInv, NEW t \in Thread, NEW x \in Item, AddItem(t, x)
    PROVE  ListInv'
<1> DEFINE free == {i \in DOMAIN list : list[i] = NoItem}
<1>1. /\ list \in Seq(Item \cup {NoItem}) /\ DOMAIN list = 1 .. Len(list)
      /\ Len(list) \in Nat
  BY DEF ListInv, ListTypeOK
<1>2. PICK k \in 1 .. Len(list) + 1 :
         /\ k \in DOMAIN list => list[k] = NoItem
         /\ list' \in Seq(Item \cup {NoItem})
         /\ DOMAIN list' = DOMAIN list \cup {k} /\ Len(list) <= Len(list')
         /\ Len(list') \in Nat
         /\ \A i \in DOMAIN list' : list'[i] = IF i = k THEN x ELSE list[i]
  <2>1. CASE free = {}
    <3>1. list' = Append(list, x)
      BY <2>1 DEF AddItem
    <3> WITNESS Len(list) + 1 \in 1 .. Len(list) + 1
    <3> QED
      BY <1>1, <3>1
  <2>2. CASE free # {}
    <3>1. Min(free) \in free /\ free \subseteq DOMAIN list
      <4>1. free \subseteq DOMAIN list /\ free \subseteq Nat
        BY <1>1
      <4> HIDE DEF free
      <4> QED
        BY <2>2, <4>1, MinOf
    <3>2. list' = [list EXCEPT ![Min(free)] = x]
      BY <2>2 DEF AddItem
    <3>3. Min(free) \in 1 .. Len(list) + 1
      BY <1>1, <3>1
    <3> WITNESS Min(free) \in 1 .. Len(list) + 1
    <3> HIDE DEF free
    <3>4. list[Min(free)] = NoItem
      BY <3>1 DEF free
    <3> QED
      BY <1>1, <3>1, <3>2, <3>4
  <2> QED
    BY <2>1, <2>2
<1>3. /\ call[t] = <<"add", x>> /\ call' = [call EXCEPT ![t] = Finished]
      /\ UNCHANGED <<iter, stay, got>>
  BY DEF AddItem, InCall
<1>4. x # NoItem /\ x \notin Items /\ Items' = Items \cup {x}
  <2>1. x # NoItem /\ x \notin Items
    BY <1>3, ItemAssumption DEF ListInv, OneElement
  <2>2. \A y : y \in Items <=> y # NoItem /\ \E i \in DOMAIN list : list[i] = y
    BY DEF Items, ToSet
  <2>3. \A y : y \in Items' <=> y # NoItem /\ \E i \in DOMAIN list' : list'[i] = y
    BY DEF Items, ToSet
  <2> QED
    BY <1>2, <2>1, <2>2, <2>3
<1>5. ListTypeOK'
  BY <1>2, <1>3 DEF ListInv, ListTypeOK, Calls
<1>6. OneElement'
  <2>1. \A i, j \in DOMAIN list' :
           list'[i] = list'[j] /\ list'[i] # NoItem => i = j
    <3>1. \A i \in DOMAIN list' : i # k => i \in DOMAIN list /\ list'[i] = list[i]
      BY <1>2
    <3>2. \A i \in DOMAIN list : list[i] # x
      BY <1>4 DEF Items, ToSet
    <3> QED
      BY <1>2, <3>1, <3>2 DEF ListInv, OneElement
  <2>2. ASSUME NEW u \in Thread, NEW v \in Thread, NEW y \in Item,
               call'[u] = <<"add", y>>
        PROVE  y \notin Items' /\ (call'[v] = <<"add", y>> => u = v)
    <3>1. \A a \in Thread : call'[a] = IF a = t THEN Finished ELSE call[a]
      BY <1>3 DEF ListInv, ListTypeOK
    <3>2. Finished # <<"add", y>>
      BY DEF Finished
    <3>3. u # t /\ call[u] = <<"add", y>>
      BY <2>2, <3>1, <3>2
    <3>4. y # x
      BY <1>3, <3>3 DEF ListInv, OneElement
    <3> QED
      BY <1>4, <3>1, <3>2, <3>3, <3>4, ZenonT(30) DEF ListInv, OneElement
  <2> QED
    BY <2>1, <2>2 DEF OneElement
<1>7. IteratorOnTrack'
  <2> SUFFICES ASSUME NEW u \in Thread
               PROVE  /\ iter[u].next \in 0 .. Len(list')
                      /\ iter[u].item = NoItem => iter[u].next = 0
                      /\ stay[u] \subseteq Items'
                      /\ \A i \in DOMAIN list' : list'[i] \in stay[u] =>
                            Returned(u, list[i])'
                              + (IF iter[u].item = list'[i] THEN 1 ELSE 0)
                              = IF Passed(u, i)' THEN 1 ELSE 0
    BY <1>3 DEF IteratorOnTrack
  <2>1. /\ iter[u].next \in 0 .. Len(list)
        /\ iter[u].item = NoItem => iter[u].next = 0
        /\ stay[u] \subseteq Items
    BY DEF ListInv, IteratorOnTrack
  <2>2. iter[u].next \in 0 .. Len(list')
    BY <1>1, <1>2, <2>1
  <2>3. ASSUME NEW i \in DOMAIN list', list'[i] \in stay[u]
        PROVE  Returned(u, list[i])'
                 + (IF iter[u].item = list'[i] THEN 1 ELSE 0)
                 = IF Passed(u, i)' THEN 1 ELSE 0
    <3>1. i # k
      BY <1>2, <1>4, <2>1, <2>3
    <3>2. i \in DOMAIN list /\ list'[i] = list[i]
      BY <1>2, <3>1
    <3>3. Returned(u, list[i])' = Returned(u, list[i])
      BY <1>3, <3>2 DEF Returned
    <3>4. Passed(u, i)' <=> Passed(u, i)
      BY <1>3 DEF Passed
    <3> QED
      BY <2>3, <3>2, <3>3, <3>4 DEF ListInv, IteratorOnTrack
  <2> QED
    BY <1>4, <2>1, <2>2, <2>3
<1> QED
  BY <1>5, <1>6, <1>7 DEF ListInv

\* Remove: the other elements keep their items.
LEMMA RemoveItemKeeps ==
    ASSUME ListInv, NEW t \in Thread, NEW x \in Item, RemoveItem(t, x)
    PROVE  ListInv'
<1>1. /\ list' = [i \in DOMAIN list |-> IF list[i] = x THEN NoItem ELSE list[i]]
      /\ stay' = [u \in Thread |-> stay[u] \ {x}]
      /\ call' = [call EXCEPT ![t] = Finished]
      /\ UNCHANGED <<iter, got>>
  BY DEF RemoveItem, InCall
<1>2. /\ list \in Seq(Item \cup {NoItem}) /\ DOMAIN list = 1 .. Len(list)
      /\ Len(list) \in Nat
  BY DEF ListInv, ListTypeOK
<1>3. /\ DOMAIN list' = DOMAIN list
      /\ \A i \in DOMAIN list : list'[i] = IF list[i] = x THEN NoItem ELSE list[i]
  BY <1>1
<1>4. list' \in Seq(Item \cup {NoItem}) /\ Len(list') = Len(list)
  <2>1. list' \in [1 .. Len(list) -> Item \cup {NoItem}]
    BY <1>1, <1>2
  <2> QED
    BY <1>2, <2>1
<1>5. Items' = Items \ {x}
  <2>1. \A y : y \in Items <=> y # NoItem /\ \E i \in DOMAIN list : list[i] = y
    BY DEF Items, ToSet
  <2>2. \A y : y \in Items' <=> y # NoItem /\ \E i \in DOMAIN list' : list'[i] = y
    BY DEF Items, ToSet
  <2> QED
    BY <1>3, <2>1, <2>2
<1>6. ListTypeOK'
  BY <1>1, <1>4 DEF ListInv, ListTypeOK, Calls
<1>7. OneElement'
  <2>1. \A i, j \in DOMAIN list' :
           list'[i] = list'[j] /\ list'[i] # NoItem => i = j
    BY <1>3 DEF ListInv, OneElement
  <2>2. \A a \in Thread : call'[a] = IF a = t THEN Finished ELSE call[a]
    BY <1>1 DEF ListInv, ListTypeOK
  <2>3. \A y : Finished # <<"add", y>>
    BY DEF Finished
  <2> QED
    BY <1>5, <2>1, <2>2, <2>3 DEF ListInv, OneElement
<1>8. IteratorOnTrack'
  <2> SUFFICES ASSUME NEW u \in Thread
               PROVE  /\ iter[u].next \in 0 .. Len(list')
                      /\ iter[u].item = NoItem => iter[u].next = 0
                      /\ stay'[u] \subseteq Items'
                      /\ \A i \in DOMAIN list' : list'[i] \in stay'[u] =>
                            Returned(u, list[i])'
                              + (IF iter[u].item = list'[i] THEN 1 ELSE 0)
                              = IF Passed(u, i)' THEN 1 ELSE 0
    BY <1>1 DEF IteratorOnTrack
  <2>1. /\ iter[u].next \in 0 .. Len(list')
        /\ iter[u].item = NoItem => iter[u].next = 0
        /\ stay[u] \subseteq Items /\ stay'[u] = stay[u] \ {x}
    BY <1>1, <1>4 DEF ListInv, IteratorOnTrack
  <2>2. ASSUME NEW i \in DOMAIN list', list'[i] \in stay'[u]
        PROVE  Returned(u, list[i])'
                 + (IF iter[u].item = list'[i] THEN 1 ELSE 0)
                 = IF Passed(u, i)' THEN 1 ELSE 0
    <3>1. i \in DOMAIN list /\ list'[i] # NoItem
      BY <1>3, <2>1, <2>2 DEF Items
    <3>2. list'[i] = list[i] /\ list[i] \in stay[u]
      BY <1>3, <2>1, <2>2, <3>1
    <3>3. Returned(u, list[i])' = Returned(u, list[i])
      BY <1>1, <3>2 DEF Returned
    <3>4. Passed(u, i)' <=> Passed(u, i)
      BY <1>1 DEF Passed
    <3> QED
      BY <3>1, <3>2, <3>3, <3>4 DEF ListInv, IteratorOnTrack
  <2> QED
    BY <1>5, <2>1, <2>2
<1> QED
  BY <1>6, <1>7, <1>8 DEF ListInv

\* The iterator of t moves and the list stays: what is left to show is that the
\* iterator of t is on track.
LEMMA IteratorStepKeeps ==
    ASSUME ListInv, NEW t \in Thread, UNCHANGED list,
           call' = [call EXCEPT ![t] = Finished],
           iter' \in [Thread -> [item : Item \cup {NoItem}, next : Nat]],
           stay' \in [Thread -> SUBSET Item], got' \in [Thread -> Seq(Item)],
           \A u \in Thread \ {t} :
              iter'[u] = iter[u] /\ stay'[u] = stay[u] /\ got'[u] = got[u],
           iter'[t].next \in 0 .. Len(list),
           iter'[t].item = NoItem => iter'[t].next = 0,
           stay'[t] \subseteq Items,
           \A i \in DOMAIN list : list[i] \in stay'[t] =>
              Returned(t, list[i])' + (IF iter'[t].item = list[i] THEN 1 ELSE 0)
                = IF iter'[t].next = 0 \/ i < iter'[t].next THEN 1 ELSE 0
    PROVE  ListInv'
<1>1. Items' = Items
  BY DEF Items
<1>2. ListTypeOK'
  BY DEF ListInv, ListTypeOK, Calls
<1>3. OneElement'
  <2>1. \A a \in Thread : call'[a] = IF a = t THEN Finished ELSE call[a]
    BY DEF ListInv, ListTypeOK
  <2>2. \A y : Finished # <<"add", y>>
    BY DEF Finished
  <2>3. \A i, j \in DOMAIN list' :
           list'[i] = list'[j] /\ list'[i] # NoItem => i = j
    BY DEF ListInv, OneElement
  <2>4. ASSUME NEW a \in Thread, NEW b \in Thread, NEW x \in Item,
               call'[a] = <<"add", x>>
        PROVE  x \notin Items' /\ (call'[b] = <<"add", x>> => a = b)
    <3>1. call[a] = <<"add", x>> /\ (call'[b] = <<"add", x>> => call[b] = <<"add", x>>)
      BY <2>1, <2>2, <2>4, ZenonT(30)
    <3>2. x \notin Items /\ (call[b] = <<"add", x>> => a = b)
      BY <3>1, ZenonT(30) DEF ListInv, OneElement
    <3> QED
      BY <1>1, <3>1, <3>2
  <2> QED
    BY <2>3, <2>4 DEF OneElement
<1>4. IteratorOnTrack'
  <2> SUFFICES ASSUME NEW u \in Thread
               PROVE  /\ iter'[u].next \in 0 .. Len(list')
                      /\ iter'[u].item = NoItem => iter'[u].next = 0
                      /\ stay'[u] \subseteq Items'
                      /\ \A i \in DOMAIN list' : list'[i] \in stay'[u] =>
                            Returned(u, list[i])'
                              + (IF iter'[u].item = list'[i] THEN 1 ELSE 0)
                              = IF Passed(u, i)' THEN 1 ELSE 0
    BY DEF IteratorOnTrack
  <2>1. CASE u = t
    BY <1>1, <2>1 DEF Passed
  <2>2. CASE u # t
    <3>1. iter'[u] = iter[u] /\ stay'[u] = stay[u] /\ got'[u] = got[u]
      BY <2>2
    <3>2. \A i : Passed(u, i)' <=> Passed(u, i)
      BY <3>1 DEF Passed
    <3>3. \A i \in DOMAIN list' : Returned(u, list[i])' = Returned(u, list[i])
      BY <3>1 DEF Returned
    <3> QED
      BY <1>1, <3>1, <3>2, <3>3 DEF ListInv, IteratorOnTrack
  <2> QED
    BY <2>1, <2>2
<1> QED
  BY <1>2, <1>3, <1>4 DEF ListInv

LEMMA MakeIteratorKeeps ==
    ASSUME ListInv, NEW t \in Thread, MakeIterator(t)
    PROVE  ListInv'
<1> DEFINE n == IF list = <<>> THEN 0 ELSE 1
           g == GetNext(n)
           count == [x \in Item |-> 0]
<1>1. /\ call' = [call EXCEPT ![t] = Finished] /\ UNCHANGED list
      /\ iter' = [iter EXCEPT ![t] = g]
      /\ stay' = [stay EXCEPT ![t] = Items]
      /\ got' = [got EXCEPT ![t] = <<>>]
  BY DEF MakeIterator, InCall
<1>2. /\ list \in Seq(Item \cup {NoItem}) /\ Len(list) \in Nat
      /\ DOMAIN list = 1 .. Len(list)
  BY DEF ListInv, ListTypeOK
<1>3. Items \in SUBSET Item
  BY <1>2 DEF Items, ToSet
<1>4. n \in 0 .. Len(list)
  BY <1>2
<1>5. \A i \in DOMAIN list : list[i] \in Items =>
         count[list[i]] = IF n = 0 \/ i < n THEN 1 ELSE 0
  BY <1>2, <1>3
<1> HIDE DEF n
<1>6. /\ g.next \in 0 .. Len(list)
      /\ g \in [item : Item \cup {NoItem}, next : Nat]
      /\ g.item = NoItem => g.next = 0
      /\ \A i \in DOMAIN list : list[i] \in Items =>
            count[list[i]] + (IF g.item = list[i] THEN 1 ELSE 0)
              = IF g.next = 0 \/ i < g.next THEN 1 ELSE 0
  <2> HIDE DEF count
  <2>1. PICK S, c : S = Items /\ c = count
    OBVIOUS
  <2>2. ListTypeOK /\ OneElement /\ NoItem \notin S
    BY <2>1 DEF ListInv, Items
  <2>3. \A i \in DOMAIN list : list[i] \in S =>
           c[list[i]] = IF n = 0 \/ i < n THEN 1 ELSE 0
    BY <1>5, <2>1
  <2> QED
    BY <1>4, <2>1, <2>2, <2>3, IteratorMoves
<1> HIDE DEF g
<1>7. /\ iter' \in [Thread -> [item : Item \cup {NoItem}, next : Nat]]
      /\ stay' \in [Thread -> SUBSET Item] /\ got' \in [Thread -> Seq(Item)]
      /\ iter'[t] = g /\ stay'[t] = Items /\ got'[t] = <<>>
      /\ \A u \in Thread \ {t} :
            iter'[u] = iter[u] /\ stay'[u] = stay[u] /\ got'[u] = got[u]
  <2>1. <<>> \in Seq(Item)
    OBVIOUS
  <2> QED
    BY <1>1, <1>3, <1>6, <2>1 DEF ListInv, ListTypeOK
<1>8. \A x : Returned(t, x)' = 0
  <2>1. \A x : {i \in DOMAIN got'[t] : got'[t][i] = x} = {}
    BY <1>7
  <2> QED
    BY <2>1, FS_EmptySet DEF Returned
<1>9. \A i \in DOMAIN list : list[i] \in Items =>
         Returned(t, list[i])' + (IF g.item = list[i] THEN 1 ELSE 0)
           = IF g.next = 0 \/ i < g.next THEN 1 ELSE 0
  <2>1. \A i \in DOMAIN list : Returned(t, list[i])' = 0
    BY <1>1, <1>8
  <2>2. \A x \in Items : count[x] = 0
    BY <1>3
  <2> QED
    BY <1>6, <2>1, <2>2
<1> QED
  BY <1>1, <1>6, <1>7, <1>9, IteratorStepKeeps

LEMMA NextItemKeeps ==
    ASSUME ListInv, NEW t \in Thread, NextItem(t)
    PROVE  ListInv'
<1> DEFINE n == iter[t].next
           g == GetNext(n)
           last == iter[t].item
           count == [x \in Item |-> Returned(t, x) + One(last = x)]
<1>1. /\ call' = [call EXCEPT ![t] = Finished] /\ UNCHANGED <<list, stay>>
      /\ iter' = [iter EXCEPT ![t] = g]
      /\ got' = [got EXCEPT ![t] = IF last = NoItem THEN got[t]
                                   ELSE Append(got[t], last)]
  BY DEF NextItem, InCall
<1>2. /\ list \in Seq(Item \cup {NoItem}) /\ Len(list) \in Nat
      /\ DOMAIN list = 1 .. Len(list)
      /\ stay[t] \in SUBSET Item /\ stay[t] \subseteq Items
      /\ n \in 0 .. Len(list)
      /\ last \in Item \cup {NoItem}
  BY DEF ListInv, ListTypeOK, IteratorOnTrack
<1>3. \A i \in DOMAIN list : list[i] \in stay[t] =>
         count[list[i]] = IF n = 0 \/ i < n THEN 1 ELSE 0
  <2> SUFFICES ASSUME NEW i \in DOMAIN list, list[i] \in stay[t]
               PROVE  count[list[i]] = IF n = 0 \/ i < n THEN 1 ELSE 0
    OBVIOUS
  <2>1. count[list[i]] = Returned(t, list[i]) + One(last = list[i])
    BY <1>2
  <2>2. Returned(t, list[i]) + (IF last = list[i] THEN 1 ELSE 0)
          = IF Passed(t, i) THEN 1 ELSE 0
    BY DEF ListInv, IteratorOnTrack
  <2> QED
    BY <2>1, <2>2 DEF One, Passed
<1> HIDE DEF n, last
<1>4. \A x \in Item : count[x] = Returned(t, x) + One(last = x)
  OBVIOUS
<1> HIDE DEF count
<1>5. /\ g.next \in 0 .. Len(list)
      /\ g \in [item : Item \cup {NoItem}, next : Nat]
      /\ g.item = NoItem => g.next = 0
      /\ \A i \in DOMAIN list : list[i] \in stay[t] =>
            count[list[i]] + (IF g.item = list[i] THEN 1 ELSE 0)
              = IF g.next = 0 \/ i < g.next THEN 1 ELSE 0
  <2>1. PICK S, c : S = stay[t] /\ c = count
    OBVIOUS
  <2>2. ListTypeOK /\ OneElement /\ NoItem \notin S
    BY <1>2, <2>1 DEF ListInv, Items
  <2>3. \A i \in DOMAIN list : list[i] \in S =>
           c[list[i]] = IF n = 0 \/ i < n THEN 1 ELSE 0
    BY <1>3, <2>1
  <2> QED
    BY <1>2, <2>1, <2>2, <2>3, IteratorMoves, SMTT(30)
<1> HIDE DEF g
<1>6. got[t] \in Seq(Item) /\ got \in [Thread -> Seq(Item)]
  BY DEF ListInv, ListTypeOK
<1>7. /\ got'[t] \in Seq(Item)
      /\ got'[t] = IF last = NoItem THEN got[t] ELSE Append(got[t], last)
  BY <1>1, <1>2, <1>6
<1>8. /\ iter' \in [Thread -> [item : Item \cup {NoItem}, next : Nat]]
      /\ iter'[t] = g
      /\ \A u \in Thread \ {t} : iter'[u] = iter[u]
  BY <1>1, <1>5 DEF ListInv, ListTypeOK
<1>9. /\ got' \in [Thread -> Seq(Item)]
      /\ \A u \in Thread \ {t} : got'[u] = got[u]
  <2>1. DOMAIN got' = Thread
    BY <1>1, <1>6
  <2>2. \A u \in Thread \ {t} : got'[u] = got[u]
    BY <1>1, <1>6
  <2>3. got' = [u \in Thread |-> got'[u]]
    BY <1>1, <1>6
  <2>4. \A u \in Thread : got'[u] \in Seq(Item)
    BY <1>6, <1>7, <2>2
  <2> QED
    BY <2>2, <2>3, <2>4
<1>10. ASSUME NEW x \in Item
       PROVE  Returned(t, x)' = count[x]
  <2>1. Returned(t, x) \in Nat
    BY ReturnedType DEF ListInv
  <2>2. CASE last = NoItem
    <3>1. Returned(t, x)' = Returned(t, x) /\ last # x
      BY <1>7, <2>2, ItemAssumption DEF Returned
    <3> QED
      BY <1>4, <2>1, <3>1 DEF One
  <2>3. CASE last # NoItem
    <3>1. last \in Item /\ got'[t] = Append(got[t], last)
      BY <1>2, <1>7, <2>3
    <3>2. Returned(t, x)' = Returned(t, x) + One(last = x)
      BY <3>1, ReturnedOneMore DEF ListInv
    <3> QED
      BY <1>4, <3>2
  <2> QED
    BY <2>2, <2>3
<1>11. stay' = stay /\ list' = list
  BY <1>1
<1>12. \A i \in DOMAIN list : list[i] \in stay'[t] =>
         Returned(t, list[i])' + (IF g.item = list[i] THEN 1 ELSE 0)
           = IF g.next = 0 \/ i < g.next THEN 1 ELSE 0
  <2> SUFFICES ASSUME NEW i \in DOMAIN list, list[i] \in stay[t]
               PROVE  Returned(t, list[i])' + (IF g.item = list[i] THEN 1 ELSE 0)
                        = IF g.next = 0 \/ i < g.next THEN 1 ELSE 0
    BY <1>11
  <2>1. PICK x \in Item : x = list[i]
    BY <1>2
  <2>2. Returned(t, list[i])' = count[x]
    BY <1>10, <1>11, <2>1
  <2> QED
    BY <1>5, <2>1, <2>2
<1> QED
  <2>1. /\ stay' \in [Thread -> SUBSET Item] /\ stay'[t] \subseteq Items
        /\ \A u \in Thread \ {t} : stay'[u] = stay[u]
    BY <1>2, <1>11 DEF ListInv, ListTypeOK
  <2>2. /\ call' = [call EXCEPT ![t] = Finished]
        /\ iter'[t].next \in 0 .. Len(list)
        /\ iter'[t].item = NoItem => iter'[t].next = 0
    BY <1>1, <1>5, <1>8
  <2>3. \A u \in Thread \ {t} :
           iter'[u] = iter[u] /\ stay'[u] = stay[u] /\ got'[u] = got[u]
    BY <1>8, <1>9, <2>1
  <2>4. \A i \in DOMAIN list : list[i] \in stay'[t] =>
           Returned(t, list[i])' + (IF iter'[t].item = list[i] THEN 1 ELSE 0)
             = IF iter'[t].next = 0 \/ i < iter'[t].next THEN 1 ELSE 0
    BY <1>8, <1>12
  <2> QED
    BY <1>8, <1>9, <1>11, <2>1, <2>2, <2>3, <2>4, IteratorStepKeeps

LEMMA ListInvNext == ListInv /\ [ListNext]_vars => ListInv'
<1> SUFFICES ASSUME ListInv, [ListNext]_vars PROVE ListInv'
  OBVIOUS
<1>1. ASSUME UNCHANGED listVars PROVE ListInv'
  <2>1. ListTypeOK' /\ OneElement'
    BY <1>1 DEF listVars, ListInv, ListTypeOK, OneElement, Items
  <2>2. IteratorOnTrack'
    BY <1>1 DEF listVars, ListInv, IteratorOnTrack, Items, Returned, Passed
  <2> QED
    BY <2>1, <2>2 DEF ListInv
<1>2. ASSUME NEW t \in Thread, UserCall(t) PROVE ListInv'
  <2>1. PICK c \in Calls \ {NoCall, Finished} :
           /\ c[1] = "add" => c[2] \notin Items /\ \A u \in Thread : call[u] # c
           /\ BeginCall(t, c)
    BY <1>2 DEF UserCall
  <2>2. CASE UNCHANGED call
    BY <1>1, <2>1, <2>2 DEF BeginCall, listVars
  <2>3. CASE call' = [call EXCEPT ![t] = c]
    <3>1. \A x \in Item : c = <<"add", x>> =>
             x \notin Items /\ \A u \in Thread : call[u] # c
      BY <2>1
    <3> QED
      BY <2>1, <2>3, <3>1, CallChanges DEF BeginCall
  <2> QED
    BY <2>1, <2>2, <2>3 DEF BeginCall
<1>3. ASSUME NEW t \in Thread, GetGuard(t) \/ EndGuard(t) PROVE ListInv'
  BY <1>1, <1>3 DEF GetGuard, EndGuard
<1>4. ASSUME NEW t \in Thread, EndCall(t) PROVE ListInv'
  <2>1. NoCall \in Calls /\ \A x : NoCall # <<"add", x>>
    BY DEF NoCall, Calls
  <2> QED
    BY <1>4, <2>1, CallChanges DEF EndCall
<1>5. ASSUME NEW t \in Thread, NEW m \in Mutex, UserLock(t, m) PROVE ListInv'
  BY <1>1, <1>5 DEF UserLock
<1>6. CASE UNCHANGED vars
  BY <1>1, <1>6 DEF vars
<1> QED
  BY <1>2, <1>3, <1>4, <1>5, <1>6, AddItemKeeps, RemoveItemKeeps,
     MakeIteratorKeeps, NextItemKeeps
  DEF ListNext

\* In every state that can be reached each item is in one element of the list,
\* and each iterator has returned, once, exactly those of the items that stay
\* whose elements it has passed: for any number of threads that add, remove and
\* iterate between each other's calls.
THEOREM ListInvariance == Spec => []ListInv
BY ListInvInit, ListInvNext, PTL DEF Spec

\* An item that is on the list from the creation of an iterator until next()
\* returns none is returned exactly once, and never twice before that, whatever
\* other threads add and remove and whichever elements are used again.
THEOREM IterationIsComplete == Spec => []IterationComplete
<1>1. ListInv => IterationComplete
  <2> SUFFICES ASSUME ListInv, NEW t \in Thread, NEW x \in stay[t]
               PROVE  /\ Returned(t, x) <= 1
                      /\ iter[t].item = NoItem => Returned(t, x) = 1
    BY DEF IterationComplete
  <2>1. x \in Items /\ x \in Item
    BY DEF ListInv, ListTypeOK, IteratorOnTrack
  <2>2. PICK i \in DOMAIN list : list[i] = x
    BY <2>1 DEF Items, ToSet
  <2>3. Returned(t, x) + (IF iter[t].item = x THEN 1 ELSE 0)
          = IF Passed(t, i) THEN 1 ELSE 0
    BY <2>2 DEF ListInv, IteratorOnTrack
  <2>4. Returned(t, x) \in Nat
    BY ReturnedType DEF ListInv
  <2>5. iter[t].item = NoItem => Passed(t, i) /\ iter[t].item # x
    BY <2>1, ItemAssumption DEF ListInv, IteratorOnTrack, Passed
  <2> QED
    BY <2>3, <2>4, <2>5
<1> QED
  BY <1>1, ListInvariance, PTL

-----------------------------------------------------------------------------
(***************************************************************************)
(* ArchiveServer, for any number of clients and of results: no result of a *)
(* monitor is lost, and a client that is connected has a channel of its own. *)
(***************************************************************************)

Monitors ==
    [thread : {"none", "new", "begin", "run", "notify", "ended"}, added : Nat,
     queue : Seq(Nat), events : Nat, got : Seq(Nat), stop : {"no", "waits", "done"}]

ServerType ==
    /\ up \in BOOLEAN
    /\ client \in [Client -> Clients]
    /\ mon \in [Client -> Monitors]

-----------------------------------------------------------------------------
\* What NoneLost says of one monitor.
Lossless(m) ==
    /\ m.got \o m.queue = [i \in 1..m.added |-> i]
    /\ Len(m.queue) <= m.events + (IF m.thread = "notify" THEN 1 ELSE 0)

LEMMA NoMonitorSound == NoMonitor \in Monitors /\ Lossless(NoMonitor)
<1>1. <<>> \in Seq(Nat) /\ Len(<<>>) = 0 /\ <<>> \o <<>> = <<>>
  BY EmptySeq, ConcatEmptySeq
<1>2. [i \in 1..0 |-> i] = <<>>
  OBVIOUS
<1> QED
  BY <1>1, <1>2 DEF NoMonitor, Monitors, Lossless

\* Three facts about sequences: an element may be appended before or after a
\* concatenation, ...
LEMMA AppendToConcat ==
    ASSUME NEW s \in Seq(Nat), NEW t \in Seq(Nat), NEW e \in Nat
    PROVE  s \o Append(t, e) = (s \o t) \o <<e>>
<1>1. Append(t, e) = t \o <<e>> /\ <<e>> \in Seq(Nat)
  BY AppendIsConcat
<1> QED
  BY <1>1, ConcatAssociative

\* ... the numbers up to n are followed by n + 1, ...
LEMMA Counting ==
    ASSUME NEW n \in Nat
    PROVE  [i \in 1..n |-> i] \o <<n + 1>> = [i \in 1..(n + 1) |-> i]
<1> DEFINE all == [i \in 1..n |-> i]
           last == <<n + 1>>
           more == [i \in 1..(n + 1) |-> i]
<1>1. all \in Seq(Nat) /\ Len(all) = n /\ \A i \in 1..n : all[i] = i
  OBVIOUS
<1>2. more \in Seq(Nat) /\ Len(more) = n + 1 /\ \A i \in 1..(n + 1) : more[i] = i
  OBVIOUS
<1>3. last \in Seq(Nat) /\ Len(last) = 1 /\ last[1] = n + 1
  OBVIOUS
<1> HIDE DEF all, last, more
<1>4. /\ all \o last \in Seq(Nat) /\ Len(all \o last) = Len(all) + Len(last)
      /\ \A i \in 1..Len(all) + Len(last) :
            (all \o last)[i] = IF i <= Len(all) THEN all[i] ELSE last[i - Len(all)]
  BY <1>1, <1>3, ConcatProperties, Zenon
<1>5. \A i \in 1..(n + 1) : (all \o last)[i] = more[i]
  BY <1>1, <1>2, <1>3, <1>4
<1>6. Len(all \o last) = Len(more) /\ \A i \in 1..Len(all \o last) : (all \o last)[i] = more[i]
  BY <1>1, <1>2, <1>3, <1>4, <1>5
<1>7. all \o last = more
  BY <1>2, <1>4, <1>6, SeqEqual
<1> QED
  BY <1>7 DEF all, last, more

\* ... and a head may be moved from one sequence to the one before.
LEMMA MoveHead ==
    ASSUME NEW s \in Seq(Nat), NEW t \in Seq(Nat), t # <<>>
    PROVE  Append(s, Head(t)) \o Tail(t) = s \o t
<1> DEFINE first == <<Head(t)>>
           rest == Tail(t)
           both == first \o rest
<1>1. /\ Head(t) \in Nat /\ rest \in Seq(Nat) /\ Len(rest) = Len(t) - 1
      /\ \A i \in 1..Len(rest) : rest[i] = t[i + 1]
  BY HeadTailProperties
<1>2. Head(t) = t[1] /\ Len(t) \in Nat
  OBVIOUS
<1>3. first \in Seq(Nat) /\ Len(first) = 1 /\ first[1] = Head(t)
  BY <1>1
<1>4. Append(s, Head(t)) = s \o first
  BY <1>1, AppendIsConcat DEF first
<1> HIDE DEF first, rest
<1>5. first \in Seq(Nat) /\ rest \in Seq(Nat)
  BY <1>1, <1>3
<1>6. /\ both \in Seq(Nat) /\ Len(both) = Len(first) + Len(rest)
      /\ \A i \in 1..Len(first) + Len(rest) :
            both[i] = IF i <= Len(first) THEN first[i] ELSE rest[i - Len(first)]
  BY <1>5, ConcatProperties, Zenon
<1>7. (s \o first) \o rest = s \o (first \o rest)
  BY <1>5, ConcatAssociative, SMTT(30)
<1> HIDE DEF both
<1>8. Len(both) = Len(t) /\ \A i \in 1..Len(both) : both[i] = t[i]
  BY <1>1, <1>2, <1>3, <1>6, SMTT(30)
<1>9. both = t
  BY <1>6, <1>8, SeqEqual
<1> QED
  BY <1>4, <1>7, <1>9 DEF rest, both

\* The queue grows at its end, and the order stays that of the results.
LEMMA AddResultSound ==
    ASSUME NEW m \in Monitors, Lossless(m), m.thread = "run"
    PROVE  LET n == [m EXCEPT !.thread = "notify", !.added = @ + 1,
                              !.queue = Append(@, m.added + 1)]
           IN  n \in Monitors /\ Lossless(n)
<1> DEFINE a == m.added + 1
           w == Append(m.queue, a)
           n == [m EXCEPT !.thread = "notify", !.added = a, !.queue = w]
<1>1. m.queue \in Seq(Nat) /\ m.got \in Seq(Nat) /\ m.added \in Nat /\ m.events \in Nat
  BY DEF Monitors
<1>2. a \in Nat
  BY <1>1
<1>3. w \in Seq(Nat) /\ Len(w) = Len(m.queue) + 1
  <2> HIDE DEF a
  <2> QED
    BY <1>1, <1>2, AppendProperties
<1>4. m.got \o w = [i \in 1..a |-> i]
  <2>1. m.got \o w = (m.got \o m.queue) \o <<a>>
    <3> HIDE DEF a
    <3> QED
      BY <1>1, <1>2, AppendToConcat
  <2>2. m.got \o m.queue = [i \in 1..m.added |-> i]
    BY DEF Lossless
  <2>3. [i \in 1..m.added |-> i] \o <<a>> = [i \in 1..a |-> i]
    BY <1>1, Counting
  <2> QED
    BY <2>1, <2>2, <2>3, Zenon
<1>5. Len(w) <= m.events + 1
  BY <1>1, <1>3 DEF Lossless
<1> HIDE DEF a, w
<1>6. n \in Monitors
  BY <1>2, <1>3 DEF Monitors
<1>7. Lossless(n)
  BY <1>4, <1>5 DEF Lossless, Monitors
<1> QED
  BY <1>6, <1>7 DEF a, w

\* The first of the queue becomes the last of what the client has got.
LEMMA PollSound ==
    ASSUME NEW m \in Monitors, Lossless(m), m.events > 0, m.queue # <<>>
    PROVE  LET n == [m EXCEPT !.events = @ - 1, !.queue = Tail(@),
                              !.got = Append(@, Head(m.queue))]
           IN  n \in Monitors /\ Lossless(n)
<1> DEFINE e == m.events - 1
           w == Tail(m.queue)
           g == Append(m.got, Head(m.queue))
           n == [m EXCEPT !.events = e, !.queue = w, !.got = g]
<1>1. m.queue \in Seq(Nat) /\ m.got \in Seq(Nat) /\ m.added \in Nat /\ m.events \in Nat
  BY DEF Monitors
<1>2. Head(m.queue) \in Nat /\ w \in Seq(Nat) /\ Len(w) = Len(m.queue) - 1
  BY <1>1, HeadTailProperties
<1>3. e \in Nat /\ g \in Seq(Nat)
  BY <1>1, <1>2, AppendProperties
<1>4. g \o w = [i \in 1..m.added |-> i]
  <2>1. g \o w = m.got \o m.queue
    BY <1>1, MoveHead
  <2> QED
    BY <2>1 DEF Lossless
<1>5. Len(w) <= e + (IF m.thread = "notify" THEN 1 ELSE 0)
  BY <1>1, <1>2 DEF Lossless
<1> HIDE DEF e, w, g
<1>6. n \in Monitors
  BY <1>2, <1>3 DEF Monitors
<1>7. Lossless(n)
  BY <1>4, <1>5 DEF Lossless, Monitors
<1> QED
  BY <1>6, <1>7 DEF e, w, g

\* One more event, after an element was added, or one less, for an empty queue.
LEMMA EventsSound ==
    ASSUME NEW m \in Monitors, Lossless(m), NEW e \in Nat, NEW thread \in {m.thread, "run"},
           Len(m.queue) <= e
    PROVE  LET n == [m EXCEPT !.thread = thread, !.events = e]
           IN  n \in Monitors /\ Lossless(n)
<1> DEFINE n == [m EXCEPT !.thread = thread, !.events = e]
<1>1. m.queue \in Seq(Nat) /\ Len(m.queue) \in Nat
  BY LenProperties DEF Monitors
<1>2. n \in Monitors
  BY DEF Monitors
<1>3. /\ n.got = m.got /\ n.queue = m.queue /\ n.added = m.added
      /\ n.events = e /\ n.thread = thread
  BY DEF Monitors
<1> HIDE DEF n
<1>4. n.got \o n.queue = [i \in 1..n.added |-> i]
  BY <1>3 DEF Lossless
<1>5. Len(n.queue) <= n.events + (IF n.thread = "notify" THEN 1 ELSE 0)
  BY <1>1, <1>3
<1> QED
  BY <1>2, <1>4, <1>5 DEF Lossless, n

MonitorsSound == \A c \in Client : mon[c] \in Monitors /\ Lossless(mon[c])

\* A step of a client's monitor replaces it by a sound one.
LEMMA MonitorStepSound ==
    ASSUME mon \in [Client -> Monitors], MonitorsSound,
           NEW c \in Client, MonitorNext(c)
    PROVE  mon' \in [Client -> Monitors] /\ MonitorsSound'
<1> DEFINE m == mon[c]
<1>1. m \in Monitors /\ Lossless(m)
  BY DEF MonitorsSound
<1> SUFFICES \E n \in Monitors : Lossless(n) /\ mon' = [mon EXCEPT ![c] = n]
  <2> SUFFICES ASSUME NEW n \in Monitors, Lossless(n), mon' = [mon EXCEPT ![c] = n]
               PROVE  mon' \in [Client -> Monitors] /\ MonitorsSound'
    OBVIOUS
  <2> QED
    BY DEF MonitorsSound, Lossless
<1>2. CASE Start(c)
  <2> DEFINE n == [m EXCEPT !.thread = "begin"]
  <2>1. n \in Monitors /\ Lossless(n)
    BY <1>1, <1>2 DEF Start, Monitors, Lossless
  <2> QED
    BY <1>2, <2>1 DEF Start
<1>3. CASE Begin(c)
  <2> DEFINE n == [m EXCEPT !.thread = IF m.stop = "no" THEN "run" ELSE "ended"]
  <2>1. n \in Monitors /\ Lossless(n)
    BY <1>1, <1>3 DEF Begin, Monitors, Lossless
  <2> QED
    BY <1>3, <2>1 DEF Begin
<1>4. CASE Cancel(c)
  <2> DEFINE n == [m EXCEPT !.thread = "ended"]
  <2>1. n \in Monitors /\ Lossless(n)
    BY <1>1, <1>4 DEF Cancel, Monitors, Lossless
  <2> QED
    BY <1>4, <2>1 DEF Cancel
<1>5. CASE AddResult(c)
  <2> DEFINE n == [m EXCEPT !.thread = "notify", !.added = @ + 1,
                            !.queue = Append(@, m.added + 1)]
  <2>1. n \in Monitors /\ Lossless(n)
    BY <1>1, <1>5, AddResultSound DEF AddResult
  <2>2. mon' = [mon EXCEPT ![c] = n]
    BY <1>5 DEF AddResult
  <2> QED
    BY <2>1, <2>2
<1>6. CASE Notify(c)
  <2> DEFINE n == [m EXCEPT !.thread = "run", !.events = @ + 1]
  <2>1. m.events + 1 \in Nat /\ Len(m.queue) <= m.events + 1
    BY <1>1, <1>6 DEF Notify, Monitors, Lossless
  <2>2. n \in Monitors /\ Lossless(n)
    BY <1>1, <2>1, EventsSound
  <2>3. mon' = [mon EXCEPT ![c] = n]
    BY <1>6 DEF Notify
  <2> QED
    BY <2>2, <2>3
<1>7. CASE Return(c)
  <2> DEFINE n == [m EXCEPT !.thread = "ended"]
  <2>1. n \in Monitors /\ Lossless(n)
    BY <1>1, <1>7 DEF Return, Monitors, Lossless
  <2> QED
    BY <1>7, <2>1 DEF Return
<1>8. CASE Poll(c) /\ m.queue = <<>>
  <2> DEFINE n == [m EXCEPT !.thread = m.thread, !.events = @ - 1]
  <2>1. m.events - 1 \in Nat /\ Len(m.queue) <= m.events - 1
    BY <1>1, <1>8, EmptySeq DEF Poll, Monitors
  <2>2. n \in Monitors /\ Lossless(n)
    BY <1>1, <2>1, EventsSound
  <2>3. n = [m EXCEPT !.events = @ - 1]
    BY <1>1 DEF Monitors
  <2>4. mon' = [mon EXCEPT ![c] = n]
    BY <1>8, <2>3 DEF Poll
  <2> QED
    BY <2>2, <2>4
<1>9. CASE Poll(c) /\ m.queue # <<>>
  <2> DEFINE n == [m EXCEPT !.events = @ - 1, !.queue = Tail(@),
                            !.got = Append(@, Head(m.queue))]
  <2>1. n \in Monitors /\ Lossless(n)
    BY <1>1, <1>9, PollSound DEF Poll
  <2>2. mon' = [mon EXCEPT ![c] = n]
    BY <1>9 DEF Poll
  <2> QED
    BY <2>1, <2>2
<1>10. CASE Stop(c)
  <2> DEFINE n == [m EXCEPT !.stop = "waits"]
  <2>1. n \in Monitors /\ Lossless(n)
    BY <1>1, <1>10 DEF Stop, Monitors, Lossless
  <2> QED
    BY <1>10, <2>1 DEF Stop
<1>11. CASE Stopped(c)
  <2> DEFINE n == [m EXCEPT !.stop = "done"]
  <2>1. n \in Monitors /\ Lossless(n)
    BY <1>1, <1>11 DEF Stopped, Monitors, Lossless
  <2> QED
    BY <1>11, <2>1 DEF Stopped
<1> QED
  BY <1>2, <1>3, <1>4, <1>5, <1>6, <1>7, <1>8, <1>9, <1>10, <1>11
     DEF MonitorNext, MonitorThread

-----------------------------------------------------------------------------
\* A client is told that it is connected for the channel it waits for, and a channel
\* is open only for a service that is registered.
OwnChannel(k) ==
    /\ k.conn = "waits" /\ (k.event \/ k.signal) => k.channel \in {"open", "lost"}
    /\ k.channel \in {"open", "lost"} => k.wants \in Services

ServerInv ==
    /\ ServerType
    /\ MonitorsSound
    /\ \A c \in Client : OwnChannel(client[c])

LEMMA ServerInvInit == ServerInit => ServerInv
<1> SUFFICES ASSUME ServerInit PROVE ServerInv
  OBVIOUS
<1>1. ServerType /\ MonitorsSound
  BY NoMonitorSound DEF ServerInit, MonitorInit, ServerType, MonitorsSound
<1>2. \A c \in Client : OwnChannel(client[c])
  BY DEF ServerInit, OwnChannel
<1> QED
  BY <1>1, <1>2 DEF ServerInv

\* A step that replaces one client by a sound one, and leaves the monitors.
LEMMA BecomesSound ==
    ASSUME ServerInv, NEW c \in Client, NEW k \in Clients, OwnChannel(k),
           Becomes(c, k), UNCHANGED mon
    PROVE  ServerInv'
<1>1. ServerType'
  BY DEF ServerInv, ServerType, Becomes
<1>2. MonitorsSound'
  BY DEF ServerInv, MonitorsSound
<1>3. \A d \in Client : OwnChannel(client'[d])
  <2> TAKE d \in Client
  <2> QED
    BY DEF ServerInv, ServerType, Becomes, OwnChannel
<1> QED
  BY <1>1, <1>2, <1>3 DEF ServerInv, OwnChannel

\* The end of the server leaves each client with a lost channel at most.
LEMMA EndsSound ==
    ASSUME ServerInv, Ends
    PROVE  ServerInv'
<1>1. \A c \in Client : Lost(client[c]) \in Clients /\ OwnChannel(Lost(client[c]))
  <2> TAKE c \in Client
  <2>1. client[c] \in Clients /\ OwnChannel(client[c])
    BY DEF ServerInv, ServerType
  <2> QED
    BY <2>1, ZenonT(30) DEF Clients, Lost, OwnChannel
<1>2. ServerType'
  BY <1>1, NoMonitorSound DEF Ends, ServerType
<1>3. MonitorsSound'
  BY NoMonitorSound DEF Ends, MonitorsSound, Lossless
<1>4. \A c \in Client : OwnChannel(client'[c])
  BY <1>1 DEF Ends
<1> QED
  BY <1>2, <1>3, <1>4 DEF ServerInv, OwnChannel

\* What the steps of a client do to it.
LEMMA ClientStepSound ==
    ASSUME ServerInv, NEW c \in Client, ServerStep(c)
    PROVE  ServerInv'
<1> DEFINE k == client[c]
<1>1. k \in Clients /\ OwnChannel(k)
  BY DEF ServerInv, ServerType
<1>2. CASE Connect(c)
  <2> DEFINE l == [k EXCEPT !.conn = "waits", !.event = FALSE, !.channel = "asked",
                            !.signal = FALSE]
  <2>1. l \in Clients /\ OwnChannel(l)
    BY <1>1 DEF Clients, OwnChannel
  <2> QED
    BY <1>2, <2>1, BecomesSound DEF Connect
<1>3. CASE CreateChannel(c)
  <2> DEFINE found == k.wants \in Services
             l == [k EXCEPT !.channel = IF found THEN "open" ELSE "refused",
                            !.signal = found]
  <2>1. found \in BOOLEAN
    OBVIOUS
  <2>2. l \in Clients /\ OwnChannel(l)
    BY <1>1, <2>1 DEF Clients, OwnChannel
  <2> QED
    BY <1>3, <2>2, BecomesSound DEF CreateChannel
<1>4. CASE ChannelStateChange(c)
  <2> DEFINE l == [k EXCEPT !.signal = FALSE, !.event = TRUE]
  <2>1. l \in Clients /\ OwnChannel(l)
    BY <1>1, <1>4 DEF Clients, OwnChannel, ChannelStateChange
  <2> QED
    BY <1>4, <2>1, BecomesSound DEF ChannelStateChange
<1>5. CASE LateStateChange(c)
  <2> DEFINE l == [k EXCEPT !.late = FALSE]
  <2>1. l \in Clients /\ OwnChannel(l)
    BY <1>1 DEF Clients, OwnChannel
  <2> QED
    BY <1>5, <2>1, BecomesSound DEF LateStateChange
<1>6. CASE Connected(c)
  <2> DEFINE l == [k EXCEPT !.conn = "connected", !.event = FALSE]
  <2>1. l \in Clients /\ OwnChannel(l)
    BY <1>1 DEF Clients, OwnChannel
  <2> QED
    BY <1>6, <2>1, BecomesSound DEF Connected
<1>7. CASE ConnectionTimeout(c)
  <2> DEFINE late == k.late \/ k.signal \/ k.channel \in {"asked", "lost"}
             l == [k EXCEPT !.conn = "failed", !.channel = "destroyed",
                            !.signal = FALSE, !.late = late]
  <2>1. late \in BOOLEAN
    OBVIOUS
  <2>2. l = [k EXCEPT !.conn = "failed", !.channel = "destroyed", !.signal = FALSE,
                      !.late = @ \/ k.signal \/ k.channel \in {"asked", "lost"}]
    BY <1>1 DEF Clients
  <2>3. l \in Clients /\ OwnChannel(l)
    BY <1>1, <2>1 DEF Clients, OwnChannel
  <2> QED
    BY <1>7, <2>2, <2>3, BecomesSound DEF ConnectionTimeout
<1>8. CASE DestroyChannel(c)
  <2> DEFINE l == [k EXCEPT !.channel = "destroyed", !.signal = FALSE]
  <2>1. l \in Clients /\ OwnChannel(l)
    BY <1>1, <1>8 DEF Clients, OwnChannel, DestroyChannel
  <2> QED
    BY <1>8, <2>1, BecomesSound DEF DestroyChannel
<1>9. CASE Deny(c)
  <2> DEFINE l == [k EXCEPT !.request = "denied"]
  <2>1. l \in Clients /\ OwnChannel(l)
    BY <1>1 DEF Clients, OwnChannel
  <2> QED
    BY <1>9, <2>1, BecomesSound DEF Deny
<1>10. CASE CreateMonitor(c)
  <2> DEFINE l == [k EXCEPT !.request = "done"]
  <2>1. l \in Clients /\ OwnChannel(l)
    BY <1>1 DEF Clients, OwnChannel
  <2>2. NewMonitor \in Monitors /\ Lossless(NewMonitor)
    <3>1. NoMonitor \in Monitors /\ Lossless(NoMonitor)
      BY NoMonitorSound
    <3>2. /\ NewMonitor.got = NoMonitor.got /\ NewMonitor.queue = NoMonitor.queue
          /\ NewMonitor.added = NoMonitor.added /\ NewMonitor.events = NoMonitor.events
          /\ NewMonitor.thread = "new" /\ NoMonitor.thread = "none"
      BY <3>1 DEF NewMonitor, NoMonitor
    <3> QED
      BY <3>1, <3>2 DEF NewMonitor, Monitors, Lossless
  <2>3. ServerType'
    BY <1>10, <2>1, <2>2 DEF CreateMonitor, Becomes, ServerInv, ServerType
  <2>4. MonitorsSound'
    BY <1>10, <2>2 DEF CreateMonitor, ServerInv, ServerType, MonitorsSound, Lossless
  <2>5. \A d \in Client : OwnChannel(client'[d])
    BY <1>10, <2>1 DEF CreateMonitor, Becomes, ServerInv, ServerType, OwnChannel
  <2> QED
    BY <2>3, <2>4, <2>5 DEF ServerInv, OwnChannel
<1>11. CASE RequestRPC(c)
  <2> DEFINE l == [k EXCEPT !.request = "running"]
  <2>1. l \in Clients /\ OwnChannel(l)
    BY <1>1 DEF Clients, OwnChannel
  <2> QED
    BY <1>11, <2>1, BecomesSound DEF RequestRPC
<1>12. CASE RequestDone(c)
  <2> DEFINE l == [k EXCEPT !.request = "done"]
  <2>1. l \in Clients /\ OwnChannel(l)
    BY <1>1 DEF Clients, OwnChannel
  <2> QED
    BY <1>12, <2>1, BecomesSound DEF RequestDone
<1>13. CASE UnknownCommand(c)
  BY <1>13, EndsSound DEF UnknownCommand
<1> QED
  BY <1>2, <1>3, <1>4, <1>5, <1>6, <1>7, <1>8, <1>9, <1>10, <1>11, <1>12, <1>13
     DEF ServerStep

LEMMA ServerInvNext == ServerInv /\ [ServerNext]_serverVars => ServerInv'
<1> SUFFICES ASSUME ServerInv, [ServerNext]_serverVars PROVE ServerInv'
  OBVIOUS
<1>1. CASE Destroy
  BY <1>1, EndsSound DEF Destroy
<1>2. CASE RestartServer
  BY <1>2 DEF RestartServer, ServerInv, ServerType, MonitorsSound, OwnChannel, Lossless
<1>3. ASSUME NEW c \in Client, ServerStep(c) PROVE ServerInv'
  BY <1>3, ClientStepSound
<1>4. ASSUME NEW c \in Client, MonitorStep(c) PROVE ServerInv'
  <2>1. mon' \in [Client -> Monitors] /\ MonitorsSound'
    BY <1>4, MonitorStepSound DEF MonitorStep, ServerInv, ServerType
  <2> QED
    BY <1>4, <2>1 DEF MonitorStep, ServerInv, ServerType, OwnChannel
<1>5. CASE UNCHANGED serverVars
  BY <1>5 DEF serverVars, ServerInv, ServerType, MonitorsSound, OwnChannel, Lossless
<1> QED
  BY <1>1, <1>2, <1>3, <1>4, <1>5 DEF ServerNext

-----------------------------------------------------------------------------
\* In every state of a server, any number of results may be under way in each monitor:
\* the client gets them in order, each once, and none is left without an event.
THEOREM NoResultLost == ServerSpec => []NoneLost
<1>1. ServerInv => NoneLost
  BY DEF ServerInv, MonitorsSound, Lossless, NoneLost
<1> QED
  BY <1>1, ServerInvInit, ServerInvNext, PTL DEF ServerSpec

\* A client that was told that it is connected waits for a channel that the server made,
\* for a service that is registered, also after timeouts, retries and restarts.
THEOREM ConnectedToOwn == ServerSpec => ConnectedOwn
<1> DEFINE Own == \A c \in Client :
                     client[c].conn = "waits" /\ client'[c].conn = "connected"
                       => client[c].channel \in {"open", "lost"}
<1>1. ServerInv /\ [ServerNext]_serverVars => [Own]_serverVars
  <2> SUFFICES ASSUME ServerInv, [ServerNext]_serverVars, NEW c \in Client,
                      client[c].conn = "waits", client'[c].conn = "connected"
               PROVE  client[c].channel \in {"open", "lost"}
    OBVIOUS
  <2>1. client[c] \in Clients /\ OwnChannel(client[c]) /\ client \in [Client -> Clients]
    BY DEF ServerInv, ServerType
  <2>2. Connected(c)
    <3>1. ~Ends
      <4>1. Lost(client[c]).conn = client[c].conn
        BY <2>1 DEF Lost, Clients
      <4> QED
        BY <4>1 DEF Ends
    <3>2. ~RestartServer /\ ~UNCHANGED serverVars /\ \A d \in Client : ~MonitorStep(d)
      BY DEF RestartServer, serverVars, MonitorStep
    <3>3. PICK d \in Client : ServerStep(d)
      BY <3>1, <3>2 DEF ServerNext, Destroy
    <3>4. PICK k : client' = [client EXCEPT ![d] = k]
      BY <3>1, <3>3 DEF ServerStep, Connect, CreateChannel, ChannelStateChange,
         LateStateChange, Connected, ConnectionTimeout, DestroyChannel, Deny,
         CreateMonitor, RequestRPC, RequestDone, UnknownCommand, Becomes
    <3>5. d = c /\ client'[c] = k
      BY <2>1, <3>4
    <3>6. ~Connect(c) /\ ~ConnectionTimeout(c)
      <4>1. Connect(c) => client'[c].conn = "waits"
        BY <2>1 DEF Connect, Becomes, Clients
      <4>2. ConnectionTimeout(c) => client'[c].conn = "failed"
        <5> DEFINE late == client[c].late \/ client[c].signal
                             \/ client[c].channel \in {"asked", "lost"}
                   k2 == [client[c] EXCEPT !.conn = "failed", !.channel = "destroyed",
                                           !.signal = FALSE, !.late = late]
        <5>1. ConnectionTimeout(c) => client' = [client EXCEPT ![c] = k2]
          BY DEF ConnectionTimeout, Becomes
        <5> HIDE DEF late
        <5>2. k2.conn = "failed"
          BY <2>1 DEF Clients
        <5> HIDE DEF k2
        <5> QED
          BY <2>1, <5>1, <5>2
      <4> QED
        BY <4>1, <4>2
    <3>7. ~CreateChannel(c) /\ ~ChannelStateChange(c) /\ ~LateStateChange(c)
      <4>1. ~ChannelStateChange(c) /\ ~LateStateChange(c)
        BY <2>1, ZenonT(30) DEF ChannelStateChange, LateStateChange, Becomes, Clients
      <4>2. SUFFICES ASSUME CreateChannel(c) PROVE FALSE
        BY <4>1
      <4> DEFINE found == client[c].wants \in Services
                 l == [client[c] EXCEPT !.channel = IF found THEN "open" ELSE "refused",
                                        !.signal = found]
      <4>3. client' = [client EXCEPT ![c] = l]
        BY <4>2 DEF CreateChannel, Becomes
      <4>4. l.conn = client[c].conn
        BY <2>1 DEF Clients
      <4> HIDE DEF l
      <4> QED
        BY <2>1, <4>3, <4>4
    <3>8. ~DestroyChannel(c) /\ ~Deny(c) /\ ~CreateMonitor(c)
      BY <2>1 DEF DestroyChannel, Deny, CreateMonitor, Becomes, MayRequest, Clients
    <3>9. ~RequestRPC(c) /\ ~RequestDone(c) /\ ~UnknownCommand(c)
      BY <2>1, <3>1 DEF RequestRPC, RequestDone, UnknownCommand, Becomes, MayRequest, Clients
    <3> QED
      BY <3>3, <3>5, <3>6, <3>7, <3>8, <3>9 DEF ServerStep
  <2> QED
    BY <2>1, <2>2 DEF Connected, OwnChannel
<1> QED
  BY <1>1, ServerInvInit, ServerInvNext, PTL DEF ServerSpec, ConnectedOwn

-----------------------------------------------------------------------------
(***************************************************************************)
(* ArchiveQueries: the values of a request fit for any number of threads,  *)
(* names, files and samples; the data files are counted and few as long as *)
(* no thread closes a file that another one has found, but not counted.    *)
(***************************************************************************)

(* The names of a set in their order.                                      *)

\* A finite set of numbers has an order.
LEMMA OrderExists ==
    ASSUME NEW N, N \subseteq Nat, IsFiniteSet(N)
    PROVE  /\ Cardinality(N) \in Nat
           /\ \E s \in [1..Cardinality(N) -> N] :
                 \A i, j \in DOMAIN s : i < j => s[i] < s[j]
<1> DEFINE c == Cardinality(N)
           upTo(n) == {m \in N : m <= n}
           rank == [n \in N |-> Cardinality(upTo(n))]
<1>1. c \in Nat
  BY FS_CardinalityType
<1>2. ASSUME NEW n \in N
      PROVE  IsFiniteSet(upTo(n)) /\ rank[n] \in 1..c
  <2>1. upTo(n) \in SUBSET N /\ n \in upTo(n)
    OBVIOUS
  <2> HIDE DEF upTo
  <2>2. IsFiniteSet(upTo(n)) /\ Cardinality(upTo(n)) <= c
    BY <2>1, FS_Subset
  <2>3. Cardinality(upTo(n)) \in Nat /\ Cardinality(upTo(n)) # 0
    BY <2>1, <2>2, FS_CardinalityType, FS_EmptySet
  <2> HIDE DEF c
  <2> QED
    BY <1>1, <2>2, <2>3
<1>3. ASSUME NEW m \in N, NEW n \in N, m < n
      PROVE  rank[m] < rank[n]
  <2>1. upTo(m) \in SUBSET upTo(n) /\ upTo(m) # upTo(n)
    <3>1. n \in upTo(n) /\ n \notin upTo(m)
      BY <1>3
    <3>2. \A k \in Nat : k <= m => k <= n
      BY <1>3
    <3> QED
      BY <3>1, <3>2
  <2> HIDE DEF upTo
  <2>2. /\ Cardinality(upTo(m)) <= Cardinality(upTo(n))
        /\ Cardinality(upTo(n)) # Cardinality(upTo(m))
    BY <1>2, <2>1, FS_Subset
  <2>3. Cardinality(upTo(m)) \in Nat /\ Cardinality(upTo(n)) \in Nat
    BY <1>2, FS_CardinalityType
  <2> QED
    BY <2>2, <2>3
<1> HIDE DEF rank
<1>4. rank \in Injection(N, 1..c)
  <2>1. rank \in [N -> 1..c]
    BY <1>2 DEF rank
  <2>2. \A m, n \in N : rank[m] = rank[n] => m = n
    <3> SUFFICES ASSUME NEW m \in N, NEW n \in N, m # n PROVE rank[m] # rank[n]
      OBVIOUS
    <3>1. m < n \/ n < m
      OBVIOUS
    <3>2. rank[m] \in Nat /\ rank[n] \in Nat
      <4> HIDE DEF c
      <4> QED
        BY <1>1, <2>1
    <3> QED
      BY <1>3, <3>1, <3>2
  <2> QED
    BY <2>1, <2>2 DEF Injection, IsInjective
<1>5. rank \in Surjection(N, 1..c)
  <2>1. IsFiniteSet(1..c) /\ Cardinality(1..c) = c
    BY <1>1, FS_Interval
  <2> QED
    BY <1>4, <2>1, FS_Injection
<1> DEFINE s == [i \in 1..c |-> CHOOSE n \in N : rank[n] = i]
<1>6. \A i \in 1..c : s[i] \in N /\ rank[s[i]] = i
  BY <1>5 DEF Surjection
<1>7. s \in [1..c -> N]
  BY <1>6
<1>8. ASSUME NEW i \in 1..c, NEW j \in 1..c, i < j
      PROVE  s[i] < s[j]
  <2> HIDE DEF s, c
  <2>1. /\ s[i] \in N /\ s[j] \in N /\ rank[s[i]] = i /\ rank[s[j]] = j
        /\ i \in Nat /\ j \in Nat
    BY <1>1, <1>6
  <2>2. CASE s[j] < s[i]
    <3>1. rank[s[j]] < rank[s[i]]
      BY <1>3, <2>1, <2>2
    <3> QED
      BY <1>8, <2>1, <3>1
  <2>3. s[i] # s[j]
    <3>1. rank[s[i]] # rank[s[j]]
      BY <1>8, <2>1
    <3> QED
      BY <3>1
  <2>4. s[i] \in Nat /\ s[j] \in Nat
    BY <2>1
  <2> QED
    BY <2>2, <2>3, <2>4
<1>9. \A i, j \in DOMAIN s : i < j => s[i] < s[j]
  <2> HIDE DEF s
  <2> QED
    BY <1>7, <1>8
<1> QED
  BY <1>1, <1>7, <1>9

LEMMA SortedNames ==
    ASSUME NEW names, names \subseteq Name
    PROVE  /\ Sorted(names) \in Seq(Name) /\ IsInjective(Sorted(names))
           /\ \A i \in DOMAIN Sorted(names) : Sorted(names)[i] \in names
<1>1. names \in SUBSET Name /\ IsFiniteSet(names) /\ names \subseteq Nat
  BY FS_Subset, QueriesAssumption
<1> DEFINE c == Cardinality(names)
           s == Sorted(names)
<1>2. /\ c \in Nat /\ s \in [1..c -> names]
      /\ \A i, j \in DOMAIN s : i < j => s[i] < s[j]
  BY <1>1, OrderExists DEF Sorted
<1> HIDE DEF s, c
<1>3. s \in Seq(Name) /\ DOMAIN s = 1..c /\ \A i \in DOMAIN s : s[i] \in names
  <2>1. s \in [1..c -> Name]
    BY <1>1, <1>2
  <2> QED
    BY <1>2, <2>1
<1>4. ASSUME NEW i \in DOMAIN s, NEW j \in DOMAIN s, i # j
      PROVE  s[i] # s[j]
  <2>1. i \in Nat /\ j \in Nat /\ s[i] \in names /\ s[j] \in names
    BY <1>2, <1>3
  <2>2. s[i] \in Nat /\ s[j] \in Nat
    BY <1>1, <2>1
  <2>3. i < j \/ j < i
    BY <1>4, <2>1
  <2> QED
    BY <1>2, <2>2, <2>3
<1>5. IsInjective(s)
  BY <1>4 DEF IsInjective
<1> QED
  BY <1>3, <1>5 DEF s

-----------------------------------------------------------------------------
(* The state of a request.                                                 *)

LEMMA EmptySequence == ASSUME NEW S PROVE <<>> \in Seq(S)
OBVIOUS

LEMMA NoValues == \E none \in Seq(Nat) : none = <<>> /\ DOMAIN none = {} /\ Len(none) = 0
<1>1. <<>> \in Seq(Nat)
  BY EmptySequence
<1>2. DOMAIN <<>> = {} /\ Len(<<>>) = 0
  OBVIOUS
<1> QED
  BY <1>1, <1>2, Zenon

LEMMA Appended ==
    ASSUME NEW S, NEW s \in Seq(S), NEW e \in S
    PROVE  /\ Append(s, e) \in Seq(S) /\ Len(Append(s, e)) = Len(s) + 1
           /\ DOMAIN Append(s, e) = 1..(Len(s) + 1) /\ Append(s, e)[Len(s) + 1] = e
           /\ \A i \in 1..Len(s) : Append(s, e)[i] = s[i]
           /\ DOMAIN s = 1..Len(s) /\ Len(s) \in Nat
OBVIOUS

LEMMA GoSound ==
    ASSUME RequestsInv, NEW t \in Worker, NEW n, Go(t, n), RequestSound(stored, n)
    PROVE  RequestsInv'
<1>1. DOMAIN q' = Worker /\ \A u \in Worker : q'[u] = IF u = t THEN n ELSE q[u]
  BY DEF RequestsInv, Go
<1>2. server' = server /\ stored' = stored
  BY DEF Go
<1>3. \A u \in Worker : RequestSound(stored', q'[u])
  BY <1>1, <1>2 DEF RequestsInv
<1> QED
  BY <1>1, <1>2, <1>3 DEF RequestsInv

LEMMA IdleSound ==
    ASSUME NEW s
    PROVE  RequestSound(s, Idle)
<1>1. Idle.req = NoRequest
  BY DEF Idle
<1>2. <<>> \in Seq(Name) /\ <<>> \in Seq(Nat)
  BY EmptySequence
<1>3. /\ Idle \in Query({Idle.req}, {Idle.docs}) /\ Idle.pc = "idle"
      /\ Idle.header = 0 /\ Idle.values = <<>> /\ Idle.got = <<>>
  <2> HIDE DEF NoRequest
  <2> QED
    BY <1>1, <1>2 DEF Idle, Query
<1> QED
  BY <1>3 DEF RequestSound, InputSound, NamesSound, DocsSound, ReaderSound,
              InChannel, AtSample

\* Outside of a channel little is left to say.
LEMMA OutsideSound ==
    ASSUME NEW s, NEW r, RequestSound(s, r), r.pc \notin AtSample \cup {"close"},
           NEW n, n \in Query({n.req}, {n.docs}), n.req \in Request,
           n.header = r.header, n.values = r.values, n.got = r.got, n.pc # "read",
           n.pc \notin InChannel
    PROVE  RequestSound(s, n)
<1>1. n.header = 0 /\ n.values = <<>> /\ n.got = <<>>
  BY DEF RequestSound
<1>2. n.pc \notin AtSample
  BY DEF InChannel
<1> QED
  BY <1>1, <1>2 DEF RequestSound, InputSound, NamesSound, DocsSound, ReaderSound

LEMMA DoneSound ==
    ASSUME NEW s, NEW r, RequestSound(s, r), r.pc \notin AtSample \cup {"close", "idle"},
           NEW type \in 0..3, NEW docs
    PROVE  RequestSound(s, [r EXCEPT !.pc = "done", !.status = type, !.docs = docs])
<1> DEFINE n == [r EXCEPT !.pc = "done", !.status = type, !.docs = docs]
<1>1. r \in Query({r.req}, {r.docs}) /\ r.req \in Request
  BY DEF RequestSound
<1>2. /\ n \in Query({n.req}, {n.docs}) /\ n.req = r.req /\ n.docs = docs
      /\ n.header = r.header /\ n.values = r.values /\ n.got = r.got /\ n.pc = "done"
  BY <1>1 DEF Query
<1>3. n.pc # "read" /\ n.pc \notin InChannel
  BY <1>2 DEF InChannel, AtSample
<1> HIDE DEF n
<1>4. RequestSound(s, n)
  BY <1>1, <1>2, <1>3, OutsideSound
<1> QED
  BY <1>4 DEF n

LEMMA DoneStep ==
    ASSUME RequestsInv, NEW t \in Worker, q[t].pc \notin AtSample \cup {"close", "idle"},
           NEW type \in 0..3, NEW docs, Done(t, type, docs)
    PROVE  RequestsInv'
<1>1. RequestSound(stored, q[t])
  BY DEF RequestsInv
<1> DEFINE n == [q[t] EXCEPT !.pc = "done", !.status = type, !.docs = docs]
<1>2. RequestSound(stored, n)
  BY <1>1, DoneSound
<1>3. Go(t, n)
  BY DEF Done
<1> HIDE DEF n
<1> QED
  BY <1>2, <1>3, GoSound

\* The pc is not one of a channel.
LEMMA Outside ==
    /\ \A pc \in {"act", "filter", "read", "done"} :
          pc \notin InChannel /\ pc \notin AtSample \cup {"close", "idle"}
    /\ "find" \notin AtSample \cup {"close", "idle", "read"}
    /\ AtSample \cup {"find", "close"} = InChannel /\ "close" \notin AtSample
BY DEF InChannel, AtSample

LEMMA RestartStep ==
    ASSUME RequestsInv, Restart
    PROVE  RequestsInv'
<1>1. /\ q' = [u \in Worker |-> Idle] /\ server' = server /\ stored' = stored
  BY DEF Restart
<1>2. \A u \in Worker : RequestSound(stored', q'[u])
  BY <1>1, IdleSound
<1> QED
  BY <1>1, <1>2 DEF RequestsInv

-----------------------------------------------------------------------------
(* What a document has of the samples that the reader gave.                *)

LEMMA PrefixElements ==
    ASSUME NEW v \in Seq(Nat), NEW w \in Seq(Nat), IsPrefix(v, w)
    PROVE  Len(v) <= Len(w) /\ \A i \in DOMAIN v : i \in DOMAIN w /\ v[i] = w[i]
<1>1. PICK m \in Nat, n \in Nat : /\ Len(v) = m /\ DOMAIN v = 1..m
                                  /\ Len(w) = n /\ DOMAIN w = 1..n
  OBVIOUS
<1>2. m <= n /\ SubSeq(v, 1, m) = SubSeq(w, 1, m)
  BY <1>1 DEF IsPrefix
<1>3. \A i \in 1..m : i \in 1..n /\ SubSeq(w, 1, m)[i] = w[i] /\ SubSeq(v, 1, m)[i] = v[i]
  BY <1>1, <1>2
<1> QED
  BY <1>1, <1>2, <1>3

LEMMA OwnPrefix ==
    ASSUME NEW v \in Seq(Nat)
    PROVE  IsPrefix(v, v)
<1>1. Len(v) <= Len(v)
  OBVIOUS
<1> QED
  BY <1>1 DEF IsPrefix

LEMMA LongerHasPrefix ==
    ASSUME NEW v \in Seq(Nat), NEW e \in Nat
    PROVE  IsPrefix(v, Append(v, e))
<1>1. PICK m \in Nat : Len(v) = m /\ DOMAIN v = 1..m
  OBVIOUS
<1>2. PICK w \in Seq(Nat) : w = Append(v, e)
  BY Appended
<1>3. Len(w) = m + 1 /\ \A i \in 1..m : w[i] = v[i]
  BY <1>1, <1>2, Appended
<1>4. SubSeq(w, 1, m) = SubSeq(v, 1, m) /\ m <= m + 1
  BY <1>1, <1>3
<1> QED
  BY <1>1, <1>2, <1>3, <1>4 DEF IsPrefix

LEMMA NothingFits ==
    ASSUME NEW s, NEW req, req.limit \in Nat, NEW none \in Seq(Nat), none = <<>>
    PROVE  Fits(s, none, none, req)
<1>1. DOMAIN none = {} /\ Len(none) = 0 /\ IsPrefix(none, none)
  BY NoValues, OwnPrefix
<1> QED
  BY <1>1 DEF Fits

-----------------------------------------------------------------------------
(* The engine.                                                             *)

LEMMA StillFits ==
    ASSUME NEW a \in Seq(Sample), NEW b, NEW req, NEW given \in Seq(Nat), NEW v \in Seq(Nat),
           \A i \in DOMAIN a : i \in DOMAIN b /\ b[i] = a[i],
           Fits(a, given, v, req)
    PROVE  Fits(b, given, v, req)
<1>1. PICK len \in Nat : Len(given) = len /\ DOMAIN given = 1..len
  <2>1. Len(given) \in Nat /\ DOMAIN given = 1..Len(given)
    BY LenProperties
  <2> QED
    BY <2>1
<1>2. \A i \in DOMAIN given : given[i] \in DOMAIN b /\ b[given[i]] = a[given[i]]
  BY DEF Fits
<1>3. \A i \in DOMAIN v : b[v[i]] = a[v[i]]
  <2>1. IsPrefix(v, given)
    BY DEF Fits
  <2>2. \A i \in DOMAIN v : i \in DOMAIN given /\ v[i] = given[i]
    BY <2>1, PrefixElements
  <2> QED
    BY <1>2, <2>2
<1>4. ASSUME Len(v) < Len(given) PROVE b[Last(given)] = a[Last(given)]
  <2>1. Len(given) \in DOMAIN given
    BY <1>1, <1>4
  <2> QED
    BY <1>2, <2>1 DEF Last
<1> QED
  BY <1>2, <1>3, <1>4 DEF Fits

\* Samples are added only.
Grown(s, s2) ==
    \A n \in Name : /\ s[n] \in Seq(Sample) /\ s2[n] \in Seq(Sample)
                    /\ s[n] # <<>> => s2[n] # <<>>
                    /\ \A i \in DOMAIN s[n] : i \in DOMAIN s2[n] /\ s2[n][i] = s[n][i]

LEMMA StoredGrows ==
    ASSUME NEW s, StoredSound(s), NEW m \in Name,
           NEW new \in Sample, new.time = Len(s[m]) + 1,
           NEW s2, s2 = [s EXCEPT ![m] = Append(s[m], new)]
    PROVE  StoredSound(s2) /\ Grown(s, s2)
<1>1. s \in [Name -> Seq(Sample)] /\ \A n \in Name : \A i \in DOMAIN s[n] : s[n][i].time = i
  BY DEF StoredSound
<1>4. /\ Append(s[m], new) \in Seq(Sample) /\ Append(s[m], new) # <<>>
      /\ \A i \in DOMAIN s[m] : i \in DOMAIN Append(s[m], new) /\ Append(s[m], new)[i] = s[m][i]
      /\ \A i \in DOMAIN Append(s[m], new) : Append(s[m], new)[i].time = i
  <2>1. s[m] \in Seq(Sample)
    BY <1>1
  <2>2. /\ Append(s[m], new) \in Seq(Sample)
        /\ DOMAIN Append(s[m], new) = 1..(Len(s[m]) + 1)
        /\ Append(s[m], new)[Len(s[m]) + 1] = new
        /\ \A i \in 1..Len(s[m]) : Append(s[m], new)[i] = s[m][i]
    BY <2>1
  <2>3. DOMAIN s[m] = 1..Len(s[m]) /\ Len(s[m]) \in Nat
    BY <2>1
  <2>4. \A i \in 1..(Len(s[m]) + 1) : Append(s[m], new)[i].time = i
    <3> TAKE i \in 1..(Len(s[m]) + 1)
    <3>1. CASE i = Len(s[m]) + 1
      BY <2>2, <3>1
    <3>2. CASE i \in 1..Len(s[m])
      BY <1>1, <2>2, <2>3, <3>2
    <3> QED
      BY <2>3, <3>1, <3>2
  <2>5. Append(s[m], new) # <<>>
    <3>1. PICK a \in Seq(Sample) : a = Append(s[m], new)
      BY <2>2
    <3>2. 1 \in DOMAIN a
      BY <2>2, <2>3, <3>1
    <3> QED
      BY <3>1, <3>2
  <2> QED
    BY <2>2, <2>3, <2>4, <2>5
<1>5. \A n \in Name : s2[n] = IF n = m THEN Append(s[m], new) ELSE s[n]
  BY <1>1
<1>6. s2 \in [Name -> Seq(Sample)]
  BY <1>1, <1>4
<1> QED
  BY <1>1, <1>4, <1>5, <1>6 DEF StoredSound, Grown

LEMMA StillSound ==
    ASSUME NEW s, NEW s2, Grown(s, s2),
           NEW r, RequestSound(s, r)
    PROVE  RequestSound(s2, r)
<1>1. /\ r.names \in Seq(Name) /\ r.values \in Seq(Nat) /\ r.got \in Seq(Nat)
  BY DEF RequestSound, Query
<1>2. InputSound(s2, r)
  <2> SUFFICES ASSUME r.pc = "read", NEW d \in DOMAIN r.docs PROVE s2[r.docs[d].name] # <<>>
    BY DEF RequestSound, InputSound
  <2>1. r.docs \in Seq(ChannelDocument) /\ s[r.docs[d].name] # <<>>
    BY DEF RequestSound, InputSound
  <2>2. r.docs[d] \in ChannelDocument
    BY <2>1
  <2>3. r.docs[d].name \in Name
    BY <2>2 DEF ChannelDocument
  <2> QED
    BY <2>1, <2>3 DEF Grown
<1>3. NamesSound(s2, r)
  <2> SUFFICES ASSUME r.pc \in InChannel, NEW i \in DOMAIN r.names PROVE s2[r.names[i]] # <<>>
    BY DEF RequestSound, NamesSound
  <2>1. s[r.names[i]] # <<>> /\ r.names[i] \in Name
    BY <1>1 DEF RequestSound, NamesSound
  <2> QED
    BY <2>1 DEF Grown
<1>4. DocsSound(s2, r)
  <2> SUFFICES ASSUME r.pc \in InChannel, NEW d \in DOMAIN r.docs
               PROVE  Fits(s2[r.docs[d].name], r.docs[d].got, r.docs[d].values, r.req)
    BY DEF RequestSound, DocsSound
  <2>1. /\ Fits(s[r.docs[d].name], r.docs[d].got, r.docs[d].values, r.req)
        /\ r.docs \in Seq(ValueDocument)
    BY DEF RequestSound, DocsSound, NamesSound
  <2>2. r.docs[d] \in ValueDocument
    BY <2>1
  <2>3. /\ r.docs[d].name \in Name /\ r.docs[d].values \in Seq(Nat)
        /\ r.docs[d].got \in Seq(Nat)
    BY <2>2 DEF ValueDocument
  <2>4. PICK a, b : a = s[r.docs[d].name] /\ b = s2[r.docs[d].name]
    OBVIOUS
  <2>5. a \in Seq(Sample) /\ \A i \in DOMAIN a : i \in DOMAIN b /\ b[i] = a[i]
    BY <2>3, <2>4 DEF Grown
  <2> QED
    BY <2>1, <2>3, <2>4, <2>5, StillFits
<1>5. ReaderSound(s2, r)
  <2>1. CASE r.pc \notin AtSample
    BY <2>1 DEF RequestSound, ReaderSound
  <2>2. CASE r.pc \in AtSample
    <3>1. Head(r.names) \in Name
      <4>1. r.pc \in InChannel
        BY <2>2 DEF InChannel
      <4>2. r.names # <<>>
        BY <4>1 DEF RequestSound, NamesSound
      <4> QED
        BY <1>1, <4>2
    <3>2. PICK a \in Seq(Sample) : a = s[Head(r.names)]
      BY <3>1 DEF Grown
    <3>3. PICK b \in Seq(Sample) : b = s2[Head(r.names)]
      BY <3>1 DEF Grown
    <3>4. \A i \in DOMAIN a : i \in DOMAIN b /\ b[i] = a[i]
      BY <3>1, <3>2, <3>3 DEF Grown
    <3>5. /\ r.pos \in DOMAIN a /\ Fits(a, r.values, r.values, r.req)
          /\ r.got = IF r.pc = "value" THEN Append(r.values, r.pos) ELSE r.values
      BY <2>2, <3>2 DEF RequestSound, ReaderSound
    <3>6. Fits(b, r.values, r.values, r.req)
      BY <1>1, <3>4, <3>5, StillFits
    <3> QED
      BY <2>2, <3>3, <3>4, <3>5, <3>6 DEF ReaderSound
  <2> QED
    BY <2>1, <2>2
<1> QED
  BY <1>2, <1>3, <1>4, <1>5 DEF RequestSound

LEMMA AddedGrows ==
    ASSUME RequestsInv, NEW n \in Name, NEW f \in File, AddSample(n, f)
    PROVE  StoredSound(stored') /\ Grown(stored, stored')
<1>1. StoredSound(stored)
  BY DEF RequestsInv
<1>2. PICK new \in Sample : /\ new = [time |-> Len(stored[n]) + 1, file |-> f]
                            /\ new.time = Len(stored[n]) + 1
  <2>1. Len(stored[n]) + 1 \in Nat
    BY <1>1 DEF StoredSound
  <2>2. [time |-> Len(stored[n]) + 1, file |-> f] \in Sample
    BY <2>1 DEF Sample
  <2> QED
    BY <2>2
<1>3. PICK s, s2 : s = stored /\ s2 = stored'
  OBVIOUS
<1>4. s2 = [s EXCEPT ![n] = Append(s[n], new)] /\ new.time = Len(s[n]) + 1 /\ StoredSound(s)
  BY <1>1, <1>2, <1>3 DEF AddSample
<1>5. StoredSound(s2) /\ Grown(s, s2)
  BY <1>4, StoredGrows
<1> QED
  BY <1>3, <1>5

LEMMA AddSampleStep ==
    ASSUME RequestsInv, NEW n \in Name, NEW f \in File, AddSample(n, f)
    PROVE  RequestsInv'
<1>1. PICK s, s2 : s = stored /\ s2 = stored'
  OBVIOUS
<1>2. StoredSound(s2) /\ Grown(s, s2)
  BY <1>1, AddedGrows
<1>3. DOMAIN q = Worker /\ \A t \in Worker : RequestSound(s, q[t])
  BY <1>1 DEF RequestsInv
<1>4. \A t \in Worker : RequestSound(s2, q[t])
  BY <1>2, <1>3, StillSound
<1>5. server' = server /\ q' = q
  BY DEF AddSample
<1> QED
  BY <1>1, <1>2, <1>3, <1>4, <1>5 DEF RequestsInv

-----------------------------------------------------------------------------
(* From the request to the names of the channels.                          *)

LEMMA ReceiveStep ==
    ASSUME RequestsInv, NEW t \in Worker, NEW req \in Requests, Receive(t, req)
    PROVE  RequestsInv'
<1> DEFINE n == [Idle EXCEPT !.pc = "act", !.req = req]
<1>1. /\ RequestSound(stored, Idle) /\ Idle \in Query({Idle.req}, {Idle.docs}) /\ Idle.header = 0
      /\ Idle.values = <<>> /\ Idle.got = <<>>
  BY IdleSound DEF RequestSound, Idle
<1>2. req \in Request
  BY QueriesAssumption
<1>3. /\ n \in Query({n.req}, {n.docs}) /\ n.req = req /\ n.header = 0 /\ n.pc = "act"
      /\ n.values = <<>> /\ n.got = <<>>
  <2> HIDE DEF Idle
  <2> QED
    BY <1>1 DEF Query, InChannel
<1>4. Go(t, n)
  BY DEF Receive
<1> HIDE DEF n
<1>5. n.pc \notin InChannel /\ n.pc # "read" /\ n.pc # "find" /\ n.pc \notin AtSample
  BY <1>3, Outside
<1>6. RequestSound(stored, n)
  BY <1>2, <1>3, <1>5 DEF RequestSound, InputSound, NamesSound, DocsSound, ReaderSound
<1> QED
  BY <1>4, <1>6, GoSound

LEMMA ActStep ==
    ASSUME RequestsInv, NEW t \in Worker, Act(t)
    PROVE  RequestsInv'
<1> DEFINE n == [q[t] EXCEPT !.pc = "filter"]
<1>1. /\ RequestSound(stored, q[t]) /\ q[t].pc = "act"
      /\ q[t] \in Query({q[t].req}, {q[t].docs}) /\ q[t].req \in Request
  BY DEF RequestsInv, RequestSound, Act
<1>2. /\ n \in Query({n.req}, {n.docs}) /\ n.req = q[t].req
      /\ n.header = q[t].header /\ n.values = q[t].values /\ n.got = q[t].got
      /\ n.pc = "filter"
  BY <1>1 DEF Query
<1>3. Go(t, n)
  BY DEF Act
<1> HIDE DEF n
<1>4. /\ n.pc \notin InChannel /\ n.pc # "read"
      /\ q[t].pc \notin AtSample \cup {"close"}
  BY <1>1, <1>2, Outside
<1>5. RequestSound(stored, n)
  BY <1>1, <1>2, <1>4, OutsideSound
<1> QED
  BY <1>3, <1>5, GoSound

LEMMA AtOnceStep ==
    ASSUME RequestsInv, NEW t \in Worker, ActAtOnce(t) \/ ActAtOnceMongo(t)
    PROVE  RequestsInv'
<1>1. q[t].pc \notin AtSample \cup {"close", "idle"}
  BY Outside DEF ActAtOnce, ActAtOnceMongo
<1>2. PICK type, docs : type \in 0..3 /\ Done(t, type, docs)
  BY DEF ActAtOnce, ActAtOnceMongo
<1> QED
  BY <1>1, <1>2, DoneStep

LEMMA AfterFilterStep ==
    ASSUME RequestsInv, NEW t \in Worker, q[t].pc = "filter",
           NEW type \in 0..3, NEW docs \in Seq(ChannelDocument),
           \A d \in DOMAIN docs : stored[docs[d].name] # <<>>,
           AfterFilter(t, type, docs)
    PROVE  RequestsInv'
<1> DEFINE n == [q[t] EXCEPT !.pc = "read", !.docs = docs]
<1>1. /\ RequestSound(stored, q[t])
      /\ q[t] \in Query({q[t].req}, {q[t].docs}) /\ q[t].req \in Request
  BY DEF RequestsInv, RequestSound
<1>2. q[t].pc \notin AtSample \cup {"close", "idle"}
  BY Outside
<1>3. (\E type2 \in 0..3 : \E docs2 : Done(t, type2, docs2)) \/ Go(t, n)
  <2>1. 2 \in 0..3
    OBVIOUS
  <2> QED
    BY <2>1 DEF AfterFilter
<1>4. CASE \E type2 \in 0..3 : \E docs2 : Done(t, type2, docs2)
  BY <1>2, <1>4, DoneStep
<1>5. CASE Go(t, n)
  <2>1. /\ n \in Query({n.req}, {n.docs}) /\ n.req = q[t].req /\ n.docs = docs
        /\ n.header = q[t].header /\ n.values = q[t].values /\ n.got = q[t].got
        /\ n.pc = "read"
    BY <1>1 DEF Query
  <2> HIDE DEF n
  <2>2. /\ n.header = 0 /\ n.values = <<>> /\ n.got = <<>>
        /\ n.pc \notin InChannel /\ n.pc \notin AtSample
    BY <1>1, <1>2, <2>1, Outside DEF RequestSound
  <2>3. InputSound(stored, n)
    BY <2>1 DEF InputSound
  <2>4. RequestSound(stored, n)
    BY <1>1, <2>1, <2>2, <2>3 DEF RequestSound, NamesSound, DocsSound, ReaderSound
  <2> QED
    BY <1>5, <2>4, GoSound
<1> QED
  BY <1>3, <1>4, <1>5

LEMMA ChannelDocsSound ==
    ASSUME StoredSound(stored), NEW names, names \subseteq Name,
           \A n \in names : stored[n] # <<>>
    PROVE  /\ ChannelDocs(names) \in Seq(ChannelDocument)
           /\ \A d \in DOMAIN ChannelDocs(names) : stored[ChannelDocs(names)[d].name] # <<>>
<1>1. PICK s \in Seq(Name) : s = Sorted(names) /\ \A i \in DOMAIN s : s[i] \in names
  BY SortedNames
<1>2. ASSUME NEW n \in names
      PROVE  ChannelDoc(n) \in ChannelDocument /\ ChannelDoc(n).name = n
  <2>1. PICK v \in Seq(Sample) : v = stored[n]
    BY DEF StoredSound
  <2>2. v # <<>> /\ 1 \in DOMAIN v /\ Len(v) \in DOMAIN v
    BY <2>1
  <2>3. Head(v) \in Sample /\ Last(v) \in Sample
    BY <2>2 DEF Last
  <2>4. Head(v).time \in Nat /\ Last(v).time \in Nat
    BY <2>3 DEF Sample
  <2> QED
    BY <2>1, <2>4 DEF ChannelDoc, ChannelDocument
<1>3. ChannelDocs(names) = [i \in DOMAIN s |-> ChannelDoc(s[i])]
  BY <1>1 DEF ChannelDocs
<1>4. \A i \in DOMAIN s : /\ ChannelDoc(s[i]) \in ChannelDocument
                          /\ ChannelDoc(s[i]).name \in names
  BY <1>1, <1>2
<1>5. ChannelDocs(names) \in Seq(ChannelDocument)
  <2>1. DOMAIN s = 1..Len(s) /\ Len(s) \in Nat
    BY <1>1
  <2> HIDE DEF ChannelDoc, ChannelDocument
  <2> QED
    BY <1>3, <1>4, <2>1
<1> QED
  BY <1>3, <1>4, <1>5

LEMMA FilterClassicStep ==
    ASSUME RequestsInv, NEW t \in Worker, FilterClassic(t)
    PROVE  RequestsInv'
<1>1. PICK match \in Patterns(q[t].req) :
         LET found == {n \in match : stored[n] # <<>>}
         IN  AfterFilter(t, IF found = {} THEN 1 ELSE 0, ChannelDocs(found))
  BY DEF FilterClassic
<1> DEFINE found == {n \in match : stored[n] # <<>>}
<1>2. PICK type \in 0..3 : AfterFilter(t, type, ChannelDocs(found))
  BY <1>1
<1>3. found \subseteq Name /\ \A n \in found : stored[n] # <<>>
  BY DEF Patterns
<1> HIDE DEF found
<1>4. StoredSound(stored) /\ q[t].pc = "filter"
  BY DEF RequestsInv, FilterClassic
<1>5. /\ ChannelDocs(found) \in Seq(ChannelDocument)
      /\ \A d \in DOMAIN ChannelDocs(found) : stored[ChannelDocs(found)[d].name] # <<>>
  BY <1>3, <1>4, ChannelDocsSound
<1> QED
  BY <1>2, <1>4, <1>5, AfterFilterStep

LEMMA FilterFailsStep ==
    ASSUME RequestsInv, NEW t \in Worker, FilterFails(t)
    PROVE  RequestsInv'
<1>1. PICK type \in {1, 2} : AfterFilter(t, type, <<>>)
  BY DEF FilterFails
<1>2. PICK docs \in Seq(ChannelDocument) : docs = <<>>
  BY EmptySequence
<1>3. \A d \in DOMAIN docs : stored[docs[d].name] # <<>>
  BY <1>2
<1>4. q[t].pc = "filter" /\ type \in 0..3 /\ AfterFilter(t, type, docs)
  BY <1>1, <1>2 DEF FilterFails
<1> QED
  BY <1>3, <1>4, AfterFilterStep

LEMMA FilterMongoStep ==
    ASSUME RequestsInv, NEW t \in Worker, FilterMongo(t)
    PROVE  RequestsInv'
<1>1. PICK match \in Selections(q[t].req) :
         LET found == {n \in match : stored[n] # <<>>}
         IN  \E twice \in SUBSET found :
                AfterFilter(t, 0, ChannelDocs(found) \o ChannelDocs(twice))
  BY DEF FilterMongo
<1> DEFINE found == {n \in match : stored[n] # <<>>}
<1>2. PICK twice \in SUBSET found :
         AfterFilter(t, 0, ChannelDocs(found) \o ChannelDocs(twice))
  BY <1>1
<1>3. /\ found \subseteq Name /\ \A n \in found : stored[n] # <<>>
      /\ twice \subseteq Name /\ \A n \in twice : stored[n] # <<>>
  BY <1>2 DEF Selections
<1> HIDE DEF found
<1>4. StoredSound(stored) /\ q[t].pc = "filter"
  BY DEF RequestsInv, FilterMongo
<1>5. PICK a \in Seq(ChannelDocument) : /\ a = ChannelDocs(found)
                                        /\ \A d \in DOMAIN a : stored[a[d].name] # <<>>
  BY <1>3, <1>4, ChannelDocsSound
<1>6. PICK b \in Seq(ChannelDocument) : /\ b = ChannelDocs(twice)
                                        /\ \A d \in DOMAIN b : stored[b[d].name] # <<>>
  BY <1>3, <1>4, ChannelDocsSound
<1>7. /\ a \o b \in Seq(ChannelDocument)
      /\ \A d \in DOMAIN (a \o b) : stored[(a \o b)[d].name] # <<>>
  <2>1. /\ a \o b \in Seq(ChannelDocument) /\ Len(a \o b) = Len(a) + Len(b)
        /\ \A i \in 1..Len(a) + Len(b) :
              (a \o b)[i] = IF i <= Len(a) THEN a[i] ELSE b[i - Len(a)]
    BY ConcatProperties
  <2>2. ASSUME NEW d \in DOMAIN (a \o b) PROVE stored[(a \o b)[d].name] # <<>>
    <3>1. d \in 1..Len(a) + Len(b) /\ Len(a) \in Nat /\ Len(b) \in Nat
      BY <2>1
    <3>2. CASE d <= Len(a)
      BY <1>5, <2>1, <3>1, <3>2
    <3>3. CASE d > Len(a)
      <4>1. d - Len(a) \in DOMAIN b /\ (a \o b)[d] = b[d - Len(a)]
        BY <2>1, <3>1, <3>3
      <4> QED
        BY <1>6, <4>1
    <3> QED
      BY <3>1, <3>2, <3>3
  <2> QED
    BY <2>1, <2>2
<1>8. AfterFilter(t, 0, a \o b) /\ 0 \in 0..3
  BY <1>2, <1>5, <1>6
<1> QED
  BY <1>4, <1>7, <1>8, AfterFilterStep

LEMMA FilterEndsStep ==
    ASSUME RequestsInv, NEW t \in Worker, FilterDies(t) \/ FilterThrows(t)
    PROVE  RequestsInv'
<1>1. CASE FilterDies(t)
  BY <1>1, RestartStep DEF FilterDies
<1>2. CASE FilterThrows(t)
  <2>1. Done(t, 3, <<>>) /\ q[t].pc \notin AtSample \cup {"close", "idle"} /\ 3 \in 0..3
    BY <1>2, Outside DEF FilterThrows
  <2> QED
    BY <2>1, DoneStep
<1> QED
  BY <1>1, <1>2

LEMMA ReadStep ==
    ASSUME RequestsInv, NEW t \in Worker, Read(t)
    PROVE  RequestsInv'
<1>1. /\ RequestSound(stored, q[t]) /\ q[t].pc = "read"
      /\ q[t] \in Query({q[t].req}, {q[t].docs}) /\ q[t].req \in Request
      /\ q[t].header = 0 /\ q[t].values = <<>> /\ q[t].got = <<>>
  BY Outside DEF RequestsInv, RequestSound, Read
<1>2. PICK docs \in Seq(ChannelDocument) : /\ docs = q[t].docs
                                           /\ \A d \in DOMAIN docs : stored[docs[d].name] # <<>>
  BY <1>1 DEF RequestSound, InputSound
<1> DEFINE found == {docs[i].name : i \in DOMAIN docs}
<1>3. found \subseteq Name /\ \A m \in found : stored[m] # <<>>
  <2>1. \A i \in DOMAIN docs : docs[i] \in ChannelDocument
    BY <1>2
  <2> QED
    BY <1>2, <2>1 DEF ChannelDocument
<1>4. PICK names \in Seq(Name) : /\ names = Sorted(found) /\ IsInjective(names)
                                 /\ \A i \in DOMAIN names : names[i] \in found
  <2> HIDE DEF found
  <2> QED
    BY <1>3, SortedNames
<1>5. names = DecodeInput(q[t].docs)
  BY <1>2, <1>4 DEF DecodeInput
<1>6. \A i \in DOMAIN names : stored[names[i]] # <<>>
  BY <1>3, <1>4
<1> HIDE DEF found
<1>7. PICK none : none = <<>> /\ none \in Seq(ValueDocument)
  BY EmptySequence
<1>8. PICK req \in Request : req = DecodeQuery(q[t].req)
  BY <1>1, QueriesAssumption DEF DecodeQuery, Request
<1> DEFINE n == [q[t] EXCEPT !.pc = "find", !.names = names, !.docs = none, !.req = req]
<1>9. CASE names = <<>>
  <2>1. Done(t, 1, <<>>) /\ 1 \in 0..3
    BY <1>5, <1>9 DEF Read
  <2> QED
    BY <1>1, <2>1, Outside, DoneStep
<1>10. CASE names # <<>>
  <2>1. Go(t, n)
    BY <1>5, <1>7, <1>8, <1>10 DEF Read
  <2>2. /\ n \in Query({n.req}, {n.docs}) /\ n.req = req /\ n.docs = none
        /\ n.names = names /\ n.header = 0 /\ n.values = <<>> /\ n.got = <<>>
        /\ n.pc = "find"
    BY <1>1 DEF Query, InChannel
  <2> HIDE DEF n
  <2>3. n.pc \notin AtSample /\ n.pc # "read" /\ n.pc # "close"
    BY <2>2, Outside
  <2>4. DOMAIN none = {}
    BY <1>7
  <2>5. NamesSound(stored, n)
    BY <1>4, <1>6, <1>7, <1>10, <2>2, <2>4 DEF NamesSound
  <2>6. DocsSound(stored, n)
    BY <2>2, <2>4 DEF DocsSound, IsInjective
  <2>7. RequestSound(stored, n)
    BY <2>2, <2>3, <2>5, <2>6 DEF RequestSound, InputSound, ReaderSound
  <2> QED
    BY <2>1, <2>7, GoSound
<1> QED
  BY <1>9, <1>10

-----------------------------------------------------------------------------
(* The reader of a channel.                                                *)

\* What is known of a channel that is read.
LEMMA ChannelFacts ==
    ASSUME RequestsInv, NEW t \in Worker, q[t].pc \in InChannel
    PROVE  /\ RequestSound(stored, q[t]) /\ StoredSound(stored)
           /\ q[t] \in Query({q[t].req}, {q[t].docs}) /\ q[t].req \in Request
           /\ q[t].names \in Seq(Name) /\ q[t].names # <<>>
           /\ Head(q[t].names) \in Name
           /\ Samples(t) \in Seq(Sample) /\ Samples(t) # <<>>
           /\ Samples(t) = stored[Head(q[t].names)]
           /\ \A i \in DOMAIN Samples(t) : Samples(t)[i].time = i
           /\ q[t].docs \in Seq(ValueDocument)
           /\ q[t].values \in Seq(Nat) /\ q[t].got \in Seq(Nat)
           /\ q[t].req.start \in Nat /\ q[t].req.end \in Nat /\ q[t].req.limit \in Nat
<1>1. /\ RequestSound(stored, q[t]) /\ StoredSound(stored)
      /\ q[t] \in Query({q[t].req}, {q[t].docs}) /\ q[t].req \in Request
  <2>1. q[t].pc # "idle"
    BY DEF InChannel, AtSample
  <2> QED
    BY <2>1 DEF RequestsInv, RequestSound
<1>2. /\ q[t].names \in Seq(Name) /\ q[t].names # <<>> /\ q[t].docs \in Seq(ValueDocument)
      /\ q[t].values \in Seq(Nat) /\ q[t].got \in Seq(Nat)
      /\ \A i \in DOMAIN q[t].names : stored[q[t].names[i]] # <<>>
  BY <1>1 DEF RequestSound, NamesSound, Query
<1>3. PICK names \in Seq(Name) : names = q[t].names
  BY <1>2
<1>4. 1 \in DOMAIN names /\ Head(names) = names[1] /\ Head(names) \in Name
  BY <1>2, <1>3
<1>5. stored[Head(names)] \in Seq(Sample) /\ stored[Head(names)] # <<>>
  BY <1>1, <1>2, <1>3, <1>4 DEF StoredSound
<1>6. \A i \in DOMAIN stored[Head(names)] : stored[Head(names)][i].time = i
  BY <1>1, <1>4 DEF StoredSound
<1>7. Samples(t) = stored[Head(names)]
  BY <1>3 DEF Samples
<1>8. q[t].req.start \in Nat /\ q[t].req.end \in Nat /\ q[t].req.limit \in Nat
  BY <1>1 DEF Request
<1> QED
  BY <1>1, <1>2, <1>3, <1>4, <1>5, <1>6, <1>7, <1>8

\* The reader goes on, at the same sample or at another one, which it may give.
LEMMA ReaderStep ==
    ASSUME RequestsInv, NEW t \in Worker,
           q[t].pc \in AtSample \cup {"find"}, q[t].pc # "value",
           NEW pc \in AtSample, NEW i \in DOMAIN Samples(t), NEW header \in File \cup {0},
           NEW given, given = IF pc = "value" THEN Append(q[t].got, i) ELSE q[t].got,
           Go(t, [q[t] EXCEPT !.pc = pc, !.pos = i, !.got = given, !.header = header])
    PROVE  RequestsInv'
<1> DEFINE n == [q[t] EXCEPT !.pc = pc, !.pos = i, !.got = given, !.header = header]
<1>1. q[t].pc \in InChannel /\ pc \in InChannel /\ pc # "read" /\ q[t].pc # "close"
  BY DEF InChannel, AtSample
<1>2. /\ RequestSound(stored, q[t]) /\ q[t] \in Query({q[t].req}, {q[t].docs})
      /\ q[t].req \in Request /\ q[t].req.limit \in Nat
  BY <1>1, ChannelFacts
<1>3. PICK s \in Seq(Sample) : s = Samples(t) /\ s = stored[Head(q[t].names)]
  BY <1>1, ChannelFacts
<1>4. PICK v \in Seq(Nat) : v = q[t].values
  BY <1>1, ChannelFacts
<1>5. i \in DOMAIN s /\ i \in Nat
  BY <1>3
<1>6. q[t].got = v /\ Fits(s, v, v, q[t].req)
  <2>1. CASE q[t].pc = "find"
    <3>1. v = <<>> /\ q[t].got = <<>>
      BY <1>2, <1>4, <2>1, Outside DEF RequestSound
    <3> QED
      BY <1>2, <3>1, NothingFits
  <2>2. CASE q[t].pc \in AtSample
    BY <1>2, <1>3, <1>4, <2>2 DEF RequestSound, ReaderSound
  <2> QED
    BY <2>1, <2>2
<1>7. given \in Seq(Nat) /\ given = IF pc = "value" THEN Append(v, i) ELSE v
  BY <1>5, <1>6, Appended
<1>8. /\ n \in Query({n.req}, {n.docs}) /\ n.req = q[t].req /\ n.docs = q[t].docs
      /\ n.names = q[t].names /\ n.pos = i /\ n.values = v /\ n.got = given
      /\ n.pc = pc
  BY <1>1, <1>2, <1>4, <1>5, <1>7 DEF Query
<1> HIDE DEF n
<1>9. n.req \in Request /\ n.pc \in AtSample /\ n.pc \in InChannel /\ n.pc # "read"
  BY <1>1, <1>2, <1>8
<1>10. InputSound(stored, n)
  BY <1>9 DEF InputSound
<1>11. NamesSound(stored, n)
  BY <1>1, <1>2, <1>8 DEF RequestSound, NamesSound
<1>12. DocsSound(stored, n)
  BY <1>1, <1>2, <1>8 DEF RequestSound, DocsSound
<1>13. ReaderSound(stored, n)
  BY <1>3, <1>5, <1>6, <1>7, <1>8 DEF ReaderSound
<1>14. RequestSound(stored, n)
  BY <1>8, <1>9, <1>10, <1>11, <1>12, <1>13 DEF RequestSound
<1> QED
  BY <1>14, GoSound DEF n

LEMMA DocsDistinct ==
    ASSUME NEW docs
    PROVE  IsInjective([d \in DOMAIN docs |-> docs[d].name])
             <=> \A c, d \in DOMAIN docs : docs[c].name = docs[d].name => c = d
BY DEF IsInjective

\* The document of the channel is added.
LEMMA ClosingStep ==
    ASSUME RequestsInv, NEW t \in Worker, q[t].pc \in AtSample \cup {"find"},
           NEW ok \in BOOLEAN, NEW status \in 0..3,
           ok => Fits(Samples(t), q[t].got, q[t].values, q[t].req),
           Go(t, [q[t] EXCEPT !.pc = "close", !.status = status,
                              !.docs = Append(@, Document(t, ok))])
    PROVE  RequestsInv'
<1> DEFINE n == [q[t] EXCEPT !.pc = "close", !.status = status,
                              !.docs = Append(@, Document(t, ok))]
<1>1. q[t].pc \in InChannel /\ q[t].pc # "close"
  BY DEF InChannel, AtSample
<1>2. /\ RequestSound(stored, q[t]) /\ q[t] \in Query({q[t].req}, {q[t].docs})
      /\ q[t].req \in Request /\ q[t].req.limit \in Nat
  BY <1>1, ChannelFacts
<1>3. PICK names \in Seq(Name) : names = q[t].names /\ names # <<>> /\ Head(names) \in Name
  BY <1>1, ChannelFacts
<1>4. PICK docs \in Seq(ValueDocument) : docs = q[t].docs
  BY <1>1, ChannelFacts
<1>5. q[t].values \in Seq(Nat) /\ q[t].got \in Seq(Nat)
  BY <1>1, ChannelFacts
<1>6. Samples(t) = stored[Head(names)]
  BY <1>1, <1>3, ChannelFacts
<1>7. PICK none \in Seq(Nat) : none = <<>>
  BY NoValues
<1>8. \A s : Fits(s, none, none, q[t].req)
  BY <1>2, <1>7, NothingFits
<1>10. PICK d \in ValueDocument : /\ d = Document(t, ok) /\ d.name = Head(names)
                                  /\ Fits(stored[d.name], d.got, d.values, q[t].req)
  <2>1. PICK v \in Seq(Nat), given \in Seq(Nat) :
           /\ v = IF ok THEN q[t].values ELSE <<>>
           /\ given = IF ok THEN q[t].got ELSE <<>>
           /\ Fits(stored[Head(names)], given, v, q[t].req)
    <3>1. CASE ok
      BY <1>5, <1>6, <3>1
    <3>2. CASE ~ok
      BY <1>7, <1>8, <3>2
    <3> QED
      BY <3>1, <3>2
  <2>2. Document(t, ok) = [name |-> Head(names), ok |-> ok, values |-> v, got |-> given]
    BY <1>3, <2>1 DEF Document
  <2>3. [name |-> Head(names), ok |-> ok, values |-> v, got |-> given] \in ValueDocument
    BY <1>3 DEF ValueDocument
  <2> QED
    BY <2>1, <2>2, <2>3
<1>11. PICK more \in Seq(ValueDocument) :
          /\ more = Append(docs, d) /\ DOMAIN more = 1..(Len(docs) + 1)
          /\ \A i \in DOMAIN docs : more[i] = docs[i]
          /\ more[Len(docs) + 1] = d
          /\ \A i \in DOMAIN more : i \in DOMAIN docs \/ i = Len(docs) + 1
  <2> HIDE DEF ValueDocument
  <2>1. PICK more \in Seq(ValueDocument) : more = Append(docs, d)
    BY Appended
  <2>2. /\ DOMAIN more = 1..(Len(docs) + 1) /\ more[Len(docs) + 1] = d
        /\ \A i \in 1..Len(docs) : more[i] = docs[i]
        /\ DOMAIN docs = 1..Len(docs) /\ Len(docs) \in Nat
    BY <2>1, Appended
  <2>3. \A i \in DOMAIN docs : more[i] = docs[i]
    BY <2>2
  <2>4. \A i \in DOMAIN more : i \in DOMAIN docs \/ i = Len(docs) + 1
    BY <2>2, <2>3
  <2> QED
    BY <2>1, <2>2, <2>3, <2>4, Zenon
<1>12. /\ n \in Query({n.req}, {n.docs}) /\ n.req = q[t].req /\ n.docs = more
       /\ n.names = names /\ n.pc = "close"
  <2>1. n = [q[t] EXCEPT !.pc = "close", !.status = status, !.docs = more]
    BY <1>4, <1>10, <1>11
  <2> HIDE DEF n
  <2> QED
    BY <1>2, <1>3, <2>1 DEF Query, InChannel
<1> HIDE DEF n
<1>13. /\ IsInjective(names) /\ \A i \in DOMAIN names : stored[names[i]] # <<>>
       /\ \A c \in DOMAIN docs, i \in DOMAIN names : docs[c].name # names[i]
  BY <1>1, <1>2, <1>3, <1>4 DEF RequestSound, NamesSound
<1>14. d.name = names[1] /\ 1 \in DOMAIN names
  BY <1>3, <1>10
<1>15. NamesSound(stored, n)
  <2>1. ASSUME NEW c \in DOMAIN more, NEW i \in DOMAIN names, more[c].name = names[i]
        PROVE  i = 1
    <3>1. CASE c \in DOMAIN docs
      BY <1>11, <1>13, <2>1, <3>1
    <3>2. CASE c = Len(docs) + 1
      BY <1>11, <1>13, <1>14, <2>1, <3>2 DEF IsInjective
    <3> QED
      BY <1>11, <3>1, <3>2
  <2> QED
    BY <1>3, <1>12, <1>13, <2>1 DEF NamesSound
<1>16. DocsSound(stored, n)
  <2>1. /\ \A b, c \in DOMAIN docs : docs[b].name = docs[c].name => b = c
        /\ \A c \in DOMAIN docs : Fits(stored[docs[c].name], docs[c].got, docs[c].values, q[t].req)
    BY <1>1, <1>2, <1>4, DocsDistinct DEF RequestSound, DocsSound
  <2>2. \A c \in DOMAIN docs : docs[c].name # d.name
    BY <1>13, <1>14
  <2>3. \A b, c \in DOMAIN more : more[b].name = more[c].name => b = c
    BY <1>11, <2>1, <2>2
  <2>4. \A c \in DOMAIN more : Fits(stored[more[c].name], more[c].got, more[c].values, q[t].req)
    BY <1>10, <1>11, <2>1
  <2> QED
    BY <1>12, <2>3, <2>4, DocsDistinct DEF DocsSound
<1>17. n.pc \notin AtSample /\ n.pc # "read"
  BY <1>12, Outside
<1>18. RequestSound(stored, n)
  BY <1>2, <1>12, <1>15, <1>16, <1>17 DEF RequestSound, InputSound, ReaderSound
<1> QED
  BY <1>18, GoSound DEF n

LEMMA ThrowStep ==
    ASSUME RequestsInv, NEW t \in Worker, q[t].pc \in AtSample \cup {"find"}, Throw(t)
    PROVE  RequestsInv'
<1>1. PICK ok \in BOOLEAN : ~ok /\ ok = FALSE
  OBVIOUS
<1>2. 2 \in 0..3
  OBVIOUS
<1> QED
  BY <1>1, <1>2, ClosingStep DEF Throw

LEMMA FinishStep ==
    ASSUME RequestsInv, NEW t \in Worker, q[t].pc \in AtSample \cup {"find"}, Finish(t),
           Fits(Samples(t), q[t].got, q[t].values, q[t].req)
    PROVE  RequestsInv'
<1>1. q[t].pc \in InChannel
  BY DEF InChannel
<1>2. q[t] \in Query({q[t].req}, {q[t].docs})
  BY <1>1, ChannelFacts
<1>3. q[t].status \in 0..3 /\ TRUE \in BOOLEAN
  BY <1>2 DEF Query
<1>4. [q[t] EXCEPT !.pc = "close", !.docs = Append(@, Document(t, TRUE))]
      = [q[t] EXCEPT !.pc = "close", !.status = q[t].status,
                     !.docs = Append(@, Document(t, TRUE))]
  BY <1>2 DEF Query
<1> QED
  BY <1>3, <1>4, ClosingStep DEF Finish

\* The data of the channel end.
LEMMA FindsNothingStep ==
    ASSUME RequestsInv, NEW t \in Worker, FindsNothing(t)
    PROVE  RequestsInv'
<1>1. q[t].pc = "find" /\ q[t].pc \in InChannel
  BY DEF FindsNothing, InChannel
<1>2. RequestSound(stored, q[t]) /\ q[t].req.limit \in Nat
  BY <1>1, ChannelFacts
<1>3. q[t].values = <<>> /\ q[t].got = <<>>
  BY <1>1, <1>2, Outside DEF RequestSound
<1>4. Fits(Samples(t), q[t].got, q[t].values, q[t].req)
  BY <1>2, <1>3, EmptySequence, NothingFits
<1> QED
  BY <1>1, <1>4, FinishStep DEF FindsNothing

LEMMA FindStep ==
    ASSUME RequestsInv, NEW t \in Worker, Find(t)
    PROVE  RequestsInv'
<1>1. q[t].pc = "find" /\ q[t].pc \in InChannel
  BY DEF Find, InChannel
<1>2. q[t] \in Query({q[t].req}, {q[t].docs})
  BY <1>1, ChannelFacts
<1>3. PICK i \in DOMAIN Samples(t) : Go(t, [q[t] EXCEPT !.pc = "reference", !.pos = i])
  BY DEF Find
<1>4. q[t].header \in File \cup {0}
  BY <1>2 DEF Query
<1>5. [q[t] EXCEPT !.pc = "reference", !.pos = i]
      = [q[t] EXCEPT !.pc = "reference", !.pos = i, !.got = q[t].got, !.header = q[t].header]
  BY <1>2 DEF Query
<1>6. PICK pc \in AtSample : pc = "reference" /\ pc # "value" /\ q[t].pc # "value"
  BY <1>1 DEF AtSample
<1>7. Go(t, [q[t] EXCEPT !.pc = pc, !.pos = i, !.got = q[t].got, !.header = q[t].header])
  BY <1>3, <1>5, <1>6
<1> QED
  BY <1>1, <1>4, <1>6, <1>7, ReaderStep

\* The reader is at a sample of the channel.
LEMMA HereFile ==
    ASSUME RequestsInv, NEW t \in Worker, q[t].pc \in AtSample
    PROVE  q[t].pos \in DOMAIN Samples(t) /\ Here(t) \in File
<1>1. PICK s \in Seq(Sample) : s = Samples(t) /\ s = stored[Head(q[t].names)]
  BY ChannelFacts DEF InChannel
<1>2. q[t].pos \in DOMAIN s
  BY <1>1 DEF RequestsInv, RequestSound, ReaderSound
<1>3. s[q[t].pos] \in Sample
  BY <1>2
<1> QED
  BY <1>1, <1>2, <1>3 DEF Here, Sample

\* getHeader: the file is found or opened, the list is cleared, the header and
\* the control info are read.
LEMMA HeaderStep ==
    ASSUME RequestsInv, NEW t \in Worker,
           \/ FindInCache(t) \/ CountReference(t) \/ OpenFile(t)
           \/ ClearCache(t) \/ ReadHeader(t) \/ ReadInfo(t)
    PROVE  RequestsInv'
<1>1. q[t].pc \in AtSample /\ q[t].pc # "value"
  BY DEF FindInCache, CountReference, OpenFile, ClearCache, ReadHeader, ReadInfo, AtSample
<1>2. \/ Throw(t)
      \/ \E pc \in AtSample : pc # "value" /\ Go(t, [q[t] EXCEPT !.pc = pc])
      \/ Go(t, Gives([q[t] EXCEPT !.header = Here(t)]))
      \/ Go(t, [q[t] EXCEPT !.header = Here(t), !.pc = "next"])
  BY DEF FindInCache, CountReference, OpenFile, ClearCache, ReadHeader, ReadInfo, AtSample
<1>3. q[t] \in Query({q[t].req}, {q[t].docs})
  BY <1>1, ChannelFacts DEF InChannel
<1>4. q[t].pos \in DOMAIN Samples(t) /\ Here(t) \in File /\ q[t].header \in File \cup {0}
  BY <1>1, <1>3, HereFile DEF Query
<1>5. CASE Throw(t)
  BY <1>1, <1>5, ThrowStep
<1>6. CASE \E pc \in AtSample : pc # "value" /\ Go(t, [q[t] EXCEPT !.pc = pc])
  <2>1. PICK pc \in AtSample : pc # "value" /\ Go(t, [q[t] EXCEPT !.pc = pc])
    BY <1>6
  <2>2. [q[t] EXCEPT !.pc = pc]
        = [q[t] EXCEPT !.pc = pc, !.pos = q[t].pos, !.got = q[t].got, !.header = q[t].header]
    BY <1>3 DEF Query
  <2>3. Go(t, [q[t] EXCEPT !.pc = pc, !.pos = q[t].pos, !.got = q[t].got,
                           !.header = q[t].header])
    BY <2>1, <2>2
  <2> QED
    BY <1>1, <1>4, <2>1, <2>3, ReaderStep
<1>7. CASE Go(t, Gives([q[t] EXCEPT !.header = Here(t)]))
  <2>1. Gives([q[t] EXCEPT !.header = Here(t)])
        = [q[t] EXCEPT !.pc = "value", !.pos = q[t].pos,
                       !.got = Append(q[t].got, q[t].pos), !.header = Here(t)]
    BY <1>3 DEF Gives, Query
  <2>2. PICK pc \in AtSample : pc = "value"
    BY DEF AtSample
  <2>3. Go(t, [q[t] EXCEPT !.pc = pc, !.pos = q[t].pos,
                           !.got = Append(q[t].got, q[t].pos), !.header = Here(t)])
    BY <1>7, <2>1, <2>2
  <2> QED
    BY <1>1, <1>4, <2>2, <2>3, ReaderStep
<1>8. CASE Go(t, [q[t] EXCEPT !.header = Here(t), !.pc = "next"])
  <2>1. [q[t] EXCEPT !.header = Here(t), !.pc = "next"]
        = [q[t] EXCEPT !.pc = "next", !.pos = q[t].pos, !.got = q[t].got, !.header = Here(t)]
    BY <1>3 DEF Query
  <2>2. PICK pc \in AtSample : pc = "next" /\ pc # "value"
    BY DEF AtSample
  <2>3. Go(t, [q[t] EXCEPT !.pc = pc, !.pos = q[t].pos, !.got = q[t].got, !.header = Here(t)])
    BY <1>8, <2>1, <2>2
  <2> QED
    BY <1>1, <1>4, <2>2, <2>3, ReaderStep
<1> QED
  BY <1>2, <1>5, <1>6, <1>7, <1>8

\* One more sample is taken.
LEMMA TakenFits ==
    ASSUME NEW s \in Seq(Sample), NEW v \in Seq(Nat), NEW req, req.limit \in Nat,
           NEW pos \in DOMAIN s, Fits(s, v, v, req), Len(v) < req.limit,
           req.end # 0 => s[pos].time < req.end,
           NEW w \in Seq(Nat), w = Append(v, pos)
    PROVE  Fits(s, w, w, req)
<1>1. PICK len \in Nat : len = Len(v) /\ DOMAIN v = 1..len
  OBVIOUS
<1>2. /\ DOMAIN w = 1..(len + 1) /\ w[len + 1] = pos /\ Len(w) = len + 1
      /\ \A i \in 1..len : w[i] = v[i]
  BY <1>1, Appended
<1>3. \A i \in DOMAIN w : i \in 1..len \/ i = len + 1
  BY <1>2
<1>4. \A i \in DOMAIN w : w[i] \in DOMAIN s
  BY <1>1, <1>2, <1>3 DEF Fits
<1>5. req.end # 0 => \A i \in DOMAIN w : s[w[i]].time < req.end
  BY <1>1, <1>2, <1>3 DEF Fits
<1>6. IsPrefix(w, w)
  BY OwnPrefix
<1>7. Len(w) <= req.limit /\ ~(Len(w) < Len(w))
  BY <1>1, <1>2
<1> QED
  BY <1>4, <1>5, <1>6, <1>7 DEF Fits

\* The sample that the loop looks at is not taken.
LEMMA LeftFits ==
    ASSUME NEW s \in Seq(Sample), NEW v \in Seq(Nat), NEW req, req.limit \in Nat,
           req.end \in Nat, NEW pos \in DOMAIN s, Fits(s, v, v, req),
           ~(Len(v) < req.limit /\ (req.end = 0 \/ s[pos].time < req.end)),
           NEW w \in Seq(Nat), w = Append(v, pos)
    PROVE  Fits(s, w, v, req)
<1>1. PICK len \in Nat : len = Len(v) /\ DOMAIN v = 1..len
  OBVIOUS
<1>2. /\ DOMAIN w = 1..(len + 1) /\ w[len + 1] = pos /\ Len(w) = len + 1
      /\ \A i \in 1..len : w[i] = v[i]
  BY <1>1, Appended
<1>3. \A i \in DOMAIN w : i \in 1..len \/ i = len + 1
  BY <1>2
<1>4. \A i \in DOMAIN w : w[i] \in DOMAIN s
  BY <1>1, <1>2, <1>3 DEF Fits
<1>5. IsPrefix(v, w) /\ Len(v) <= req.limit
  BY LongerHasPrefix DEF Fits
<1>6. req.end # 0 => \A i \in DOMAIN v : s[v[i]].time < req.end
  BY DEF Fits
<1>7. Len(w) = Len(v) + 1 /\ Last(w) = pos
  BY <1>1, <1>2 DEF Last
<1>8. Len(v) = req.limit \/ (req.end # 0 /\ s[pos].time >= req.end)
  <2>1. s[pos] \in Sample
    OBVIOUS
  <2>2. s[pos].time \in Nat
    BY <2>1 DEF Sample
  <2> QED
    BY <1>1, <1>5, <2>2
<1> QED
  BY <1>4, <1>5, <1>6, <1>7, <1>8 DEF Fits

LEMMA TakeValueStep ==
    ASSUME RequestsInv, NEW t \in Worker, TakeValue(t)
    PROVE  RequestsInv'
<1>1. q[t].pc = "value" /\ q[t].pc \in AtSample /\ q[t].pc \in InChannel
  BY DEF TakeValue, AtSample, InChannel
<1>2. /\ RequestSound(stored, q[t]) /\ q[t] \in Query({q[t].req}, {q[t].docs})
      /\ q[t].req \in Request /\ q[t].req.limit \in Nat /\ q[t].req.end \in Nat
  BY <1>1, ChannelFacts
<1>3. PICK s \in Seq(Sample) : s = Samples(t) /\ s = stored[Head(q[t].names)]
  BY <1>1, ChannelFacts
<1>4. PICK v \in Seq(Nat) : v = q[t].values
  BY <1>1, ChannelFacts
<1>5. PICK pos \in DOMAIN s : pos = q[t].pos
  BY <1>1, <1>2, <1>3 DEF RequestSound, ReaderSound
<1>6. pos \in Nat
  OBVIOUS
<1>7. PICK w \in Seq(Nat) : w = Append(v, pos)
  BY <1>6, Appended
<1>8. Fits(s, v, v, q[t].req) /\ q[t].got = w
  BY <1>1, <1>2, <1>3, <1>4, <1>5, <1>7 DEF RequestSound, ReaderSound
<1>9. CASE ~(Len(v) < q[t].req.limit /\ (q[t].req.end = 0 \/ s[pos].time < q[t].req.end))
  <2>1. Finish(t)
    BY <1>3, <1>4, <1>5, <1>9 DEF TakeValue
  <2>2. Fits(Samples(t), q[t].got, q[t].values, q[t].req)
    BY <1>2, <1>3, <1>4, <1>7, <1>8, <1>9, LeftFits
  <2> QED
    BY <1>1, <2>1, <2>2, FinishStep
<1>10. CASE Len(v) < q[t].req.limit /\ (q[t].req.end = 0 \/ s[pos].time < q[t].req.end)
  <2>1. Go(t, [q[t] EXCEPT !.pc = "next", !.values = Append(@, q[t].pos)])
    BY <1>3, <1>4, <1>5, <1>10 DEF TakeValue
  <2>2. Fits(s, w, w, q[t].req)
    BY <1>2, <1>7, <1>8, <1>10, TakenFits
  <2> DEFINE n == [q[t] EXCEPT !.pc = "next", !.values = w]
  <2>3. Go(t, n)
    BY <1>4, <1>5, <1>7, <2>1
  <2>4. /\ n \in Query({n.req}, {n.docs}) /\ n.req = q[t].req /\ n.docs = q[t].docs
        /\ n.names = q[t].names /\ n.pos = pos /\ n.values = w /\ n.got = w /\ n.pc = "next"
    BY <1>2, <1>5, <1>8 DEF Query, InChannel, AtSample
  <2> HIDE DEF n
  <2>5. n.pc \in AtSample /\ n.pc \in InChannel /\ n.pc # "read"
    BY <2>4 DEF AtSample, InChannel
  <2>6. NamesSound(stored, n)
    BY <1>1, <1>2, <2>4 DEF RequestSound, NamesSound
  <2>7. DocsSound(stored, n)
    BY <1>1, <1>2, <2>4 DEF RequestSound, DocsSound
  <2>8. ReaderSound(stored, n)
    BY <1>3, <2>2, <2>4 DEF ReaderSound
  <2>9. RequestSound(stored, n)
    BY <1>2, <2>4, <2>5, <2>6, <2>7, <2>8 DEF RequestSound, InputSound
  <2> QED
    BY <2>3, <2>9, GoSound
<1> QED
  BY <1>9, <1>10

LEMMA NextValueStep ==
    ASSUME RequestsInv, NEW t \in Worker, NextValue(t)
    PROVE  RequestsInv'
<1>1. q[t].pc = "next" /\ q[t].pc \in AtSample /\ q[t].pc \in InChannel /\ q[t].pc # "value"
  BY DEF NextValue, AtSample, InChannel
<1>2. /\ RequestSound(stored, q[t]) /\ q[t] \in Query({q[t].req}, {q[t].docs})
      /\ q[t].header \in File \cup {0}
  BY <1>1, ChannelFacts DEF Query
<1>3. CASE Throw(t)
  BY <1>1, <1>3, ThrowStep
<1>4. CASE Finish(t)
  <2>1. Fits(Samples(t), q[t].got, q[t].values, q[t].req)
    BY <1>1, <1>2, ChannelFacts DEF RequestSound, ReaderSound
  <2> QED
    BY <1>1, <1>4, <2>1, FinishStep
<1>5. CASE \E i \in DOMAIN Samples(t) :
              LET n == [q[t] EXCEPT !.pos = i]
              IN  Go(t, [n EXCEPT !.pc = "reference"]) \/ Go(t, Gives(n))
  <2>1. PICK i \in DOMAIN Samples(t) :
              \/ Go(t, [[q[t] EXCEPT !.pos = i] EXCEPT !.pc = "reference"])
              \/ Go(t, Gives([q[t] EXCEPT !.pos = i]))
    BY <1>5
  <2>2. [[q[t] EXCEPT !.pos = i] EXCEPT !.pc = "reference"]
        = [q[t] EXCEPT !.pc = "reference", !.pos = i, !.got = q[t].got, !.header = q[t].header]
    BY <1>2 DEF Query
  <2>3. Gives([q[t] EXCEPT !.pos = i])
        = [q[t] EXCEPT !.pc = "value", !.pos = i, !.got = Append(q[t].got, i),
                       !.header = q[t].header]
    BY <1>2 DEF Gives, Query
  <2>4. CASE Go(t, [[q[t] EXCEPT !.pos = i] EXCEPT !.pc = "reference"])
    <3>1. PICK pc \in AtSample : pc = "reference" /\ pc # "value"
      BY DEF AtSample
    <3>2. Go(t, [q[t] EXCEPT !.pc = pc, !.pos = i, !.got = q[t].got, !.header = q[t].header])
      BY <2>2, <2>4, <3>1
    <3> QED
      BY <1>1, <1>2, <3>1, <3>2, ReaderStep
  <2>5. CASE Go(t, Gives([q[t] EXCEPT !.pos = i]))
    <3>1. PICK pc \in AtSample : pc = "value"
      BY DEF AtSample
    <3>2. Go(t, [q[t] EXCEPT !.pc = pc, !.pos = i, !.got = Append(q[t].got, i),
                             !.header = q[t].header])
      BY <2>3, <2>5, <3>1
    <3> QED
      BY <1>1, <1>2, <3>1, <3>2, ReaderStep
  <2> QED
    BY <2>1, <2>4, <2>5
<1> QED
  BY <1>3, <1>4, <1>5 DEF NextValue

\* The reader is deleted, and the next channel is found or the result is made.
LEMMA CloseStep ==
    ASSUME RequestsInv, NEW t \in Worker, Close(t)
    PROVE  RequestsInv'
<1>1. q[t].pc = "close" /\ q[t].pc \in InChannel
  BY DEF Close, InChannel
<1>2. /\ RequestSound(stored, q[t]) /\ q[t] \in Query({q[t].req}, {q[t].docs})
      /\ q[t].req \in Request
  BY <1>1, ChannelFacts
<1>3. PICK names \in Seq(Name) : names = q[t].names /\ names # <<>>
  BY <1>1, ChannelFacts
<1>4. PICK rest \in Seq(Name) : /\ rest = Tail(names)
                                /\ \A i \in DOMAIN rest : i + 1 \in DOMAIN names /\ i \in Nat
                                                          /\ rest[i] = names[i + 1]
  <2>1. PICK rest \in Seq(Name) : rest = Tail(names)
    BY <1>3, HeadTailProperties
  <2>2. Len(names) \in Nat /\ DOMAIN names = 1..Len(names) /\ DOMAIN rest = 1..(Len(names) - 1)
    BY <1>3, <2>1
  <2>3. \A i \in DOMAIN rest : i + 1 \in DOMAIN names /\ i \in Nat
    BY <2>2
  <2>4. \A i \in DOMAIN rest : rest[i] = names[i + 1]
    BY <1>3, <2>1
  <2> QED
    BY <2>1, <2>3, <2>4
<1>5. PICK none \in Seq(Nat) : none = <<>>
  BY EmptySequence
<1> DEFINE n == [q[t] EXCEPT !.names = rest, !.pos = 0, !.got = none, !.values = none, !.header = 0,
                            !.pc = "find"]
           done == [n EXCEPT !.pc = "done", !.status = 0]
<1>6. Go(t, IF rest = <<>> THEN done ELSE n)
  <2>1. NextName(q[t]) = n /\ n.names = rest
    BY <1>2, <1>3, <1>4, <1>5 DEF NextName, Query
  <2> HIDE DEF n
  <2>2. CreateResult(n) = IF rest = <<>> THEN done ELSE n
    BY <2>1 DEF CreateResult
  <2> HIDE DEF done
  <2> QED
    BY <2>1, <2>2 DEF Close
<1>7. /\ n \in Query({n.req}, {n.docs}) /\ n.req = q[t].req /\ n.docs = q[t].docs
      /\ n.names = rest /\ n.values = none /\ n.got = none /\ n.header = 0 /\ n.pc = "find"
  BY <1>2 DEF Query, InChannel
<1> HIDE DEF n
<1>8. /\ done \in Query({done.req}, {done.docs}) /\ done.req = q[t].req
      /\ done.values = none /\ done.got = none /\ done.header = 0 /\ done.pc = "done"
  <2>1. done \in Query({n.req}, {n.docs})
    <3>1. 0 \in 0..3
      OBVIOUS
    <3>2. \E status \in 0..3 : done = [n EXCEPT !.pc = "done", !.status = status]
      BY <3>1
    <3> HIDE DEF done
    <3> QED
      BY <1>7, <3>2 DEF Query
  <2>2. /\ done.req = n.req /\ done.docs = n.docs /\ done.values = n.values
        /\ done.got = n.got /\ done.header = n.header /\ done.pc = "done"
    BY <1>7 DEF Query
  <2> HIDE DEF done
  <2> QED
    BY <1>7, <2>1, <2>2
<1> HIDE DEF done
<1>9. CASE rest = <<>>
  <2>1. done.pc \notin InChannel /\ done.pc # "read" /\ done.pc \notin AtSample
    BY <1>8, Outside
  <2>2. RequestSound(stored, done)
    BY <1>2, <1>5, <1>8, <2>1
    DEF RequestSound, InputSound, NamesSound, DocsSound, ReaderSound
  <2> QED
    BY <1>6, <1>9, <2>2, GoSound
<1>10. CASE rest # <<>>
  <2>1. /\ IsInjective(names) /\ \A i \in DOMAIN names : stored[names[i]] # <<>>
        /\ q[t].docs \in Seq(ValueDocument)
        /\ \A d \in DOMAIN q[t].docs, i \in DOMAIN names :
              q[t].docs[d].name = names[i] => i = 1
    BY <1>1, <1>2, <1>3 DEF RequestSound, NamesSound
  <2>2. IsInjective(rest)
    <3>1. \A i, j \in DOMAIN rest : rest[i] = rest[j] => i + 1 = j + 1
      BY <1>4, <2>1 DEF IsInjective
    <3>2. \A i, j \in Nat : i + 1 = j + 1 => i = j
      OBVIOUS
    <3> QED
      BY <1>4, <3>1, <3>2 DEF IsInjective
  <2>3. \A i \in DOMAIN rest : stored[rest[i]] # <<>>
    BY <1>4, <2>1
  <2>4. \A d \in DOMAIN q[t].docs, i \in DOMAIN rest : q[t].docs[d].name # rest[i]
    <3> TAKE d \in DOMAIN q[t].docs, i \in DOMAIN rest
    <3>1. i + 1 \in DOMAIN names /\ i + 1 # 1 /\ rest[i] = names[i + 1] /\ i \in Nat
      <4>1. i + 1 \in DOMAIN names /\ i \in Nat /\ rest[i] = names[i + 1]
        BY <1>4
      <4>2. i \in 1..Len(rest)
        OBVIOUS
      <4> QED
        BY <4>1, <4>2
    <3> QED
      BY <2>1, <3>1
  <2>5. NamesSound(stored, n)
    BY <1>7, <1>10, <2>1, <2>2, <2>3, <2>4 DEF NamesSound
  <2>6. DocsSound(stored, n)
    BY <1>1, <1>2, <1>7 DEF RequestSound, DocsSound
  <2>7. n.pc \notin AtSample /\ n.pc # "read"
    BY <1>7, Outside
  <2>8. RequestSound(stored, n)
    BY <1>2, <1>5, <1>7, <2>5, <2>6, <2>7 DEF RequestSound, InputSound, ReaderSound
  <2> QED
    BY <1>6, <1>10, <2>8, GoSound
<1> QED
  BY <1>9, <1>10

LEMMA AnswerStep ==
    ASSUME RequestsInv, NEW t \in Worker, Answer(t)
    PROVE  RequestsInv'
BY IdleSound, GoSound DEF Answer

-----------------------------------------------------------------------------
(* The first invariant.                                                    *)

LEMMA RequestsInit == QueriesInit => RequestsInv
<1> SUFFICES ASSUME QueriesInit PROVE RequestsInv
  OBVIOUS
<1>1. server \in Server /\ DOMAIN q = Worker /\ \A t \in Worker : q[t] = Idle
  BY DEF QueriesInit
<1>2. StoredSound(stored)
  <2>1. PICK none \in Seq(Sample) : none = <<>> /\ DOMAIN none = {}
    <3>1. <<>> \in Seq(Sample)
      BY EmptySequence
    <3>2. DOMAIN <<>> = {}
      OBVIOUS
    <3> QED
      BY <3>1, <3>2, Zenon
  <2>2. stored = [n \in Name |-> none]
    BY <2>1 DEF QueriesInit
  <2> QED
    BY <2>1, <2>2 DEF StoredSound
<1> QED
  BY <1>1, <1>2, IdleSound DEF RequestsInv

LEMMA RequestsNext == RequestsInv /\ [QueriesNext]_queryVars => RequestsInv'
<1> SUFFICES ASSUME RequestsInv, [QueriesNext]_queryVars PROVE RequestsInv'
  OBVIOUS
<1>1. CASE \E n \in Name, f \in File : AddSample(n, f)
  BY <1>1, AddSampleStep
<1>2. CASE \E t \in Worker, req \in Requests : Receive(t, req)
  BY <1>2, ReceiveStep
<1>3. CASE \E t \in Worker : Process(t)
  <2>1. PICK t \in Worker : Process(t)
    BY <1>3
  <2>2. CASE \/ Act(t) \/ ActAtOnce(t) \/ ActAtOnceMongo(t)
             \/ FilterClassic(t) \/ FilterFails(t)
             \/ FilterMongo(t) \/ FilterDies(t) \/ FilterThrows(t) \/ Read(t)
    BY <2>2, ActStep, AtOnceStep, FilterClassicStep, FilterFailsStep,
       FilterMongoStep, FilterEndsStep, ReadStep
  <2>3. CASE IndexFails(t)
    BY <2>3, RestartStep DEF IndexFails
  <2>4. CASE FindThrows(t) \/ FindsNothing(t)
    BY <2>4, ThrowStep, FindsNothingStep DEF FindThrows
  <2>5. CASE \/ FindInCache(t) \/ CountReference(t) \/ OpenFile(t)
             \/ ClearCache(t) \/ ReadHeader(t) \/ ReadInfo(t)
    BY <2>5, HeaderStep
  <2>6. CASE Find(t) \/ TakeValue(t) \/ NextValue(t) \/ Close(t) \/ Answer(t)
    BY <2>6, FindStep, TakeValueStep, NextValueStep, CloseStep, AnswerStep
  <2> QED
    BY <2>1, <2>2, <2>3, <2>4, <2>5, <2>6 DEF Process
<1>4. CASE UNCHANGED queryVars
  BY <1>4 DEF queryVars, RequestsInv
<1> QED
  BY <1>1, <1>2, <1>3, <1>4 DEF QueriesNext

\* The inductive invariant about the requests holds for any number of threads.
THEOREM RequestsInvariance == QueriesSpec => []RequestsInv
<1> QED
  BY RequestsInit, RequestsNext, PTL DEF QueriesSpec

LEMMA RequestsFit == RequestsInv => ValuesFit
<1> SUFFICES ASSUME RequestsInv, NEW t \in Worker, q[t].pc = "close"
             PROVE  /\ IsInjective([d \in DOMAIN q[t].docs |-> q[t].docs[d].name])
                    /\ \A d \in DOMAIN q[t].docs :
                          Fits(stored[q[t].docs[d].name], q[t].docs[d].got,
                               q[t].docs[d].values, q[t].req)
  BY DEF ValuesFit
<1>1. q[t].pc \in InChannel
  BY DEF InChannel
<1> QED
  BY <1>1 DEF RequestsInv, RequestSound, DocsSound

\* The document of a channel in a read query has the samples that the reader gave for
\* it, all of them up to the limit, the end time or the end of the data, and each
\* channel has one document, with however many threads, channels, files and samples.
THEOREM ValuesAlwaysFit == QueriesSpec => []ValuesFit
<1> QED
  BY RequestsInvariance, RequestsFit, PTL

-----------------------------------------------------------------------------
(* The open files.                                                         *)

\* The file of the sample that a reader is at.
FileOf(s, n) == s[Head(n.names)][n.pos].file

\* The references of a thread to a file, and all those that the list has counted.
UsesOf(s, n, f) ==
    (IF n.header = f THEN 1 ELSE 0) + (IF n.pc \in Getting /\ FileOf(s, n) = f THEN 1 ELSE 0)
Counted(f) == IF IsOpen(open, f) THEN open[f] ELSE 0

LEMMA HereIs == \A t : Here(t) = FileOf(stored, q[t])
BY DEF Here, Samples, FileOf

\* A set that differs from another one in one member.
LEMMA SwapMember ==
    ASSUME NEW S, IsFiniteSet(S), NEW T, NEW x,
           S \subseteq T \cup {x}, T \subseteq S \cup {x}
    PROVE  /\ IsFiniteSet(T) /\ Cardinality(S) \in Nat /\ Cardinality(T) \in Nat
           /\ Cardinality(T) = Cardinality(S) - (IF x \in S THEN 1 ELSE 0)
                                              + (IF x \in T THEN 1 ELSE 0)
<1> DEFINE rest == S \ {x}
<1>1. /\ IsFiniteSet(rest)
      /\ Cardinality(rest) = IF x \in S THEN Cardinality(S) - 1 ELSE Cardinality(S)
  BY FS_RemoveElement
<1>2. Cardinality(S) \in Nat /\ Cardinality(rest) \in Nat
  BY <1>1, FS_CardinalityType
<1>3. T = IF x \in T THEN rest \cup {x} ELSE rest
  OBVIOUS
<1>4. /\ IsFiniteSet(rest \cup {x})
      /\ Cardinality(rest \cup {x}) = Cardinality(rest) + 1
  <2>1. x \notin rest
    OBVIOUS
  <2> HIDE DEF rest
  <2> QED
    BY <1>1, <2>1, FS_AddElement
<1> HIDE DEF rest
<1>5. CASE x \in T
  <2>1. IsFiniteSet(T) /\ Cardinality(T) = Cardinality(rest) + 1
    BY <1>3, <1>4, <1>5
  <2> QED
    BY <1>1, <1>2, <1>5, <2>1
<1>6. CASE x \notin T
  <2>1. IsFiniteSet(T) /\ Cardinality(T) = Cardinality(rest)
    BY <1>1, <1>3, <1>6
  <2> QED
    BY <1>1, <1>2, <1>6, <2>1
<1> QED
  BY <1>5, <1>6

\* The members of a set that come from those of another one.
LEMMA ImageCount ==
    ASSUME NEW S, IsFiniteSet(S), NEW T, NEW f, \A y \in T : \E x \in S : f[x] = y
    PROVE  /\ IsFiniteSet(T) /\ Cardinality(S) \in Nat /\ Cardinality(T) \in Nat
           /\ Cardinality(T) <= Cardinality(S)
<1> DEFINE from == {x \in S : f[x] \in T}
           g == [x \in from |-> f[x]]
<1>1. IsFiniteSet(from) /\ Cardinality(from) <= Cardinality(S)
  <2>1. from \in SUBSET S
    OBVIOUS
  <2> HIDE DEF from
  <2> QED
    BY <2>1, FS_Subset
<1>2. g \in Surjection(from, T)
  <2>1. g \in [from -> T]
    OBVIOUS
  <2>2. \A y \in T : \E x \in from : g[x] = y
    OBVIOUS
  <2> QED
    BY <2>1, <2>2 DEF Surjection
<1> HIDE DEF from, g
<1>3. IsFiniteSet(T) /\ Cardinality(T) <= Cardinality(from)
  BY <1>1, <1>2, FS_Surjection
<1>4. Cardinality(S) \in Nat /\ Cardinality(T) \in Nat /\ Cardinality(from) \in Nat
  BY <1>1, <1>3, FS_CardinalityType
<1> QED
  BY <1>1, <1>3, <1>4

LEMMA UnionCount ==
    ASSUME NEW S, IsFiniteSet(S), NEW T, IsFiniteSet(T), NEW U, U = S \cup T
    PROVE  /\ IsFiniteSet(U) /\ Cardinality(U) \in Nat
           /\ Cardinality(U) <= Cardinality(S) + Cardinality(T)
<1>1. /\ IsFiniteSet(S \cup T)
      /\ Cardinality(S \cup T) = Cardinality(S) + Cardinality(T) - Cardinality(S \cap T)
  BY FS_Union
<1>2. IsFiniteSet(S \cap T)
  BY FS_Intersection
<1>3. /\ Cardinality(S) \in Nat /\ Cardinality(T) \in Nat /\ Cardinality(S \cap T) \in Nat
      /\ Cardinality(S \cup T) \in Nat
  BY <1>1, <1>2, FS_CardinalityType
<1> QED
  BY <1>1, <1>3

LEMMA ThreadsFinite ==
    ASSUME NEW S, S \subseteq Worker
    PROVE  IsFiniteSet(S) /\ Cardinality(S) \in Nat
<1>1. IsFiniteSet(S)
  BY QueriesAssumption, FS_Subset
<1> QED
  BY <1>1, FS_CardinalityType

\* What a thread holds is counted with what the others hold.
LEMMA UsesStep ==
    ASSUME RequestsInv, NEW t \in Worker, NEW n, Go(t, n), NEW f \in File
    PROVE  Cardinality(HeadersOf(f))' + Cardinality(GettersOf(f))'
              = Cardinality(HeadersOf(f)) + Cardinality(GettersOf(f))
                   - UsesOf(stored, q[t], f) + UsesOf(stored, n, f)
<1>1. DOMAIN q' = Worker /\ \A u \in Worker : q'[u] = IF u = t THEN n ELSE q[u]
  BY DEF RequestsInv, Go
<1>2. stored' = stored
  BY DEF Go
<1> DEFINE H == HeadersOf(f)
           G == GettersOf(f)
           H2 == HeadersOf(f)'
           G2 == GettersOf(f)'
<1>3. /\ H = {u \in Worker : q[u].header = f}
      /\ H2 = {u \in Worker : q'[u].header = f}
      /\ G = {u \in Worker : q[u].pc \in Getting /\ FileOf(stored, q[u]) = f}
      /\ G2 = {u \in Worker : q'[u].pc \in Getting /\ FileOf(stored, q'[u]) = f}
  BY <1>2 DEF HeadersOf, GettersOf, Here, Samples, FileOf
<1> HIDE DEF H, G, H2, G2
<1>4. /\ H \subseteq H2 \cup {t} /\ H2 \subseteq H \cup {t}
      /\ t \in H <=> q[t].header = f
      /\ t \in H2 <=> n.header = f
  BY <1>1, <1>3
<1>5. /\ G \subseteq G2 \cup {t} /\ G2 \subseteq G \cup {t}
      /\ t \in G <=> q[t].pc \in Getting /\ FileOf(stored, q[t]) = f
      /\ t \in G2 <=> n.pc \in Getting /\ FileOf(stored, n) = f
  BY <1>1, <1>3
<1>6. IsFiniteSet(H) /\ IsFiniteSet(G)
  <2>1. H \subseteq Worker /\ G \subseteq Worker
    BY <1>3
  <2> QED
    BY <2>1, ThreadsFinite
<1>7. /\ Cardinality(H) \in Nat /\ Cardinality(H2) \in Nat
      /\ Cardinality(H2) = Cardinality(H) - (IF q[t].header = f THEN 1 ELSE 0)
                                          + (IF n.header = f THEN 1 ELSE 0)
  BY <1>4, <1>6, SwapMember
<1>8. /\ Cardinality(G) \in Nat /\ Cardinality(G2) \in Nat
      /\ Cardinality(G2)
           = Cardinality(G) - (IF q[t].pc \in Getting /\ FileOf(stored, q[t]) = f THEN 1 ELSE 0)
                            + (IF n.pc \in Getting /\ FileOf(stored, n) = f THEN 1 ELSE 0)
  BY <1>5, <1>6, SwapMember
<1>9. Cardinality(H2) + Cardinality(G2)
        = Cardinality(H) + Cardinality(G) - UsesOf(stored, q[t], f) + UsesOf(stored, n, f)
  BY <1>7, <1>8 DEF UsesOf
<1> QED
  BY <1>9 DEF H, G, H2, G2

\* The counted references are those of the users, also for a file that is not open.
LEMMA CountedUses ==
    ASSUME UsersCounted, NEW f \in File
    PROVE  /\ Cardinality(HeadersOf(f)) \in Nat /\ Cardinality(GettersOf(f)) \in Nat
           /\ Counted(f) = Cardinality(HeadersOf(f)) + Cardinality(GettersOf(f))
<1>1. HeadersOf(f) \subseteq Worker /\ GettersOf(f) \subseteq Worker
  BY DEF HeadersOf, GettersOf
<1>2. Cardinality(HeadersOf(f)) \in Nat /\ Cardinality(GettersOf(f)) \in Nat
  BY <1>1, ThreadsFinite
<1>3. CASE IsOpen(open, f)
  BY <1>2, <1>3 DEF UsersCounted, Counted
<1>4. CASE ~IsOpen(open, f)
  <2>1. HeadersOf(f) = {} /\ GettersOf(f) = {}
    BY <1>4 DEF UsersCounted
  <2> QED
    BY <1>2, <1>4, <2>1, FS_EmptySet DEF Counted
<1> QED
  BY <1>3, <1>4

\* What a step has to keep: the count of each file in the list follows what the
\* thread holds, and a file that is held, or was found in the list, is in it.
LEMMA CountsKept ==
    ASSUME RequestsInv, UsersCounted, Undisturbed, NEW t \in Worker, NEW n, Go(t, n),
           \A f \in File : IsOpen(open', f) =>
              open'[f] = Counted(f) - UsesOf(stored, q[t], f) + UsesOf(stored, n, f),
           \A f \in File : ~IsOpen(open', f) =>
              Counted(f) - UsesOf(stored, q[t], f) + UsesOf(stored, n, f) = 0,
           n.pc = "count" => IsOpen(open', FileOf(stored, n))
    PROVE  UsersCounted'
<1> SUFFICES ASSUME NEW f \in File
             PROVE  /\ IsOpen(open', f) =>
                          open'[f] = Cardinality(HeadersOf(f))' + Cardinality(GettersOf(f))'
                    /\ HeadersOf(f)' \cup GettersOf(f)' \cup FindersOf(f)' # {} => IsOpen(open', f)
  BY DEF UsersCounted
<1>1. Cardinality(HeadersOf(f))' + Cardinality(GettersOf(f))'
        = Counted(f) - UsesOf(stored, q[t], f) + UsesOf(stored, n, f)
  <2>1. Counted(f) = Cardinality(HeadersOf(f)) + Cardinality(GettersOf(f))
    BY CountedUses
  <2>2. Cardinality(HeadersOf(f))' + Cardinality(GettersOf(f))'
          = Cardinality(HeadersOf(f)) + Cardinality(GettersOf(f))
               - UsesOf(stored, q[t], f) + UsesOf(stored, n, f)
    BY UsesStep
  <2>3. UsesOf(stored, q[t], f) \in Nat /\ UsesOf(stored, n, f) \in Nat
    BY DEF UsesOf
  <2>4. Cardinality(HeadersOf(f)) \in Nat /\ Cardinality(GettersOf(f)) \in Nat
    BY CountedUses
  <2> QED
    BY <2>1, <2>2, <2>3, <2>4
<1>2. IsOpen(open', f) =>
          open'[f] = Cardinality(HeadersOf(f))' + Cardinality(GettersOf(f))'
  BY <1>1
<1>3. ASSUME ~IsOpen(open', f)
      PROVE  HeadersOf(f)' = {} /\ GettersOf(f)' = {}
  <2>1. HeadersOf(f)' \subseteq Worker /\ GettersOf(f)' \subseteq Worker
    BY DEF HeadersOf, GettersOf
  <2>2. PICK H, G : H = HeadersOf(f)' /\ G = GettersOf(f)'
    OBVIOUS
  <2>3. /\ IsFiniteSet(H) /\ Cardinality(H) \in Nat
        /\ IsFiniteSet(G) /\ Cardinality(G) \in Nat
    BY <2>1, <2>2, ThreadsFinite
  <2>4. Cardinality(H) + Cardinality(G) = 0
    BY <1>1, <1>3, <2>2
  <2>5. Cardinality(H) = 0 /\ Cardinality(G) = 0
    BY <2>3, <2>4
  <2> QED
    BY <2>2, <2>3, <2>5, FS_EmptySet
<1>4. ASSUME NEW u \in FindersOf(f)' PROVE IsOpen(open', f)
  <2>1. stored' = stored /\ \A w \in Worker : q'[w] = IF w = t THEN n ELSE q[w]
    BY DEF RequestsInv, Go
  <2>2. u \in Worker /\ q'[u].pc = "count" /\ FileOf(stored, q'[u]) = f
    BY <2>1 DEF FindersOf, Here, Samples, FileOf
  <2>3. CASE u = t
    BY <2>1, <2>2, <2>3
  <2>4. CASE u # t
    <3>1. q'[u] = q[u] /\ q[u].pc = "count" /\ Here(u) = f
      BY <2>1, <2>2, <2>4, HereIs
    <3> QED
      BY <2>2, <3>1 DEF Undisturbed
  <2> QED
    BY <2>3, <2>4
<1> QED
  BY <1>2, <1>3, <1>4

\* The list of files, apart from the counts.
OpenTypes ==
    /\ DOMAIN open \subseteq File /\ open \in [DOMAIN open -> Nat]
    /\ IsFiniteSet(DOMAIN open)

\* The files without users: none is added, while the thread may begin to leave one; ...
LEMMA UnusedKept ==
    ASSUME RequestsInv, OpenInv, OpenTypes', NEW t \in Worker, NEW n, Go(t, n),
           Unused' \subseteq Unused, t \in Leaving => t \in Leaving'
    PROVE  Cardinality(Unused)' <= Cardinality(Leaving)'
<1>1. \A u \in Worker : q'[u] = IF u = t THEN n ELSE q[u]
  BY DEF RequestsInv, Go
<1>2. Leaving \subseteq Leaving'
  BY <1>1 DEF Leaving
<1>3. IsFiniteSet(Unused) /\ Cardinality(Unused) <= Cardinality(Leaving)
  <2>1. Unused \in SUBSET (DOMAIN open) /\ IsFiniteSet(DOMAIN open)
    BY DEF Unused, OpenInv
  <2> QED
    BY <2>1, FS_Subset DEF OpenInv
<1>4. PICK V, L : V = Unused' /\ L = Leaving'
  OBVIOUS
<1>5. IsFiniteSet(V) /\ Cardinality(V) <= Cardinality(Unused)
  BY <1>3, <1>4, FS_Subset
<1>6. IsFiniteSet(L) /\ Cardinality(Leaving) <= Cardinality(L)
  <2>1. L \subseteq Worker
    BY <1>4 DEF Leaving
  <2> QED
    BY <1>2, <1>4, <2>1, ThreadsFinite, FS_Subset
<1>7. /\ Cardinality(V) \in Nat /\ Cardinality(Unused) \in Nat /\ Cardinality(L) \in Nat
      /\ Cardinality(Leaving) \in Nat
  <2>1. Leaving \subseteq Worker
    BY DEF Leaving
  <2> QED
    BY <1>3, <1>5, <1>6, <2>1, ThreadsFinite, FS_CardinalityType
<1> QED
  BY <1>3, <1>4, <1>5, <1>6, <1>7

\* ... one is added by a thread that begins to leave it; ...
LEMMA UnusedLeft ==
    ASSUME RequestsInv, OpenInv, OpenTypes', NEW t \in Worker, NEW n, Go(t, n),
           NEW f, Unused' \subseteq Unused \cup {f}, t \notin Leaving, t \in Leaving'
    PROVE  Cardinality(Unused)' <= Cardinality(Leaving)'
<1>1. \A u \in Worker : q'[u] = IF u = t THEN n ELSE q[u]
  BY DEF RequestsInv, Go
<1>2. Leaving \subseteq Leaving' \cup {t} /\ Leaving' \subseteq Leaving \cup {t}
  BY <1>1 DEF Leaving
<1>3. IsFiniteSet(Unused) /\ Cardinality(Unused) <= Cardinality(Leaving)
  <2>1. Unused \in SUBSET (DOMAIN open) /\ IsFiniteSet(DOMAIN open)
    BY DEF Unused, OpenInv
  <2> QED
    BY <2>1, FS_Subset DEF OpenInv
<1>4. PICK V, L : V = Unused' /\ L = Leaving'
  OBVIOUS
<1>5. /\ IsFiniteSet(Unused \cup {f}) /\ Cardinality(Unused) \in Nat
      /\ Cardinality(Unused \cup {f}) <= Cardinality(Unused) + 1
  <2>1. PICK U : U = Unused
    OBVIOUS
  <2>2. IsFiniteSet(U) /\ Cardinality(U) \in Nat
    BY <1>3, <2>1, FS_CardinalityType
  <2>3. /\ IsFiniteSet(U \cup {f})
        /\ Cardinality(U \cup {f}) \in {Cardinality(U), Cardinality(U) + 1}
    BY <2>2, FS_AddElement
  <2> QED
    BY <2>1, <2>2, <2>3
<1>6. IsFiniteSet(V) /\ Cardinality(V) <= Cardinality(Unused \cup {f})
  BY <1>4, <1>5, FS_Subset
<1>7. /\ Cardinality(L) = Cardinality(Leaving) + 1 /\ Cardinality(Leaving) \in Nat
      /\ Cardinality(L) \in Nat
  <2>1. Leaving \subseteq Worker
    BY DEF Leaving
  <2>2. IsFiniteSet(Leaving)
    BY <2>1, ThreadsFinite
  <2> QED
    BY <1>2, <1>4, <2>2, SwapMember
<1>8. Cardinality(V) \in Nat /\ Cardinality(Unused \cup {f}) \in Nat
  BY <1>5, <1>6, FS_CardinalityType
<1> QED
  BY <1>3, <1>4, <1>5, <1>6, <1>7, <1>8

\* ... or there is none, because the list was cleared.
LEMMA NoneUnused ==
    ASSUME Unused' = {}
    PROVE  Cardinality(Unused)' <= Cardinality(Leaving)'
<1>1. PICK L : L = Leaving' /\ L \subseteq Worker
  BY DEF Leaving
<1>2. Cardinality(L) \in Nat
  BY <1>1, ThreadsFinite
<1> QED
  BY <1>1, <1>2, FS_EmptySet

\* A list in which each count follows what the thread holds.
Follows(c, r, n) ==
    /\ DOMAIN c \subseteq File /\ c \in [DOMAIN c -> Nat] /\ IsFiniteSet(DOMAIN c)
    /\ \A f \in File :
          IF IsOpen(c, f)
          THEN c[f] = Counted(f) - UsesOf(stored, r, f) + UsesOf(stored, n, f)
          ELSE Counted(f) - UsesOf(stored, r, f) + UsesOf(stored, n, f) = 0

LEMMA OpenStep ==
    ASSUME RequestsInv, OpenInv, Undisturbed, NEW t \in Worker, NEW n, Go(t, n),
           Follows(open', q[t], n), n.pc = "count" => IsOpen(open', FileOf(stored, n)),
           Cardinality(Unused)' <= Cardinality(Leaving)'
    PROVE  OpenInv'
<1>1. UsersCounted
  BY DEF OpenInv
<1>2. UsersCounted'
  BY <1>1, CountsKept DEF Follows
<1>3. OpenTypes'
  BY DEF Follows, OpenTypes
<1> QED
  BY <1>2, <1>3 DEF OpenInv, OpenTypes

\* Those that may still have to clear the list.
LeavingPcs == {"value", "next", "reference", "count", "clear", "close"}

LEMMA LeavingStep ==
    ASSUME RequestsInv, NEW t \in Worker, NEW n, Go(t, n)
    PROVE  /\ t \in Leaving <=> q[t].pc \in LeavingPcs
           /\ t \in Leaving' <=> n.pc \in LeavingPcs
<1>1. \A u \in Worker : q'[u] = IF u = t THEN n ELSE q[u]
  BY DEF RequestsInv, Go
<1> QED
  BY <1>1 DEF Leaving, LeavingPcs

LEMMA CountedType ==
    ASSUME OpenInv, NEW f \in File, NEW s, NEW n
    PROVE  Counted(f) \in Nat /\ UsesOf(s, n, f) \in Nat
BY DEF OpenInv, Counted, IsOpen, UsesOf

\* The references and the list stay.
LEMMA QuietStep ==
    ASSUME RequestsInv, OpenInv, Undisturbed, NEW t \in Worker, NEW n, Go(t, n), open' = open,
           \A f \in File : UsesOf(stored, n, f) = UsesOf(stored, q[t], f),
           n.pc = "count" => IsOpen(open, FileOf(stored, n)),
           q[t].pc \in LeavingPcs => n.pc \in LeavingPcs
    PROVE  OpenInv'
<1>1. Follows(open, q[t], n)
  <2> SUFFICES ASSUME NEW f \in File
               PROVE  IF IsOpen(open, f)
                      THEN open[f] = Counted(f) - UsesOf(stored, q[t], f) + UsesOf(stored, n, f)
                      ELSE Counted(f) - UsesOf(stored, q[t], f) + UsesOf(stored, n, f) = 0
    BY DEF Follows, OpenInv
  <2>1. /\ Counted(f) \in Nat /\ UsesOf(stored, n, f) \in Nat
        /\ UsesOf(stored, n, f) = UsesOf(stored, q[t], f)
    BY CountedType
  <2>2. Counted(f) - UsesOf(stored, q[t], f) + UsesOf(stored, n, f) = Counted(f)
    BY <2>1
  <2> QED
    BY <2>2 DEF Counted
<1>2. Unused' = Unused /\ OpenTypes'
  BY DEF Unused, OpenInv, OpenTypes
<1>3. Cardinality(Unused)' <= Cardinality(Leaving)'
  BY <1>2, LeavingStep, UnusedKept
<1>4. Follows(open', q[t], n) /\ (n.pc = "count" => IsOpen(open', FileOf(stored, n)))
  BY <1>1 DEF Follows
<1> QED
  BY <1>3, <1>4, OpenStep

\* Outside of getHeader, with the same header or none, a thread has the same uses.
LEMMA SameUses ==
    ASSUME NEW s, NEW r, NEW n, n.header = r.header,
           n.pc \in Getting <=> r.pc \in Getting,
           n.pc \in Getting => FileOf(s, n) = FileOf(s, r)
    PROVE  \A f \in File : UsesOf(s, n, f) = UsesOf(s, r, f)
BY DEF UsesOf

LEMMA OutsideQuiet ==
    ASSUME RequestsInv, OpenInv, Undisturbed, NEW t \in Worker, NEW n, Go(t, n), open' = open,
           q[t].pc \notin AtSample \cup {"close"}, n.header = 0,
           n.pc \notin Getting \cup {"count"}
    PROVE  OpenInv'
<1>1. q[t].header = 0
  BY DEF RequestsInv, RequestSound
<1>2. q[t].pc \notin Getting /\ q[t].pc \notin LeavingPcs
  BY DEF Getting, AtSample, LeavingPcs
<1>3. \A f \in File : UsesOf(stored, n, f) = UsesOf(stored, q[t], f)
  BY <1>1, <1>2, SameUses
<1> QED
  BY <1>2, <1>3, QuietStep

LEMMA QuietPcs ==
    /\ \A pc \in {"idle", "act", "filter", "read", "done"} :
          pc \notin AtSample \cup {"close"} /\ pc \notin Getting \cup {"count"}
    /\ \A pc \in {"find", "reference", "close", "value", "next"} :
          pc \notin Getting \cup {"count"}
    /\ "find" \notin AtSample \cup {"close"} /\ "find" \notin LeavingPcs
    /\ \A pc \in {"reference", "close", "value", "next"} : pc \in LeavingPcs
BY DEF Getting, AtSample, LeavingPcs

LEMMA HeaderOutside ==
    ASSUME RequestsInv, NEW t \in Worker
    PROVE  /\ q[t] \in Query({q[t].req}, {q[t].docs})
           /\ q[t].pc \notin AtSample \cup {"close"} => q[t].header = 0
BY DEF RequestsInv, RequestSound

LEMMA OpenDone ==
    ASSUME RequestsInv, OpenInv, Undisturbed, NEW t \in Worker, NEW type, NEW docs,
           Done(t, type, docs), open' = open, q[t].pc \notin AtSample \cup {"close"}
    PROVE  OpenInv'
<1> DEFINE n == [q[t] EXCEPT !.pc = "done", !.status = type, !.docs = docs]
<1>1. q[t] \in Query({q[t].req}, {q[t].docs}) /\ q[t].header = 0
  BY HeaderOutside
<1>2. n.header = 0 /\ n.pc = "done"
  BY <1>1 DEF Query
<1>3. Go(t, n)
  BY DEF Done
<1> HIDE DEF n
<1>4. n.pc \notin Getting \cup {"count"}
  BY <1>2, QuietPcs
<1> QED
  BY <1>2, <1>3, <1>4, OutsideQuiet

LEMMA OpenAfterFilter ==
    ASSUME RequestsInv, OpenInv, Undisturbed, NEW t \in Worker, NEW type, NEW docs,
           AfterFilter(t, type, docs), open' = open, q[t].pc = "filter"
    PROVE  OpenInv'
<1>1. q[t].pc \notin AtSample \cup {"close"}
  BY QuietPcs
<1>2. \/ \E t2, d2 : Done(t, t2, d2)
      \/ Go(t, [q[t] EXCEPT !.pc = "read", !.docs = docs])
  BY DEF AfterFilter
<1>3. CASE \E t2, d2 : Done(t, t2, d2)
  BY <1>1, <1>3, OpenDone
<1>4. CASE Go(t, [q[t] EXCEPT !.pc = "read", !.docs = docs])
  <2> DEFINE n == [q[t] EXCEPT !.pc = "read", !.docs = docs]
  <2>1. q[t] \in Query({q[t].req}, {q[t].docs}) /\ q[t].header = 0
    BY <1>1, HeaderOutside
  <2>2. n.header = 0 /\ n.pc = "read"
    BY <2>1 DEF Query
  <2>3. Go(t, n)
    BY <1>4
  <2> HIDE DEF n
  <2>4. n.pc \notin Getting \cup {"count"}
    BY <2>2, QuietPcs
  <2> QED
    BY <1>1, <2>2, <2>3, <2>4, OutsideQuiet
<1> QED
  BY <1>2, <1>3, <1>4

\* Before a channel is read, and after the last one.
LEMMA OutsideOpen ==
    ASSUME RequestsInv, OpenInv, Undisturbed, NEW t \in Worker,
           \/ \E req \in Requests : Receive(t, req)
           \/ Act(t) \/ ActAtOnce(t) \/ ActAtOnceMongo(t)
           \/ FilterClassic(t) \/ FilterFails(t) \/ FilterMongo(t) \/ FilterThrows(t)
           \/ Read(t) \/ Answer(t)
    PROVE  OpenInv'
<1>1. q[t] \in Query({q[t].req}, {q[t].docs})
  BY HeaderOutside
<1>2. Idle.header = 0 /\ Idle.pc = "idle"
  BY DEF Idle
<1>3. ASSUME NEW req \in Requests, Receive(t, req) PROVE OpenInv'
  <2> DEFINE n == [Idle EXCEPT !.pc = "act", !.req = req]
  <2>1. n.header = 0 /\ n.pc = "act" /\ Go(t, n) /\ open' = open /\ q[t].pc = "idle"
    BY <1>3 DEF Receive, Idle
  <2> HIDE DEF n
  <2>2. n.pc \notin Getting \cup {"count"} /\ q[t].pc \notin AtSample \cup {"close"}
    BY <2>1, QuietPcs
  <2> QED
    BY <2>1, <2>2, OutsideQuiet
<1>4. CASE Act(t)
  <2> DEFINE n == [q[t] EXCEPT !.pc = "filter"]
  <2>1. Go(t, n) /\ open' = open /\ q[t].pc = "act"
    BY <1>4 DEF Act
  <2>2. q[t].pc \notin AtSample \cup {"close"}
    BY <2>1, QuietPcs
  <2>3. n.header = 0 /\ n.pc = "filter"
    BY <1>1, <2>2, HeaderOutside DEF Query
  <2> HIDE DEF n
  <2>4. n.pc \notin Getting \cup {"count"}
    BY <2>3, QuietPcs
  <2> QED
    BY <2>1, <2>2, <2>3, <2>4, OutsideQuiet
<1>5. CASE ActAtOnce(t) \/ ActAtOnceMongo(t)
  <2>1. open' = open /\ q[t].pc = "act" /\ \E type, docs : Done(t, type, docs)
    BY <1>5 DEF ActAtOnce, ActAtOnceMongo
  <2> QED
    BY <2>1, QuietPcs, OpenDone
<1>6. CASE FilterClassic(t) \/ FilterFails(t) \/ FilterMongo(t)
  <2>1. open' = open /\ q[t].pc = "filter" /\ \E type, docs : AfterFilter(t, type, docs)
    BY <1>6 DEF FilterClassic, FilterFails, FilterMongo
  <2> QED
    BY <2>1, OpenAfterFilter
<1>7. CASE FilterThrows(t)
  <2>1. open' = open /\ q[t].pc = "filter" /\ Done(t, 3, <<>>)
    BY <1>7 DEF FilterThrows
  <2> QED
    BY <2>1, QuietPcs, OpenDone
<1>8. CASE Read(t)
  <2>1. open' = open /\ q[t].pc = "read"
    BY <1>8 DEF Read
  <2>2. q[t].pc \notin AtSample \cup {"close"}
    BY <2>1, QuietPcs
  <2>3. \/ Done(t, 1, <<>>)
        \/ \E names, req : Go(t, [q[t] EXCEPT !.pc = "find", !.names = names, !.docs = <<>>,
                                              !.req = req])
    BY <1>8 DEF Read
  <2>4. CASE Done(t, 1, <<>>)
    BY <2>1, <2>2, <2>4, OpenDone
  <2>5. ASSUME NEW names, NEW req,
               Go(t, [q[t] EXCEPT !.pc = "find", !.names = names, !.docs = <<>>, !.req = req])
        PROVE  OpenInv'
    <3> DEFINE n == [q[t] EXCEPT !.pc = "find", !.names = names, !.docs = <<>>, !.req = req]
    <3>1. n.header = 0 /\ n.pc = "find"
      BY <1>1, <2>2, HeaderOutside DEF Query
    <3>2. Go(t, n)
      BY <2>5
    <3> HIDE DEF n
    <3>3. n.pc \notin Getting \cup {"count"}
      BY <3>1, QuietPcs
    <3> QED
      BY <2>1, <2>2, <3>1, <3>2, <3>3, OutsideQuiet
  <2> QED
    BY <2>3, <2>4, <2>5
<1>9. CASE Answer(t)
  <2>1. Go(t, Idle) /\ open' = open /\ q[t].pc = "done"
    BY <1>9 DEF Answer
  <2> HIDE DEF Idle
  <2>2. Idle.pc \notin Getting \cup {"count"} /\ q[t].pc \notin AtSample \cup {"close"}
    BY <1>2, <2>1, QuietPcs
  <2> QED
    BY <1>2, <2>1, <2>2, OutsideQuiet
<1> QED
  BY <1>3, <1>4, <1>5, <1>6, <1>7, <1>8, <1>9

\* The reader goes on without getHeader, or its document is added.
LEMMA ReaderQuiet ==
    ASSUME RequestsInv, OpenInv, Undisturbed, NEW t \in Worker, NEW n, Go(t, n), open' = open,
           q[t].pc \in {"find", "reference", "value", "next"},
           n.pc \in {"reference", "value", "next", "close"}, n.header = q[t].header
    PROVE  OpenInv'
<1>1. /\ n.pc \notin Getting \cup {"count"} /\ q[t].pc \notin Getting \cup {"count"}
      /\ n.pc \in LeavingPcs
  BY QuietPcs
<1>2. \A f \in File : UsesOf(stored, n, f) = UsesOf(stored, q[t], f)
  BY <1>1, SameUses
<1> QED
  BY <1>1, <1>2, QuietStep

LEMMA ClosingQuiet ==
    ASSUME RequestsInv, OpenInv, Undisturbed, NEW t \in Worker, open' = open,
           q[t].pc \in {"find", "reference", "value", "next"}, Throw(t) \/ Finish(t)
    PROVE  OpenInv'
<1>1. q[t] \in Query({q[t].req}, {q[t].docs})
  BY HeaderOutside
<1>2. PICK docs, status : Go(t, [q[t] EXCEPT !.pc = "close", !.status = status, !.docs = docs])
  <2>1. CASE Throw(t)
    BY <2>1 DEF Throw
  <2>2. CASE Finish(t)
    <3>1. \A docs : [q[t] EXCEPT !.pc = "close", !.docs = docs]
                    = [q[t] EXCEPT !.pc = "close", !.status = q[t].status, !.docs = docs]
      BY <1>1 DEF Query
    <3> QED
      BY <2>2, <3>1 DEF Finish
  <2> QED
    BY <2>1, <2>2
<1> DEFINE n == [q[t] EXCEPT !.pc = "close", !.status = status, !.docs = docs]
<1>3. n.pc = "close" /\ n.header = q[t].header
  BY <1>1 DEF Query
<1>4. Go(t, n)
  BY <1>2
<1> HIDE DEF n
<1> QED
  BY <1>3, <1>4, ReaderQuiet

LEMMA ReaderOpen ==
    ASSUME RequestsInv, OpenInv, Undisturbed, NEW t \in Worker,
           \/ Find(t) \/ FindThrows(t) \/ FindsNothing(t)
           \/ TakeValue(t) \/ NextValue(t) \/ FindInCache(t)
    PROVE  OpenInv'
<1>1. q[t] \in Query({q[t].req}, {q[t].docs})
  BY HeaderOutside
<1>2. /\ q[t].pc \in {"find", "reference", "value", "next"}
      /\ open' = open
  BY DEF Find, FindThrows, FindsNothing, TakeValue, NextValue, FindInCache
<1>3. \/ Throw(t) \/ Finish(t)
      \/ \E i : Go(t, [q[t] EXCEPT !.pc = "reference", !.pos = i])
      \/ \E v : Go(t, [q[t] EXCEPT !.pc = "next", !.values = v])
      \/ \E i : Go(t, [[q[t] EXCEPT !.pos = i] EXCEPT !.pc = "reference"])
      \/ \E i : Go(t, Gives([q[t] EXCEPT !.pos = i]))
      \/ FindInCache(t)
  BY DEF Find, FindThrows, FindsNothing, TakeValue, NextValue
<1>4. CASE Throw(t) \/ Finish(t)
  BY <1>2, <1>4, ClosingQuiet
<1>5. ASSUME NEW i, Go(t, [q[t] EXCEPT !.pc = "reference", !.pos = i]) PROVE OpenInv'
  <2> DEFINE n == [q[t] EXCEPT !.pc = "reference", !.pos = i]
  <2>1. Go(t, n) /\ n.pc = "reference" /\ n.header = q[t].header
    BY <1>1, <1>5 DEF Query
  <2> HIDE DEF n
  <2> QED
    BY <1>2, <2>1, ReaderQuiet
<1>6. ASSUME NEW v, Go(t, [q[t] EXCEPT !.pc = "next", !.values = v]) PROVE OpenInv'
  <2> DEFINE n == [q[t] EXCEPT !.pc = "next", !.values = v]
  <2>1. Go(t, n) /\ n.pc = "next" /\ n.header = q[t].header
    BY <1>1, <1>6 DEF Query
  <2> HIDE DEF n
  <2> QED
    BY <1>2, <2>1, ReaderQuiet
<1>7. ASSUME NEW i, Go(t, [[q[t] EXCEPT !.pos = i] EXCEPT !.pc = "reference"]) PROVE OpenInv'
  <2> DEFINE n == [[q[t] EXCEPT !.pos = i] EXCEPT !.pc = "reference"]
  <2>1. Go(t, n) /\ n.pc = "reference" /\ n.header = q[t].header
    BY <1>1, <1>7 DEF Query
  <2> HIDE DEF n
  <2> QED
    BY <1>2, <2>1, ReaderQuiet
<1>8. ASSUME NEW i, Go(t, Gives([q[t] EXCEPT !.pos = i])) PROVE OpenInv'
  <2> DEFINE n == Gives([q[t] EXCEPT !.pos = i])
  <2>1. Go(t, n) /\ n.pc = "value" /\ n.header = q[t].header
    BY <1>1, <1>8 DEF Query, Gives
  <2> HIDE DEF n
  <2> QED
    BY <1>2, <2>1, ReaderQuiet
<1>9. CASE FindInCache(t)
  <2> DEFINE n == [q[t] EXCEPT !.pc = "count"]
  <2>1. Go(t, n) /\ q[t].pc = "reference" /\ IsOpen(open, Here(t))
    BY <1>9 DEF FindInCache
  <2>2. /\ n.pc = "count" /\ n.header = q[t].header /\ n.names = q[t].names
        /\ n.pos = q[t].pos
    BY <1>1 DEF Query
  <2> HIDE DEF n
  <2>3. n.pc \notin Getting /\ q[t].pc \notin Getting /\ n.pc \in LeavingPcs
    BY <2>1, <2>2 DEF Getting, LeavingPcs
  <2>4. \A f \in File : UsesOf(stored, n, f) = UsesOf(stored, q[t], f)
    BY <2>2, <2>3, SameUses
  <2>5. IsOpen(open, FileOf(stored, n))
    BY <2>1, <2>2, HereIs DEF FileOf
  <2> QED
    BY <1>2, <2>1, <2>3, <2>4, <2>5, QuietStep
<1> QED
  BY <1>3, <1>4, <1>5, <1>6, <1>7, <1>8, <1>9

\* What getHeader knows: the file, and that its thread is counted.
LEMMA HeldCounted ==
    ASSUME RequestsInv, OpenInv, NEW t \in Worker, NEW f \in File
    PROVE  /\ Counted(f) >= UsesOf(stored, q[t], f)
           /\ UsesOf(stored, q[t], f) > 0 => IsOpen(open, f)
<1> DEFINE H == HeadersOf(f)
           G == GettersOf(f)
<1>1. H \subseteq Worker /\ G \subseteq Worker
  BY DEF HeadersOf, GettersOf
<1>2. /\ t \in H <=> q[t].header = f
      /\ t \in G <=> q[t].pc \in Getting /\ FileOf(stored, q[t]) = f
  BY HereIs DEF HeadersOf, GettersOf
<1>3. Counted(f) = Cardinality(H) + Cardinality(G)
  BY CountedUses DEF OpenInv
<1>4. H \cup G # {} => IsOpen(open, f)
  BY DEF OpenInv, UsersCounted
<1> HIDE DEF H, G
<1>5. IsFiniteSet(H) /\ Cardinality(H) \in Nat /\ IsFiniteSet(G) /\ Cardinality(G) \in Nat
  BY <1>1, ThreadsFinite
<1>6. (t \in H => Cardinality(H) > 0) /\ (t \in G => Cardinality(G) > 0)
  <2>1. (t \in H => Cardinality(H) # 0) /\ (t \in G => Cardinality(G) # 0)
    BY <1>5, FS_EmptySet
  <2> QED
    BY <1>5, <2>1
<1>7. UsesOf(stored, q[t], f) = (IF t \in H THEN 1 ELSE 0) + (IF t \in G THEN 1 ELSE 0)
  BY <1>2 DEF UsesOf
<1> QED
  BY <1>3, <1>4, <1>5, <1>6, <1>7

\* The reader counts a reference to a file that is open.
LEMMA CountOpen ==
    ASSUME RequestsInv, OpenInv, Undisturbed, NEW t \in Worker, CountReference(t)
    PROVE  OpenInv'
<1>1. q[t] \in Query({q[t].req}, {q[t].docs}) /\ q[t].pc = "count" /\ q[t].pc \in AtSample
  BY HeaderOutside DEF CountReference, AtSample
<1> DEFINE n == [q[t] EXCEPT !.pc = "clear"]
<1>2. PICK f0 \in File : f0 = Here(t)
  BY <1>1, HereFile
<1>3. Go(t, n) /\ open' = Referenced(open, f0)
  BY <1>2 DEF CountReference
<1>4. /\ n.pc = "clear" /\ n.header = q[t].header /\ FileOf(stored, n) = f0
      /\ FileOf(stored, q[t]) = f0
  BY <1>1, <1>2, HereIs DEF Query, FileOf
<1> HIDE DEF n
<1>5. /\ DOMAIN open \subseteq File /\ open \in [DOMAIN open -> Nat] /\ IsFiniteSet(DOMAIN open)
      /\ f0 \in DOMAIN open
  <2>1. t \in FindersOf(f0)
    BY <1>1, <1>2 DEF FindersOf
  <2> QED
    BY <2>1 DEF OpenInv, UsersCounted, IsOpen
<1> DEFINE more == Referenced(open, f0)
<1>6. /\ DOMAIN more = DOMAIN open /\ more \in [DOMAIN open -> Nat]
      /\ \A f \in DOMAIN open : more[f] = IF f = f0 THEN open[f] + 1 ELSE open[f]
  BY <1>5 DEF Referenced
<1> HIDE DEF more
<1>7. \A f \in File : UsesOf(stored, n, f)
                        = UsesOf(stored, q[t], f) + (IF f = f0 THEN 1 ELSE 0)
  BY <1>1, <1>4 DEF UsesOf, Getting
<1>8. Follows(more, q[t], n)
  <2> SUFFICES ASSUME NEW f \in File
               PROVE  IF IsOpen(more, f)
                      THEN more[f] = Counted(f) - UsesOf(stored, q[t], f) + UsesOf(stored, n, f)
                      ELSE Counted(f) - UsesOf(stored, q[t], f) + UsesOf(stored, n, f) = 0
    BY <1>5, <1>6 DEF Follows
  <2>1. Counted(f) \in Nat /\ UsesOf(stored, q[t], f) \in Nat
    BY CountedType
  <2>2. Counted(f) - UsesOf(stored, q[t], f) + UsesOf(stored, n, f)
          = Counted(f) + (IF f = f0 THEN 1 ELSE 0)
    BY <1>7, <2>1
  <2> QED
    BY <1>5, <1>6, <2>1, <2>2 DEF Counted, IsOpen
<1>9. open' = more
  BY <1>3 DEF more
<1>10. OpenTypes'
  BY <1>5, <1>6, <1>9 DEF OpenTypes
<1>11. Unused' \subseteq Unused
  BY <1>5, <1>6, <1>9 DEF Unused
<1>12. t \in Leaving' /\ n.pc # "count"
  BY <1>3, <1>4, LeavingStep DEF LeavingPcs
<1>13. Cardinality(Unused)' <= Cardinality(Leaving)'
  BY <1>3, <1>10, <1>11, <1>12, UnusedKept
<1> QED
  BY <1>3, <1>8, <1>9, <1>12, <1>13, OpenStep

\* The reader opens a file.
LEMMA OneMoreOpen ==
    ASSUME RequestsInv, OpenInv, Undisturbed, NEW t \in Worker, OpenFile(t)
    PROVE  OpenInv'
<1>1. /\ q[t] \in Query({q[t].req}, {q[t].docs}) /\ q[t].pc = "reference"
      /\ q[t].pc \in AtSample /\ ~IsOpen(open, Here(t))
  BY HeaderOutside DEF OpenFile, AtSample
<1> DEFINE n == [q[t] EXCEPT !.pc = "clear"]
<1>2. PICK f0 \in File : f0 = Here(t)
  BY <1>1, HereFile
<1>3. CASE open' = open /\ Throw(t)
  BY <1>1, <1>3, ClosingQuiet
<1>4. CASE Go(t, n) /\ open' = Opened(open, f0)
  <2>1. /\ n.pc = "clear" /\ n.header = q[t].header /\ FileOf(stored, n) = f0
        /\ FileOf(stored, q[t]) = f0
    BY <1>1, <1>2, HereIs DEF Query, FileOf
  <2> HIDE DEF n
  <2>2. /\ DOMAIN open \subseteq File /\ open \in [DOMAIN open -> Nat]
        /\ IsFiniteSet(DOMAIN open) /\ f0 \notin DOMAIN open
    BY <1>1, <1>2 DEF OpenInv, IsOpen
  <2> DEFINE more == Opened(open, f0)
  <2>3. /\ DOMAIN more = DOMAIN open \cup {f0} /\ more \in [DOMAIN more -> Nat]
        /\ \A f \in DOMAIN open \cup {f0} : more[f] = IF f = f0 THEN 1 ELSE open[f]
    BY <2>2 DEF Opened
  <2> HIDE DEF more
  <2>4. \A f \in File : UsesOf(stored, n, f)
                          = UsesOf(stored, q[t], f) + (IF f = f0 THEN 1 ELSE 0)
    BY <1>1, <2>1 DEF UsesOf, Getting
  <2>5. IsFiniteSet(DOMAIN more) /\ DOMAIN more \subseteq File
    BY <2>2, <2>3, FS_AddElement
  <2>6. Follows(more, q[t], n)
    <3> SUFFICES ASSUME NEW f \in File
                 PROVE  IF IsOpen(more, f)
                        THEN more[f] = Counted(f) - UsesOf(stored, q[t], f) + UsesOf(stored, n, f)
                        ELSE Counted(f) - UsesOf(stored, q[t], f) + UsesOf(stored, n, f) = 0
      BY <2>3, <2>5 DEF Follows
    <3>1. Counted(f) \in Nat /\ UsesOf(stored, q[t], f) \in Nat
      BY CountedType
    <3>2. Counted(f) - UsesOf(stored, q[t], f) + UsesOf(stored, n, f)
            = Counted(f) + (IF f = f0 THEN 1 ELSE 0)
      BY <2>4, <3>1
    <3> QED
      BY <2>2, <2>3, <3>1, <3>2 DEF Counted, IsOpen
  <2>7. open' = more
    BY <1>4 DEF more
  <2>8. OpenTypes'
    BY <2>3, <2>5, <2>7 DEF OpenTypes
  <2>9. Unused' \subseteq Unused
    BY <2>2, <2>3, <2>7 DEF Unused
  <2>10. t \in Leaving' /\ n.pc # "count"
    BY <1>4, <2>1, LeavingStep DEF LeavingPcs
  <2>11. Cardinality(Unused)' <= Cardinality(Leaving)'
    BY <1>4, <2>8, <2>9, <2>10, UnusedKept
  <2> QED
    BY <1>4, <2>6, <2>7, <2>10, <2>11, OpenStep
<1> QED
  BY <1>2, <1>3, <1>4 DEF OpenFile

\* The files without users are closed.
LEMMA ClearingStep ==
    ASSUME RequestsInv, OpenInv, Undisturbed, NEW t \in Worker, NEW n, Go(t, n),
           n.pc # "count", NEW c, Follows(c, q[t], n), open' = Cleared(c)
    PROVE  OpenInv'
<1> DEFINE used == {f \in DOMAIN c : c[f] > 0}
           less == Cleared(c)
<1>1. /\ DOMAIN c \subseteq File /\ c \in [DOMAIN c -> Nat] /\ IsFiniteSet(DOMAIN c)
  BY DEF Follows
<1>2. /\ DOMAIN less = used /\ \A f \in used : less[f] = c[f]
      /\ less \in [used -> Nat]
  BY <1>1 DEF Cleared, Restrict
<1> HIDE DEF less
<1>3. IsFiniteSet(used) /\ used \subseteq File
  <2>1. used \in SUBSET DOMAIN c
    OBVIOUS
  <2> HIDE DEF used
  <2> QED
    BY <1>1, <2>1, FS_Subset
<1>4. Follows(less, q[t], n)
  <2> SUFFICES ASSUME NEW f \in File
               PROVE  IF IsOpen(less, f)
                      THEN less[f] = Counted(f) - UsesOf(stored, q[t], f) + UsesOf(stored, n, f)
                      ELSE Counted(f) - UsesOf(stored, q[t], f) + UsesOf(stored, n, f) = 0
    BY <1>2, <1>3 DEF Follows
  <2> DEFINE value == Counted(f) - UsesOf(stored, q[t], f) + UsesOf(stored, n, f)
  <2>1. IF f \in DOMAIN c THEN c[f] = value ELSE value = 0
    BY DEF Follows, IsOpen
  <2> HIDE DEF value
  <2>2. f \in DOMAIN c => c[f] \in Nat
    BY <1>1
  <2>3. IF f \in used THEN less[f] = value ELSE value = 0
    BY <1>2, <2>1, <2>2
  <2> QED
    BY <1>2, <2>3 DEF IsOpen, value
<1>5. open' = less
  BY DEF less
<1>6. Unused' = {}
  BY <1>1, <1>2, <1>5 DEF Unused
<1>7. Cardinality(Unused)' <= Cardinality(Leaving)'
  BY <1>6, NoneUnused
<1> QED
  BY <1>4, <1>5, <1>7, OpenStep

LEMMA SameFollows ==
    ASSUME OpenInv, NEW r, NEW n, \A f \in File : UsesOf(stored, n, f) = UsesOf(stored, r, f)
    PROVE  Follows(open, r, n)
<1> SUFFICES ASSUME NEW f \in File
             PROVE  IF IsOpen(open, f)
                    THEN open[f] = Counted(f) - UsesOf(stored, r, f) + UsesOf(stored, n, f)
                    ELSE Counted(f) - UsesOf(stored, r, f) + UsesOf(stored, n, f) = 0
  BY DEF Follows, OpenInv
<1>1. /\ Counted(f) \in Nat /\ UsesOf(stored, n, f) \in Nat
      /\ UsesOf(stored, n, f) = UsesOf(stored, r, f)
  BY CountedType
<1>2. Counted(f) - UsesOf(stored, r, f) + UsesOf(stored, n, f) = Counted(f)
  BY <1>1
<1> QED
  BY <1>2 DEF Counted

\* A reference is given up.
LEMMA ReleaseFollows ==
    ASSUME RequestsInv, OpenInv, NEW t \in Worker, NEW n, NEW f0 \in File,
           \A f \in File : UsesOf(stored, q[t], f)
                             = UsesOf(stored, n, f) + (IF f = f0 THEN 1 ELSE 0)
    PROVE  /\ Follows(Released(open, f0), q[t], n) /\ DOMAIN Released(open, f0) = DOMAIN open
           /\ \A f \in DOMAIN open : f # f0 => Released(open, f0)[f] = open[f]
<1>1. DOMAIN open \subseteq File /\ open \in [DOMAIN open -> Nat] /\ IsFiniteSet(DOMAIN open)
  BY DEF OpenInv
<1>2. \A f \in File : Counted(f) \in Nat /\ UsesOf(stored, n, f) \in Nat
  BY CountedType
<1>3. f0 \in DOMAIN open /\ open[f0] > 0
  <2>1. UsesOf(stored, q[t], f0) > 0
    BY <1>2
  <2>2. IsOpen(open, f0) /\ Counted(f0) > 0
    BY <1>2, <2>1, HeldCounted
  <2> QED
    BY <2>2 DEF IsOpen, Counted
<1> DEFINE less == Released(open, f0)
<1>4. /\ DOMAIN less = DOMAIN open
      /\ \A f \in DOMAIN open : less[f] = IF f = f0 THEN open[f] - 1 ELSE open[f]
      /\ less = [f \in DOMAIN open |-> less[f]]
  BY <1>1 DEF Released
<1> HIDE DEF less
<1>5. \A f \in DOMAIN open : less[f] \in Nat
  BY <1>1, <1>3, <1>4
<1>6. less \in [DOMAIN less -> Nat]
  BY <1>4, <1>5
<1>7. Follows(less, q[t], n)
  <2> SUFFICES ASSUME NEW f \in File
               PROVE  IF IsOpen(less, f)
                      THEN less[f] = Counted(f) - UsesOf(stored, q[t], f) + UsesOf(stored, n, f)
                      ELSE Counted(f) - UsesOf(stored, q[t], f) + UsesOf(stored, n, f) = 0
    BY <1>1, <1>4, <1>6 DEF Follows
  <2>1. Counted(f) - UsesOf(stored, q[t], f) + UsesOf(stored, n, f)
          = Counted(f) - (IF f = f0 THEN 1 ELSE 0)
    BY <1>2
  <2> QED
    BY <1>1, <1>3, <1>4, <2>1 DEF Counted, IsOpen
<1> QED
  BY <1>4, <1>7 DEF less

LEMMA ReleasedStep ==
    ASSUME RequestsInv, OpenInv, Undisturbed, NEW t \in Worker, NEW n, Go(t, n),
           NEW f0 \in File, open' = Released(open, f0),
           \A f \in File : UsesOf(stored, q[t], f)
                             = UsesOf(stored, n, f) + (IF f = f0 THEN 1 ELSE 0),
           q[t].pc \notin LeavingPcs, n.pc \in LeavingPcs, n.pc # "count"
    PROVE  OpenInv'
<1>1. PICK less : less = open'
  OBVIOUS
<1>2. /\ Follows(less, q[t], n) /\ DOMAIN less = DOMAIN open
      /\ \A f \in DOMAIN open : f # f0 => less[f] = open[f]
  BY <1>1, ReleaseFollows
<1>3. OpenTypes'
  BY <1>1, <1>2 DEF Follows, OpenTypes
<1>4. Unused' \subseteq Unused \cup {f0}
  BY <1>1, <1>2 DEF Unused
<1>5. Cardinality(Unused)' <= Cardinality(Leaving)'
  BY <1>3, <1>4, LeavingStep, UnusedLeft
<1> QED
  BY <1>1, <1>2, <1>5, OpenStep

\* getHeader clears the list, and reads the header and the control info.
LEMMA HeaderOpen ==
    ASSUME RequestsInv, OpenInv, Undisturbed, NEW t \in Worker,
           ClearCache(t) \/ ReadHeader(t) \/ ReadInfo(t)
    PROVE  OpenInv'
<1>1. /\ q[t] \in Query({q[t].req}, {q[t].docs})
      /\ q[t].pc \in {"clear", "header", "info"} /\ q[t].pc \in AtSample
      /\ q[t].pc \in Getting
  BY HeaderOutside DEF ClearCache, ReadHeader, ReadInfo, AtSample, Getting
<1>2. PICK f0 \in File : f0 = Here(t) /\ f0 = FileOf(stored, q[t])
  BY <1>1, HereFile, HereIs
<1>3. f0 # 0
  BY QueriesAssumption
<1>4. CASE ClearCache(t)
  <2> DEFINE n == [q[t] EXCEPT !.pc = "header"]
  <2>1. Go(t, n) /\ open' = Cleared(open) /\ q[t].pc = "clear"
    BY <1>4 DEF ClearCache
  <2>2. /\ n.pc = "header" /\ n.header = q[t].header /\ FileOf(stored, n) = f0
    BY <1>1, <1>2 DEF Query, FileOf
  <2> HIDE DEF n
  <2>3. \A f \in File : UsesOf(stored, n, f) = UsesOf(stored, q[t], f)
    BY <1>1, <1>2, <2>2, SameUses DEF Getting
  <2>4. Follows(open, q[t], n) /\ n.pc # "count"
    BY <2>2, <2>3, SameFollows
  <2> QED
    BY <2>1, <2>4, ClearingStep
<1>5. ASSUME NEW pc, pc \in Getting, pc # "clear", q[t].pc # "clear",
             Go(t, [q[t] EXCEPT !.pc = pc]), open' = open
      PROVE  OpenInv'
  <2> DEFINE n == [q[t] EXCEPT !.pc = pc]
  <2>1. /\ n.pc = pc /\ n.header = q[t].header /\ FileOf(stored, n) = f0
    BY <1>1, <1>2 DEF Query, FileOf
  <2>2. Go(t, n)
    BY <1>5
  <2> HIDE DEF n
  <2>3. \A f \in File : UsesOf(stored, n, f) = UsesOf(stored, q[t], f)
    BY <1>1, <1>2, <1>5, <2>1, SameUses
  <2>4. q[t].pc \notin LeavingPcs /\ n.pc # "count"
    BY <1>1, <1>5, <2>1 DEF LeavingPcs, Getting
  <2> QED
    BY <1>5, <2>2, <2>3, <2>4, QuietStep
<1>6. ASSUME q[t].pc # "clear", open' = Released(open, f0), Throw(t) PROVE OpenInv'
  <2>1. PICK docs : Go(t, [q[t] EXCEPT !.pc = "close", !.status = 2, !.docs = docs])
    BY <1>6 DEF Throw
  <2> DEFINE n == [q[t] EXCEPT !.pc = "close", !.status = 2, !.docs = docs]
  <2>2. n.pc = "close" /\ n.header = q[t].header
    BY <1>1 DEF Query
  <2>3. Go(t, n)
    BY <2>1
  <2> HIDE DEF n
  <2>4. n.pc \notin Getting /\ n.pc \in LeavingPcs /\ n.pc # "count" /\ q[t].pc \notin LeavingPcs
    BY <1>1, <1>6, <2>2 DEF Getting, LeavingPcs
  <2>5. \A f \in File : UsesOf(stored, q[t], f)
                          = UsesOf(stored, n, f) + (IF f = f0 THEN 1 ELSE 0)
    BY <1>1, <1>2, <2>2, <2>4 DEF UsesOf
  <2> QED
    BY <1>6, <2>3, <2>4, <2>5, ReleasedStep
<1>7. CASE ReadHeader(t)
  <2>1. "info" \in Getting /\ "info" # "clear" /\ q[t].pc # "clear"
    BY <1>7 DEF ReadHeader, Getting
  <2>2. \/ open' = open /\ Go(t, [q[t] EXCEPT !.pc = "info"])
        \/ open' = Released(open, f0) /\ Throw(t)
    BY <1>2, <1>7 DEF ReadHeader
  <2> QED
    BY <1>5, <1>6, <2>1, <2>2
<1>8. CASE ReadInfo(t)
  <2>1. q[t].pc = "info" /\ q[t].pc # "clear"
    BY <1>8 DEF ReadInfo
  <2>2. CASE open' = Released(open, f0) /\ Throw(t)
    BY <1>6, <2>1, <2>2
  <2>3. ASSUME NEW n, Go(t, n), n.pc \in {"value", "next"}, n.header = f0,
               open' = IF q[t].header = 0 THEN open ELSE Released(open, q[t].header)
        PROVE  OpenInv'
    <3>1. /\ n.pc \notin Getting /\ n.pc \in LeavingPcs /\ n.pc # "count"
          /\ q[t].pc \notin LeavingPcs
      BY <2>1, <2>3 DEF Getting, LeavingPcs
    <3>2. CASE q[t].header = 0
      <4>1. \A f \in File : f # 0
        BY QueriesAssumption
      <4>2. \A f \in File : UsesOf(stored, n, f) = UsesOf(stored, q[t], f)
        BY <1>1, <1>2, <2>3, <3>1, <3>2, <4>1 DEF UsesOf
      <4> QED
        BY <2>3, <3>1, <3>2, <4>2, QuietStep
    <3>3. CASE q[t].header # 0
      <4>1. PICK f1 \in File : f1 = q[t].header
        BY <1>1, <3>3 DEF Query
      <4>2. \A f \in File : UsesOf(stored, q[t], f)
                              = UsesOf(stored, n, f) + (IF f = f1 THEN 1 ELSE 0)
        BY <1>1, <1>2, <2>3, <3>1, <4>1 DEF UsesOf
      <4>3. open' = Released(open, f1)
        BY <2>3, <3>3, <4>1
      <4> QED
        BY <2>3, <3>1, <4>2, <4>3, ReleasedStep
    <3> QED
      BY <3>2, <3>3
  <2>4. CASE /\ open' = IF q[t].header = 0 THEN open ELSE Released(open, q[t].header)
             /\ \/ Go(t, Gives([q[t] EXCEPT !.header = f0]))
                \/ Go(t, [[q[t] EXCEPT !.header = f0] EXCEPT !.pc = "next"])
    <3>1. /\ Gives([q[t] EXCEPT !.header = f0]).pc = "value"
          /\ Gives([q[t] EXCEPT !.header = f0]).header = f0
          /\ [[q[t] EXCEPT !.header = f0] EXCEPT !.pc = "next"].pc = "next"
          /\ [[q[t] EXCEPT !.header = f0] EXCEPT !.pc = "next"].header = f0
      BY <1>1 DEF Query, Gives
    <3>2. CASE Go(t, Gives([q[t] EXCEPT !.header = f0]))
      BY <2>3, <2>4, <3>1, <3>2
    <3>3. CASE Go(t, [[q[t] EXCEPT !.header = f0] EXCEPT !.pc = "next"])
      BY <2>3, <2>4, <3>1, <3>3
    <3> QED
      BY <2>4, <3>2, <3>3
  <2> QED
    BY <1>2, <1>8, <2>2, <2>4 DEF ReadInfo
<1> QED
  BY <1>4, <1>7, <1>8

\* The reader is deleted.
LEMMA CloseOpen ==
    ASSUME RequestsInv, OpenInv, Undisturbed, NEW t \in Worker, Close(t)
    PROVE  OpenInv'
<1>1. q[t] \in Query({q[t].req}, {q[t].docs}) /\ q[t].pc = "close"
  BY HeaderOutside DEF Close
<1> DEFINE n == CreateResult(NextName(q[t]))
<1>2. n.header = 0 /\ n.pc \in {"find", "done"}
  <2>1. NextName(q[t]).header = 0 /\ NextName(q[t]).pc = "find"
    BY <1>1 DEF NextName, Query
  <2>2. "header" \in DOMAIN NextName(q[t]) /\ "pc" \in DOMAIN NextName(q[t])
    BY <1>1 DEF NextName, Query
  <2> QED
    BY <2>1, <2>2 DEF CreateResult
<1>3. /\ Go(t, n)
      /\ open' = Cleared(IF q[t].header = 0 THEN open ELSE Released(open, q[t].header))
  BY DEF Close
<1> HIDE DEF n
<1>4. n.pc \notin Getting /\ q[t].pc \notin Getting /\ n.pc # "count"
  BY <1>1, <1>2 DEF Getting
<1>5. CASE q[t].header = 0
  <2>1. \A f \in File : UsesOf(stored, n, f) = UsesOf(stored, q[t], f)
    BY <1>2, <1>4, <1>5, SameUses
  <2>2. Follows(open, q[t], n)
    BY <2>1, SameFollows
  <2> QED
    BY <1>3, <1>4, <1>5, <2>2, ClearingStep
<1>6. CASE q[t].header # 0
  <2>1. PICK f0 \in File : f0 = q[t].header
    BY <1>1, <1>6 DEF Query
  <2>2. \A f \in File : UsesOf(stored, q[t], f)
                          = UsesOf(stored, n, f) + (IF f = f0 THEN 1 ELSE 0)
    <3>1. \A f \in File : f # 0
      BY QueriesAssumption
    <3> QED
      BY <1>2, <1>4, <2>1, <3>1 DEF UsesOf
  <2>3. Follows(Released(open, f0), q[t], n)
    BY <2>2, ReleaseFollows
  <2>4. open' = Cleared(Released(open, f0))
    BY <1>3, <1>6, <2>1
  <2> QED
    BY <1>3, <1>4, <2>3, <2>4, ClearingStep
<1> QED
  BY <1>5, <1>6

\* A new process has no file open.
LEMMA RestartOpen ==
    ASSUME \A t \in Worker : q'[t] = Idle, open' = NothingOpen
    PROVE  OpenInv'
<1>1. Idle.pc = "idle" /\ Idle.header = 0
  BY DEF Idle
<1>2. PICK none : none = open' /\ DOMAIN none = {} /\ none \in [DOMAIN none -> Nat]
  <2>1. DOMAIN <<>> = {} /\ <<>> \in [{} -> Nat]
    OBVIOUS
  <2> QED
    BY <2>1 DEF NothingOpen
<1>3. Unused' = {}
  BY <1>2 DEF Unused
<1>4. Cardinality(Unused)' <= Cardinality(Leaving)'
  BY <1>3, NoneUnused
<1>5. ASSUME NEW f \in File
      PROVE  HeadersOf(f)' = {} /\ GettersOf(f)' = {} /\ FindersOf(f)' = {}
  <2>1. f # 0
    BY QueriesAssumption
  <2> QED
    BY <1>1, <2>1 DEF HeadersOf, GettersOf, FindersOf, Getting
<1>6. UsersCounted'
  BY <1>2, <1>5 DEF UsersCounted, IsOpen
<1> QED
  BY <1>2, <1>4, <1>6, FS_EmptySet DEF OpenInv

LEMMA AddSampleOpen ==
    ASSUME RequestsInv, OpenInv, NEW n \in Name, NEW g \in File, AddSample(n, g)
    PROVE  OpenInv'
<1>1. q' = q /\ open' = open
  BY DEF AddSample
<1>2. ASSUME NEW u \in Worker, q[u].pc \in AtSample PROVE Here(u)' = Here(u)
  <2>1. PICK s \in Seq(Sample) : s = stored[Head(q[u].names)] /\ Head(q[u].names) \in Name
    BY <1>2, ChannelFacts DEF InChannel
  <2>2. q[u].pos \in DOMAIN s
    BY <1>2, <2>1, HereFile, ChannelFacts DEF InChannel
  <2>3. stored'[Head(q[u].names)][q[u].pos] = s[q[u].pos]
    BY <2>1, <2>2, AddedGrows DEF Grown
  <2> QED
    BY <1>1, <2>1, <2>3 DEF Here, Samples
<1>3. \A u \in Worker : q[u].pc \in Getting \/ q[u].pc = "count" => q[u].pc \in AtSample
  BY DEF Getting, AtSample
<1>4. ASSUME NEW f \in File
      PROVE  /\ HeadersOf(f)' = HeadersOf(f) /\ GettersOf(f)' = GettersOf(f)
             /\ FindersOf(f)' = FindersOf(f)
  BY <1>1, <1>2, <1>3 DEF HeadersOf, GettersOf, FindersOf
<1>5. UsersCounted'
  BY <1>1, <1>4 DEF UsersCounted, OpenInv
<1>6. Unused' = Unused /\ Leaving' = Leaving
  BY <1>1 DEF Unused, Leaving
<1> QED
  BY <1>1, <1>5, <1>6 DEF OpenInv

LEMMA OpenInit == QueriesInit => OpenInv
<1> SUFFICES ASSUME QueriesInit PROVE OpenInv
  OBVIOUS
<1>1. /\ \A t \in Worker : q[t] = Idle
      /\ open = NothingOpen
  BY DEF QueriesInit
<1>2. Idle.pc = "idle" /\ Idle.header = 0
  BY DEF Idle
<1>3. PICK none : none = open /\ DOMAIN none = {} /\ none \in [DOMAIN none -> Nat]
  <2>1. DOMAIN <<>> = {} /\ <<>> \in [{} -> Nat]
    OBVIOUS
  <2> QED
    BY <1>1, <2>1 DEF NothingOpen
<1>4. Unused = {} /\ Leaving \subseteq Worker
  BY <1>3 DEF Unused, Leaving
<1>5. Cardinality(Unused) <= Cardinality(Leaving)
  BY <1>4, ThreadsFinite, FS_EmptySet
<1>6. ASSUME NEW f \in File
      PROVE  HeadersOf(f) = {} /\ GettersOf(f) = {} /\ FindersOf(f) = {}
  <2>1. f # 0
    BY QueriesAssumption
  <2> QED
    BY <1>1, <1>2, <2>1 DEF HeadersOf, GettersOf, FindersOf, Getting
<1>7. UsersCounted
  BY <1>3, <1>6 DEF UsersCounted, IsOpen
<1> QED
  BY <1>3, <1>5, <1>7, FS_EmptySet DEF OpenInv

LEMMA OpenNext ==
    RequestsInv /\ OpenInv /\ [QueriesNext /\ Undisturbed]_queryVars => OpenInv'
<1> SUFFICES ASSUME RequestsInv, OpenInv, [QueriesNext /\ Undisturbed]_queryVars
             PROVE  OpenInv'
  OBVIOUS
<1>1. CASE UNCHANGED queryVars
  BY <1>1 DEF queryVars, OpenInv, UsersCounted, HeadersOf, GettersOf, FindersOf, Here, Samples,
              Unused, Leaving
<1>2. CASE Undisturbed /\ \E n \in Name, f \in File : AddSample(n, f)
  BY <1>2, AddSampleOpen
<1>3. CASE Undisturbed /\ \E t \in Worker, req \in Requests : Receive(t, req)
  BY <1>3, OutsideOpen
<1>4. CASE Undisturbed /\ \E t \in Worker : Process(t)
  <2>1. PICK t \in Worker : Process(t)
    BY <1>4
  <2>2. CASE Restart
    <3>1. open' = NothingOpen /\ \A u \in Worker : q'[u] = Idle
      BY <2>2 DEF Restart
    <3> QED
      BY <3>1, RestartOpen
  <2>3. CASE \/ Act(t) \/ ActAtOnce(t) \/ ActAtOnceMongo(t)
             \/ FilterClassic(t) \/ FilterFails(t)
             \/ FilterMongo(t) \/ FilterThrows(t) \/ Read(t) \/ Answer(t)
    BY <1>4, <2>3, OutsideOpen
  <2>4. CASE \/ Find(t) \/ FindThrows(t) \/ FindsNothing(t)
             \/ TakeValue(t) \/ NextValue(t) \/ FindInCache(t)
    BY <1>4, <2>4, ReaderOpen
  <2>5. CASE CountReference(t)
    BY <1>4, <2>5, CountOpen
  <2>6. CASE OpenFile(t)
    BY <1>4, <2>6, OneMoreOpen
  <2>7. CASE ClearCache(t) \/ ReadHeader(t) \/ ReadInfo(t)
    BY <1>4, <2>7, HeaderOpen
  <2>8. CASE Close(t)
    BY <1>4, <2>8, CloseOpen
  <2>9. FilterDies(t) \/ IndexFails(t) => Restart
    BY DEF FilterDies, IndexFails
  <2> QED
    BY <2>1, <2>2, <2>3, <2>4, <2>5, <2>6, <2>7, <2>8, <2>9 DEF Process
<1> QED
  BY <1>1, <1>2, <1>3, <1>4 DEF QueriesNext

\* The inductive invariant about the open files, with any number of threads, files and
\* channels, whatever fails, as long as no thread closes a file that another one has
\* found in the list and not yet counted.
THEOREM OpenInvariance == UnracedSpec => []OpenInv
<1>1. [QueriesNext /\ Undisturbed]_queryVars => [QueriesNext]_queryVars
  OBVIOUS
<1> QED
  BY <1>1, RequestsInit, RequestsNext, OpenInit, OpenNext, PTL DEF UnracedSpec

\* The reference counts are right, for any number of threads: an unlocked list breaks
\* them by that one race only.
THEOREM ReferencesCounted == UnracedSpec => []UsersCounted
<1>1. OpenInv => UsersCounted
  BY DEF OpenInv
<1> QED
  BY <1>1, OpenInvariance, PTL

LEMMA OpenIsFew == RequestsInv /\ OpenInv => FewOpenFiles
<1> SUFFICES ASSUME RequestsInv, OpenInv PROVE FewOpenFiles
  OBVIOUS
<1> DEFINE used == {f \in DOMAIN open : open[f] # 0}
           headed == {f \in used : HeadersOf(f) # {}}
           gotten == {f \in used : GettersOf(f) # {}}
<1>1. /\ DOMAIN open \subseteq File /\ IsFiniteSet(DOMAIN open)
      /\ DOMAIN open = used \cup Unused
      /\ used \in SUBSET DOMAIN open /\ Unused \in SUBSET DOMAIN open
  BY DEF OpenInv, Unused
<1>2. used = headed \cup gotten
  <2> SUFFICES ASSUME NEW f \in used PROVE HeadersOf(f) # {} \/ GettersOf(f) # {}
    OBVIOUS
  <2>1. open[f] = Cardinality(HeadersOf(f)) + Cardinality(GettersOf(f))
    BY <1>1 DEF OpenInv, UsersCounted, IsOpen
  <2>2. HeadersOf(f) = {} /\ GettersOf(f) = {} => open[f] = 0
    BY <2>1, FS_EmptySet
  <2> QED
    BY <2>2
<1>3. /\ IsFiniteSet(headed) /\ Cardinality(headed) <= Cardinality(Heading)
      /\ Cardinality(headed) \in Nat /\ Cardinality(Heading) \in Nat
  <2> DEFINE of == [t \in Heading |-> q[t].header]
  <2>1. Heading \subseteq Worker
    BY DEF Heading
  <2>2. \A f \in headed : \E t \in Heading : of[t] = f
    <3> SUFFICES ASSUME NEW f \in headed PROVE \E t \in Heading : of[t] = f
      OBVIOUS
    <3>1. f # 0
      BY <1>1, QueriesAssumption
    <3>2. PICK t \in Worker : q[t].header = f
      BY DEF HeadersOf
    <3> QED
      BY <3>1, <3>2 DEF Heading
  <2> HIDE DEF headed, of
  <2> QED
    BY <2>1, <2>2, ThreadsFinite, ImageCount
<1>4. /\ IsFiniteSet(gotten) /\ Cardinality(gotten) <= Cardinality(Getters)
      /\ Cardinality(gotten) \in Nat /\ Cardinality(Getters) \in Nat
  <2> DEFINE of == [t \in Getters |-> Here(t)]
  <2>1. Getters \subseteq Worker
    BY DEF Getters
  <2>2. \A f \in gotten : \E t \in Getters : of[t] = f
    BY DEF GettersOf, Getters
  <2> HIDE DEF gotten, of
  <2> QED
    BY <2>1, <2>2, ThreadsFinite, ImageCount
<1>5. /\ Cardinality(Unused) \in Nat /\ Cardinality(Leaving) \in Nat
      /\ IsFiniteSet(Unused) /\ Cardinality(Unused) <= Cardinality(Leaving)
  <2>1. IsFiniteSet(Unused)
    BY <1>1, FS_Subset
  <2>2. Leaving \subseteq Worker
    BY DEF Leaving
  <2> QED
    BY <2>1, <2>2, ThreadsFinite, FS_CardinalityType DEF OpenInv
<1> HIDE DEF used, headed, gotten
<1>6. /\ IsFiniteSet(used) /\ Cardinality(used) \in Nat
      /\ Cardinality(used) <= Cardinality(headed) + Cardinality(gotten)
  BY <1>2, <1>3, <1>4, UnionCount
<1>7. Cardinality(DOMAIN open) <= Cardinality(used) + Cardinality(Unused)
  BY <1>1, <1>5, <1>6, UnionCount
<1>8. Cardinality(DOMAIN open) \in Nat
  BY <1>1, FS_CardinalityType
<1> QED
  BY <1>3, <1>4, <1>5, <1>6, <1>7, <1>8 DEF FewOpenFiles

\* With any number of files and threads, few files are open: at most three for each
\* thread that reads a channel, as long as there is no such race.
THEOREM FilesStayFew == UnracedSpec => []FewOpenFiles
<1>1. [QueriesNext /\ Undisturbed]_queryVars => [QueriesNext]_queryVars
  OBVIOUS
<1> QED
  BY <1>1, RequestsInit, RequestsNext, OpenInvariance, OpenIsFew, PTL DEF UnracedSpec

=============================================================================
