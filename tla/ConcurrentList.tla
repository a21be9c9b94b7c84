--------------------------- MODULE ConcurrentList ---------------------------
(***************************************************************************)
(* ConcurrentPtrList and its iterator, as the template ConcurrentList uses *)
(* them: each call makes a Guard for the mutex of the list, so that the    *)
(* list can change between any two calls of an iterator.  Threads use the  *)
(* list while they take and release other ordered mutexes.                 *)
(***************************************************************************)
EXTENDS OrderedMutex

CONSTANTS
    Item,
    ListMutex,   \* the mutex of the list
    MaxGot       \* bound: items that one iteration returns

ASSUME ListAssumption == ListMutex \in Mutex

VARIABLES
    list,        \* the items of the elements in their order; NoItem if removed
    iter,        \* the iterator of each thread: what it returns next, and the
                 \* element after that, 0 for none
    call,        \* what each thread uses its Guard for
    stay,        \* history: the items that were on the list since the iterator
    got          \* history: what the iterator of each thread returned

listVars == <<list, iter, call, stay, got>>
vars == <<lockVars, listVars>>

NoItem == "removed"

\* The list holds pointers, and the null pointer stands for a removed one.
ASSUME ItemAssumption == NoItem \notin Item

NoCall == <<"none">>
Finished == <<"done">>
Calls == {NoCall, Finished} \cup ({"add", "remove"} \X Item) \cup {<<"iterator">>, <<"next">>}
Items == ToSet(list) \ {NoItem}

Init ==
    /\ LockInit
    /\ list = <<>>
    /\ iter = [t \in Thread |-> [item |-> NoItem, next |-> 0]]
    /\ call = [t \in Thread |-> NoCall]
    /\ stay = [t \in Thread |-> {}]
    /\ got = [t \in Thread |-> <<>>]

\* The Guard: the call waits for the mutex, or fails if it comes out of order.
BeginCall(t, c) ==
    /\ call[t] = NoCall
    /\ \/ Ask(t, ListMutex) /\ call' = [call EXCEPT ![t] = c]
       \/ Refuse(t, ListMutex) /\ UNCHANGED call
    /\ UNCHANGED <<list, iter, stay, got>>
GetGuard(t) ==
    /\ call[t] # NoCall
    /\ Obtain(t, ListMutex)
    /\ UNCHANGED listVars
EndGuard(t) ==
    /\ call[t] = Finished
    /\ Release(t, ListMutex)
    /\ UNCHANGED listVars
EndCall(t) ==
    /\ call[t] = Finished
    /\ Forget(t, ListMutex)
    /\ call' = [call EXCEPT ![t] = NoCall]
    /\ UNCHANGED <<list, iter, stay, got>>

InCall(t, c) ==
    /\ call[t] = c
    /\ at[t] = Running
    /\ call' = [call EXCEPT ![t] = Finished]
    /\ UNCHANGED lockVars

\* ConcurrentPtrList::add: the first element that was removed is used again.
AddItem(t, x) ==
    LET free == {i \in DOMAIN list : list[i] = NoItem}
    IN  /\ InCall(t, <<"add", x>>)
        /\ list' = IF free = {} THEN Append(list, x)
                   ELSE [list EXCEPT ![Min(free)] = x]
        /\ UNCHANGED <<iter, stay, got>>

\* removeIfFound and remove: the element stays without its item.
RemoveItem(t, x) ==
    /\ InCall(t, <<"remove", x>>)
    /\ list' = [i \in DOMAIN list |-> IF list[i] = x THEN NoItem ELSE list[i]]
    /\ stay' = [u \in Thread |-> stay[u] \ {x}]
    /\ UNCHANGED <<iter, got>>

\* A mutant of GetNext: it stops at an element that was removed.
GetNextElement(next) ==
    IF next = 0
    THEN [item |-> NoItem, next |-> 0]
    ELSE [item |-> list[next], next |-> IF next = Len(list) THEN 0 ELSE next + 1]

\* ConcurrentPtrListIterator::getNext: on to the next element with an item.
GetNext(next) ==
    LET items == {i \in DOMAIN list : i >= next /\ list[i] # NoItem}
    IN  IF next = 0 \/ items = {}
        THEN [item |-> NoItem, next |-> 0]
        ELSE [item |-> list[Min(items)],
              next |-> IF Min(items) = Len(list) THEN 0 ELSE Min(items) + 1]

MakeIterator(t) ==
    /\ InCall(t, <<"iterator">>)
    /\ iter' = [iter EXCEPT ![t] = GetNext(IF list = <<>> THEN 0 ELSE 1)]
    /\ stay' = [stay EXCEPT ![t] = Items]
    /\ got' = [got EXCEPT ![t] = <<>>]
    /\ UNCHANGED list

NextItem(t) ==
    /\ InCall(t, <<"next">>)
    /\ Len(got[t]) < MaxGot
    /\ iter' = [iter EXCEPT ![t] = GetNext(@.next)]
    /\ got' = [got EXCEPT ![t] = IF iter[t].item = NoItem THEN @
                                 ELSE Append(@, iter[t].item)]
    /\ UNCHANGED <<list, stay>>

\* The users of the list put an item on it once, and take and release other
\* mutexes between their calls.
UserCall(t) ==
    \E c \in Calls \ {NoCall, Finished} :
        /\ c[1] = "add" => /\ c[2] \notin Items
                           /\ \A u \in Thread : call[u] # c
        /\ c[1] = "next" => Len(got[t]) < MaxGot
        /\ BeginCall(t, c)
UserLock(t, m) ==
    /\ call[t] = NoCall /\ m # ListMutex
    /\ LockStep(t, m)
    /\ UNCHANGED listVars

ListNext ==
    \E t \in Thread :
        \/ UserCall(t)
        \/ GetGuard(t)
        \/ EndGuard(t)
        \/ EndCall(t)
        \/ \E x \in Item : AddItem(t, x)
        \/ \E x \in Item : RemoveItem(t, x)
        \/ MakeIterator(t)
        \/ NextItem(t)
        \/ \E m \in Mutex : UserLock(t, m)

Spec == Init /\ [][ListNext]_vars

-----------------------------------------------------------------------------
\* How often next() has returned x to thread t.
Returned(t, x) == Cardinality({i \in DOMAIN got[t] : got[t][i] = x})

\* Whatever other threads add and remove between the calls of an iterator, an
\* item that is on the list all the time is returned exactly once before next()
\* returns none; the element of a removed item may be used again before or
\* behind the iterator.
IterationComplete ==
    \A t \in Thread : \A x \in stay[t] :
        /\ Returned(t, x) <= 1
        /\ iter[t].item = NoItem => Returned(t, x) = 1

\* The type invariant of the list.
ListTypeOK ==
    /\ list \in Seq(Item \cup {NoItem})
    /\ iter \in [Thread -> [item : Item \cup {NoItem}, next : Nat]]
    /\ call \in [Thread -> Calls]
    /\ stay \in [Thread -> SUBSET Item]
    /\ got \in [Thread -> Seq(Item)]

\* An item is in one element, and not yet in one while it is being added.
OneElement ==
    /\ \A i, j \in DOMAIN list : list[i] = list[j] /\ list[i] # NoItem => i = j
    /\ \A t, u \in Thread : \A x \in Item :
          call[t] = <<"add", x>> =>
              x \notin Items /\ (call[u] = <<"add", x>> => t = u)

\* The iterator of t has gone past element i.
Passed(t, i) == iter[t].next = 0 \/ i < iter[t].next

\* Of the items that stay on the list, the iterator has returned, or will return
\* next, those whose elements it has passed, each once, and no other.
IteratorOnTrack ==
    \A t \in Thread :
        /\ iter[t].next \in 0..Len(list)
        /\ iter[t].item = NoItem => iter[t].next = 0
        /\ stay[t] \subseteq Items
        /\ \A i \in DOMAIN list : list[i] \in stay[t] =>
              Returned(t, list[i]) + (IF iter[t].item = list[i] THEN 1 ELSE 0)
                = IF Passed(t, i) THEN 1 ELSE 0

\* The inductive invariant of the list, from which IterationComplete follows.
ListInv == ListTypeOK /\ OneElement /\ IteratorOnTrack

=============================================================================
