---------------------------- MODULE OrderedMutex ----------------------------
(***************************************************************************)
(* Mutexes with an order, and the monitor that refuses to take them out of *)
(* order: OrderedMutex.cpp with the Guard of Guard.h, which takes a mutex  *)
(* when it is made and releases it when it goes away.                      *)
(*                                                                         *)
(* An epicsMutex is recursive: its owner can take it again.  The monitor   *)
(* exists before threads start; its creation is not guarded by a lock.     *)
(***************************************************************************)
EXTENDS Naturals, Sequences, SequencesExt, FiniteSets

CONSTANTS
    Thread,
    Mutex,
    Order,       \* Order[m]: the order that mutex m was created with
    MaxOrder,    \* the largest size_t
    MaxHeld      \* bound: entries of a thread in the monitor

ASSUME OrderAssumption ==
    MaxOrder \in Nat /\ Order \in [Mutex -> 0 .. MaxOrder]

VARIABLES
    entries,     \* LockMonitor: the locks of each thread in the order taken
    owner,       \* the thread that has each mutex; Nobody
    depth,       \* how often that thread has taken it
    at           \* where each thread is in lock() or unlock()

lockVars == <<entries, owner, depth, at>>

Nobody == "nobody"

\* Every thread that takes a mutex can be told from nobody.
ASSUME ThreadAssumption == Nobody \notin Thread

Running == [in |-> "none"]
WaitsFor(m) == [in |-> "lock", mutex |-> m]
Forgets(m) == [in |-> "unlock", mutex |-> m]

\* A mutant of Check: previous stays at the first lock.
CheckLast(locks) ==
    Len(locks) > 1 => Order[locks[1]] <= Order[locks[Len(locks)]]

\* ThreadList::check: the orders never go down.
Check(locks) ==
    \A i, j \in 1 .. Len(locks) : i < j => Order[locks[i]] <= Order[locks[j]]

LockInit ==
    /\ entries = [t \in Thread |-> <<>>]
    /\ owner = [m \in Mutex |-> Nobody]
    /\ depth = [m \in Mutex |-> 0]
    /\ at = [t \in Thread |-> Running]

\* OrderedMutex::lock up to the wait: LockMonitor::add makes the entry first.
Ask(t, m) ==
    /\ at[t] = Running
    /\ Len(entries[t]) < MaxHeld
    /\ Check(Append(entries[t], m))
    /\ entries' = [entries EXCEPT ![t] = Append(@, m)]
    /\ at' = [at EXCEPT ![t] = WaitsFor(m)]
    /\ UNCHANGED <<owner, depth>>

\* LockMonitor::add throws.  "Remove the offending one, since we won't lock
\* it": that is the first entry of the mutex, not always the one just made.
Refuse(t, m) ==
    /\ at[t] = Running
    /\ Len(entries[t]) < MaxHeld
    /\ ~Check(Append(entries[t], m))
    /\ entries' = [entries EXCEPT ![t] = RemoveFirst(Append(@, m), m)]
    /\ UNCHANGED <<owner, depth, at>>

\* epicsMutexLock returns.
Obtain(t, m) ==
    /\ at[t] = WaitsFor(m)
    /\ owner[m] \in {t, Nobody}
    /\ owner' = [owner EXCEPT ![m] = t]
    /\ depth' = [depth EXCEPT ![m] = @ + 1]
    /\ at' = [at EXCEPT ![t] = Running]
    /\ UNCHANGED entries

\* OrderedMutex::unlock: epicsMutexUnlock, and another thread may have the
\* mutex before the entry is gone.
Release(t, m) ==
    /\ at[t] = Running
    /\ owner[m] = t
    /\ depth' = [depth EXCEPT ![m] = @ - 1]
    /\ owner' = [owner EXCEPT ![m] = IF depth[m] = 1 THEN Nobody ELSE t]
    /\ at' = [at EXCEPT ![t] = Forgets(m)]
    /\ UNCHANGED entries

\* A mutant of Forget: all entries of the mutex go.
ForgetAll(t, m) ==
    /\ at[t] = Forgets(m)
    /\ entries' = [entries EXCEPT ![t] = SelectSeq(@, LAMBDA x : x # m)]
    /\ at' = [at EXCEPT ![t] = Running]
    /\ UNCHANGED <<owner, depth>>

\* LockMonitor::remove, in which ThreadList::remove takes out the first entry.
Forget(t, m) ==
    /\ at[t] = Forgets(m)
    /\ entries' = [entries EXCEPT ![t] = RemoveFirst(@, m)]
    /\ at' = [at EXCEPT ![t] = Running]
    /\ UNCHANGED <<owner, depth>>

LockStep(t, m) ==
    \/ Ask(t, m)
    \/ Refuse(t, m)
    \/ Obtain(t, m)
    \/ Release(t, m)
    \/ Forget(t, m)

LockNext == \E t \in Thread, m \in Mutex : LockStep(t, m)
LockSpec == LockInit /\ [][LockNext]_lockVars

-----------------------------------------------------------------------------
Waiting(t) == at[t].in = "lock"

\* "Attempts to take these mutexes out of order, which could result in
\* deadlocks, are detected": no threads wait for each other in a circle.
NoCircularWait ==
    \A S \in (SUBSET Thread) \ {{}} :
        ~ \A t \in S : Waiting(t) /\ owner[at[t].mutex] \in S \ {t}

\* The monitor knows what it is asked about: it has as many entries for a thread
\* and a mutex as the thread has taken it, and one while it takes or returns it.
Entered(t, m) == Cardinality({i \in 1 .. Len(entries[t]) : entries[t][i] = m})
MonitorTrue ==
    \A t \in Thread, m \in Mutex :
        Entered(t, m) = (IF owner[m] = t THEN depth[m] ELSE 0)
                        + (IF at[t] \in {WaitsFor(m), Forgets(m)} THEN 1 ELSE 0)

\* Locks of different order only, as in the example of OrderedMutex.h.
DistinctOrders == \A m, n \in Mutex : Order[m] = Order[n] => m = n

=============================================================================
