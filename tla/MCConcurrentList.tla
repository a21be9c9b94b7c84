-------------------------- MODULE MCConcurrentList --------------------------
EXTENDS ConcurrentList

CONSTANTS
    Editors,     \* the threads that add and remove; the others iterate
    Free         \* the mutexes that they take beside the list; the others take
                 \* all of them

\* The order of ConcurrentList and Throttle in OrderedMutex.h, and two below.
MCOrder == [m \in Mutex |-> CASE m = "a" -> 1 [] m = "b" -> 2
                              [] m = "list" -> 100 [] m = "throttle" -> 101]

\* Bounds: each thread has one part with the list, an iterator does not go back
\* to the start, and one mutex at most is taken twice.
Roles ==
    \A t \in Thread :
        /\ call'[t][1] \in {"add", "remove"} => t \in Editors
        /\ call'[t][1] \in {"iterator", "next"} => t \notin Editors
        /\ t \in Editors => ToSet(entries'[t]) \subseteq Free \cup {ListMutex}
MCSpec == Init /\ [][ListNext /\ Roles]_vars

=============================================================================
