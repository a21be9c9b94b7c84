----------------------------- MODULE SampleLog -----------------------------
(***************************************************************************)
(* What the archive of one channel promises about the samples that are     *)
(* added to it, whatever its files look like.  A sample that was accepted  *)
(* is first volatile: it is lost if the program dies.  Saving makes some   *)
(* of the volatile samples durable, in no particular order, and a durable  *)
(* sample is never lost again.  DataWriter implements this specification.  *)
(***************************************************************************)
EXTENDS Naturals, Sequences

CONSTANT Sample

VARIABLES
    log,        \* all samples accepted so far, in this order
    durable,    \* the samples, by position in log, that are safe
    volatile    \* the samples that a crash would lose

vars == <<log, durable, volatile>>

Init == log = <<>> /\ durable = {} /\ volatile = {}

\* A sample is accepted.
Accept(x) ==
    /\ log' = Append(log, x)
    /\ volatile' = volatile \cup {Len(log')}
    /\ UNCHANGED durable

\* Some volatile samples become durable.
Save(some) ==
    /\ durable' = durable \cup some
    /\ volatile' = volatile \ some
    /\ UNCHANGED log

\* A write fails or the program dies: volatile samples are gone.
Lose(some) ==
    /\ volatile' = volatile \ some
    /\ UNCHANGED <<log, durable>>

Next ==
    \/ \E x \in Sample : Accept(x)
    \/ \E some \in SUBSET volatile : Save(some) \/ Lose(some)

Spec == Init /\ [][Next]_vars
=============================================================================
