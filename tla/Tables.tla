------------------------------- MODULE Tables -------------------------------
(***************************************************************************)
(* Finite sets of loaded tables for the model-checked instances.  The      *)
(* columns a scheduler never reads are given one value.                    *)
(***************************************************************************)
EXTENDS Integers, Sequences

InArrivalOrder(tr) == \A i \in 1..(Len(tr) - 1) : tr[i].arrival <= tr[i + 1].arrival

\* Every table of n rows with its columns in the given sets.
TablesOf(n, Arrivals, Bursts, Priorities, Nices, Queues) ==
    {tr \in [1..n -> [arrival : Arrivals, burst : Bursts, priority : Priorities,
                      nice : Nices, queue : Queues]] : InArrivalOrder(tr)}

\* Tables that differ in arrivals and bursts only.
PlainTables(n, Arrivals, Bursts) == TablesOf(n, Arrivals, Bursts, {0}, {0}, {0})
=============================================================================
