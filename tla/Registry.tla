------------------------------ MODULE Registry ------------------------------
(***************************************************************************)
(* src/sched/registry.c: the names of the algorithms, in the order in      *)
(* which --all runs them.                                                  *)
(***************************************************************************)
EXTENDS Integers, Sequences

registry ==
    <<"fcfs", "sjf", "srtf", "priority_p", "priority_np", "rr", "mlq", "mlfq", "cfs">>

\* scheduler_lookup finds a scheduler of this name.
scheduler_lookup(name) == \E k \in DOMAIN registry : registry[k] = name

\* scheduler_names(index) is not NULL; the index counts from 0.
scheduler_names(index) == index < Len(registry)
=============================================================================
