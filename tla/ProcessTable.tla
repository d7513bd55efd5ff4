---------------------------- MODULE ProcessTable ----------------------------
(***************************************************************************)
(* The rows of src/process.h, and what the loader hands to the engine.     *)
(***************************************************************************)
EXTENDS Integers, Sequences

CONSTANT MaxProcesses   \* MAX_PROCESSES, the length of every array of processes

ASSUME ProcessTableAssumption == MaxProcesses \in Nat \ {0}

\* The indices of an array of MAX_PROCESSES.
Slots == 0..(MaxProcesses - 1)

NOT_STARTED == -1

\* The fields of a row that the loader fills in and nothing changes.  The pid
\* is not among them: the engine's rows are named by their position.
Row == [arrival : Nat, burst : Nat \ {0}, priority : 0..9, nice : -5..5, queue : 0..2]

\* What load_trace returns: at least one row, in order of arrival.
IsTable(tr) ==
    /\ tr \in Seq(Row)
    /\ tr # <<>>
    /\ \A i, j \in DOMAIN tr : i < j => tr[i].arrival <= tr[j].arrival
=============================================================================
