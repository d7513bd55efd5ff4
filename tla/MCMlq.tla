-------------------------------- MODULE MCMlq --------------------------------
(***************************************************************************)
(* MLQ with quanta 2, 3 and none over tables of three processes in every   *)
(* assignment to the queues, and of two processes with longer bursts that  *)
(* are displaced more than once.                                           *)
(***************************************************************************)
EXTENDS Mlq, Tables

MCLevelQuantum == [lv \in Levels |-> CASE lv = 0 -> 2 [] lv = 1 -> 3 [] lv = 2 -> 0]

MCTraces ==
    TablesOf(3, {0, 1, 2}, {1, 3}, {0}, {0}, 0..2)
        \cup {tr \in TablesOf(4, 0..3, {1, 4}, {0}, {0}, {0, 1}) :
                 /\ tr[1].arrival = 0 /\ tr[1].queue = 1 /\ tr[1].burst = 4
                 /\ Cardinality({i \in 1..4 : tr[i].burst = 4}) <= 2}
=============================================================================
