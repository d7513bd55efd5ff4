---------------------------- MODULE MCRoundRobin ----------------------------
(***************************************************************************)
(* Round Robin with quanta 1 to 3 over tables of up to three processes,    *)
(* with room for three: the ring is full and wraps around, and the CPU     *)
(* goes idle.  Every slot holds the pid of the first row from an earlier   *)
(* run.                                                                    *)
(***************************************************************************)
EXTENDS RoundRobin, Tables

MCTraces ==
    PlainTables(1, 0..2, 1..2)
        \cup PlainTables(2, 0..4, 1..3) \cup PlainTables(2, 0..3, 1..4)
        \cup PlainTables(3, 0..2, 1..3) \cup PlainTables(3, 0..3, 1..2)
=============================================================================
