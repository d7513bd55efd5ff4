-------------------------------- MODULE MCCfs --------------------------------
(***************************************************************************)
(* CFS over three processes with nice -5, 0 and +5 (increments 0, 1 and 3) *)
(* and over four processes of nice 0 that start together.                  *)
(***************************************************************************)
EXTENDS Cfs, Tables

MCTraces ==
    TablesOf(2, {0, 2}, {1, 4, 5}, {0}, {-5, 0, 1, 4, 5}, {0})
        \cup TablesOf(3, {0, 2, 3}, {1, 4}, {0}, {-5, 0, 5}, {0})
        \cup TablesOf(4, {0}, 1..3, {0}, {0}, {0})
=============================================================================
