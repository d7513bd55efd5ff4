------------------------------- MODULE MCMlfq -------------------------------
(***************************************************************************)
(* MLFQ with quanta 1, 2 and 3 and a boost every 5 ticks: processes reach  *)
(* the bottom level, turn around in it, and are boosted from every level,  *)
(* with the CPU idle, and at the tick at which another arrives.  Four      *)
(* processes of one tick each wait at level 0 around the first boost.      *)
(***************************************************************************)
EXTENDS Mlfq, Tables

MCLevelQuantum == [lv \in Levels |-> lv + 1]

MCTraces ==
    PlainTables(4, {3, 4, 5}, {1})
        \cup PlainTables(1, {0, 4}, {1, 7, 11})
        \cup PlainTables(2, {0, 1, 3, 5, 6}, {1, 3, 4, 6, 7})
        \cup PlainTables(3, {0, 1, 3, 5}, {1, 4, 6})
=============================================================================
