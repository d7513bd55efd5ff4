--------------------------- MODULE MCCrossChecks ---------------------------
(***************************************************************************)
(* FCFS beside the abstract queues with everything at once: entry by the   *)
(* queue column, demotion, a boost every four ticks, and a last level with *)
(* and without a quantum.  Each of the four schedulers uses a part of      *)
(* this.  FCFS has room for three processes, so that its array is exactly  *)
(* full, and every slot holds the pid of the first row from an earlier     *)
(* run.                                                                    *)
(***************************************************************************)
EXTENDS CrossChecks, Tables

Column(row) == row.queue
Below(lv) == Min({lv + 1, 2})

MCLevelQuanta == {[lv \in 0..2 |-> <<1, 2, q>>[lv + 1]] : q \in {0, 2}}

MCTraces ==
    PlainTables(1, 0..2, 1..2) \cup PlainTables(3, 0..2, 1..3)
        \cup TablesOf(2, 0..4, {1, 3, 5}, {0}, {0}, 0..2)
        \cup TablesOf(3, {0, 2}, {1, 4}, {0}, {0}, 0..2)
=============================================================================
