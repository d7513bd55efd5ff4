------------------------------ MODULE MCEngine ------------------------------
(***************************************************************************)
(* The engine and the metrics under an arbitrary scheduler: every table of *)
(* one or two processes that arrive by tick 2 with bursts of at most 2,    *)
(* and three processes of one tick that arrive together.                   *)
(***************************************************************************)
EXTENDS Metrics, Tables

MCTraces == PlainTables(1, 0..2, 1..2) \cup PlainTables(2, 0..2, 1..2)
                \cup PlainTables(3, {0}, {1})
=============================================================================
