---------------------------- MODULE MCTableScan -----------------------------
(***************************************************************************)
(* The four scanning schedulers, and beside them every schedule that the   *)
(* contract allows: algo is "any" in a run whose scheduler keeps it and is *)
(* free otherwise.  The tables of all five have gaps before and between    *)
(* arrivals, and some do not fit the timeline; the scanning ones also run  *)
(* three processes with longer bursts, and with priorities.                *)
(***************************************************************************)
EXTENDS TableScan, Tables

TooLong == PlainTables(2, {0, 8}, {1, 5})
ContractTables == PlainTables(2, 0..4, 1..3) \cup PlainTables(3, 0..3, 1..2) \cup TooLong
MCTraces == ContractTables \cup PlainTables(3, 0..2, 1..3)
                \cup TablesOf(3, 0..2, {1, 2}, 0..2, {0}, {0})

AnyInit == Init /\ trace \in ContractTables /\ algo = "any" /\ running = IDLE
AnyNext == algo = "any" /\ WCNext /\ UNCHANGED scan_state

EveryNext == AnyNext \/ (algo \in Algorithms /\ ScanNext)
EverySpec == (AnyInit \/ ScanInit) /\ [][EveryNext]_ScanVars /\ WF_ScanVars(EveryNext)
=============================================================================
