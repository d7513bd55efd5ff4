------------------------------- MODULE Engine -------------------------------
(***************************************************************************)
(* The tick loop of src/engine.c: one CPU, one process table, and a        *)
(* scheduler reached only through its callbacks.  A tick is                *)
(*                                                                         *)
(*   LoopTest   while (completed < n), and the MAX_TICKS cap               *)
(*   Admit      one on_arrival call, for one row arriving at this tick     *)
(*   Pick       the pick_next call, the switch count, the timeline entry   *)
(*              and the three checks of the returned pid                   *)
(*   Execute    start_tick, remaining--, and completion with on_complete   *)
(*   EndTick    the on_tick_end call, current = next, tick++               *)
(*                                                                         *)
(* A process is named by its row in the table, 1..n.  Pids are unique and  *)
(* the table is sorted by arrival then pid, so a row and a pid determine   *)
(* each other, and the order of rows is the tie-break order.               *)
(*                                                                         *)
(* In this module the scheduler is arbitrary: Next lets pick_next return   *)
(* any row, IDLE or a pid that is in no row.  What is true here is true    *)
(* whatever the algorithm does.                                            *)
(***************************************************************************)
EXTENDS ProcessTable, FiniteSets

CONSTANTS Traces,    \* the loaded tables a run may start from
          MaxTicks   \* MAX_TICKS, the length of the timeline array

IDLE == -1

\* A pid that is in no row of the table.
UnknownPid == 0

ASSUME EngineAssumption ==
    /\ MaxTicks \in Nat \ {0}
    /\ \A tr \in Traces : IsTable(tr)

VARIABLES
    trace,             \* the read-only columns of the process table
    remaining,         \* per row: ticks of burst still to execute
    start_tick,        \* per row: first dispatch, or NOT_STARTED
    completion,        \* per row: tick after the last one executed
    timeline,          \* run_result_t: what ran at each tick
    context_switches,  \* run_result_t
    tick, completed, current, next,   \* locals of engine_run
    cursor,            \* the i of the arrival loop
    phase              \* where engine_run is, "ok" and "error" once it returned

table == <<trace, remaining, start_tick, completion>>
result == <<timeline, context_switches>>
vars == <<table, result, tick, completed, current, next, cursor, phase>>

Procs == DOMAIN trace
Phases == {"test", "admit", "execute", "tick_end", "ok", "error"}
Ticks == 0..(MaxTicks - 1)

Init ==
    /\ trace \in Traces
    /\ remaining = [i \in Procs |-> trace[i].burst]
    /\ start_tick = [i \in Procs |-> NOT_STARTED]
    /\ completion = [i \in Procs |-> NOT_STARTED]
    /\ timeline = [t \in Ticks |-> 0]
    /\ context_switches = 0
    /\ tick = 0
    /\ completed = 0
    /\ current = IDLE
    /\ next = IDLE
    /\ cursor = 1
    /\ phase = "test"

\* Mutated form: the cap is tested after the array has been overrun.
CapReached_Late == tick > MaxTicks

CapReached == tick >= MaxTicks

LoopTest ==
    /\ phase = "test"
    /\ phase' = IF completed >= Len(trace) THEN "ok"
                ELSE IF CapReached THEN "error" ELSE "admit"
    /\ cursor' = 1
    /\ UNCHANGED <<table, result, tick, completed, current, next>>

\* Row i is the next one of the arrival loop to have this tick as its arrival.
Admit(i) ==
    /\ phase = "admit"
    /\ i >= cursor
    /\ trace[i].arrival = tick
    /\ \A j \in Procs : cursor <= j /\ j < i => trace[j].arrival # tick
    /\ cursor' = i + 1
    /\ UNCHANGED <<table, result, tick, completed, current, next, phase>>

AllAdmitted == \A j \in Procs : j >= cursor => trace[j].arrival # tick

\* Mutated form: the check for a pid that has not arrived, dropped.
Ready_Early == {i \in Procs : remaining[i] > 0}

\* The rows pick_next may name without engine_run refusing them.
Ready == {i \in Procs : trace[i].arrival <= tick /\ remaining[i] > 0}

\* Mutated form: leaving the CPU idle counts as a switch.
IsSwitch_ToIdle(pid) == pid # current /\ current # IDLE

\* Going to or from idle is not a switch.
IsSwitch(pid) == pid # current /\ pid # IDLE /\ current # IDLE

Pick(pid) ==
    /\ phase = "admit"
    /\ AllAdmitted
    /\ next' = pid
    /\ context_switches' = context_switches + (IF IsSwitch(pid) THEN 1 ELSE 0)
    /\ timeline' = [timeline EXCEPT ![tick] = pid]
    /\ phase' = IF pid = IDLE THEN "tick_end"
                ELSE IF pid \in Ready THEN "execute" ELSE "error"
    /\ UNCHANGED <<table, tick, completed, current, cursor>>

\* Mutated form: remaining tested before it is decremented.
Finishing_Undecremented == remaining[next] = 0

\* The tick about to be executed is the last one of the process.
Finishing == remaining[next] = 1

\* Mutated forms: start_tick set at every dispatch after a preemption, and
\* the completion stamped with the last tick instead of the one after it.
FirstDispatch_Any == next # current
StampOf_LastTick == tick

FirstDispatch == start_tick[next] = NOT_STARTED
StampOf == tick + 1

Execute ==
    /\ phase = "execute"
    /\ start_tick' = [start_tick EXCEPT ![next] = IF FirstDispatch THEN tick ELSE @]
    /\ remaining' = [remaining EXCEPT ![next] = @ - 1]
    /\ IF Finishing
       THEN /\ completion' = [completion EXCEPT ![next] = StampOf]
            /\ completed' = completed + 1
       ELSE UNCHANGED <<completion, completed>>
    /\ phase' = "tick_end"
    /\ UNCHANGED <<trace, result, tick, current, next, cursor>>

\* Mutated form: an idle tick does not advance the clock.
EndTick_IdleStalls ==
    /\ phase = "tick_end"
    /\ current' = next
    /\ tick' = IF next = IDLE THEN tick ELSE tick + 1
    /\ phase' = "test"
    /\ UNCHANGED <<table, result, completed, next, cursor>>

EndTick ==
    /\ phase = "tick_end"
    /\ current' = next
    /\ tick' = tick + 1
    /\ phase' = "test"
    /\ UNCHANGED <<table, result, completed, next, cursor>>

Returned == phase \in {"ok", "error"}

\* The program stays where it returned.
Halt == Returned /\ UNCHANGED vars

\* Whatever an algorithm may answer.
Answers == Procs \cup {IDLE, UnknownPid}

Next ==
    \/ LoopTest
    \/ \E i \in Procs : Admit(i)
    \/ \E pid \in Answers : Pick(pid)
    \/ Execute
    \/ EndTick
    \/ Halt

\* engine_run is straight-line code on one thread: it never waits.
Spec == Init /\ [][Next]_vars /\ WF_vars(Next)

-----------------------------------------------------------------------------
\* Ticks whose execution the process table already accounts for.
Elapsed == IF phase = "tick_end" THEN 0..tick ELSE 0..(tick - 1)

\* The ticks process i has executed.
TicksOf(i) == {t \in Elapsed : timeline[t] = i}

\* Ticks whose timeline entry has been written and counted.
Decided == IF phase \in {"execute", "tick_end"} THEN 0..tick ELSE 0..(tick - 1)

\* The rows on_arrival has been called for, and those that still have work.
Admitted ==
    {i \in Procs : \/ trace[i].arrival < tick
                   \/ /\ trace[i].arrival = tick
                      /\ \/ phase \in {"execute", "tick_end"}
                         \/ phase = "admit" /\ i < cursor}
Alive == {i \in Admitted : remaining[i] > 0}

Executed(i) == trace[i].burst - remaining[i]

\* Ticks at which i had arrived and was not finished.
Wanting(i) == {t \in Decided : /\ t >= trace[i].arrival
                               /\ completion[i] # NOT_STARTED => t < completion[i]}

SwitchTicks ==
    {t \in Decided : /\ t > 0
                     /\ timeline[t] # timeline[t - 1]
                     /\ timeline[t] # IDLE
                     /\ timeline[t - 1] # IDLE}

\* The engine's variables have the types of their C declarations, and the
\* clock never passes the end of the timeline array it indexes.
TypeOK ==
    /\ trace \in Traces
    /\ remaining \in [Procs -> Nat]
    /\ start_tick \in [Procs -> Nat \cup {NOT_STARTED}]
    /\ completion \in [Procs -> Nat \cup {NOT_STARTED}]
    /\ timeline \in [Ticks -> Answers]
    /\ context_switches \in Nat
    /\ tick \in 0..MaxTicks
    /\ completed \in Nat
    /\ current \in Procs \cup {IDLE}
    /\ next \in Answers
    /\ cursor \in Nat \ {0}
    /\ phase \in Phases
    /\ phase \in {"admit", "execute", "tick_end"} => tick \in Ticks

\* SPEC.md invariant 1, per process and at every point of the run: the ticks
\* the timeline gives to a process are exactly the part of its burst that is
\* gone, and the completed count is the number of processes with none left.
Accounting ==
    /\ \A i \in Procs : Cardinality(TicksOf(i)) = trace[i].burst - remaining[i]
    /\ completed = Cardinality({i \in Procs : remaining[i] = 0})

\* start is the first tick a process ran and completion the tick after its
\* last one (SPEC.md section 5), so no tick outside [start, completion) and
\* none before the arrival is ever given to it.
Window ==
    \A i \in Procs :
        /\ start_tick[i] = NOT_STARTED <=> TicksOf(i) = {}
        /\ start_tick[i] # NOT_STARTED => start_tick[i] \in TicksOf(i)
        /\ \A t \in TicksOf(i) : trace[i].arrival <= start_tick[i] /\ start_tick[i] <= t
        /\ completion[i] = NOT_STARTED <=> remaining[i] > 0
        /\ completion[i] # NOT_STARTED => /\ completion[i] - 1 \in TicksOf(i)
                                          /\ \A t \in TicksOf(i) : t < completion[i]

\* The counter, maintained from current and next, agrees with SPEC.md's
\* definition read off the timeline: two neighbouring ticks, two processes.
SwitchesMatchTimeline ==
    phase # "error" => context_switches = Cardinality(SwitchTicks)

\* engine_run returns whatever the scheduler answers, even one that answers
\* IDLE forever: the MAX_TICKS cap is what guarantees it.
Returns == <>Returned
=============================================================================
