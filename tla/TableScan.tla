----------------------------- MODULE TableScan ------------------------------
(***************************************************************************)
(* The schedulers without a queue, src/sched/sjf.c, srtf.c and priority.c, *)
(* under the engine.  Each keeps one word of state, the pid on the CPU,    *)
(* and finds its candidates by scanning the process table; on_arrival and  *)
(* on_tick_end do nothing.  They differ in the key that is minimised and   *)
(* in whether a running process can be displaced, so one module holds all  *)
(* four and algo says which of them the run uses.                          *)
(***************************************************************************)
EXTENDS WorkConserving

VARIABLES algo, running

scan_state == <<algo, running>>
ScanVars == <<vars, scan_state>>

Algorithms == {"sjf", "srtf", "priority_np", "priority_p"}

scan_init ==
    /\ algo \in Algorithms
    /\ running = IDLE

\* Mutated form: SRTF compares bursts.
Key_SrtfBurst(i) ==
    IF algo \in {"sjf", "srtf"} THEN trace[i].burst ELSE trace[i].priority

\* The field of a row that the algorithm minimises.
Key(i) == CASE algo = "sjf" -> trace[i].burst
            [] algo = "srtf" -> remaining[i]
            [] OTHER -> trace[i].priority

\* Rows a scan does not skip.
Eligible == {i \in Procs : ~ (trace[i].arrival > tick \/ remaining[i] <= 0)}

\* The strict < of the scan leaves the first of equal keys in place.
Best == CHOOSE i \in Eligible : \A j \in Eligible :
            Key(i) < Key(j) \/ (Key(i) = Key(j) /\ i <= j)

\* Mutated form: the scan is made whether or not a process is running.
Uninterrupted_Rescans(pid) ==
    /\ pid = IF Eligible = {} THEN IDLE ELSE Best
    /\ running' = pid
    /\ UNCHANGED algo

\* A running process keeps the CPU; otherwise the scan decides.
Uninterrupted(pid) ==
    /\ pid = IF running # IDLE THEN running
             ELSE IF Eligible = {} THEN IDLE ELSE Best
    /\ running' = pid
    /\ UNCHANGED algo

sjf_pick_next(pid) == algo = "sjf" /\ Uninterrupted(pid)
priority_np_pick_next(pid) == algo = "priority_np" /\ Uninterrupted(pid)

\* Mutated form: no rescan while a process is running.
Winner_Stale == IF running # IDLE THEN running ELSE Best

\* Strict improvement: the running process wins a tie.
Winner == IF running # IDLE /\ remaining[running] > 0 /\ Key(running) = Key(Best)
          THEN running ELSE Best

\* The scan is made at every tick, the running process one of its candidates.
Reevaluated(pid) ==
    /\ pid = IF Eligible = {} THEN IDLE ELSE Winner
    /\ running' = pid
    /\ UNCHANGED algo

srtf_pick_next(pid) == algo = "srtf" /\ Reevaluated(pid)
priority_p_pick_next(pid) == algo = "priority_p" /\ Reevaluated(pid)

scan_pick_next(pid) ==
    \/ sjf_pick_next(pid)
    \/ srtf_pick_next(pid)
    \/ priority_np_pick_next(pid)
    \/ priority_p_pick_next(pid)

\* Mutated form: the pid of the finished process is kept.
scan_on_complete_Kept == UNCHANGED scan_state

scan_on_complete == running' = IDLE /\ UNCHANGED algo

ScanInit == Init /\ scan_init

ScanNext ==
    \/ LoopTest /\ UNCHANGED scan_state
    \/ \E i \in Procs : Admit(i) /\ UNCHANGED scan_state
    \/ \E pid \in Answers : scan_pick_next(pid) /\ Pick(pid)
    \/ Execute /\ (IF Finishing THEN scan_on_complete ELSE UNCHANGED scan_state)
    \/ EndTick /\ UNCHANGED scan_state
    \/ Halt /\ UNCHANGED scan_state

ScanSpec == ScanInit /\ [][ScanNext]_ScanVars /\ WF_ScanVars(ScanNext)

-----------------------------------------------------------------------------
Preemptive == {"srtf", "priority_p"}
RunsToTheEnd == {"sjf", "priority_np"}

\* The key of a process that loses the CPU at tick t, and of one that takes
\* it there: the burst that is left at t, or the priority.
KeyAt(i, t) ==
    IF algo = "srtf" THEN trace[i].burst - Cardinality({u \in TicksOf(i) : u < t})
    ELSE trace[i].priority

\* Preemptive or not, as sjf.c, srtf.c and priority.c say in their first lines:
\* two of the four never take the CPU from a process with work left; and with
\* the others a preemption happens only at the tick at which the process that
\* takes the CPU arrives, and only to one strictly better than the process
\* displaced.  Two processes already waiting never take it from one another.
OnlyArrivalsPreempt ==
    \A t \in Elapsed : t > 0 =>
        LET out == timeline[t - 1]
            in == timeline[t]
        IN  /\ out # in
            /\ out # IDLE
            /\ remaining[out] > 0 \/ completion[out] > t
            => /\ algo \notin RunsToTheEnd
               /\ algo \in Preemptive =>
                      trace[in].arrival = t /\ KeyAt(in, t) < KeyAt(out, t)

\* A tick too late for any schedule to improve on.
Horizon(tr) == LastArrival(tr) + Cardinality(WorkOf(tr))

\* With the bursts in rem still to run at tick t: the rows that may run, what
\* is left when i has run, and what that adds to the sum of completion ticks.
CanRun(tr, t, rem) == {i \in DOMAIN tr : tr[i].arrival <= t /\ rem[i] > 0}
AfterRun(rem, i) == [rem EXCEPT ![i] = @ - 1]
EndOf(rem, i, t) == IF rem[i] = 1 THEN t + 1 ELSE 0

\* The least sum of completion ticks over all schedules that may preempt at
\* any tick and idle only when nobody is ready, as the contract has it, from
\* any tick on and with any bursts left.
LeastRest(tr) ==
    LET Last == Horizon(tr)
        rest[s \in (0..Last) \X [DOMAIN tr -> 0..Last]] ==
            LET t == s[1]
                rem == s[2]
                after(i) == rest[<<t + 1, AfterRun(rem, i)>>] + EndOf(rem, i, t)
            IN  IF t = Last \/ \A i \in DOMAIN tr : rem[i] = 0 THEN 0
                ELSE IF CanRun(tr, t, rem) = {} THEN rest[<<t + 1, rem>>]
                ELSE Min({after(i) : i \in CanRun(tr, t, rem)})
    IN  rest

LeastSum(tr) == LeastRest(tr)[<<0, [i \in DOMAIN tr |-> tr[i].burst]>>]

sum_completion == SumOver(LAMBDA i : completion[i])

\* SPEC.md cross-checks, as optimality: no schedule of the contract,
\* preemptive or not, gives a lower average wait than SRTF, nor than SJF when
\* everything arrives at tick 0.
LeastWaiting ==
    /\ phase = "ok"
    /\ \/ algo = "srtf"
       \/ algo = "sjf" /\ \A i \in Procs : trace[i].arrival = 0
    => sum_completion = LeastSum(trace)

\* Lower priority numbers are served first: under the preemptive variant a
\* process more urgent than all others finishes as if it were alone, and
\* under the other it waits for the rest of one burst at most.
MostUrgentIsServed ==
    \A i \in Procs :
        /\ completion[i] # NOT_STARTED
        /\ \A j \in Procs \ {i} : trace[i].priority < trace[j].priority
        => /\ algo = "priority_p" => completion[i] = trace[i].arrival + trace[i].burst
           /\ algo = "priority_np" =>
                  \/ waiting(i) = 0
                  \/ \E j \in Procs \ {i} :
                         /\ completion[j] = start_tick[i]
                         /\ start_tick[j] < trace[i].arrival
=============================================================================
