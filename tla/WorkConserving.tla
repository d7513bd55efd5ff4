--------------------------- MODULE WorkConserving ---------------------------
(***************************************************************************)
(* What sched.h asks of an algorithm, as an abstract specification: when   *)
(* pick_next is called it names a process that has arrived and has work    *)
(* left, and it answers IDLE only when there is none.  Which process is    *)
(* left open.  Every scheduler of src/sched is shown to implement this     *)
(* specification, so what holds here holds of all of them.                 *)
(***************************************************************************)
EXTENDS Metrics

\* Mutated form: an algorithm may leave the CPU idle with work waiting.
AllowedAnswers_MayIdle == Ready \cup {IDLE}

AllowedAnswers == IF Ready = {} THEN {IDLE} ELSE Ready

WCNext ==
    \/ LoopTest
    \/ \E i \in Procs : Admit(i)
    \/ \E pid \in AllowedAnswers : Pick(pid)
    \/ Execute
    \/ EndTick
    \/ Halt

\* The safety part, and the whole: the program never stops in mid-run.
WCSafety == Init /\ [][WCNext]_vars
WCSpec == WCSafety /\ WF_vars(WCNext)

-----------------------------------------------------------------------------
LastArrival(tr) == tr[Len(tr)].arrival

\* The table can be run within the timeline array (engine.h, lines 7 to 11).
Fits(tr) == LastArrival(tr) + Cardinality(WorkOf(tr)) <= MaxTicks

\* The tick at which the first k rows are done when rows run in table order,
\* each as soon as it has arrived and the ones before it are finished.
InOrderFinish(tr) ==
    LET finish[k \in 0..Len(tr)] ==
            IF k = 0 THEN 0
            ELSE Max({finish[k - 1], tr[k].arrival}) + tr[k].burst
    IN  finish

\* SPEC.md section 6, FCFS, in closed form: the k-th row of the table starts
\* when the rows before it are done and it has arrived, and runs without a
\* break.  Not every scheduler does; fcfs.c does always.
InTableOrder ==
    \A i \in Procs :
        /\ start_tick[i] # NOT_STARTED =>
               start_tick[i] = InOrderFinish(trace)[i] - trace[i].burst
        /\ completion[i] # NOT_STARTED => completion[i] = InOrderFinish(trace)[i]

\* engine.h: "Total ticks can never exceed the last arrival plus the sum of
\* all bursts", at every point of the run and not just at its end.
TickBound ==
    \/ tick <= LastArrival(trace)
    \/ tick <= LastArrival(trace) + busy_ticks

\* engine.h: an exhausted timeline "means a scheduler bug rather than a
\* legitimate workload", for the tables that fit it.
NeverGivesUp == Fits(trace) => phase # "error"

\* ANALYSIS.md: "total elapsed time is identical for every algorithm on a
\* given trace".  It is the time the table takes in its own order.
ElapsedTimeFixed == phase = "ok" => tick = InOrderFinish(trace)[Len(trace)]

\* SPEC.md invariant 8: every process finishes, and the run returns 0.
EverythingFinishes == Fits(trace) ~> phase = "ok"
=============================================================================
