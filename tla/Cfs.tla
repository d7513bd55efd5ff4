--------------------------------- MODULE Cfs ---------------------------------
(***************************************************************************)
(* src/sched/cfs.c under the engine: no queue, one virtual runtime per     *)
(* process, and at every tick the smallest of them runs.                   *)
(***************************************************************************)
EXTENDS WorkConserving

VARIABLES vruntime, running

cfs_state == <<vruntime, running>>
CfsVars == <<vars, cfs_state>>

NICE_0_LOAD == 1024

\* The weights of nice -5 to +5.
WEIGHT == <<3121, 2501, 1991, 1586, 1277, 1024, 820, 655, 526, 423, 335>>

NICE_MIN == -5

\* The index is kept within the array, whatever the nice value.
weight_of(nice) ==
    LET idx == nice - NICE_MIN
    IN  WEIGHT[1 + (IF idx < 0 THEN 0 ELSE IF idx > 10 THEN 10 ELSE idx)]

\* Mutated form: the quotient is rounded up.
Increment_RoundedUp(i) ==
    (NICE_0_LOAD + weight_of(trace[i].nice) - 1) \div weight_of(trace[i].nice)

\* What one tick adds to the vruntime of a process, truncated.
Increment(i) == NICE_0_LOAD \div weight_of(trace[i].nice)

\* The values of 64 bits are never approached: a run adds at most 3 at each of
\* MaxTicks ticks.
cfs_init ==
    /\ vruntime = [i \in Procs |-> 0]
    /\ running = IDLE

\* Mutated form: finished processes are not skipped.
Eligible_Finished == {i \in Procs : ~ (trace[i].arrival > tick)}

\* Rows a scan does not skip.
Eligible == {i \in Procs : ~ (trace[i].arrival > tick \/ remaining[i] <= 0)}

\* Mutated form: a new process starts at zero.
InitialVruntime_Zero(i) == 0

\* The least vruntime of the others that the scan of on_arrival finds.
InitialVruntime(i) ==
    IF Eligible \ {i} = {} THEN 0 ELSE Min({vruntime[j] : j \in Eligible \ {i}})

cfs_on_arrival(i) ==
    /\ vruntime' = [vruntime EXCEPT ![i] = InitialVruntime(i)]
    /\ UNCHANGED running

\* The strict < of the scan leaves the first of equal vruntimes in place.
Best == CHOOSE i \in Eligible : \A j \in Eligible :
            vruntime[i] < vruntime[j] \/ (vruntime[i] = vruntime[j] /\ i <= j)

\* Mutated form: the running process is only displaced by one it has outrun by
\* more than a tick.
Winner_Sticky ==
    IF running # IDLE /\ remaining[running] > 0
           /\ vruntime[running] <= vruntime[Best] + 3
    THEN running ELSE Best

\* Strict improvement: a tie leaves the running process in place.
Winner ==
    IF running # IDLE /\ remaining[running] > 0 /\ vruntime[Best] = vruntime[running]
    THEN running ELSE Best

cfs_pick_next(pid) ==
    /\ pid = IF Eligible = {} THEN IDLE ELSE Winner
    /\ running' = pid
    /\ UNCHANGED vruntime

cfs_on_tick_end ==
    /\ vruntime' = IF next = IDLE THEN vruntime
                   ELSE [vruntime EXCEPT ![next] = @ + Increment(next)]
    /\ UNCHANGED running

cfs_on_complete == running' = IDLE /\ UNCHANGED vruntime

CfsInit == Init /\ cfs_init

CfsNext ==
    \/ LoopTest /\ UNCHANGED cfs_state
    \/ \E i \in Procs : Admit(i) /\ cfs_on_arrival(i)
    \/ \E pid \in Answers : cfs_pick_next(pid) /\ Pick(pid)
    \/ Execute /\ (IF Finishing THEN cfs_on_complete ELSE UNCHANGED cfs_state)
    \/ EndTick /\ cfs_on_tick_end
    \/ Halt /\ UNCHANGED cfs_state

CfsSpec == CfsInit /\ [][CfsNext]_CfsVars /\ WF_CfsVars(CfsNext)

-----------------------------------------------------------------------------
\* Tables in which no two processes arrive together after tick 0, so that
\* every process is placed by on_arrival before another one arrives.
Staggered(tr) ==
    \A i, j \in DOMAIN tr : i # j /\ tr[i].arrival = tr[j].arrival => tr[i].arrival = 0

\* Fairness: when every process of the table arrives by itself, no process is
\* ever ahead of another by more than its own last increment, whether they
\* started together or far apart, and had an idle CPU before them or not.
VruntimesStayClose ==
    Staggered(trace) =>
        \A i, j \in Alive : vruntime[i] - vruntime[j] <= Increment(i)

\* cfs.c, lines 173 to 176: the truncated increment of a negative nice value is
\* zero, so such a process never yields: once it has started, nothing takes
\* the CPU from it in a staggered table.
ZeroIncrementNeverYields ==
    Staggered(trace) =>
        \A i \in Procs :
            trace[i].nice < 0 /\ completion[i] # NOT_STARTED
                => completion[i] - start_tick[i] = trace[i].burst

\* What PROJECT.md calls fairness across unequal weights: of processes that start
\* together, the ticks executed times the truncated increment of lines 173 to 176
\* agree at every tick to within one increment, however often they were
\* preempted.  So nice values of equal increment get equal shares (SPEC.md
\* cross-check), as 0 to 3 do although their weights differ, and while a process
\* of negative nice value, whose increment is 0, is unfinished, the others get
\* one tick each at most.
WeightedShares ==
    (\A k \in Procs : trace[k].arrival = 0) =>
        \A i, j \in Alive : phase # "tick_end" =>
            Increment(i) * Executed(i) - Increment(j) * Executed(j) <= Increment(i)

\* cfs.c, lines 98 to 101: "A new process starts at the minimum vruntime
\* currently in play, not at zero.  Starting at zero would let a late arrival
\* monopolise the CPU": once the arrivals of a tick are admitted, none of
\* them is behind everyone who was there before.
LateArrivalsStartAtMinimum ==
    phase = "execute" =>
        LET before == {j \in Alive : trace[j].arrival < tick}
        IN  before # {} =>
                \A i \in Alive : trace[i].arrival = tick =>
                    vruntime[i] >= Min({vruntime[j] : j \in before})
=============================================================================
