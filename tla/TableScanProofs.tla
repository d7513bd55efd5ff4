-------------------------- MODULE TableScanProofs --------------------------
(***************************************************************************)
(* The four schedulers that scan the process table implement the contract, *)
(* preempt or do not preempt as their documents say, serve the most urgent *)
(* first, and wait least where SPEC.md says so, for every set of tables.   *)
(***************************************************************************)
EXTENDS TableScan, EngineProofs

\* The pid a scheduler remembers is that of an arrived, unfinished process:
\* the one that ran at the last tick, if that one has work left.
RunningInv ==
    /\ algo \in Algorithms
    /\ running # IDLE => /\ running \in Procs
                         /\ remaining[running] > 0
                         /\ trace[running].arrival <= tick
    /\ phase \in {"test", "admit"} =>
           running = IF current # IDLE /\ remaining[current] > 0 THEN current ELSE IDLE
    /\ phase = "execute" => next = running
    /\ phase = "tick_end" =>
           running = IF next # IDLE /\ remaining[next] > 0 THEN next ELSE IDLE

ScanIInv == TypeInv /\ RunningInv

LEMMA ScanFacts ==
    ASSUME TypeInv
    PROVE  /\ trace \in Traces /\ tick \in Nat
           /\ Procs \in SUBSET Nat /\ IDLE \notin Procs
           /\ \A i \in Procs : /\ trace[i].arrival \in Nat /\ trace[i].burst \in Nat \ {0}
                               /\ trace[i].priority \in Nat
                               /\ remaining[i] \in Nat /\ Key(i) \in Nat
           /\ remaining \in [Procs -> Nat]
           /\ Eligible = Ready
<1>1. /\ trace \in Traces /\ tick \in Nat /\ remaining \in [Procs -> Nat]
      /\ \A i \in Procs : trace[i].arrival \in Nat /\ trace[i].burst \in Nat \ {0}
      /\ Procs \in SUBSET Nat /\ IDLE \notin Procs
  BY RowTypes, ProcsArePositive, EngineAssumption DEF TypeInv, TypeOK, Procs
<1>2. \A i \in Procs : trace[i].priority \in Nat
  <2>1. trace \in Seq(Row)
    BY <1>1, EngineAssumption DEF IsTable
  <2>2. \A i \in Procs : trace[i] \in Row
    BY <2>1 DEF Procs
  <2>3. \A r \in Row : r.priority \in Nat
    BY DEF Row
  <2> QED
    BY <2>2, <2>3
<1>3. \A i \in Procs : Key(i) \in Nat
  BY <1>1, <1>2 DEF Key
<1>4. Eligible = Ready
  <2>1. \A i \in Procs : remaining[i] \in Int /\ trace[i].arrival \in Int /\ tick \in Int
    BY <1>1
  <2>2. \A i \in Procs : ~ (trace[i].arrival > tick \/ remaining[i] <= 0)
                             <=> trace[i].arrival <= tick /\ remaining[i] > 0
    BY <2>1
  <2> QED
    BY <2>2 DEF Eligible, Ready
<1> QED
  BY <1>1, <1>2, <1>3, <1>4

\* The scan: among the ready rows there is a first one with the least key.
LEMMA BestIsLeast ==
    ASSUME TypeInv, Ready # {}
    PROVE  /\ Best \in Ready
           /\ \A j \in Ready : Key(Best) <= Key(j)
<1> DEFINE key == [i \in Ready |-> Key(i)]
<1>1. \A i \in Ready : i \in Nat /\ Key(i) \in Nat
  BY ScanFacts DEF Ready
<1>2. Ready \in SUBSET Nat /\ key \in [Ready -> Nat]
  BY <1>1
<1>3. \E i \in Ready : \A j \in Ready : key[i] < key[j] \/ (key[i] = key[j] /\ i <= j)
  BY <1>2, FirstLeast, Zenon
<1>4. \E i \in Ready : \A j \in Ready : Key(i) < Key(j) \/ (Key(i) = Key(j) /\ i <= j)
  BY <1>3
<1>5. Eligible = Ready
  BY ScanFacts
<1>6. /\ Best \in Ready
      /\ \A j \in Ready : Key(Best) < Key(j) \/ (Key(Best) = Key(j) /\ Best <= j)
  BY <1>4, <1>5 DEF Best
<1> QED
  BY <1>1, <1>6

\* Whatever the algorithm, the answer is a ready process if there is one.
LEMMA ScanAnswers ==
    ASSUME ScanIInv, NEW pid, scan_pick_next(pid), phase = "admit"
    PROVE  pid \in AllowedAnswers
<1>1. running # IDLE => running \in Ready
  BY DEF ScanIInv, RunningInv, Ready
<1>2. CASE Ready = {}
  BY <1>1, <1>2, ScanFacts
     DEF AllowedAnswers, ScanIInv, scan_pick_next, sjf_pick_next, srtf_pick_next,
         priority_np_pick_next, priority_p_pick_next, Uninterrupted, Reevaluated
<1>3. CASE Ready # {}
  <2>1. Best \in Ready /\ Eligible = Ready
    BY <1>3, BestIsLeast, ScanFacts DEF ScanIInv
  <2> QED
    BY <1>1, <1>3, <2>1
       DEF AllowedAnswers, scan_pick_next, sjf_pick_next, srtf_pick_next,
           priority_np_pick_next, priority_p_pick_next, Uninterrupted, Reevaluated, Winner
<1> QED
  BY <1>2, <1>3

LEMMA ScanNextIsWCNext ==
    ASSUME ScanIInv, [ScanNext]_ScanVars
    PROVE  [WCNext]_vars
<1>1. ASSUME NEW pid \in Answers, scan_pick_next(pid), Pick(pid)
      PROVE  WCNext
  BY <1>1, ScanAnswers DEF Pick, WCNext
<1> QED
  BY <1>1 DEF ScanNext, ScanVars, WCNext

LEMMA ScanInvInit == ScanInit => ScanIInv
BY TypeInvInit DEF ScanInit, scan_init, Init, ScanIInv, RunningInv

LEMMA ScanInvStep == ScanIInv /\ [ScanNext]_ScanVars => ScanIInv'
<1> SUFFICES ASSUME ScanIInv, [ScanNext]_ScanVars PROVE ScanIInv'
  OBVIOUS
<1>0. TypeInv' /\ trace' = trace /\ Procs' = Procs
  <2>1. [Next]_vars
    BY ScanNextIsWCNext, WCNextIsNext DEF ScanIInv
  <2> QED
    BY <2>1, TypeInvStep, TraceStep DEF ScanIInv, Procs
<1>1. /\ tick \in Nat /\ IDLE \notin Procs /\ remaining \in [Procs -> Nat]
      /\ \A i \in Procs : trace[i].arrival \in Nat
  BY ScanFacts DEF ScanIInv
<1>2. CASE LoopTest /\ UNCHANGED scan_state
  BY <1>0, <1>2 DEF LoopTest, table, scan_state, ScanIInv, RunningInv
<1>3. ASSUME NEW i \in Procs, Admit(i), UNCHANGED scan_state PROVE ScanIInv'
  BY <1>0, <1>3 DEF Admit, table, scan_state, ScanIInv, RunningInv
<1>4. ASSUME NEW pid \in Answers, scan_pick_next(pid), Pick(pid) PROVE ScanIInv'
  <2>1. /\ pid \in AllowedAnswers /\ running' = pid /\ algo' = algo
        /\ next' = pid /\ remaining' = remaining /\ tick' = tick
    BY <1>4, ScanAnswers
       DEF Pick, table, scan_pick_next, sjf_pick_next, srtf_pick_next,
           priority_np_pick_next, priority_p_pick_next, Uninterrupted, Reevaluated
  <2>2. pid # IDLE => pid \in Ready
    BY <2>1 DEF AllowedAnswers
  <2>3. phase' = IF pid = IDLE THEN "tick_end" ELSE "execute"
    BY <1>4, <2>2 DEF Pick
  <2> QED
    BY <1>0, <1>1, <2>1, <2>2, <2>3 DEF ScanIInv, RunningInv, Ready
<1>5. CASE Execute /\ (IF Finishing THEN scan_on_complete ELSE UNCHANGED scan_state)
  <2>1. /\ next = running /\ next \in Ready /\ remaining[next] > 0 /\ next # IDLE
        /\ next \in Procs
    BY <1>1, <1>5 DEF Execute, ScanIInv, RunningInv, TypeInv, PhaseInv, Ready
  <2>2. /\ remaining' = [remaining EXCEPT ![next] = @ - 1] /\ tick' = tick
        /\ phase' = "tick_end" /\ next' = next /\ algo' = algo
        /\ running' = IF remaining[next] = 1 THEN IDLE ELSE running
    BY <1>5 DEF Execute, Finishing, scan_on_complete, scan_state
  <2>3. remaining'[next] = remaining[next] - 1 /\ remaining[next] \in Nat
    BY <1>1, <2>1, <2>2
  <2> QED
    BY <1>0, <1>1, <2>1, <2>2, <2>3 DEF ScanIInv, RunningInv
<1>6. CASE EndTick /\ UNCHANGED scan_state
  BY <1>0, <1>1, <1>6 DEF EndTick, table, scan_state, ScanIInv, RunningInv
<1>7. CASE UNCHANGED ScanVars
  BY <1>0, <1>7 DEF ScanVars, vars, table, scan_state, ScanIInv, RunningInv
<1> QED
  BY <1>2, <1>3, <1>4, <1>5, <1>6, <1>7 DEF ScanNext, Halt, ScanVars

THEOREM ScanIInvAlways == ScanSpec => []ScanIInv
BY ScanInvInit, ScanInvStep, PTL DEF ScanSpec

\* sjf.c, srtf.c and priority.c implement the contract of sched.h, fairness
\* apart: the scan, or the pid remembered from the last tick, never answers a
\* process the engine refuses, and IDLE only when nobody is ready.
THEOREM ScanImplementsContract == ScanSpec => WCSafety
<1>1. ScanInit => Init
  BY DEF ScanInit
<1>2. ScanIInv /\ [ScanNext]_ScanVars => [WCNext]_vars
  BY ScanNextIsWCNext
<1> QED
  BY <1>1, <1>2, ScanIInvAlways, PTL DEF ScanSpec, WCSafety

-----------------------------------------------------------------------------
\* A preemption at tick t, and the form it must have.  In a form for the
\* induction: the one that takes the CPU is a process, not idleness.
Preempts(t) ==
    /\ timeline[t - 1] # timeline[t]
    /\ timeline[t - 1] # IDLE
    /\ remaining[timeline[t - 1]] > 0 \/ completion[timeline[t - 1]] > t
ByBetterArrival(t) ==
    /\ algo \in Preemptive
    /\ timeline[t] \in Procs
    /\ trace[timeline[t]].arrival = t
    /\ KeyAt(timeline[t], t) < KeyAt(timeline[t - 1], t)

\* The process a preemptive algorithm runs has the least key of those that
\* could have been picked with it.  Those that arrive at this tick join when
\* the pick has been made.
StillLeast ==
    algo \in Preemptive /\ running # IDLE =>
        \A i \in Procs :
            /\ remaining[i] > 0
            /\ \/ trace[i].arrival < tick
               \/ trace[i].arrival = tick /\ phase \in {"execute", "tick_end"}
            => Key(running) <= Key(i)

\* What Preempts and ByBetterArrival will say of the tick just decided.
DisplacedRightly ==
    phase = "execute" /\ current # IDLE /\ remaining[current] > 0 /\ current # next =>
        /\ algo \in Preemptive
        /\ trace[next].arrival = tick
        /\ Key(next) < Key(current)

PreemptInv ==
    /\ StillLeast
    /\ DisplacedRightly
    /\ \A t \in Elapsed : t > 0 /\ Preempts(t) => ByBetterArrival(t)

ScanHistoryInv == MetricsInv /\ RunningInv

LEMMA ScanHistoryStep ==
    ASSUME ScanHistoryInv, [ScanNext]_ScanVars
    PROVE  /\ ScanHistoryInv' /\ [Next]_vars /\ [WCNext]_vars
           /\ trace' = trace /\ Procs' = Procs /\ algo' = algo
<1>1. ScanIInv
  BY DEF ScanHistoryInv, ScanIInv, MetricsInv
<1>2. [WCNext]_vars /\ [Next]_vars /\ ScanIInv'
  BY <1>1, ScanNextIsWCNext, WCNextIsNext, ScanInvStep DEF ScanIInv
<1>3. MetricsInv'
  BY <1>2, TypeInvStep, AccountingStep, WindowStep, WorkStep DEF ScanHistoryInv, MetricsInv
<1>4. trace' = trace /\ Procs' = Procs
  BY <1>2, TraceStep DEF Procs
<1>5. algo' = algo
  BY DEF ScanNext, ScanVars, scan_state, scan_on_complete, scan_pick_next, sjf_pick_next,
         srtf_pick_next, priority_np_pick_next, priority_p_pick_next, Uninterrupted, Reevaluated
<1> QED
  BY <1>2, <1>3, <1>4, <1>5 DEF ScanHistoryInv, ScanIInv

\* The key of a process at the tick being decided, from its ticks so far.
LEMMA KeyAtNow ==
    ASSUME ScanHistoryInv, algo \in Preemptive, phase \in {"test", "admit", "execute"},
           NEW i \in Procs
    PROVE  KeyAt(i, tick) = Key(i)
<1>1. TicksOf(i) \subseteq 0..(tick - 1) /\ tick \in Nat
  BY ScanFacts DEF TicksOf, Elapsed, ScanHistoryInv, MetricsInv
<1>2. {u \in TicksOf(i) : u < tick} = TicksOf(i)
  BY <1>1
<1>3. /\ Cardinality(TicksOf(i)) = trace[i].burst - remaining[i]
      /\ trace[i].burst \in Nat /\ remaining[i] \in Nat
  BY ScanFacts DEF ScanHistoryInv, MetricsInv, Accounting
<1> QED
  BY <1>2, <1>3 DEF KeyAt, Key, Preemptive

\* An entry that is accounted for keeps its judgement.
LEMMA PastPreemptions ==
    ASSUME ScanHistoryInv, [ScanNext]_ScanVars, NEW t \in Elapsed, t > 0,
           Preempts(t) => ByBetterArrival(t)
    PROVE  t \in Elapsed' /\ (Preempts(t) => ByBetterArrival(t))'
<1> DEFINE out == timeline[t - 1]
           in == timeline[t]
<1>0. /\ [Next]_vars /\ trace' = trace /\ Procs' = Procs /\ algo' = algo
      /\ TypeInv /\ tick \in Nat /\ IDLE \notin Procs /\ MaxTicks \in Nat
      /\ remaining \in [Procs -> Nat]
      /\ completion \in [Procs -> Nat \cup {NOT_STARTED}]
      /\ phase \in {"admit", "execute", "tick_end"} => tick \in Ticks
  BY ScanHistoryStep, ScanFacts, EngineAssumption
     DEF ScanHistoryInv, MetricsInv, TypeInv, TypeOK
<1>1. /\ t \in Nat /\ t - 1 \in Elapsed /\ t <= tick
      /\ phase # "tick_end" => t < tick
      /\ out \in Procs \cup {IDLE} /\ in \in Procs \cup {IDLE}
  <2>1. t \in Nat /\ t - 1 \in Elapsed /\ t <= tick /\ (phase # "tick_end" => t < tick)
    BY <1>0 DEF Elapsed
  <2> QED
    BY <2>1 DEF ScanHistoryInv, MetricsInv, WorkInv
<1>2. timeline'[t] = in /\ timeline'[t - 1] = out
  <2>1. ASSUME NEW pid \in Answers, Pick(pid) PROVE timeline'[t] = in /\ timeline'[t - 1] = out
    BY <1>0, <1>1, <2>1 DEF Pick, TypeInv, TypeOK, Ticks
  <2>2. CASE ~ \E pid \in Answers : Pick(pid)
    BY <1>0, <2>2 DEF Next, vars, result, LoopTest, Admit, Execute, EndTick, Halt
  <2> QED
    BY <2>1, <2>2
<1>3. t \in Elapsed'
  BY <1>0, <1>1 DEF Elapsed, Next, vars, LoopTest, Admit, Pick, Execute, EndTick, Halt
<1>4. ASSUME out # IDLE, remaining'[out] > 0 \/ completion'[out] > t
      PROVE  remaining[out] > 0 \/ completion[out] > t
  <2>1. CASE Execute /\ next = out
    BY <1>0, <1>1, <2>1 DEF Execute, TypeInv, PhaseInv, Ready
  <2>2. CASE Execute /\ next # out
    BY <1>0, <1>1, <1>4, <2>2 DEF Execute, TypeInv, TypeOK
  <2>3. CASE ~ Execute
    BY <1>0, <1>4, <2>3 DEF Next, vars, table, LoopTest, Admit, Pick, EndTick, Halt
  <2> QED
    BY <2>1, <2>2, <2>3
<1>5. ASSUME NEW i \in Procs PROVE KeyAt(i, t)' = KeyAt(i, t)
  <2>1. {u \in TicksOf(i)' : u < t} = {u \in TicksOf(i) : u < t}
    BY <1>0, <1>1, TicksOfStep
  <2> QED
    BY <1>0, <2>1 DEF KeyAt
<1>6. ASSUME Preempts(t)' PROVE ByBetterArrival(t)'
  <2>1. out # IDLE /\ Preempts(t)
    BY <1>2, <1>4, <1>6 DEF Preempts
  <2>2. ByBetterArrival(t)
    BY <2>1
  <2>3. in \in Procs /\ out \in Procs
    BY <1>1, <2>1, <2>2 DEF ByBetterArrival
  <2> QED
    BY <1>0, <1>2, <1>5, <2>2, <2>3 DEF ByBetterArrival
<1> QED
  BY <1>3, <1>6

\* What a preemptive algorithm picks is least, and beats a process it displaces.
LEMMA PickedIsLeast ==
    ASSUME ScanHistoryInv, NEW pid, scan_pick_next(pid), algo \in Preemptive, pid # IDLE,
           phase = "admit"
    PROVE  /\ pid \in Ready
           /\ \A j \in Ready : Key(pid) <= Key(j)
           /\ running # IDLE /\ pid # running => Key(pid) < Key(running)
<1>1. ScanIInv /\ TypeInv
  BY DEF ScanHistoryInv, ScanIInv, MetricsInv
<1>2. pid = IF Ready = {} THEN IDLE ELSE Winner
  BY <1>1, ScanFacts
     DEF Preemptive, scan_pick_next, sjf_pick_next, srtf_pick_next,
         priority_np_pick_next, priority_p_pick_next, Reevaluated
<1>3. Ready # {} /\ pid = Winner
  BY <1>2
<1>4. Best \in Ready /\ \A j \in Ready : Key(Best) <= Key(j)
  BY <1>1, <1>3, BestIsLeast
<1>5. /\ running # IDLE => running \in Ready /\ remaining[running] > 0
      /\ \A j \in Ready : Key(j) \in Nat
  BY <1>1, ScanFacts DEF ScanIInv, RunningInv, Ready
<1>6. CASE pid = running /\ running # IDLE /\ Key(running) = Key(Best)
  BY <1>4, <1>5, <1>6
<1>7. CASE pid = Best /\ ~ (running # IDLE /\ Key(running) = Key(Best))
  <2>1. running # IDLE => Key(Best) < Key(running)
    BY <1>4, <1>5, <1>7
  <2> QED
    BY <1>4, <1>7, <2>1
<1> QED
  BY <1>3, <1>5, <1>6, <1>7 DEF Winner

LEMMA StillLeastStep ==
    ScanHistoryInv /\ StillLeast /\ [ScanNext]_ScanVars => StillLeast'
<1> SUFFICES ASSUME ScanHistoryInv, StillLeast, [ScanNext]_ScanVars,
                    algo' \in Preemptive, running' # IDLE
             PROVE  \A i \in Procs' :
                        /\ remaining'[i] > 0
                        /\ \/ trace'[i].arrival < tick'
                           \/ /\ trace'[i].arrival = tick'
                              /\ phase' \in {"execute", "tick_end"}
                        => Key(running)' <= Key(i)'
  BY DEF StillLeast
<1>0. /\ trace' = trace /\ Procs' = Procs /\ algo' = algo /\ algo \in Preemptive
      /\ tick \in Nat /\ remaining \in [Procs -> Nat] /\ IDLE \notin Procs
      /\ \A i \in Procs : trace[i].arrival \in Nat /\ Key(i) \in Nat
  BY ScanHistoryStep, ScanFacts DEF ScanHistoryInv, MetricsInv
<1> SUFFICES ASSUME NEW i \in Procs, remaining'[i] > 0,
                    \/ trace[i].arrival < tick'
                    \/ trace[i].arrival = tick' /\ phase' \in {"execute", "tick_end"}
             PROVE  Key(running)' <= Key(i)'
  BY <1>0
<1>1. ASSUME UNCHANGED <<remaining, running>>,
             running # IDLE /\ \/ trace[i].arrival < tick
                               \/ trace[i].arrival = tick /\ phase \in {"execute", "tick_end"}
      PROVE  Key(running)' <= Key(i)'
  BY <1>0, <1>1 DEF StillLeast, Key
<1>2. CASE LoopTest /\ UNCHANGED scan_state
  BY <1>1, <1>2 DEF LoopTest, table, scan_state
<1>3. ASSUME NEW j \in Procs, Admit(j), UNCHANGED scan_state PROVE Key(running)' <= Key(i)'
  BY <1>1, <1>3 DEF Admit, table, scan_state
<1>4. ASSUME NEW pid \in Answers, scan_pick_next(pid), Pick(pid) PROVE Key(running)' <= Key(i)'
  <2>1. /\ phase = "admit" /\ tick' = tick /\ remaining' = remaining /\ running' = pid
        /\ pid # IDLE
    BY <1>4 DEF Pick, table, scan_pick_next, sjf_pick_next, srtf_pick_next,
                priority_np_pick_next, priority_p_pick_next, Uninterrupted, Reevaluated
  <2>2. i \in Ready
    BY <1>0, <2>1 DEF Ready
  <2>3. Key(pid) <= Key(i)
    BY <1>0, <1>4, <2>1, <2>2, PickedIsLeast
  <2> QED
    BY <1>0, <2>1, <2>3 DEF Key
<1>5. CASE Execute /\ (IF Finishing THEN scan_on_complete ELSE UNCHANGED scan_state)
  <2>1. /\ next = running /\ next \in Procs /\ remaining[next] > 0 /\ phase = "execute"
        /\ remaining' = [remaining EXCEPT ![next] = @ - 1] /\ tick' = tick
        /\ running' = running
    BY <1>0, <1>5 DEF Execute, ScanHistoryInv, RunningInv, MetricsInv, TypeInv, PhaseInv,
                      Ready, scan_on_complete, scan_state
  <2>2. CASE i = next
    BY <1>0, <2>1, <2>2 DEF Key
  <2>3. CASE i # next
    <3>1. Key(running) <= Key(i)
      BY <1>0, <2>1, <2>3 DEF StillLeast
    <3>2. Key(i)' = Key(i) /\ Key(running)' <= Key(running)
      BY <1>0, <2>1, <2>3 DEF Key, Preemptive
    <3>3. Key(running)' \in Int
      BY ScanHistoryStep, ScanFacts, <1>0, <2>1 DEF Key, Preemptive
    <3> QED
      BY <1>0, <2>1, <3>1, <3>2, <3>3
  <2> QED
    BY <2>2, <2>3
<1>6. CASE EndTick /\ UNCHANGED scan_state
  <2>1. trace[i].arrival <= tick
    BY <1>0, <1>6 DEF EndTick
  <2> QED
    BY <1>0, <1>1, <1>6, <2>1 DEF EndTick, table, scan_state
<1>7. CASE UNCHANGED ScanVars
  BY <1>1, <1>7 DEF ScanVars, vars, table, scan_state
<1> QED
  BY <1>2, <1>3, <1>4, <1>5, <1>6, <1>7 DEF ScanNext, Halt, ScanVars

LEMMA DisplacedRightlyStep ==
    ScanHistoryInv /\ StillLeast /\ DisplacedRightly /\ [ScanNext]_ScanVars
        => DisplacedRightly'
<1> SUFFICES ASSUME ScanHistoryInv, StillLeast, DisplacedRightly, [ScanNext]_ScanVars,
                    phase' = "execute", current' # IDLE, remaining'[current'] > 0,
                    current' # next'
             PROVE  /\ algo' \in Preemptive
                    /\ trace'[next'].arrival = tick'
                    /\ Key(next)' < Key(current)'
  BY DEF DisplacedRightly
<1>0. /\ trace' = trace /\ Procs' = Procs /\ algo' = algo
      /\ tick \in Nat /\ remaining \in [Procs -> Nat] /\ IDLE \notin Procs
      /\ \A i \in Procs : trace[i].arrival \in Nat /\ Key(i) \in Nat
  BY ScanHistoryStep, ScanFacts DEF ScanHistoryInv, MetricsInv
<1>1. ASSUME NEW pid \in Answers, scan_pick_next(pid), Pick(pid)
      PROVE  /\ algo' \in Preemptive
             /\ trace'[next'].arrival = tick'
             /\ Key(next)' < Key(current)'
  <2>1. /\ phase = "admit" /\ tick' = tick /\ remaining' = remaining /\ current' = current
        /\ next' = pid /\ running = current /\ pid # running /\ pid # IDLE
    BY <1>1 DEF Pick, table, ScanHistoryInv, RunningInv
  <2>2. algo \in Preemptive
    BY <1>1, <2>1 DEF ScanHistoryInv, RunningInv, Algorithms, Preemptive, scan_pick_next,
                      sjf_pick_next, priority_np_pick_next, Uninterrupted,
                      srtf_pick_next, priority_p_pick_next
  <2>3. pid \in Ready /\ Key(pid) < Key(running)
    BY <1>1, <2>1, <2>2, PickedIsLeast
  <2>4. pid \in Procs /\ running \in Procs /\ remaining[pid] > 0 /\ trace[pid].arrival <= tick
    BY <2>1, <2>3 DEF Ready, ScanHistoryInv, RunningInv
  <2>5. ~ (trace[pid].arrival < tick)
    <3>1. trace[pid].arrival < tick => Key(running) <= Key(pid)
      BY <2>1, <2>2, <2>4 DEF StillLeast
    <3> QED
      BY <1>0, <2>3, <2>4, <3>1
  <2>6. trace[pid].arrival = tick
    BY <1>0, <2>4, <2>5
  <2> QED
    BY <1>0, <2>1, <2>2, <2>3, <2>6 DEF Key
<1>2. CASE UNCHANGED ScanVars
  BY <1>0, <1>2 DEF ScanVars, vars, table, scan_state, DisplacedRightly, Key
<1> QED
  BY <1>1, <1>2 DEF ScanNext, LoopTest, Admit, Execute, EndTick, Halt, ScanVars

\* The tick that becomes accounted for is judged by what was known of it.
LEMMA NewPreemption ==
    ASSUME ScanHistoryInv, DisplacedRightly, [ScanNext]_ScanVars,
           NEW t \in Elapsed', t \notin Elapsed, t > 0
    PROVE  (Preempts(t) => ByBetterArrival(t))'
<1>0. /\ [Next]_vars /\ [WCNext]_vars /\ trace' = trace /\ Procs' = Procs /\ algo' = algo
      /\ TypeInv /\ tick \in Nat /\ IDLE \notin Procs /\ MaxTicks \in Nat
      /\ remaining \in [Procs -> Nat]
      /\ completion \in [Procs -> Nat \cup {NOT_STARTED}]
      /\ phase \in {"admit", "execute", "tick_end"} => tick \in Ticks
  BY ScanHistoryStep, ScanFacts, EngineAssumption
     DEF ScanHistoryInv, MetricsInv, TypeInv, TypeOK
<1> SUFFICES ASSUME Preempts(t)' PROVE ByBetterArrival(t)'
  OBVIOUS
<1>1. phase \in {"admit", "execute"} => \A i \in Procs : completion[i] <= tick
  <2> SUFFICES ASSUME phase \in {"admit", "execute"}, NEW i \in Procs PROVE completion[i] <= tick
    OBVIOUS
  <2>1. completion[i] # NOT_STARTED => completion[i] - 1 \in 0..(tick - 1)
    BY <1>0 DEF ScanHistoryInv, MetricsInv, Window, TicksOf, Elapsed
  <2> QED
    BY <1>0, <2>1 DEF NOT_STARTED
<1>2. /\ t - 1 \in Int
      /\ phase \in {"admit", "execute"} /\ t = tick => timeline[t - 1] = current
  BY <1>0 DEF Elapsed, TypeInv, PhaseInv
<1>3. ASSUME NEW pid \in Answers, scan_pick_next(pid), Pick(pid) PROVE FALSE
  <2>1. /\ phase = "admit" /\ tick' = tick /\ pid = IDLE /\ t = tick
    BY <1>0, <1>3 DEF Pick, Elapsed
  <2>2. /\ timeline'[t - 1] = current /\ remaining' = remaining /\ completion' = completion
    BY <1>0, <1>2, <1>3, <2>1 DEF Pick, TypeInv, TypeOK, Ticks, table
  <2>3. current # IDLE /\ (remaining[current] > 0 \/ completion[current] > tick)
    BY <2>1, <2>2 DEF Preempts
  <2>4. current \in Procs
    BY <2>3 DEF TypeInv, TypeOK, ScanHistoryInv, MetricsInv
  <2>5. remaining[current] > 0
    BY <1>0, <1>1, <2>1, <2>3, <2>4 DEF NOT_STARTED
  <2>6. running = current /\ running \in Ready
    BY <2>1, <2>3, <2>5 DEF ScanHistoryInv, RunningInv, Ready
  <2>7. pid \in AllowedAnswers
    BY <1>3, <2>1, ScanAnswers DEF ScanHistoryInv, ScanIInv, MetricsInv
  <2> QED
    BY <1>0, <2>1, <2>6, <2>7 DEF AllowedAnswers, Ready
<1>4. CASE Execute
  <2>1. /\ phase = "execute" /\ tick' = tick /\ t = tick /\ timeline' = timeline
        /\ next' = next /\ timeline[t] = next /\ timeline[t - 1] = current
        /\ next \in Procs /\ remaining[next] > 0
    BY <1>0, <1>2, <1>4 DEF Execute, result, Elapsed, TypeInv, PhaseInv, Ready
  <2>2. current # IDLE /\ current # next /\ (remaining'[current] > 0 \/ completion'[current] > t)
    BY <2>1 DEF Preempts
  <2>3. current \in Procs
    BY <2>2 DEF TypeInv, TypeOK, ScanHistoryInv, MetricsInv
  <2>4. remaining'[current] = remaining[current] /\ completion'[current] = completion[current]
    BY <1>0, <1>4, <2>2, <2>3 DEF Execute
  <2>5. remaining[current] > 0
    BY <1>0, <1>1, <2>1, <2>2, <2>3, <2>4 DEF NOT_STARTED
  <2>6. algo \in Preemptive /\ trace[next].arrival = tick /\ Key(next) < Key(current)
    BY <2>1, <2>2, <2>5 DEF DisplacedRightly
  <2>7. ASSUME NEW i \in Procs PROVE KeyAt(i, t)' = Key(i)
    <3>1. {u \in TicksOf(i)' : u < tick} = {u \in TicksOf(i) : u < tick}
      BY <1>0, TicksOfStep
    <3>2. KeyAt(i, t)' = KeyAt(i, tick)
      BY <1>0, <2>1, <3>1 DEF KeyAt
    <3>3. KeyAt(i, tick) = Key(i)
      BY <2>1, <2>6, KeyAtNow
    <3> QED
      BY <3>2, <3>3
  <2> QED
    BY <1>0, <2>1, <2>3, <2>6, <2>7 DEF ByBetterArrival
<1>5. CASE LoopTest \/ (\E i \in Procs : Admit(i)) \/ EndTick \/ UNCHANGED vars
  BY <1>0, <1>5 DEF LoopTest, Admit, EndTick, vars, Elapsed
<1> QED
  BY <1>3, <1>4, <1>5 DEF ScanNext, ScanVars, Halt

\* SPEC.md section 6, SRTF and preemptive Priority: a process loses the CPU
\* before it is finished only to one that arrives at that very tick and is
\* strictly better; under SJF and Priority NP it never does.
THEOREM OnlyArrivalsPreemptCorrect == ScanSpec => []OnlyArrivalsPreempt
<1>1. ScanInit => ScanHistoryInv /\ PreemptInv
  <2>1. ScanInit => ScanHistoryInv
    BY ScanInvInit, TypeInvInit, AccountingInit, WindowInit, WorkInit
       DEF ScanInit, ScanHistoryInv, MetricsInv, ScanIInv
  <2>2. ScanInit => PreemptInv
    BY DEF ScanInit, scan_init, Init, PreemptInv, StillLeast, DisplacedRightly, Elapsed
  <2> QED
    BY <2>1, <2>2
<1>2. ScanHistoryInv /\ PreemptInv /\ [ScanNext]_ScanVars => (ScanHistoryInv /\ PreemptInv)'
  <2> SUFFICES ASSUME ScanHistoryInv, PreemptInv, [ScanNext]_ScanVars
               PROVE  ScanHistoryInv' /\ PreemptInv'
    OBVIOUS
  <2>1. StillLeast' /\ DisplacedRightly'
    BY StillLeastStep, DisplacedRightlyStep DEF PreemptInv
  <2>2. ASSUME NEW t \in Elapsed', t > 0 PROVE (Preempts(t) => ByBetterArrival(t))'
    <3>1. CASE t \in Elapsed
      BY <2>2, <3>1, PastPreemptions DEF PreemptInv
    <3>2. CASE t \notin Elapsed
      BY <2>2, <3>2, NewPreemption DEF PreemptInv
    <3> QED
      BY <3>1, <3>2
  <2> QED
    BY <2>1, <2>2, ScanHistoryStep DEF PreemptInv
<1>3. PreemptInv => OnlyArrivalsPreempt
  BY DEF PreemptInv, Preempts, ByBetterArrival, OnlyArrivalsPreempt, Preemptive, RunsToTheEnd
<1> QED
  BY <1>1, <1>2, <1>3, PTL DEF ScanSpec

-----------------------------------------------------------------------------
MostUrgent(i) == \A j \in Procs \ {i} : trace[i].priority < trace[j].priority

\* Under the preemptive variant the most urgent process has run at every tick
\* since its arrival.
RunsAtOnce(i) ==
    /\ remaining[i] > 0 =>
           remaining[i] = trace[i].burst
                              - (IF trace[i].arrival < Now THEN Now - trace[i].arrival ELSE 0)
    /\ phase = "execute" /\ remaining[i] > 0 /\ trace[i].arrival <= tick => next = i
    /\ completion[i] # NOT_STARTED => completion[i] = trace[i].arrival + trace[i].burst

RunsAtOnceInv == algo = "priority_p" => \A i \in Procs : MostUrgent(i) => RunsAtOnce(i)

\* A scan finds the most urgent process if it is ready at all.
LEMMA UrgentIsBest ==
    ASSUME TypeInv, algo \in {"priority_p", "priority_np"},
           NEW i \in Ready, MostUrgent(i)
    PROVE  Best = i
<1>1. Best \in Ready /\ Key(Best) <= Key(i)
  BY BestIsLeast
<1>2. Key(Best) = trace[Best].priority /\ Key(i) = trace[i].priority
  BY DEF Key
<1>3. trace[Best].priority \in Nat /\ trace[i].priority \in Nat
  BY <1>1, ScanFacts DEF Ready
<1>4. Best # i => trace[i].priority < trace[Best].priority
  BY <1>1 DEF MostUrgent, Ready
<1> QED
  BY <1>1, <1>2, <1>3, <1>4

LEMMA RunsAtOnceStep ==
    ScanHistoryInv /\ RunsAtOnceInv /\ [ScanNext]_ScanVars => RunsAtOnceInv'
<1> SUFFICES ASSUME ScanHistoryInv, RunsAtOnceInv, [ScanNext]_ScanVars,
                    algo' = "priority_p", NEW i \in Procs', MostUrgent(i)'
             PROVE  RunsAtOnce(i)'
  BY DEF RunsAtOnceInv
<1>0. /\ [Next]_vars /\ trace' = trace /\ Procs' = Procs /\ algo = "priority_p"
      /\ TypeInv /\ ScanIInv /\ i \in Procs /\ tick \in Nat
      /\ remaining \in [Procs -> Nat] /\ IDLE \notin Procs
      /\ completion \in [Procs -> Nat \cup {NOT_STARTED}]
      /\ trace[i].arrival \in Nat /\ trace[i].burst \in Nat \ {0}
  BY ScanHistoryStep, ScanFacts
     DEF ScanHistoryInv, ScanIInv, MetricsInv, TypeInv, TypeOK
<1>1. MostUrgent(i) /\ RunsAtOnce(i)
  BY <1>0 DEF MostUrgent, RunsAtOnceInv
<1>2. ASSUME NEW pid \in Answers, scan_pick_next(pid), Pick(pid) PROVE RunsAtOnce(i)'
  <2>1. /\ phase = "admit" /\ tick' = tick /\ remaining' = remaining /\ next' = pid
        /\ completion' = completion
        /\ phase' = IF pid = IDLE THEN "tick_end" ELSE "execute"
        /\ pid \in AllowedAnswers
    <3>1. pid \in AllowedAnswers /\ phase = "admit"
      BY <1>0, <1>2, ScanAnswers DEF Pick
    <3> QED
      BY <1>2, <3>1 DEF Pick, table, AllowedAnswers
  <2>2. CASE i \in Ready
    <3>1. Best = i
      BY <1>0, <1>1, <2>2, UrgentIsBest
    <3>2. running # IDLE /\ Key(running) = Key(i) => running = i
      <4> SUFFICES ASSUME running # IDLE, running # i PROVE Key(running) # Key(i)
        OBVIOUS
      <4>1. running \in Procs \ {i}
        BY <1>0 DEF ScanHistoryInv, RunningInv, MetricsInv, TypeInv, TypeOK
      <4>2. trace[i].priority < trace[running].priority
        BY <1>1, <4>1 DEF MostUrgent
      <4>3. Key(running) = trace[running].priority /\ Key(i) = trace[i].priority
        BY <1>0 DEF Key
      <4>4. Key(running) \in Nat /\ Key(i) \in Nat
        BY <1>0, <4>1, ScanFacts
      <4> QED
        BY <4>2, <4>3, <4>4
    <3>3. Winner = i
      BY <3>1, <3>2 DEF Winner
    <3>4. pid = i
      BY <1>0, <1>2, <2>2, <3>3, ScanFacts
         DEF scan_pick_next, sjf_pick_next, srtf_pick_next, priority_np_pick_next,
             priority_p_pick_next, Reevaluated
    <3> QED
      BY <1>0, <1>1, <2>1, <3>4 DEF RunsAtOnce, Now
  <2>3. CASE i \notin Ready
    BY <1>0, <1>1, <2>1, <2>3 DEF RunsAtOnce, Now, Ready
  <2> QED
    BY <2>2, <2>3
<1>3. CASE Execute
  <2>1. /\ phase = "execute" /\ phase' = "tick_end" /\ tick' = tick
        /\ next \in Procs /\ remaining[next] > 0 /\ trace[next].arrival <= tick
        /\ remaining' = [remaining EXCEPT ![next] = @ - 1]
        /\ completion' = IF remaining[next] = 1
                         THEN [completion EXCEPT ![next] = tick + 1] ELSE completion
    BY <1>0, <1>3 DEF Execute, TypeInv, PhaseInv, Ready, Finishing, StampOf
  <2>2. completion[i] # NOT_STARTED => remaining[i] = 0
    BY <1>0 DEF ScanHistoryInv, MetricsInv, Window
  <2>3. CASE i = next
    BY <1>0, <1>1, <2>1, <2>2, <2>3 DEF RunsAtOnce, Now
  <2>4. CASE i # next
    BY <1>0, <1>1, <2>1, <2>4 DEF RunsAtOnce, Now
  <2> QED
    BY <2>3, <2>4
<1>4. CASE EndTick
  BY <1>0, <1>1, <1>4 DEF EndTick, table, RunsAtOnce, Now
<1>5. CASE LoopTest \/ (\E j \in Procs : Admit(j)) \/ UNCHANGED vars
  BY <1>0, <1>1, <1>5 DEF LoopTest, Admit, vars, table, RunsAtOnce, Now
<1> QED
  BY <1>2, <1>3, <1>4, <1>5 DEF ScanNext, ScanVars, Halt

\* Somebody else, dispatched before i arrived, finished at tick t.
Blocker(i, t) ==
    \E j \in Procs \ {i} : completion[j] = t /\ start_tick[j] < trace[i].arrival

\* Arrived, considered by a pick, and not dispatched so far.
InLine(i) ==
    /\ start_tick[i] = NOT_STARTED
    /\ \/ trace[i].arrival < tick
       \/ trace[i].arrival = tick /\ phase \in {"execute", "tick_end"}

\* Under the other variant the most urgent process waits behind the one it
\* found on the CPU, if any, then runs to its end.
RunsNext(i) ==
    /\ start_tick[i] # NOT_STARTED =>
           start_tick[i] = trace[i].arrival \/ Blocker(i, start_tick[i])
    /\ start_tick[i] # NOT_STARTED /\ remaining[i] > 0 =>
           running = i /\ remaining[i] = trace[i].burst - (Now - start_tick[i])
    /\ completion[i] # NOT_STARTED => completion[i] = start_tick[i] + trace[i].burst
    /\ InLine(i) =>
           /\ running = i => /\ phase = "execute"
                             /\ trace[i].arrival = tick \/ Blocker(i, tick)
           /\ running = IDLE => Blocker(i, Now)
           /\ running \notin {i, IDLE} =>
                  /\ start_tick[running] # NOT_STARTED
                  /\ start_tick[running] < trace[i].arrival

RunsNextInv == algo = "priority_np" => \A i \in Procs : MostUrgent(i) => RunsNext(i)

\* What has happened to a finished process stays as it is.
LEMMA BlockerStep ==
    ASSUME MetricsInv, [Next]_vars, NEW i \in Procs, NEW t \in Nat, Blocker(i, t)
    PROVE  Blocker(i, t)'
<1>0. /\ trace' = trace /\ Procs' = Procs
      /\ start_tick \in [Procs -> Nat \cup {NOT_STARTED}]
      /\ completion \in [Procs -> Nat \cup {NOT_STARTED}]
      /\ NOT_STARTED \notin Nat
  BY TraceStep DEF Procs, NOT_STARTED, MetricsInv, TypeInv, TypeOK
<1>1. PICK j \in Procs \ {i} : completion[j] = t /\ start_tick[j] < trace[i].arrival
  BY DEF Blocker
<1>2. ~ (remaining[j] > 0)
  BY <1>0, <1>1 DEF MetricsInv, Window
<1>3. completion'[j] = completion[j] /\ start_tick'[j] = start_tick[j]
  <2>1. CASE Execute
    <3>1. next # j
      BY <1>2, <2>1 DEF Execute, MetricsInv, TypeInv, PhaseInv, Ready
    <3> QED
      BY <1>0, <1>1, <2>1, <3>1 DEF Execute
  <2>2. CASE ~ Execute
    BY <2>2 DEF Next, LoopTest, Admit, Pick, EndTick, Halt, vars, table
  <2> QED
    BY <2>1, <2>2
<1> QED
  BY <1>0, <1>1, <1>3 DEF Blocker

LEMMA RunsNextStep ==
    ScanHistoryInv /\ RunsNextInv /\ [ScanNext]_ScanVars => RunsNextInv'
<1> SUFFICES ASSUME ScanHistoryInv, RunsNextInv, [ScanNext]_ScanVars,
                    algo' = "priority_np", NEW i \in Procs', MostUrgent(i)'
             PROVE  RunsNext(i)'
  BY DEF RunsNextInv
<1>0. /\ [Next]_vars /\ trace' = trace /\ Procs' = Procs /\ algo = "priority_np"
      /\ TypeInv /\ ScanIInv /\ MetricsInv /\ i \in Procs /\ tick \in Nat
      /\ remaining \in [Procs -> Nat] /\ IDLE \notin Procs
      /\ completion \in [Procs -> Nat \cup {NOT_STARTED}]
      /\ start_tick \in [Procs -> Nat \cup {NOT_STARTED}]
      /\ NOT_STARTED \notin Nat
      /\ trace[i].arrival \in Nat /\ trace[i].burst \in Nat \ {0}
  BY ScanHistoryStep, ScanFacts
     DEF ScanHistoryInv, ScanIInv, MetricsInv, TypeInv, TypeOK, NOT_STARTED
<1>1. MostUrgent(i) /\ RunsNext(i)
  BY <1>0 DEF MostUrgent, RunsNextInv
<1>2. \A t \in Nat : Blocker(i, t) => Blocker(i, t)'
  BY <1>0, BlockerStep
<1>3. /\ start_tick[i] = NOT_STARTED => remaining[i] = trace[i].burst
      /\ completion[i] # NOT_STARTED => remaining[i] = 0
  <2>1. start_tick[i] = NOT_STARTED => Cardinality(TicksOf(i)) = 0
    BY <1>0, FS_EmptySet DEF MetricsInv, Window
  <2> QED
    BY <1>0, <2>1 DEF MetricsInv, Accounting, Window
<1>4. ASSUME NEW pid \in Answers, scan_pick_next(pid), Pick(pid) PROVE RunsNext(i)'
  <2>1. /\ phase = "admit" /\ tick' = tick /\ next' = pid /\ UNCHANGED table
        /\ running' = pid
        /\ phase' = IF pid = IDLE THEN "tick_end" ELSE "execute"
        /\ pid \in AllowedAnswers
    <3>1. pid \in AllowedAnswers /\ phase = "admit"
      BY <1>0, <1>4, ScanAnswers DEF Pick
    <3>2. running' = pid
      BY <1>4 DEF scan_pick_next, sjf_pick_next, srtf_pick_next, priority_np_pick_next,
                  priority_p_pick_next, Uninterrupted, Reevaluated
    <3> QED
      BY <1>4, <3>1, <3>2 DEF Pick, AllowedAnswers
  <2>2. /\ running # IDLE => pid = running
        /\ running = IDLE /\ i \in Ready => pid = i
    <3>1. pid = IF running # IDLE THEN running ELSE IF Eligible = {} THEN IDLE ELSE Best
      BY <1>0, <1>4 DEF scan_pick_next, sjf_pick_next, srtf_pick_next,
                        priority_np_pick_next, priority_p_pick_next, Uninterrupted
    <3>2. Eligible = Ready
      BY <1>0, ScanFacts
    <3> QED
      BY <1>0, <1>1, <3>1, <3>2, UrgentIsBest
  <2>3. running # IDLE =>
            /\ running \in Procs
            /\ tick - 1 \in Nat
            /\ start_tick[running] \in Nat
            /\ start_tick[running] < tick
    <3> SUFFICES ASSUME running # IDLE
                 PROVE  /\ running \in Procs
                        /\ tick - 1 \in Nat
                        /\ start_tick[running] \in Nat
                        /\ start_tick[running] < tick
      OBVIOUS
    <3>1. running = current /\ running \in Procs
      BY <2>1 DEF ScanHistoryInv, RunningInv
    <3>2. tick - 1 \in Nat /\ timeline[tick - 1] = running
      BY <1>0, <3>1 DEF TypeInv, PhaseInv
    <3>3. tick - 1 \in TicksOf(running)
      BY <1>0, <2>1, <3>2 DEF TicksOf, Elapsed
    <3>4. start_tick[running] <= tick - 1 /\ start_tick[running] # NOT_STARTED
      BY <1>0, <3>1, <3>3 DEF MetricsInv, Window
    <3> QED
      BY <1>0, <3>1, <3>2, <3>4
  <2>4. Procs' = Procs /\ UNCHANGED <<trace, remaining, start_tick, completion>>
    BY <1>0, <2>1 DEF table
  <2>5. InLine(i)' => i \in Ready
    BY <1>0, <1>3, <2>1, <2>4 DEF InLine, Ready
  <2>6. start_tick[i] # NOT_STARTED /\ remaining[i] > 0 => pid = i
    BY <1>0, <1>1, <2>2 DEF RunsNext
  <2>7. InLine(i)' => /\ pid = i => trace[i].arrival = tick \/ Blocker(i, tick)
                      /\ pid # IDLE
                      /\ pid # i => /\ start_tick[pid] # NOT_STARTED
                                    /\ start_tick[pid] < trace[i].arrival
    <3> SUFFICES ASSUME InLine(i)'
                 PROVE  /\ pid = i => trace[i].arrival = tick \/ Blocker(i, tick)
                        /\ pid # IDLE
                        /\ pid # i => /\ start_tick[pid] # NOT_STARTED
                                      /\ start_tick[pid] < trace[i].arrival
      OBVIOUS
    <3>1. i \in Ready /\ start_tick[i] = NOT_STARTED /\ running # i
      BY <1>0, <2>1, <2>3, <2>4, <2>5 DEF InLine
    <3>2. CASE running = IDLE
      <4>1. pid = i
        BY <2>2, <3>1, <3>2
      <4>2. trace[i].arrival # tick => Blocker(i, tick)
        BY <1>0, <1>1, <2>1, <3>1, <3>2 DEF RunsNext, InLine, Ready, Now
      <4> QED
        BY <1>0, <4>1, <4>2
    <3>3. CASE running # IDLE
      <4>1. pid = running /\ pid # i /\ start_tick[pid] # NOT_STARTED
        BY <1>0, <2>2, <2>3, <3>1, <3>3
      <4>2. CASE trace[i].arrival = tick
        BY <2>3, <3>3, <4>1, <4>2
      <4>3. CASE trace[i].arrival # tick
        BY <1>0, <1>1, <3>1, <3>3, <4>1, <4>3 DEF RunsNext, InLine, Ready
      <4> QED
        BY <3>3, <4>1, <4>2, <4>3
    <3> QED
      BY <3>2, <3>3
  <2>8. /\ \A t \in Nat : Blocker(i, t)' <=> Blocker(i, t)
        /\ Now' = IF pid = IDLE THEN tick + 1 ELSE tick
        /\ Now = tick
    BY <2>1, <2>4 DEF Blocker, Now
  <2> QED
    BY <1>0, <1>1, <2>1, <2>4, <2>6, <2>7, <2>8 DEF RunsNext
<1>5. CASE Execute /\ (IF Finishing THEN scan_on_complete ELSE UNCHANGED scan_state)
  <2>1. /\ phase = "execute" /\ phase' = "tick_end" /\ tick' = tick /\ next' = next
        /\ next = running
        /\ next \in Procs /\ remaining[next] > 0 /\ trace[next].arrival <= tick
        /\ start_tick' = [start_tick EXCEPT ![next] =
                              IF start_tick[next] = NOT_STARTED THEN tick ELSE @]
        /\ remaining' = [remaining EXCEPT ![next] = @ - 1]
        /\ completion' = IF remaining[next] = 1
                         THEN [completion EXCEPT ![next] = tick + 1] ELSE completion
        /\ running' = IF remaining[next] = 1 THEN IDLE ELSE running
    BY <1>0, <1>5
       DEF Execute, TypeInv, PhaseInv, Ready, Finishing, StampOf, FirstDispatch,
           scan_on_complete, scan_state, ScanHistoryInv, RunningInv
  <2>2. Now = tick /\ Now' = tick + 1
    BY <2>1 DEF Now
  <2>3. CASE i = next
    <3>1. CASE start_tick[i] = NOT_STARTED
      <4>1. /\ start_tick'[i] = tick /\ remaining'[i] = trace[i].burst - 1
            /\ completion'[i] # NOT_STARTED => completion'[i] = tick + 1 /\ trace[i].burst = 1
        BY <1>0, <1>3, <2>1, <2>3, <3>1
      <4>2. trace[i].arrival = tick \/ Blocker(i, tick)
        BY <1>0, <1>1, <2>1, <2>3, <3>1 DEF RunsNext, InLine
      <4>3. start_tick'[i] = trace[i].arrival \/ Blocker(i, start_tick[i])'
        BY <1>0, <1>2, <4>1, <4>2
      <4>4. remaining'[i] > 0 => running' = i
        BY <1>0, <1>3, <2>1, <2>3, <3>1
      <4> QED
        BY <1>0, <2>2, <4>1, <4>3, <4>4 DEF RunsNext, InLine
    <3>2. CASE start_tick[i] # NOT_STARTED
      <4>1. /\ start_tick'[i] = start_tick[i] /\ start_tick[i] \in Nat
            /\ remaining[i] = trace[i].burst - (tick - start_tick[i])
            /\ remaining'[i] = remaining[i] - 1
            /\ completion[i] = NOT_STARTED
            /\ completion'[i] # NOT_STARTED => completion'[i] = tick + 1 /\ remaining[i] = 1
        BY <1>0, <1>1, <1>3, <2>1, <2>2, <2>3, <3>2 DEF RunsNext
      <4>2. start_tick'[i] = trace[i].arrival \/ Blocker(i, start_tick[i])'
        BY <1>0, <1>1, <1>2, <3>2, <4>1 DEF RunsNext
      <4>3. remaining'[i] > 0 => running' = i
        BY <1>0, <2>1, <2>3, <4>1
      <4> QED
        BY <1>0, <2>2, <3>2, <4>1, <4>2, <4>3 DEF RunsNext, InLine
    <3> QED
      BY <3>1, <3>2
  <2>4. CASE i # next
    <3>1. /\ start_tick'[i] = start_tick[i] /\ remaining'[i] = remaining[i]
          /\ completion'[i] = completion[i]
      BY <1>0, <2>1, <2>4
    <3>2. ~ (start_tick[i] # NOT_STARTED /\ remaining[i] > 0)
      BY <1>1, <2>1, <2>4 DEF RunsNext
    <3>3. start_tick[i] # NOT_STARTED =>
              start_tick[i] = trace[i].arrival \/ Blocker(i, start_tick[i])'
      BY <1>0, <1>1, <1>2, <3>1 DEF RunsNext
    <3>4. InLine(i)' =>
              /\ running' # i
              /\ running' = IDLE => Blocker(i, tick + 1)'
              /\ running' # IDLE => /\ start_tick'[running'] # NOT_STARTED
                                    /\ start_tick'[running'] < trace[i].arrival
      <4> SUFFICES ASSUME InLine(i)'
                   PROVE  /\ running' # i
                          /\ running' = IDLE => Blocker(i, tick + 1)'
                          /\ running' # IDLE => /\ start_tick'[running'] # NOT_STARTED
                                                /\ start_tick'[running'] < trace[i].arrival
        OBVIOUS
      <4>1. InLine(i)
        BY <1>0, <2>1, <3>1 DEF InLine
      <4>2. start_tick[next] # NOT_STARTED /\ start_tick[next] < trace[i].arrival
        BY <1>0, <1>1, <2>1, <2>4, <4>1 DEF RunsNext
      <4>3. start_tick'[next] = start_tick[next]
        BY <1>0, <2>1, <4>2
      <4>4. remaining[next] = 1 => Blocker(i, tick + 1)'
        <5> SUFFICES ASSUME remaining[next] = 1 PROVE Blocker(i, tick + 1)'
          OBVIOUS
        <5>1. completion'[next] = tick + 1
          BY <1>0, <2>1
        <5> QED
          BY <1>0, <2>1, <2>4, <4>2, <4>3, <5>1 DEF Blocker
      <4> QED
        BY <1>0, <2>1, <2>4, <4>2, <4>3, <4>4
    <3> QED
      BY <1>0, <1>1, <2>1, <2>2, <3>1, <3>2, <3>3, <3>4 DEF RunsNext
  <2> QED
    BY <2>3, <2>4
<1>6. CASE (LoopTest \/ EndTick \/ \E j \in Procs : Admit(j)) /\ UNCHANGED scan_state
  <2>1. /\ UNCHANGED <<trace, remaining, start_tick, completion, running>>
        /\ phase \in {"test", "admit", "tick_end"} /\ phase' \notin {"execute", "tick_end"}
        /\ tick' = IF phase = "tick_end" THEN tick + 1 ELSE tick
    BY <1>6 DEF LoopTest, EndTick, Admit, table, scan_state
  <2>2. Now' = Now
    BY <2>1 DEF Now
  <2>3. \A t \in Nat : Blocker(i, t)' <=> Blocker(i, t)
    BY <1>0, <2>1 DEF Blocker
  <2>4. InLine(i)' => InLine(i)
    BY <1>0, <2>1 DEF InLine
  <2>5. phase # "execute" /\ Now \in Nat
    BY <1>0, <2>1 DEF Now
  <2> QED
    BY <1>0, <1>1, <2>1, <2>2, <2>3, <2>4, <2>5 DEF RunsNext
<1>7. CASE UNCHANGED ScanVars
  <2>1. /\ UNCHANGED <<trace, remaining, start_tick, completion, running, phase, tick>>
        /\ Now' = Now
    BY <1>7 DEF ScanVars, vars, table, scan_state, Now
  <2>2. \A t : Blocker(i, t)' <=> Blocker(i, t)
    BY <1>0, <2>1 DEF Blocker
  <2> QED
    BY <1>1, <2>1, <2>2 DEF RunsNext, InLine
<1> QED
  BY <1>4, <1>5, <1>6, <1>7 DEF ScanNext, ScanVars, Halt

\* SPEC.md section 6, Priority: under the preemptive variant a process more
\* urgent than all others finishes as if it were alone on the machine; under
\* the other it waits only for the process it found running when it arrived.
THEOREM MostUrgentIsServedCorrect == ScanSpec => []MostUrgentIsServed
<1> DEFINE I == ScanHistoryInv /\ RunsAtOnceInv /\ RunsNextInv
<1>1. ScanInit => I
  <2> SUFFICES ASSUME ScanInit PROVE I
    OBVIOUS
  <2>1. ScanHistoryInv
    BY ScanInvInit, TypeInvInit, AccountingInit, WindowInit, WorkInit
       DEF ScanInit, ScanHistoryInv, MetricsInv, ScanIInv
  <2>2. /\ phase = "test" /\ tick = 0
        /\ \A i \in Procs : /\ remaining[i] = trace[i].burst
                            /\ start_tick[i] = NOT_STARTED /\ completion[i] = NOT_STARTED
                            /\ trace[i].arrival \in Nat /\ trace[i].burst \in Nat
    BY <2>1, ScanFacts DEF ScanInit, Init, ScanHistoryInv, MetricsInv
  <2>3. \A i \in Procs : RunsAtOnce(i) /\ RunsNext(i)
    BY <2>2 DEF RunsAtOnce, RunsNext, Now, InLine
  <2> QED
    BY <2>1, <2>3 DEF RunsAtOnceInv, RunsNextInv
<1>2. I /\ [ScanNext]_ScanVars => I'
  BY ScanHistoryStep, RunsAtOnceStep, RunsNextStep
<1>3. I => MostUrgentIsServed
  <2> SUFFICES ASSUME I, NEW i \in Procs, completion[i] # NOT_STARTED,
                      \A j \in Procs \ {i} : trace[i].priority < trace[j].priority
               PROVE  /\ algo = "priority_p" =>
                             completion[i] = trace[i].arrival + trace[i].burst
                      /\ algo = "priority_np" =>
                             \/ waiting(i) = 0
                             \/ \E j \in Procs \ {i} :
                                    /\ completion[j] = start_tick[i]
                                    /\ start_tick[j] < trace[i].arrival
    BY DEF MostUrgentIsServed
  <2>1. algo = "priority_p" => completion[i] = trace[i].arrival + trace[i].burst
    BY DEF RunsAtOnceInv, RunsAtOnce, MostUrgent
  <2>2. ASSUME algo = "priority_np", ~ Blocker(i, start_tick[i])
        PROVE  waiting(i) = 0
    <3>1. start_tick[i] \in Nat \cup {NOT_STARTED} /\ start_tick[i] # NOT_STARTED
      <4>1. start_tick[i] = NOT_STARTED => Cardinality(TicksOf(i)) = 0
        BY FS_EmptySet DEF ScanHistoryInv, MetricsInv, Window
      <4>2. remaining[i] = 0 /\ remaining[i] # trace[i].burst
        BY ScanFacts DEF ScanHistoryInv, MetricsInv, Window
      <4> QED
        BY <4>1, <4>2, ScanFacts
           DEF ScanHistoryInv, MetricsInv, Accounting, TypeInv, TypeOK
    <3>2. completion[i] = start_tick[i] + trace[i].burst /\ start_tick[i] = trace[i].arrival
      BY <2>2, <3>1 DEF RunsNextInv, RunsNext, MostUrgent
    <3>3. trace[i].arrival \in Nat /\ trace[i].burst \in Nat
      BY ScanFacts DEF ScanHistoryInv, MetricsInv
    <3> QED
      BY <3>2, <3>3 DEF waiting, turnaround
  <2> QED
    BY <2>1, <2>2 DEF Blocker
<1> QED
  BY <1>1, <1>2, <1>3, PTL DEF ScanSpec

-----------------------------------------------------------------------------
\* Induction from the last tick backwards, for a set of ticks.
LEMMA Backwards ==
    ASSUME NEW last \in Nat, NEW G,
           \A t \in 0..last : (t + 1 \in 0..last => t + 1 \in G) => t \in G
    PROVE  0..last \subseteq G
<1> DEFINE Bad == {d \in Nat : d <= last /\ last - d \notin G}
<1>1. Bad = {}
  <2> SUFFICES ASSUME Bad # {} PROVE FALSE
    OBVIOUS
  <2>1. PICK d \in Bad : \A e \in Bad : d <= e
    <3>1. Bad \in SUBSET Nat
      OBVIOUS
    <3> HIDE DEF Bad
    <3> QED
      BY <3>1, LeastNat
  <2>2. d \in Nat /\ d <= last /\ last - d \notin G
    OBVIOUS
  <2>3. last - d \in 0..last
    BY <2>2
  <2>4. last - d + 1 \in 0..last /\ last - d + 1 \notin G
    BY <2>2, <2>3
  <2>5. d - 1 \in Nat /\ d - 1 <= last /\ last - (d - 1) = last - d + 1 /\ ~ (d <= d - 1)
    BY <2>2, <2>4
  <2>6. d - 1 \in Bad
    BY <2>4, <2>5
  <2> HIDE DEF Bad
  <2> QED
    BY <2>1, <2>5, <2>6
<1>2. ASSUME NEW t \in 0..last PROVE t \in G
  <2>1. last - t \in Nat /\ last - t <= last /\ last - (last - t) = t
    OBVIOUS
  <2>2. last - t \notin Bad
    BY <1>1
  <2> QED
    BY <2>1, <2>2
<1> QED
  BY <1>2

\* The horizon is a number of ticks.
LEMMA HorizonType ==
    ASSUME NEW tr \in Traces
    PROVE  Horizon(tr) \in Nat
BY ArrivalBound, WorkFinite DEF Horizon

\* What the recursive function of schedules computes.
LEMMA LeastRestDef ==
    ASSUME NEW tr \in Traces, NEW t \in 0..Horizon(tr),
           NEW rem \in [DOMAIN tr -> 0..Horizon(tr)]
    PROVE  LeastRest(tr)[<<t, rem>>] =
               IF t = Horizon(tr) \/ \A i \in DOMAIN tr : rem[i] = 0 THEN 0
               ELSE IF CanRun(tr, t, rem) = {} THEN LeastRest(tr)[<<t + 1, rem>>]
               ELSE Min({LeastRest(tr)[<<t + 1, AfterRun(rem, i)>>] + EndOf(rem, i, t) :
                             i \in CanRun(tr, t, rem)})
<1> DEFINE Last == Horizon(tr)
           Rems == [DOMAIN tr -> 0..Last]
           States == (0..Last) \X Rems
           Value(g, u, r, i) == g[<<u + 1, AfterRun(r, i)>>] + EndOf(r, i, u)
           Def(g, u, r) ==
               IF u = Last \/ \A i \in DOMAIN tr : r[i] = 0 THEN 0
               ELSE IF CanRun(tr, u, r) = {} THEN g[<<u + 1, r>>]
               ELSE Min({Value(g, u, r, i) : i \in CanRun(tr, u, r)})
           From(m) == {s \in States : s[1] >= Last - m}
           Solves(g, m) == g = [s \in From(m) |-> Def(g, s[1], s[2])]
           Bad == {m \in Nat : m <= Last /\ ~ \E g : Solves(g, m)}
<1>1. Last \in Nat
  BY HorizonType
<1>2. ASSUME NEW r \in Rems, NEW u \in 0..Last, NEW i \in CanRun(tr, u, r)
      PROVE  AfterRun(r, i) \in Rems
  <2>1. i \in DOMAIN tr /\ r[i] \in 0..Last /\ r[i] > 0
    BY DEF CanRun
  <2>2. r[i] - 1 \in 0..Last
    BY <1>1, <2>1
  <2> HIDE DEF Last
  <2> QED
    BY <2>1, <2>2 DEF AfterRun
<1>3. Bad = {}
  <2> SUFFICES ASSUME Bad # {} PROVE FALSE
    OBVIOUS
  <2>1. PICK m \in Bad : \A y \in Bad : m <= y
    <3>1. Bad \in SUBSET Nat
      OBVIOUS
    <3> HIDE DEF Bad
    <3> QED
      BY <3>1, LeastNat
  <2>2. m \in Nat /\ m <= Last /\ ~ \E g : Solves(g, m)
    OBVIOUS
  <2>3. ASSUME NEW s \in From(0) PROVE s[1] = Last
    <3>1. s[1] \in 0..Last /\ s[1] >= Last - 0
      OBVIOUS
    <3> HIDE DEF Last
    <3> QED
      BY <1>1, <3>1
  <2>4. m # 0
    <3>1. Solves([s \in From(0) |-> 0], 0)
      <4> HIDE DEF From
      <4> QED
        BY <2>3
    <3> HIDE DEF Solves
    <3> QED
      BY <2>2, <3>1
  <2>5. PICK g : Solves(g, m - 1)
    <3>1. m - 1 \in Nat /\ m - 1 <= Last /\ ~ (m <= m - 1)
      BY <1>1, <2>2, <2>4
    <3>2. m - 1 \notin Bad
      <4> HIDE DEF Bad
      <4> QED
        BY <2>1, <3>1
    <3> HIDE DEF Solves
    <3> QED
      BY <3>1, <3>2
  <2>6. \A s \in From(m - 1) : g[s] = Def(g, s[1], s[2])
    BY <2>5, Zenon
  <2> DEFINE h == [s \in From(m) |-> IF s \in From(m - 1) THEN g[s] ELSE Def(g, s[1], s[2])]
  <2>7. ASSUME NEW s \in From(m) PROVE h[s] = Def(h, s[1], s[2])
    <3> DEFINE u == s[1]
               r == s[2]
    <3>1. h[s] = Def(g, u, r)
      <4> HIDE DEF Def, From
      <4> QED
        BY <2>6
    <3>2. u \in 0..Last /\ r \in Rems /\ u >= Last - m
      OBVIOUS
    <3>3. ASSUME u # Last, NEW q \in Rems PROVE h[<<u + 1, q>>] = g[<<u + 1, q>>]
      <4>1. u + 1 \in 0..Last /\ u + 1 >= Last - (m - 1) /\ u + 1 >= Last - m
        <5> HIDE DEF Last, u
        <5> QED
          BY <1>1, <2>2, <3>2, <3>3
      <4>2. <<u + 1, q>> \in From(m - 1) /\ <<u + 1, q>> \in From(m)
        <5> HIDE DEF Last, u
        <5> QED
          BY <4>1
      <4> HIDE DEF Def, From
      <4> QED
        BY <4>2
    <3> HIDE DEF h, From, u, r, Last
    <3>4. ASSUME u # Last, NEW i \in CanRun(tr, u, r) PROVE Value(h, u, r, i) = Value(g, u, r, i)
      BY <1>2, <3>2, <3>3, <3>4
    <3>5. u # Last => {Value(h, u, r, i) : i \in CanRun(tr, u, r)}
                        = {Value(g, u, r, i) : i \in CanRun(tr, u, r)}
      <4> HIDE DEF Value
      <4> QED
        BY <3>4
    <3>6. Def(h, u, r) = Def(g, u, r)
      <4>1. CASE u = Last
        BY <4>1
      <4>2. CASE u # Last
        <5> HIDE DEF Value
        <5> QED
          BY <3>2, <3>3, <3>5, <4>2
      <4> QED
        BY <4>1, <4>2
    <3> HIDE DEF Def
    <3>7. h[s] = Def(h, u, r)
      BY <3>1, <3>6
    <3> QED
      BY <3>7 DEF u, r
  <2>8. h = [s \in From(m) |-> Def(h, s[1], s[2])]
    <3>1. h = [s \in From(m) |-> h[s]]
      <4> HIDE DEF From, Def
      <4> QED
        OBVIOUS
    <3> HIDE DEF h, Def, From
    <3> QED
      BY <2>7, <3>1
  <2>9. Solves(h, m)
    BY <2>8, Zenon
  <2> HIDE DEF Solves, h
  <2> QED
    BY <2>2, <2>9
<1>4. PICK g : Solves(g, Last)
  <2> HIDE DEF Solves, Last
  <2> QED
    BY <1>1, <1>3
<1>5. From(Last) = States
  <2>1. \A s \in States : s[1] \in 0..Last
    OBVIOUS
  <2> HIDE DEF Last
  <2> QED
    BY <1>1, <2>1
<1>6. g = [s \in States |-> Def(g, s[1], s[2])]
  <2> HIDE DEF Def, States, From
  <2> QED
    BY <1>4, <1>5
<1> DEFINE Whole(f) == [s \in States |-> Def(f, s[1], s[2])]
           L == CHOOSE f : f = Whole(f)
<1>7. LeastRest(tr) = L
  BY DEF LeastRest
<1>8. L = Whole(L)
  <2>1. g = Whole(g)
    BY <1>6
  <2> HIDE DEF Whole
  <2> QED
    BY <2>1
<1> HIDE DEF L
<1>9. <<t, rem>> \in States
  OBVIOUS
<1>10. L[<<t, rem>>] = Def(L, t, rem)
  <2>1. \A s \in States : Whole(L)[s] = Def(L, s[1], s[2])
    <3> HIDE DEF Def, States
    <3> QED
      OBVIOUS
  <2>2. Whole(L)[<<t, rem>>] = Def(L, t, rem)
    <3> HIDE DEF Def, States, Whole
    <3> QED
      BY <1>9, <2>1
  <2> HIDE DEF Whole, Def
  <2> QED
    BY <1>8, <2>2
<1> QED
  BY <1>7, <1>10

\* The states a schedule that never idles needlessly can be in: what is left
\* fits what is left of the time, as it does after the last arrival.
UnitsLeft(rem) == {w \in (DOMAIN rem) \X Nat : 0 < w[2] /\ w[2] <= rem[w[1]]}
Feasible(tr, t, rem) ==
    /\ t \in 0..Horizon(tr)
    /\ rem \in [DOMAIN tr -> 0..Horizon(tr)]
    /\ IsFiniteSet(UnitsLeft(rem))
    /\ t + Cardinality(UnitsLeft(rem)) <= Horizon(tr)
    /\ Cardinality(UnitsLeft(rem)) <= Cardinality(WorkOf(tr))

\* A run starts feasible: the work fits between the last arrival and the horizon.
LEMMA FeasibleStart ==
    ASSUME NEW tr \in Traces
    PROVE  Feasible(tr, 0, [i \in DOMAIN tr |-> tr[i].burst])
<1> DEFINE rem == [i \in DOMAIN tr |-> tr[i].burst]
<1>1. /\ Horizon(tr) \in Nat /\ LastArrival(tr) \in Nat
      /\ IsFiniteSet(WorkOf(tr)) /\ Cardinality(WorkOf(tr)) \in Nat
      /\ \A i \in DOMAIN tr : tr[i].burst \in Nat \ {0}
  BY HorizonType, ArrivalBound, WorkFinite, RowTypes
<1>2. UnitsLeft(rem) = WorkOf(tr)
  <2>1. \A w : w \in WorkOf(tr) <=> \E i \in DOMAIN tr : w \in {i} \X (1..tr[i].burst)
    BY DEF WorkOf
  <2>2. \A w : w \in UnitsLeft(rem) <=> /\ w \in (DOMAIN tr) \X Nat /\ 0 < w[2]
                                        /\ w[2] <= tr[w[1]].burst
    BY DEF UnitsLeft
  <2>3. \A i \in DOMAIN tr : tr[i].burst \in Nat
    BY <1>1
  <2>4. ASSUME NEW w \in WorkOf(tr) PROVE w \in UnitsLeft(rem)
    <3>1. PICK i \in DOMAIN tr : w \in {i} \X (1..tr[i].burst)
      BY <2>1
    <3>2. w[1] = i /\ w[2] \in 1..tr[i].burst /\ w = <<w[1], w[2]>>
      BY <3>1
    <3> QED
      BY <2>2, <2>3, <3>2
  <2>5. ASSUME NEW w \in UnitsLeft(rem) PROVE w \in WorkOf(tr)
    <3>1. /\ w = <<w[1], w[2]>> /\ w[1] \in DOMAIN tr /\ w[2] \in Nat
          /\ 0 < w[2] /\ w[2] <= tr[w[1]].burst
      BY <2>2
    <3>2. w \in {w[1]} \X (1..tr[w[1]].burst)
      BY <2>3, <3>1
    <3> QED
      BY <2>1, <3>1, <3>2
  <2> QED
    BY <2>4, <2>5
<1>3. ASSUME NEW i \in DOMAIN tr PROVE tr[i].burst <= Cardinality(WorkOf(tr))
  <2> DEFINE one == {i}
             column == 1..tr[i].burst
             own == one \X column
  <2>1. IsFiniteSet(one) /\ Cardinality(one) = 1
    BY FS_Singleton
  <2>2. IsFiniteSet(column) /\ Cardinality(column) = tr[i].burst
    <3>1. tr[i].burst \in Nat
      BY <1>1
    <3> QED
      BY <3>1, FirstN
  <2>3. Cardinality(own) = 1 * tr[i].burst
    <3> HIDE DEF one, column
    <3> QED
      BY <2>1, <2>2, FS_Product
  <2>4. own \in SUBSET WorkOf(tr)
    BY DEF WorkOf
  <2>5. Cardinality(own) <= Cardinality(WorkOf(tr))
    <3> HIDE DEF own
    <3> QED
      BY <1>1, <2>4, FS_Subset
  <2>6. tr[i].burst \in Nat
    BY <1>1
  <2> HIDE DEF own
  <2> QED
    BY <2>3, <2>5, <2>6
<1>4. rem \in [DOMAIN tr -> 0..Horizon(tr)]
  <2>1. ASSUME NEW i \in DOMAIN tr PROVE tr[i].burst \in 0..Horizon(tr)
    <3>1. tr[i].burst \in Nat /\ tr[i].burst <= Cardinality(WorkOf(tr))
      BY <1>1, <1>3
    <3> QED
      BY <1>1, <3>1 DEF Horizon
  <2> QED
    BY <2>1
<1> HIDE DEF rem
<1>5. 0 \in 0..Horizon(tr) /\ 0 + Cardinality(WorkOf(tr)) <= Horizon(tr)
  BY <1>1 DEF Horizon
<1>6. Feasible(tr, 0, rem)
  BY <1>1, <1>2, <1>4, <1>5 DEF Feasible
<1> QED
  BY <1>6 DEF rem

\* While anything is left there is a tick left for it.
LEMMA FeasibleBefore ==
    ASSUME NEW tr \in Traces, NEW t, NEW rem, Feasible(tr, t, rem),
           NEW i \in DOMAIN tr, rem[i] > 0
    PROVE  /\ t # Horizon(tr) /\ t + 1 \in 0..Horizon(tr)
           /\ <<i, rem[i]>> \in UnitsLeft(rem)
<1>1. /\ Horizon(tr) \in Nat /\ t \in 0..Horizon(tr) /\ rem[i] \in Nat
      /\ rem \in [DOMAIN tr -> 0..Horizon(tr)] /\ IsFiniteSet(UnitsLeft(rem))
      /\ t + Cardinality(UnitsLeft(rem)) <= Horizon(tr)
  BY HorizonType DEF Feasible
<1>2. <<i, rem[i]>> \in UnitsLeft(rem)
  BY <1>1 DEF UnitsLeft
<1>3. Cardinality(UnitsLeft(rem)) \in Nat /\ Cardinality(UnitsLeft(rem)) # 0
  BY <1>1, <1>2, FS_CardinalityType, FS_EmptySet
<1>4. t # Horizon(tr) /\ t + 1 \in 0..Horizon(tr)
  BY <1>1, <1>3
<1> QED
  BY <1>2, <1>4

\* Running a process keeps a state feasible: a tick less, a unit of work less.
LEMMA FeasibleRun ==
    ASSUME NEW tr \in Traces, NEW t, NEW rem, Feasible(tr, t, rem),
           NEW i \in DOMAIN tr, rem[i] > 0
    PROVE  Feasible(tr, t + 1, AfterRun(rem, i))
<1> DEFINE U == UnitsLeft(rem)
           unit == <<i, rem[i]>>
<1>1. /\ Horizon(tr) \in Nat /\ t \in 0..Horizon(tr) /\ rem \in [DOMAIN tr -> 0..Horizon(tr)]
      /\ IsFiniteSet(U) /\ t + Cardinality(U) <= Horizon(tr)
      /\ Cardinality(U) <= Cardinality(WorkOf(tr)) /\ Cardinality(WorkOf(tr)) \in Nat
  BY HorizonType, WorkFinite DEF Feasible
<1>2. i \in DOMAIN tr /\ rem[i] > 0 /\ rem[i] \in 0..Horizon(tr)
  BY <1>1
<1>3. t + 1 \in 0..Horizon(tr) /\ unit \in U
  BY <1>2, FeasibleBefore
<1>4. AfterRun(rem, i) \in [DOMAIN tr -> 0..Horizon(tr)]
  <2>1. rem[i] - 1 \in 0..Horizon(tr)
    BY <1>1, <1>2
  <2> QED
    BY <1>1, <1>2, <2>1 DEF AfterRun
<1>5. UnitsLeft(AfterRun(rem, i)) = U \ {unit}
  <2>1. DOMAIN AfterRun(rem, i) = DOMAIN tr /\ DOMAIN rem = DOMAIN tr
    BY <1>1, <1>4
  <2>2. \A j \in DOMAIN tr : AfterRun(rem, i)[j] = IF j = i THEN rem[i] - 1 ELSE rem[j]
    BY <1>1 DEF AfterRun
  <2>3. ASSUME NEW w \in (DOMAIN tr) \X Nat
        PROVE  w[2] <= AfterRun(rem, i)[w[1]] <=> w[2] <= rem[w[1]] /\ w # unit
    <3>1. w[1] \in DOMAIN tr /\ w[2] \in Nat /\ w = <<w[1], w[2]>> /\ rem[w[1]] \in Nat
      BY <1>1
    <3>2. CASE w[1] = i
      BY <1>2, <2>2, <3>1, <3>2
    <3>3. CASE w[1] # i
      BY <2>2, <3>1, <3>3
    <3> QED
      BY <3>2, <3>3
  <2> QED
    BY <2>1, <2>3 DEF UnitsLeft
<1>6. /\ IsFiniteSet(U \ {unit}) /\ Cardinality(U \ {unit}) = Cardinality(U) - 1
      /\ Cardinality(U) \in Nat
  <2> HIDE DEF U, unit
  <2> QED
    BY <1>1, <1>3, FS_RemoveElement, FS_CardinalityType
<1> HIDE DEF U, unit
<1>7. /\ t + 1 + (Cardinality(U) - 1) <= Horizon(tr)
      /\ Cardinality(U) - 1 <= Cardinality(WorkOf(tr))
  BY <1>1, <1>6
<1> QED
  BY <1>3, <1>4, <1>5, <1>6, <1>7 DEF Feasible

\* So does waiting when nothing can run: an arrival is still to come.
LEMMA FeasibleWait ==
    ASSUME NEW tr \in Traces, NEW t, NEW rem, Feasible(tr, t, rem), CanRun(tr, t, rem) = {},
           NEW i \in DOMAIN tr, rem[i] > 0
    PROVE  Feasible(tr, t + 1, rem)
<1> DEFINE c == Cardinality(UnitsLeft(rem))
<1>1. /\ t \in Nat /\ IsFiniteSet(UnitsLeft(rem)) /\ c \in Nat
      /\ c <= Cardinality(WorkOf(tr)) /\ Cardinality(WorkOf(tr)) \in Nat
  BY HorizonType, WorkFinite, FS_CardinalityType DEF Feasible
<1>2. LastArrival(tr) \in Nat /\ tr[i].arrival <= LastArrival(tr) /\ tr[i].arrival \in Nat
  BY ArrivalBound, RowTypes
<1>3. t < tr[i].arrival
  BY <1>1, <1>2 DEF CanRun
<1>4. t + 1 + c <= Horizon(tr)
  <2> HIDE DEF c
  <2> QED
    BY <1>1, <1>2, <1>3 DEF Horizon
<1>5. t + 1 \in 0..Horizon(tr)
  BY FeasibleBefore
<1> QED
  BY <1>4, <1>5 DEF Feasible

\* The Min of the community modules, for naturals.
LEMMA MinIsLeast ==
    ASSUME NEW S \in SUBSET Nat, S # {}
    PROVE  Min(S) \in S /\ \A y \in S : Min(S) <= y
<1>1. \E x \in S : \A y \in S : x <= y
  BY LeastNat
<1> QED
  BY <1>1 DEF Min

\* The equations of the least sum, state by state.
LEMMA LeastRestDone ==
    ASSUME NEW tr \in Traces, NEW t, NEW rem, Feasible(tr, t, rem),
           \A i \in DOMAIN tr : rem[i] = 0
    PROVE  LeastRest(tr)[<<t, rem>>] = 0
<1>1. t \in 0..Horizon(tr) /\ rem \in [DOMAIN tr -> 0..Horizon(tr)]
  BY DEF Feasible
<1> QED
  BY <1>1, LeastRestDef

\* When nothing can run the clock moves on.
LEMMA LeastRestWait ==
    ASSUME NEW tr \in Traces, NEW t, NEW rem, Feasible(tr, t, rem), CanRun(tr, t, rem) = {},
           NEW i \in DOMAIN tr, rem[i] > 0
    PROVE  LeastRest(tr)[<<t, rem>>] = LeastRest(tr)[<<t + 1, rem>>]
<1>1. t \in 0..Horizon(tr) /\ rem \in [DOMAIN tr -> 0..Horizon(tr)] /\ rem[i] # 0
  BY DEF Feasible
<1>2. t # Horizon(tr)
  BY FeasibleBefore
<1> QED
  BY <1>1, <1>2, LeastRestDef

\* When something can, the best of the choices is taken.
LEMMA LeastRestMin ==
    ASSUME NEW tr \in Traces, NEW t, NEW rem, Feasible(tr, t, rem), CanRun(tr, t, rem) # {}
    PROVE  LeastRest(tr)[<<t, rem>>] =
               Min({LeastRest(tr)[<<t + 1, AfterRun(rem, i)>>] + EndOf(rem, i, t) :
                        i \in CanRun(tr, t, rem)})
<1>1. t \in 0..Horizon(tr) /\ rem \in [DOMAIN tr -> 0..Horizon(tr)]
  BY DEF Feasible
<1>2. PICK i \in DOMAIN tr : rem[i] > 0
  BY DEF CanRun
<1>3. t # Horizon(tr)
  BY <1>2, FeasibleBefore
<1>4. rem[i] # 0
  BY <1>2
<1> QED
  BY <1>1, <1>3, <1>4, LeastRestDef

\* In a feasible state the least sum is a natural number.
LEMMA LeastRestType ==
    ASSUME NEW tr \in Traces, NEW t, NEW rem, Feasible(tr, t, rem)
    PROVE  LeastRest(tr)[<<t, rem>>] \in Nat
<1> DEFINE L == LeastRest(tr)
           Rems == [DOMAIN tr -> 0..Horizon(tr)]
           G == {u \in 0..Horizon(tr) : \A r \in Rems : Feasible(tr, u, r) => L[<<u, r>>] \in Nat}
<1>0. Horizon(tr) \in Nat
  BY HorizonType
<1>1. ASSUME NEW u \in 0..Horizon(tr), u + 1 \in 0..Horizon(tr) => u + 1 \in G,
             NEW r \in Rems, Feasible(tr, u, r)
      PROVE  L[<<u, r>>] \in Nat
  <2>1. CASE \A i \in DOMAIN tr : r[i] = 0
    BY <1>1, <2>1, LeastRestDone
  <2>2. CASE \E i \in DOMAIN tr : r[i] # 0
    <3>1. PICK i \in DOMAIN tr : r[i] > 0
      <4>1. \A i \in DOMAIN tr : r[i] \in Nat
        BY <1>0
      <4> QED
        BY <2>2, <4>1
    <3>2. u + 1 \in G
      BY <1>1, <3>1, FeasibleBefore
    <3>3. CASE CanRun(tr, u, r) = {}
      <4>1. Feasible(tr, u + 1, r) /\ L[<<u, r>>] = L[<<u + 1, r>>]
        BY <1>1, <3>1, <3>3, FeasibleWait, LeastRestWait
      <4> QED
        BY <3>2, <4>1
    <3>4. CASE CanRun(tr, u, r) # {}
      <4> DEFINE after(j) == L[<<u + 1, AfterRun(r, j)>>] + EndOf(r, j, u)
                 S == {after(j) : j \in CanRun(tr, u, r)}
      <4>1. L[<<u, r>>] = Min(S)
        BY <1>1, <3>4, LeastRestMin
      <4>2. ASSUME NEW j \in CanRun(tr, u, r) PROVE after(j) \in Nat
        <5>1. Feasible(tr, u + 1, AfterRun(r, j))
          BY <1>1, FeasibleRun DEF CanRun
        <5>2. AfterRun(r, j) \in Rems
          BY <5>1 DEF Feasible
        <5>3. L[<<u + 1, AfterRun(r, j)>>] \in Nat
          BY <3>2, <5>1, <5>2
        <5>4. EndOf(r, j, u) \in Nat
          BY <1>0 DEF EndOf
        <5> HIDE DEF L
        <5> QED
          BY <5>3, <5>4
      <4>3. S \in SUBSET Nat /\ S # {}
        <5> HIDE DEF after
        <5> QED
          BY <3>4, <4>2
      <4>4. Min(S) \in S
        <5> HIDE DEF S
        <5> QED
          BY <4>3, MinIsLeast
      <4> HIDE DEF S
      <4> QED
        BY <4>1, <4>3, <4>4
    <3> QED
      BY <3>3, <3>4
  <2> QED
    BY <2>1, <2>2
<1>2. ASSUME NEW u \in 0..Horizon(tr), u + 1 \in 0..Horizon(tr) => u + 1 \in G
      PROVE  u \in G
  BY <1>1, <1>2
<1>3. 0..Horizon(tr) \subseteq G
  <2> HIDE DEF G
  <2> QED
    BY <1>0, <1>2, Backwards
<1>4. t \in 0..Horizon(tr) /\ rem \in Rems
  BY DEF Feasible
<1> QED
  BY <1>3, <1>4

\* The two uses of the minimum: no choice is better, and one is as good.
LEMMA LeastRestRun ==
    ASSUME NEW tr \in Traces, NEW t, NEW rem, Feasible(tr, t, rem)
    PROVE  /\ \A i \in CanRun(tr, t, rem) :
                  LeastRest(tr)[<<t, rem>>]
                      <= LeastRest(tr)[<<t + 1, AfterRun(rem, i)>>] + EndOf(rem, i, t)
           /\ CanRun(tr, t, rem) # {} =>
                  \E i \in CanRun(tr, t, rem) :
                      LeastRest(tr)[<<t, rem>>]
                          = LeastRest(tr)[<<t + 1, AfterRun(rem, i)>>] + EndOf(rem, i, t)
<1> SUFFICES ASSUME CanRun(tr, t, rem) # {}
             PROVE  /\ \A i \in CanRun(tr, t, rem) :
                           LeastRest(tr)[<<t, rem>>]
                               <= LeastRest(tr)[<<t + 1, AfterRun(rem, i)>>] + EndOf(rem, i, t)
                    /\ \E i \in CanRun(tr, t, rem) :
                           LeastRest(tr)[<<t, rem>>]
                               = LeastRest(tr)[<<t + 1, AfterRun(rem, i)>>] + EndOf(rem, i, t)
  OBVIOUS
<1> DEFINE L == LeastRest(tr)
           after(j) == L[<<t + 1, AfterRun(rem, j)>>] + EndOf(rem, j, t)
           S == {after(j) : j \in CanRun(tr, t, rem)}
<1>1. L[<<t, rem>>] = Min(S)
  BY LeastRestMin
<1>2. ASSUME NEW j \in CanRun(tr, t, rem) PROVE after(j) \in Nat
  <2>1. Feasible(tr, t + 1, AfterRun(rem, j))
    BY FeasibleRun DEF CanRun
  <2>2. L[<<t + 1, AfterRun(rem, j)>>] \in Nat
    BY <2>1, LeastRestType
  <2>3. EndOf(rem, j, t) \in Nat
    BY HorizonType DEF EndOf, Feasible
  <2> HIDE DEF L
  <2> QED
    BY <2>2, <2>3
<1>3. S \in SUBSET Nat /\ S # {}
  <2> HIDE DEF after
  <2> QED
    BY <1>2
<1>4. Min(S) \in S /\ \A y \in S : Min(S) <= y
  <2> HIDE DEF S
  <2> QED
    BY <1>3, MinIsLeast
<1>5. /\ \A i \in CanRun(tr, t, rem) : Min(S) <= after(i)
      /\ \E i \in CanRun(tr, t, rem) : Min(S) = after(i)
  <2> HIDE DEF after
  <2> QED
    BY <1>4
<1> HIDE DEF S
<1> QED
  BY <1>1, <1>5

\* Two rows that have arrived may change places: what matters of a row that
\* has arrived is what is left of it.
Exchanged(r, q, b, i) ==
    /\ q[b] = r[i]
    /\ q[i] = r[b]
    /\ \A j \in DOMAIN r \ {b, i} : q[j] = r[j]

\* So such an exchange of what is left changes no sum (stated as <=; an
\* exchange is its own inverse).
LEMMA LeastRestExchanged ==
    ASSUME NEW tr \in Traces, NEW t, NEW rem, Feasible(tr, t, rem),
           NEW exc, Feasible(tr, t, exc), NEW b \in DOMAIN tr, NEW i \in DOMAIN tr,
           tr[b].arrival <= t, tr[i].arrival <= t, Exchanged(rem, exc, b, i)
    PROVE  LeastRest(tr)[<<t, rem>>] <= LeastRest(tr)[<<t, exc>>]
<1> DEFINE L == LeastRest(tr)
           Rems == [DOMAIN tr -> 0..Horizon(tr)]
           Pair(u, r, q) == /\ Feasible(tr, u, r) /\ Feasible(tr, u, q) /\ Exchanged(r, q, b, i)
                            /\ tr[b].arrival <= u /\ tr[i].arrival <= u
           G == {u \in 0..Horizon(tr) : \A r, q \in Rems : Pair(u, r, q) => L[<<u, r>>] <= L[<<u, q>>]}
<1>0. Horizon(tr) \in Nat /\ \A j \in DOMAIN tr : tr[j].arrival \in Nat
  BY HorizonType, RowTypes
<1>1. ASSUME NEW u \in 0..Horizon(tr), u + 1 \in 0..Horizon(tr) => u + 1 \in G,
             NEW r \in Rems, NEW q \in Rems, Pair(u, r, q)
      PROVE  L[<<u, r>>] <= L[<<u, q>>]
  <2>0. /\ q[b] = r[i] /\ q[i] = r[b] /\ \A j \in DOMAIN tr : j # b /\ j # i => q[j] = r[j]
        /\ tr[b].arrival <= u /\ tr[i].arrival <= u /\ u \in Nat
        /\ \A j \in DOMAIN tr : r[j] \in Nat /\ q[j] \in Nat
    BY <1>0, <1>1 DEF Exchanged
  <2>1. Feasible(tr, u, r) /\ Feasible(tr, u, q)
    BY <1>1
  <2>2. L[<<u, r>>] \in Nat /\ L[<<u, q>>] \in Nat
    BY <2>1, LeastRestType
  <2>3. CASE CanRun(tr, u, q) = {}
    <3>1. \A j \in {b, i} : ~ (q[j] > 0)
      BY <2>0, <2>3 DEF CanRun
    <3>2. q[b] = 0 /\ q[i] = 0
      BY <2>0, <3>1
    <3>3. q = r
      <4>1. \A j \in DOMAIN tr : q[j] = r[j]
        BY <2>0, <3>2
      <4> QED
        BY <4>1
    <3> QED
      BY <2>2, <3>3
  <2>4. CASE CanRun(tr, u, q) # {}
    <3>1. PICK k \in CanRun(tr, u, q) :
              L[<<u, q>>] = L[<<u + 1, AfterRun(q, k)>>] + EndOf(q, k, u)
      BY <2>1, <2>4, LeastRestRun
    <3> DEFINE h == IF k = b THEN i ELSE IF k = i THEN b ELSE k
    <3>2. k \in DOMAIN tr /\ q[k] > 0 /\ tr[k].arrival <= u
      BY DEF CanRun
    <3>3. h \in DOMAIN tr /\ r[h] = q[k] /\ tr[h].arrival <= u
      BY <2>0, <3>2
    <3>4. h \in CanRun(tr, u, r)
      BY <3>2, <3>3 DEF CanRun
    <3>5. Feasible(tr, u + 1, AfterRun(r, h)) /\ Feasible(tr, u + 1, AfterRun(q, k))
      BY <2>1, <3>2, <3>3, FeasibleRun
    <3>6. /\ AfterRun(r, h) \in Rems /\ AfterRun(q, k) \in Rems /\ u + 1 \in 0..Horizon(tr)
      BY <3>5 DEF Feasible
    <3>7. /\ \A j \in DOMAIN tr : AfterRun(r, h)[j] = IF j = h THEN r[j] - 1 ELSE r[j]
          /\ \A j \in DOMAIN tr : AfterRun(q, k)[j] = IF j = k THEN q[j] - 1 ELSE q[j]
      BY DEF AfterRun
    <3>8. Exchanged(AfterRun(r, h), AfterRun(q, k), b, i)
      <4>1. DOMAIN AfterRun(r, h) = DOMAIN tr
        BY <3>6
      <4>2. AfterRun(q, k)[b] = AfterRun(r, h)[i] /\ AfterRun(q, k)[i] = AfterRun(r, h)[b]
        BY <2>0, <3>7
      <4>3. \A j \in DOMAIN tr : j # b /\ j # i => AfterRun(q, k)[j] = AfterRun(r, h)[j]
        BY <2>0, <3>7
      <4> QED
        BY <4>1, <4>2, <4>3 DEF Exchanged
    <3>9. tr[b].arrival <= u + 1 /\ tr[i].arrival <= u + 1
      BY <1>0, <2>0
    <3> HIDE DEF h
    <3>10. L[<<u + 1, AfterRun(r, h)>>] <= L[<<u + 1, AfterRun(q, k)>>]
      BY <1>1, <3>5, <3>6, <3>8, <3>9
    <3>11. L[<<u, r>>] <= L[<<u + 1, AfterRun(r, h)>>] + EndOf(r, h, u)
      BY <2>1, <3>4, LeastRestRun
    <3>12. EndOf(r, h, u) = EndOf(q, k, u) /\ EndOf(q, k, u) \in Nat
      BY <2>0, <3>3 DEF EndOf
    <3>13. L[<<u + 1, AfterRun(r, h)>>] \in Nat /\ L[<<u + 1, AfterRun(q, k)>>] \in Nat
      BY <3>5, LeastRestType
    <3> HIDE DEF L
    <3> QED
      BY <2>2, <3>1, <3>10, <3>11, <3>12, <3>13
  <2> QED
    BY <2>3, <2>4
<1>2. ASSUME NEW u \in 0..Horizon(tr), u + 1 \in 0..Horizon(tr) => u + 1 \in G
      PROVE  u \in G
  <2> HIDE DEF Pair
  <2> QED
    BY <1>1, <1>2
<1>3. 0..Horizon(tr) \subseteq G
  <2> HIDE DEF G
  <2> QED
    BY <1>0, <1>2, Backwards
<1>4. t \in 0..Horizon(tr) /\ rem \in Rems /\ exc \in Rems
  BY DEF Feasible
<1> QED
  BY <1>3, <1>4

\* The exchange argument: of two rows b and i that may run it is never worse
\* to run the one with less left, b.  If i is run and the best that follows
\* runs b next, the two ticks are swapped; if it runs a third row, or i again,
\* the lemma holds of the choice between b and i one tick later.
LEMMA ShorterFirst ==
    ASSUME NEW tr \in Traces, NEW t, NEW rem, Feasible(tr, t, rem),
           NEW b \in CanRun(tr, t, rem), NEW i \in CanRun(tr, t, rem), rem[b] <= rem[i]
    PROVE  LeastRest(tr)[<<t + 1, AfterRun(rem, b)>>] + EndOf(rem, b, t)
               <= LeastRest(tr)[<<t + 1, AfterRun(rem, i)>>] + EndOf(rem, i, t)
<1> DEFINE L == LeastRest(tr)
           Rems == [DOMAIN tr -> 0..Horizon(tr)]
           Both(u, r) == /\ Feasible(tr, u, r) /\ b \in CanRun(tr, u, r) /\ i \in CanRun(tr, u, r)
                         /\ r[b] <= r[i]
           Better(u, r) == L[<<u + 1, AfterRun(r, b)>>] + EndOf(r, b, u)
                               <= L[<<u + 1, AfterRun(r, i)>>] + EndOf(r, i, u)
           G == {u \in 0..Horizon(tr) : \A r \in Rems : Both(u, r) => Better(u, r)}
<1>0. Horizon(tr) \in Nat /\ \A j \in DOMAIN tr : tr[j].arrival \in Nat
  BY HorizonType, RowTypes
<1>1. ASSUME NEW u \in 0..Horizon(tr), u + 1 \in 0..Horizon(tr) => u + 1 \in G,
             NEW r \in Rems, Both(u, r), b # i
      PROVE  Better(u, r)
  <2> DEFINE A == AfterRun(r, i)
             B == AfterRun(r, b)
  <2>0. /\ b \in DOMAIN tr /\ i \in DOMAIN tr /\ u \in Nat
        /\ r[b] \in Nat /\ r[i] \in Nat /\ r[b] > 0 /\ r[i] > 0 /\ r[b] <= r[i]
        /\ tr[b].arrival <= u /\ tr[i].arrival <= u
        /\ tr[b].arrival <= u + 1 /\ tr[i].arrival <= u + 1
        /\ \A j \in DOMAIN tr : r[j] \in Nat
    BY <1>0, <1>1 DEF CanRun
  <2>1. Feasible(tr, u, r) /\ Feasible(tr, u + 1, A) /\ Feasible(tr, u + 1, B)
    BY <1>1, <2>0, FeasibleRun
  <2>2. A \in Rems /\ B \in Rems /\ u + 1 \in 0..Horizon(tr)
    BY <2>1 DEF Feasible
  <2>3. /\ \A j \in DOMAIN tr : A[j] = IF j = i THEN r[j] - 1 ELSE r[j]
        /\ \A j \in DOMAIN tr : B[j] = IF j = b THEN r[j] - 1 ELSE r[j]
    BY DEF AfterRun
  <2>4. L[<<u + 1, A>>] \in Nat /\ L[<<u + 1, B>>] \in Nat
    BY <2>1, LeastRestType
  <2>5. /\ EndOf(r, b, u) = IF r[b] = 1 THEN u + 1 ELSE 0
        /\ EndOf(r, i, u) = IF r[i] = 1 THEN u + 1 ELSE 0
    BY DEF EndOf
  <2>6. b \in CanRun(tr, u + 1, A) /\ i \in CanRun(tr, u + 1, B)
    BY <1>1, <2>0, <2>3 DEF CanRun
  <2> HIDE DEF A, B, L
  <2>7. CASE r[b] = r[i]
    <3>1. Exchanged(B, A, b, i)
      <4>1. DOMAIN B = DOMAIN tr
        BY <2>2
      <4>2. A[b] = B[i] /\ A[i] = B[b]
        BY <1>1, <2>0, <2>3, <2>7
      <4>3. \A j \in DOMAIN tr : j # b /\ j # i => A[j] = B[j]
        BY <2>3
      <4> QED
        BY <4>1, <4>2, <4>3 DEF Exchanged
    <3>2. L[<<u + 1, B>>] <= L[<<u + 1, A>>]
      BY <2>0, <2>1, <3>1, LeastRestExchanged DEF L
    <3>3. L[<<u + 1, B>>] + EndOf(r, b, u) <= L[<<u + 1, A>>] + EndOf(r, i, u)
      BY <2>0, <2>4, <2>5, <2>7, <3>2
    <3> QED
      BY <3>3 DEF A, B
  <2>8. CASE r[b] < r[i]
    <3>1. PICK k \in CanRun(tr, u + 1, A) :
              L[<<u + 1, A>>] = L[<<u + 2, AfterRun(A, k)>>] + EndOf(A, k, u + 1)
      <4>1. u + 1 + 1 = u + 2
        BY <2>0
      <4>2. \E k \in CanRun(tr, u + 1, A) :
                L[<<u + 1, A>>] = L[<<u + 1 + 1, AfterRun(A, k)>>] + EndOf(A, k, u + 1)
        BY <2>1, <2>6, LeastRestRun DEF L
      <4> QED
        BY <4>1, <4>2
    <3>2. k \in DOMAIN tr /\ A[k] > 0 /\ tr[k].arrival <= u + 1
      BY DEF CanRun
    <3>3. Feasible(tr, u + 2, AfterRun(A, k)) /\ L[<<u + 2, AfterRun(A, k)>>] \in Nat
      <4>1. Feasible(tr, u + 1 + 1, AfterRun(A, k)) /\ u + 1 + 1 = u + 2
        BY <2>0, <2>1, <3>2, FeasibleRun
      <4> QED
        BY <4>1, LeastRestType DEF L
    <3>4. ASSUME NEW j \in CanRun(tr, u + 1, B)
          PROVE  L[<<u + 1, B>>] <= L[<<u + 2, AfterRun(B, j)>>] + EndOf(B, j, u + 1)
      <4>1. u + 1 + 1 = u + 2
        BY <2>0
      <4>2. L[<<u + 1, B>>] <= L[<<u + 1 + 1, AfterRun(B, j)>>] + EndOf(B, j, u + 1)
        BY <2>1, LeastRestRun DEF L
      <4> QED
        BY <4>1, <4>2
    <3>5. AfterRun(A, b) = AfterRun(B, i)
      <4>1. \A j \in DOMAIN tr : AfterRun(A, b)[j] = AfterRun(B, i)[j]
        BY <1>1, <2>2, <2>3 DEF AfterRun
      <4>2. AfterRun(A, b) \in [DOMAIN tr -> Int] /\ AfterRun(B, i) \in [DOMAIN tr -> Int]
        BY <1>0, <2>2, <2>0 DEF AfterRun
      <4> QED
        BY <4>1, <4>2
    <3>6. CASE k = b
      <4>1. L[<<u + 1, B>>] <= L[<<u + 2, AfterRun(A, b)>>] + EndOf(B, i, u + 1)
        BY <2>6, <3>4, <3>5
      <4>2. /\ EndOf(A, b, u + 1) = IF r[b] = 1 THEN u + 2 ELSE 0
            /\ EndOf(B, i, u + 1) = IF r[i] = 1 THEN u + 2 ELSE 0
        BY <1>1, <2>0, <2>3 DEF EndOf
      <4>3. L[<<u + 1, B>>] + EndOf(r, b, u) <= L[<<u + 1, A>>] + EndOf(r, i, u)
        BY <2>0, <2>4, <2>5, <2>8, <3>1, <3>3, <3>6, <4>1, <4>2
      <4> QED
        BY <4>3 DEF A, B
    <3>7. CASE k = i
      <4>1. A[i] = r[i] - 1 /\ A[b] = r[b] /\ A[b] <= A[i]
        BY <1>1, <2>0, <2>3, <2>8
      <4>2. Both(u + 1, A)
        BY <2>1, <2>6, <3>1, <3>7, <4>1
      <4>3. Better(u + 1, A)
        BY <1>1, <2>2, <4>2
      <4>4. L[<<u + 2, AfterRun(A, b)>>] + EndOf(A, b, u + 1)
                <= L[<<u + 2, AfterRun(A, i)>>] + EndOf(A, i, u + 1)
        <5>1. u + 1 + 1 = u + 2
          BY <2>0
        <5> QED
          BY <4>3, <5>1
      <4>5. L[<<u + 1, B>>] <= L[<<u + 2, AfterRun(A, b)>>] + EndOf(B, i, u + 1)
        BY <2>6, <3>4, <3>5
      <4>6. /\ EndOf(A, b, u + 1) = IF r[b] = 1 THEN u + 2 ELSE 0
            /\ EndOf(B, i, u + 1) = 0
        BY <1>1, <2>0, <2>3, <2>8 DEF EndOf
      <4>7. L[<<u + 2, AfterRun(A, b)>>] \in Nat
        <5>1. Feasible(tr, u + 1 + 1, AfterRun(A, b)) /\ u + 1 + 1 = u + 2
          BY <2>0, <2>1, <4>1, FeasibleRun
        <5> QED
          BY <5>1, LeastRestType DEF L
      <4>8. L[<<u + 1, B>>] + EndOf(r, b, u) <= L[<<u + 1, A>>] + EndOf(r, i, u)
        BY <2>0, <2>4, <2>5, <2>8, <3>1, <3>7, <4>4, <4>5, <4>6, <4>7
      <4> QED
        BY <4>8 DEF A, B
    <3>8. CASE k # b /\ k # i
      <4> DEFINE C == AfterRun(r, k)
      <4>1. A[k] = r[k] /\ B[k] = r[k] /\ r[k] > 0
        BY <2>3, <3>2, <3>8
      <4>2. \A j \in DOMAIN tr : C[j] = IF j = k THEN r[j] - 1 ELSE r[j]
        BY DEF AfterRun
      <4>3. Feasible(tr, u + 1, C) /\ C \in Rems
        BY <2>1, <3>2, <4>1, FeasibleRun DEF Feasible
      <4> HIDE DEF C
      <4>4. C[b] = r[b] /\ C[i] = r[i]
        BY <2>0, <3>8, <4>2
      <4>5. b \in CanRun(tr, u + 1, C) /\ i \in CanRun(tr, u + 1, C)
        BY <2>0, <4>4 DEF CanRun
      <4>6. Both(u + 1, C)
        BY <2>0, <4>3, <4>4, <4>5
      <4>7. Better(u + 1, C)
        BY <1>1, <2>2, <4>3, <4>6
      <4>8. AfterRun(C, b) = AfterRun(B, k) /\ AfterRun(C, i) = AfterRun(A, k)
        <5>1. /\ \A j \in DOMAIN tr : AfterRun(C, b)[j] = AfterRun(B, k)[j]
              /\ \A j \in DOMAIN tr : AfterRun(C, i)[j] = AfterRun(A, k)[j]
          BY <2>2, <2>3, <3>8, <4>2, <4>3 DEF AfterRun
        <5>2. /\ AfterRun(C, b) \in [DOMAIN tr -> Int] /\ AfterRun(B, k) \in [DOMAIN tr -> Int]
              /\ AfterRun(C, i) \in [DOMAIN tr -> Int] /\ AfterRun(A, k) \in [DOMAIN tr -> Int]
          BY <1>0, <2>0, <2>2, <3>2, <4>3 DEF AfterRun
        <5> QED
          BY <5>1, <5>2
      <4>9. L[<<u + 2, AfterRun(B, k)>>] + EndOf(C, b, u + 1)
                <= L[<<u + 2, AfterRun(A, k)>>] + EndOf(C, i, u + 1)
        <5>1. u + 1 + 1 = u + 2
          BY <2>0
        <5> QED
          BY <4>7, <4>8, <5>1
      <4>10. k \in CanRun(tr, u + 1, B)
        BY <3>2, <4>1 DEF CanRun
      <4>11. L[<<u + 1, B>>] <= L[<<u + 2, AfterRun(B, k)>>] + EndOf(B, k, u + 1)
        BY <3>4, <4>10
      <4>12. /\ EndOf(C, b, u + 1) = IF r[b] = 1 THEN u + 2 ELSE 0
             /\ EndOf(C, i, u + 1) = IF r[i] = 1 THEN u + 2 ELSE 0
             /\ EndOf(B, k, u + 1) = EndOf(A, k, u + 1) /\ EndOf(A, k, u + 1) \in Nat
        BY <2>0, <4>1, <4>4 DEF EndOf
      <4>13. L[<<u + 2, AfterRun(B, k)>>] \in Nat
        <5>1. Feasible(tr, u + 1 + 1, AfterRun(B, k)) /\ u + 1 + 1 = u + 2
          BY <2>0, <2>1, <3>2, <4>1, FeasibleRun
        <5> QED
          BY <5>1, LeastRestType DEF L
      <4>14. L[<<u + 1, B>>] + EndOf(r, b, u) <= L[<<u + 1, A>>] + EndOf(r, i, u)
        BY <2>0, <2>4, <2>5, <2>8, <3>1, <3>3, <4>9, <4>11, <4>12, <4>13
      <4> QED
        BY <4>14 DEF A, B
    <3> QED
      BY <3>6, <3>7, <3>8
  <2> QED
    BY <2>0, <2>7, <2>8
<1>2. ASSUME NEW u \in 0..Horizon(tr), u + 1 \in 0..Horizon(tr) => u + 1 \in G
      PROVE  u \in G
  <2>1. ASSUME NEW r \in Rems, Both(u, r) PROVE Better(u, r)
    <3>1. CASE b = i
      <4>1. Feasible(tr, u + 1, AfterRun(r, b))
        BY <2>1, FeasibleRun DEF CanRun
      <4>2. L[<<u + 1, AfterRun(r, b)>>] \in Nat
        BY <4>1, LeastRestType
      <4>3. EndOf(r, b, u) \in Nat
        BY <1>0 DEF EndOf
      <4> HIDE DEF L
      <4> QED
        BY <3>1, <4>2, <4>3
    <3>2. CASE b # i
      <4> HIDE DEF Both, Better, G, Rems
      <4> QED
        BY <1>1, <1>2, <2>1, <3>2
    <3> QED
      BY <3>1, <3>2
  <2> HIDE DEF Both, Better
  <2> QED
    BY <2>1
<1>3. 0..Horizon(tr) \subseteq G
  <2> HIDE DEF G
  <2> QED
    BY <1>0, <1>2, Backwards
<1>4. t \in 0..Horizon(tr) /\ rem \in Rems
  BY DEF Feasible
<1> QED
  BY <1>3, <1>4

-----------------------------------------------------------------------------
\* Two families of summands that agree on a set have the same sum there.
LEMMA TotalSame ==
    ASSUME NEW U, IsFiniteSet(U), NEW f, NEW g, NEW s \in SUBSET U, \A y \in s : g[y] = f[y]
    PROVE  TotalOf(g, U)[s] = TotalOf(f, U)[s]
<1> DEFINE F == TotalOf(f, U)
           H == TotalOf(g, U)
           G == {r \in SUBSET U : (\A y \in r : g[y] = f[y]) => H[r] = F[r]}
<1>1. /\ F[{}] = 0
      /\ \A r \in SUBSET U : r # {} => First(r) \in r /\ F[r] = f[First(r)] + F[r \ {First(r)}]
  BY TotalDef
<1>2. /\ H[{}] = 0
      /\ \A r \in SUBSET U : r # {} => First(r) \in r /\ H[r] = g[First(r)] + H[r \ {First(r)}]
  BY TotalDef
<1> HIDE DEF F, H
<1>3. ASSUME NEW r \in SUBSET U, \A x \in r : r \ {x} \in G, \A y \in r : g[y] = f[y]
      PROVE  H[r] = F[r]
  <2>1. CASE r = {}
    BY <1>1, <1>2, <2>1
  <2>2. CASE r # {}
    <3>1. First(r) \in r /\ r \ {First(r)} \in G
      BY <1>1, <1>3, <2>2
    <3>2. H[r \ {First(r)}] = F[r \ {First(r)}] /\ g[First(r)] = f[First(r)]
      BY <1>3, <3>1
    <3> QED
      BY <1>1, <1>2, <2>2, <3>2
  <2> QED
    BY <2>1, <2>2
<1>4. SUBSET U \subseteq G
  <2>1. \A r \in SUBSET U : (\A x \in r : r \ {x} \in G) => r \in G
    BY <1>3
  <2> HIDE DEF G
  <2> QED
    BY <2>1, SubsetInduction
<1> QED
  BY <1>4 DEF F, H

\* One summand changes, and the sum by the difference.
LEMMA TotalUpdate ==
    ASSUME NEW U, IsFiniteSet(U), NEW f \in [U -> Int], NEW g \in [U -> Int], NEW x \in U,
           \A y \in U : y # x => g[y] = f[y]
    PROVE  TotalOf(g, U)[U] = TotalOf(f, U)[U] - f[x] + g[x]
<1> DEFINE s == U \ {x}
<1>1. s \in SUBSET U /\ x \notin s /\ s \cup {x} = U /\ \A y \in s : g[y] = f[y]
  OBVIOUS
<1> HIDE DEF s
<1>2. \A r \in SUBSET U : \A z \in U :
          z \notin r => TotalOf(f, U)[r \cup {z}] = f[z] + TotalOf(f, U)[r]
  BY TotalAdd, Zenon
<1>3. \A r \in SUBSET U : \A z \in U :
          z \notin r => TotalOf(g, U)[r \cup {z}] = g[z] + TotalOf(g, U)[r]
  BY TotalAdd, Zenon
<1>4. TotalOf(f, U)[U] = f[x] + TotalOf(f, U)[s] /\ TotalOf(g, U)[U] = g[x] + TotalOf(g, U)[s]
  BY <1>1, <1>2, <1>3
<1>5. TotalOf(g, U)[s] = TotalOf(f, U)[s]
  BY <1>1, TotalSame
<1>6. \A r \in SUBSET U : TotalOf(f, U)[r] \in Int
  BY TotalType
<1>7. TotalOf(f, U)[s] \in Int /\ f[x] \in Int /\ g[x] \in Int
  BY <1>1, <1>6
<1> QED
  BY <1>4, <1>5, <1>7

\* What the processes that are done add to the sum of completion ticks.
Ended == [i \in Procs |-> IF remaining[i] = 0 THEN completion[i] ELSE 0]
SumSoFar == TotalOf(Ended, Procs)[Procs]
Rest == LeastRest(trace)[<<Now, remaining>>]

\* Types of what is spent and of what it is a sum over.
LEMMA SumSoFarType ==
    ASSUME TypeInv
    PROVE  /\ IsFiniteSet(Procs) /\ Ended \in [Procs -> Int] /\ SumSoFar \in Int
           /\ trace \in Traces /\ tick \in Nat /\ remaining \in [Procs -> Nat]
<1>1. /\ Procs = 1..Len(trace) /\ Len(trace) \in Nat /\ trace \in Traces /\ tick \in Nat
      /\ remaining \in [Procs -> Nat] /\ completion \in [Procs -> Nat \cup {NOT_STARTED}]
  BY RowTypes, EngineAssumption DEF TypeInv, TypeOK, Procs
<1>2. IsFiniteSet(Procs)
  BY <1>1, FirstN
<1>3. Ended \in [Procs -> Int]
  BY <1>1 DEF Ended, NOT_STARTED
<1>4. \A r \in SUBSET Procs : TotalOf(Ended, Procs)[r] \in Int
  BY <1>2, <1>3, TotalType
<1> QED
  BY <1>1, <1>2, <1>3, <1>4 DEF SumSoFar

\* The same in the next state.
LEMMA EndedTypeNext == (TypeInv => Ended \in [Procs -> Int])'
<1>1. TypeInv => Ended \in [Procs -> Int]
  BY SumSoFarType
<1> QED
  BY <1>1, PTL

\* A step of the engine under the contract is one of a schedule that is never
\* idle needlessly, or none of its business.
LEMMA ScheduleStep ==
    ASSUME MetricsInv, IdleInv, [WCNext]_vars
    PROVE  /\ trace' = trace
           /\ \/ Now' = Now /\ remaining' = remaining /\ SumSoFar' = SumSoFar
              \/ /\ Now' = Now + 1 /\ remaining' = remaining /\ SumSoFar' = SumSoFar
                 /\ CanRun(trace, Now, remaining) = {} /\ \E i \in Procs : remaining[i] > 0
              \/ /\ phase = "execute" /\ Now = tick /\ next \in CanRun(trace, Now, remaining)
                 /\ Now' = Now + 1 /\ remaining' = AfterRun(remaining, next)
                 /\ SumSoFar' = SumSoFar + EndOf(remaining, next, Now)
<1>0. /\ TypeInv /\ trace' = trace /\ Procs' = Procs /\ tick \in Nat
      /\ remaining \in [Procs -> Nat]
  BY WCNextIsNext, TraceStep, SumSoFarType DEF MetricsInv, Procs
<1>1. ASSUME UNCHANGED <<remaining, completion>> PROVE SumSoFar' = SumSoFar
  <2>1. Ended' = Ended
    BY <1>0, <1>1 DEF Ended
  <2> QED
    BY <1>0, <2>1 DEF SumSoFar
<1>2. CanRun(trace, tick, remaining) = Ready
  BY DEF CanRun, Ready, Procs
<1>3. CASE LoopTest \/ (\E i \in Procs : Admit(i)) \/ UNCHANGED vars
  BY <1>0, <1>1, <1>3 DEF LoopTest, Admit, vars, table, Now
<1>4. ASSUME NEW pid \in AllowedAnswers, Pick(pid)
      PROVE  \/ Now' = Now /\ remaining' = remaining /\ SumSoFar' = SumSoFar
             \/ /\ Now' = Now + 1 /\ remaining' = remaining /\ SumSoFar' = SumSoFar
                /\ CanRun(trace, Now, remaining) = {} /\ \E i \in Procs : remaining[i] > 0
  <2>1. /\ phase = "admit" /\ tick' = tick /\ UNCHANGED <<remaining, completion>>
        /\ phase' = IF pid = IDLE THEN "tick_end" ELSE IF pid \in Ready THEN "execute" ELSE "error"
        /\ Now = tick
    BY <1>4 DEF Pick, table, Now
  <2>2. CASE pid = IDLE
    <3>1. Ready = {}
      BY <2>2, ProcsArePositive DEF AllowedAnswers, Ready, MetricsInv, TypeInv, TypeOK
    <3>2. \E i \in Procs : remaining[i] > 0
      BY <2>1, SomeoneHasWork DEF IdleInv
    <3> QED
      BY <1>0, <1>1, <1>2, <2>1, <2>2, <3>1, <3>2 DEF Now
  <2>3. CASE pid # IDLE
    BY <1>1, <2>1, <2>3 DEF Now
  <2> QED
    BY <2>2, <2>3
<1>5. CASE Execute
  <2>1. /\ phase = "execute" /\ phase' = "tick_end" /\ tick' = tick /\ next \in Ready
        /\ Now = tick /\ Now' = tick + 1 /\ next \in Procs /\ remaining[next] > 0
    BY <1>0, <1>5 DEF Execute, TypeInv, PhaseInv, Now, Ready
  <2>2. remaining' = AfterRun(remaining, next)
    BY <1>5 DEF Execute, AfterRun
  <2>3. completion' = IF remaining[next] = 1 THEN [completion EXCEPT ![next] = tick + 1]
                      ELSE completion
    BY <1>5 DEF Execute, Finishing, StampOf
  <2>4. /\ IsFiniteSet(Procs) /\ Ended \in [Procs -> Int] /\ Ended' \in [Procs -> Int]
        /\ SumSoFar \in Int
    <3>1. TypeInv'
      BY WCNextIsNext, TypeInvStep DEF MetricsInv
    <3> QED
      BY <1>0, <3>1, EndedTypeNext, SumSoFarType
  <2>5. /\ remaining'[next] = remaining[next] - 1
        /\ \A i \in Procs : i # next => remaining'[i] = remaining[i]
    BY <1>0, <2>1, <2>2 DEF AfterRun
  <2>6. completion \in [Procs -> Nat \cup {NOT_STARTED}]
    BY <1>0 DEF TypeInv, TypeOK
  <2>7. Ended' = [i \in Procs |-> IF remaining'[i] = 0 THEN completion'[i] ELSE 0]
    BY <1>0 DEF Ended
  <2>8. Ended'[next] = EndOf(remaining, next, tick)
    <3>1. remaining[next] \in Nat
      BY <1>0, <2>1
    <3>2. CASE remaining[next] = 1
      <4>1. remaining'[next] = 0 /\ completion'[next] = tick + 1
        BY <2>1, <2>3, <2>5, <2>6, <3>2
      <4> QED
        BY <2>1, <2>7, <3>2, <4>1 DEF EndOf
    <3>3. CASE remaining[next] # 1
      <4>1. remaining'[next] # 0
        BY <2>1, <2>5, <3>1, <3>3
      <4> QED
        BY <2>1, <2>7, <3>3, <4>1 DEF EndOf
    <3> QED
      BY <3>2, <3>3
  <2>8a. Ended[next] = 0
    BY <2>1 DEF Ended
  <2>9. \A i \in Procs : i # next => Ended'[i] = Ended[i]
    BY <2>1, <2>3, <2>5, <2>6, <2>7 DEF Ended
  <2>10. TotalOf(Ended', Procs)[Procs] = TotalOf(Ended, Procs)[Procs] - Ended[next] + Ended'[next]
    BY <2>1, <2>4, <2>9, TotalUpdate
  <2>11. SumSoFar' = SumSoFar - Ended[next] + Ended'[next]
    BY <1>0, <2>10 DEF SumSoFar
  <2>12. SumSoFar' = SumSoFar + EndOf(remaining, next, Now)
    <3>1. EndOf(remaining, next, tick) \in Int
      BY <1>0 DEF EndOf
    <3> QED
      BY <2>1, <2>4, <2>8, <2>8a, <2>11, <3>1
  <2> QED
    BY <1>0, <1>2, <2>1, <2>2, <2>12
<1>6. CASE EndTick
  BY <1>0, <1>1, <1>6 DEF EndTick, table, Now
<1> QED
  BY <1>0, <1>3, <1>4, <1>5, <1>6 DEF WCNext, Halt

-----------------------------------------------------------------------------
\* What is left of the work can be done before the horizon.
FeasInv == Feasible(trace, Now, remaining)

\* The process that runs is one of those with the least left to run.
ShortestRuns == phase = "execute" => \A j \in Ready : remaining[next] <= remaining[j]

\* Under the contract the least sum still within reach never falls, and it
\* stays the same as long as one of the shortest runs.
LEMMA CostStep ==
    ASSUME MetricsInv, IdleInv, FeasInv, [WCNext]_vars
    PROVE  /\ FeasInv' /\ LeastSum(trace)' = LeastSum(trace)
           /\ SumSoFar + Rest <= (SumSoFar + Rest)'
           /\ ShortestRuns => (SumSoFar + Rest)' = SumSoFar + Rest
<1>0. /\ trace \in Traces /\ trace' = trace /\ tick \in Nat /\ SumSoFar \in Int
      /\ Procs = DOMAIN trace /\ Now \in Nat
      /\ Feasible(trace, Now, remaining)
  <2>1. TypeInv /\ [Next]_vars
    BY WCNextIsNext DEF MetricsInv
  <2>2. Procs = DOMAIN trace
    BY DEF Procs
  <2> QED
    BY <2>1, <2>2, SumSoFarType, TraceStep DEF Now, FeasInv
<1> DEFINE L == LeastRest(trace)
<1>1. Rest = L[<<Now, remaining>>] /\ Rest' = L[<<Now', remaining'>>]
  BY <1>0 DEF Rest
<1>2. LeastSum(trace)' = LeastSum(trace)
  BY <1>0
<1>3. FeasInv' <=> Feasible(trace, Now', remaining')
  BY <1>0 DEF FeasInv
<1>4. L[<<Now, remaining>>] \in Nat
  BY <1>0, LeastRestType
<1>5. CASE Now' = Now /\ remaining' = remaining /\ SumSoFar' = SumSoFar
  <2>1. FeasInv'
    BY <1>0, <1>3, <1>5
  <2>2. Rest' = Rest /\ Rest \in Nat
    BY <1>1, <1>4, <1>5
  <2> QED
    BY <1>0, <1>2, <1>5, <2>1, <2>2
<1>6. CASE /\ Now' = Now + 1 /\ remaining' = remaining /\ SumSoFar' = SumSoFar
           /\ CanRun(trace, Now, remaining) = {} /\ \E i \in Procs : remaining[i] > 0
  <2>1. PICK i \in DOMAIN trace : remaining[i] > 0
    BY <1>0, <1>6
  <2>2. Feasible(trace, Now + 1, remaining) /\ L[<<Now, remaining>>] = L[<<Now + 1, remaining>>]
    BY <1>0, <1>6, <2>1, FeasibleWait, LeastRestWait
  <2>3. FeasInv'
    BY <1>3, <1>6, <2>2
  <2>4. Rest' = Rest /\ Rest \in Nat
    BY <1>1, <1>4, <1>6, <2>2
  <2> QED
    BY <1>0, <1>2, <1>6, <2>3, <2>4
<1>7. CASE /\ phase = "execute" /\ Now = tick /\ next \in CanRun(trace, Now, remaining)
           /\ Now' = Now + 1 /\ remaining' = AfterRun(remaining, next)
           /\ SumSoFar' = SumSoFar + EndOf(remaining, next, Now)
  <2> DEFINE after(i) == L[<<Now + 1, AfterRun(remaining, i)>>]
             value(i) == after(i) + EndOf(remaining, i, Now)
  <2>1. next \in DOMAIN trace /\ remaining[next] > 0
    BY <1>7 DEF CanRun
  <2>2. Feasible(trace, Now + 1, AfterRun(remaining, next))
    BY <1>0, <2>1, FeasibleRun
  <2>3. FeasInv'
    BY <1>3, <1>7, <2>2
  <2>4. after(next) \in Nat /\ EndOf(remaining, next, Now) \in Int
    <3>1. after(next) \in Nat
      BY <1>0, <2>2, LeastRestType
    <3>2. EndOf(remaining, next, Now) \in Int
      BY <1>0 DEF EndOf
    <3> QED
      BY <3>1, <3>2
  <2>5. Rest' = after(next)
    BY <1>1, <1>7
  <2>6. Rest <= value(next)
    BY <1>0, <1>1, <1>7, LeastRestRun
  <2>7. (SumSoFar + Rest)' = SumSoFar + value(next)
    <3> HIDE DEF after, L
    <3> QED
      BY <1>0, <1>7, <2>4, <2>5
  <2>8. ASSUME ShortestRuns PROVE Rest = value(next)
    <3>1. CanRun(trace, Now, remaining) = Ready
      BY <1>0, <1>7 DEF CanRun, Ready
    <3>2. PICK i \in CanRun(trace, Now, remaining) : Rest = value(i)
      BY <1>0, <1>1, <1>7, LeastRestRun
    <3>3. remaining[next] <= remaining[i]
      BY <1>7, <2>8, <3>1, <3>2 DEF ShortestRuns
    <3>4. value(next) <= value(i)
      BY <1>0, <1>7, <3>2, <3>3, ShorterFirst
    <3>5. value(next) \in Int /\ Rest \in Int
      <4> HIDE DEF after, L
      <4> QED
        BY <1>1, <1>4, <2>4
    <3> HIDE DEF value
    <3> QED
      BY <2>6, <3>2, <3>4, <3>5
  <2>9. Rest \in Int /\ value(next) \in Int
    <3> HIDE DEF after, L
    <3> QED
      BY <1>1, <1>4, <2>4
  <2>10. SumSoFar + Rest <= (SumSoFar + Rest)'
    <3> HIDE DEF value
    <3> QED
      BY <1>0, <2>6, <2>7, <2>9
  <2>11. ShortestRuns => (SumSoFar + Rest)' = SumSoFar + Rest
    BY <2>7, <2>8
  <2> QED
    BY <1>2, <2>3, <2>10, <2>11
<1> QED
  BY <1>5, <1>6, <1>7, ScheduleStep

\* Costs are integers.
LEMMA CostType ==
    ASSUME MetricsInv, FeasInv
    PROVE  LeastSum(trace) \in Int /\ SumSoFar + Rest \in Int
<1>1. SumSoFar \in Int /\ trace \in Traces
  BY SumSoFarType DEF MetricsInv
<1>2. Rest \in Nat
  BY <1>1, LeastRestType DEF FeasInv, Rest
<1>3. LeastSum(trace) \in Nat
  BY <1>1, FeasibleStart, LeastRestType DEF LeastSum
<1> QED
  BY <1>1, <1>2, <1>3

\* The same in the next state.
LEMMA CostTypeNext ==
    (MetricsInv /\ FeasInv => LeastSum(trace) \in Int /\ SumSoFar + Rest \in Int)'
<1>1. MetricsInv /\ FeasInv => LeastSum(trace) \in Int /\ SumSoFar + Rest \in Int
  BY CostType
<1> QED
  BY <1>1, PTL

\* Before anything has run, nothing is spent and the whole is within reach.
LEMMA CostInit == Init => FeasInv /\ SumSoFar + Rest = LeastSum(trace)
<1> SUFFICES ASSUME Init PROVE FeasInv /\ SumSoFar + Rest = LeastSum(trace)
  OBVIOUS
<1>1. TypeInv /\ trace \in Traces /\ Now = 0
      /\ remaining = [i \in DOMAIN trace |-> trace[i].burst]
  BY TypeInvInit DEF Init, Now, Procs
<1>2. FeasInv
  BY <1>1, FeasibleStart DEF FeasInv
<1>3. Rest = LeastSum(trace)
  BY <1>1 DEF Rest, LeastSum
<1>4. \A i \in Procs : Ended[i] = 0
  <2>1. \A i \in Procs : remaining[i] # 0
    BY <1>1, RowTypes DEF Procs
  <2> QED
    BY <2>1 DEF Ended
<1>5. SumSoFar = 0
  <2>1. IsFiniteSet(Procs)
    BY <1>1, SumSoFarType
  <2> DEFINE G == {s \in SUBSET Procs : TotalOf(Ended, Procs)[s] = 0}
             F == TotalOf(Ended, Procs)
  <2>2. /\ F[{}] = 0
        /\ \A s \in SUBSET Procs :
               s # {} => First(s) \in s /\ F[s] = Ended[First(s)] + F[s \ {First(s)}]
    BY <2>1, TotalDef
  <2>3. ASSUME NEW s \in SUBSET Procs, \A x \in s : s \ {x} \in G PROVE F[s] = 0
    <3>1. CASE s = {}
      BY <2>2, <3>1
    <3>2. CASE s # {}
      <4>1. First(s) \in s /\ F[s] = Ended[First(s)] + F[s \ {First(s)}]
        BY <2>2, <3>2
      <4>2. F[s \ {First(s)}] = 0 /\ Ended[First(s)] = 0
        BY <1>4, <2>3, <4>1
      <4> HIDE DEF F
      <4> QED
        BY <4>1, <4>2
    <3> QED
      BY <3>1, <3>2
  <2>4. SUBSET Procs \subseteq G
    <3>1. \A s \in SUBSET Procs : (\A x \in s : s \ {x} \in G) => s \in G
      BY <2>3
    <3> HIDE DEF G
    <3> QED
      BY <2>1, <3>1, SubsetInduction
  <2> QED
    BY <2>4 DEF SumSoFar
<1>6. Rest \in Nat
  BY <1>1, <1>2, LeastRestType DEF FeasInv, Rest
<1> QED
  BY <1>2, <1>3, <1>5, <1>6

\* The fold of Metrics as the recursive sum.
LEMMA SumOfCompletions ==
    sum_completion = TotalOf([i \in Procs |-> completion[i]], Procs)[Procs]
<1> DEFINE end(i) == completion[i]
           f == [i \in Procs |-> end(i)]
           F(total) == [s \in SUBSET Procs |->
                            IF s = {} THEN 0 ELSE f[First(s)] + total[s \ {First(s)}]]
           G(total) == [s \in SUBSET Procs |->
                            IF s = {} THEN 0
                            ELSE end(CHOOSE x \in s : TRUE) + total[s \ {CHOOSE x \in s : TRUE}]]
<1>1. ASSUME NEW total PROVE F(total) = G(total)
  BY DEF First
<1>2. TotalOf(f, Procs)[Procs] = (CHOOSE total : total = F(total))[Procs]
  BY DEF TotalOf
<1>3. sum_completion = (CHOOSE total : total = G(total))[Procs]
  BY DEF sum_completion, SumOver, MapThenSumSet, MapThenFoldSet
<1>4. (CHOOSE total : total = F(total)) = (CHOOSE total : total = G(total))
  <2> HIDE DEF F, G
  <2> QED
    BY <1>1
<1> QED
  BY <1>2, <1>3, <1>4

\* When the run has ended well nothing is left to pay.
LEMMA CostEnd ==
    ASSUME MetricsInv, FeasInv, phase = "ok"
    PROVE  SumSoFar + Rest = sum_completion
<1>1. /\ TypeInv /\ completed >= Len(trace) /\ Procs = DOMAIN trace
      /\ Procs = 1..Len(trace) /\ Len(trace) \in Nat /\ trace \in Traces
      /\ completed = Cardinality({i \in Procs : remaining[i] = 0})
  BY RowTypes DEF MetricsInv, WorkInv, Accounting, TypeInv, TypeOK, Procs
<1>2. \A i \in Procs : remaining[i] = 0
  <2>1. IsFiniteSet(Procs) /\ Cardinality(Procs) = Len(trace)
    BY <1>1, FirstN
  <2> DEFINE S == {i \in Procs : remaining[i] = 0}
  <2>2. S \in SUBSET Procs /\ Cardinality(S) = completed
    BY <1>1
  <2>3. S = Procs
    <3> HIDE DEF S
    <3>1. Cardinality(S) <= Cardinality(Procs) /\ (Cardinality(S) = Cardinality(Procs) => S = Procs)
      BY <2>1, <2>2, FS_Subset
    <3>2. Cardinality(S) \in Nat
      BY <2>1, <2>2, FS_Subset, FS_CardinalityType
    <3> QED
      BY <1>1, <2>1, <2>2, <3>1, <3>2
  <2> QED
    BY <2>3
<1>3. Rest = 0
  <2>1. Feasible(trace, Now, remaining) /\ \A i \in DOMAIN trace : remaining[i] = 0
    BY <1>1, <1>2 DEF FeasInv
  <2> QED
    BY <1>1, <2>1, LeastRestDone DEF Rest
<1>4. Ended = [i \in Procs |-> completion[i]]
  BY <1>2 DEF Ended
<1>5. SumSoFar = sum_completion
  BY <1>4, SumOfCompletions DEF SumSoFar
<1>6. SumSoFar \in Int
  BY <1>1, SumSoFarType
<1> QED
  BY <1>3, <1>5, <1>6

-----------------------------------------------------------------------------
\* No scheduler that keeps the contract of sched.h, whatever it answers, ends
\* a run with a smaller sum of completion ticks, hence of waiting times, than
\* the least one: the bound that LeastWaiting says srtf.c and sjf.c reach.
THEOREM NobodyWaitsLess ==
    WCSafety => [](phase = "ok" => LeastSum(trace) <= sum_completion)
<1> DEFINE I == MetricsInv /\ IdleInv /\ FeasInv /\ LeastSum(trace) <= SumSoFar + Rest
<1>1. Init => I
  <2> SUFFICES ASSUME Init PROVE I
    OBVIOUS
  <2>1. MetricsInv /\ IdleInv
    BY TypeInvInit, AccountingInit, WindowInit, WorkInit DEF MetricsInv, IdleInv, Init
  <2>2. FeasInv /\ SumSoFar + Rest = LeastSum(trace)
    BY CostInit
  <2>3. SumSoFar + Rest \in Int
    <3>1. SumSoFar \in Int /\ trace \in Traces
      BY <2>1, SumSoFarType DEF MetricsInv
    <3>2. Rest \in Nat
      BY <2>2, <3>1, LeastRestType DEF FeasInv, Rest
    <3> QED
      BY <3>1, <3>2
  <2> QED
    BY <2>1, <2>2, <2>3
<1>2. I /\ [WCNext]_vars => I'
  <2> SUFFICES ASSUME I, [WCNext]_vars PROVE I'
    OBVIOUS
  <2>1. MetricsInv'
    BY WCNextIsNext, TypeInvStep, AccountingStep, WindowStep, WorkStep DEF MetricsInv
  <2>2. IdleInv'
    BY IdleStep
  <2>3. FeasInv' /\ LeastSum(trace)' = LeastSum(trace) /\ SumSoFar + Rest <= (SumSoFar + Rest)'
    BY CostStep
  <2>4. LeastSum(trace) \in Int /\ SumSoFar + Rest \in Int /\ (SumSoFar + Rest)' \in Int
    BY <2>1, <2>3, CostType, CostTypeNext
  <2>5. LeastSum(trace)' <= (SumSoFar + Rest)'
    BY <2>3, <2>4
  <2> QED
    BY <2>1, <2>2, <2>3, <2>5
<1>3. I => (phase = "ok" => LeastSum(trace) <= sum_completion)
  BY CostEnd
<1> QED
  BY <1>1, <1>2, <1>3, PTL DEF WCSafety

-----------------------------------------------------------------------------
AllAtZero == \A i \in Procs : trace[i].arrival = 0

\* SJF with everything there at tick 0: nobody but the process on the CPU has
\* run and not finished, and that one has the least burst of those not done.
ShortestJobInv ==
    algo = "sjf" /\ AllAtZero =>
        \A i \in Procs : remaining[i] > 0 =>
            /\ i # running => remaining[i] = trace[i].burst
            /\ running # IDLE => trace[running].burst <= trace[i].burst

\* SJF without arrivals keeps its invariant: only a pick chooses anew.
LEMMA ShortestJobStep ==
    ScanHistoryInv /\ ShortestJobInv /\ [ScanNext]_ScanVars => ShortestJobInv'
<1> SUFFICES ASSUME ScanHistoryInv, ShortestJobInv, [ScanNext]_ScanVars,
                    algo' = "sjf", AllAtZero', NEW i \in Procs', remaining'[i] > 0
             PROVE  /\ i # running' => remaining'[i] = trace'[i].burst
                    /\ running' # IDLE => trace'[running'].burst <= trace'[i].burst
  BY DEF ShortestJobInv
<1>0. /\ trace' = trace /\ Procs' = Procs /\ algo = "sjf" /\ AllAtZero /\ TypeInv
      /\ tick \in Nat /\ remaining \in [Procs -> Nat] /\ IDLE \notin Procs /\ i \in Procs
      /\ \A j \in Procs : trace[j].burst \in Nat
  BY ScanHistoryStep, ScanFacts DEF ScanHistoryInv, MetricsInv, AllAtZero
<1>1. ASSUME UNCHANGED <<remaining, running>>
      PROVE  /\ i # running' => remaining'[i] = trace'[i].burst
             /\ running' # IDLE => trace'[running'].burst <= trace'[i].burst
  BY <1>0, <1>1 DEF ShortestJobInv
<1>2. CASE (LoopTest \/ EndTick \/ (\E j \in Procs : Admit(j)) \/ Halt) /\ UNCHANGED scan_state
  BY <1>1, <1>2 DEF LoopTest, EndTick, Admit, Halt, vars, table, scan_state
<1>3. ASSUME NEW pid \in Answers, scan_pick_next(pid), Pick(pid)
      PROVE  /\ i # running' => remaining'[i] = trace'[i].burst
             /\ running' # IDLE => trace'[running'].burst <= trace'[i].burst
  <2>1. /\ tick' = tick /\ remaining' = remaining /\ running' = pid
        /\ pid = IF running # IDLE THEN running ELSE IF Eligible = {} THEN IDLE ELSE Best
    BY <1>0, <1>3 DEF Pick, table, scan_pick_next, sjf_pick_next, srtf_pick_next,
                priority_np_pick_next, priority_p_pick_next, Uninterrupted, Reevaluated
  <2>2. CASE running # IDLE
    BY <1>1, <2>1, <2>2
  <2>3. CASE running = IDLE
    <3>1. remaining[i] = trace[i].burst
      BY <1>0, <2>1, <2>3 DEF ShortestJobInv
    <3>2. i \in Ready
      BY <1>0, <2>1 DEF AllAtZero, Ready
    <3>3. pid = Best /\ Key(Best) <= Key(i)
      BY <1>0, <2>1, <2>3, <3>2, ScanFacts, BestIsLeast
    <3> QED
      BY <1>0, <2>1, <3>1, <3>3 DEF Key
  <2> QED
    BY <2>2, <2>3
<1>4. CASE Execute /\ (IF Finishing THEN scan_on_complete ELSE UNCHANGED scan_state)
  <2>1. /\ next = running /\ next \in Procs /\ remaining[next] > 0
        /\ remaining' = [remaining EXCEPT ![next] = @ - 1]
        /\ running' = IF remaining[next] = 1 THEN IDLE ELSE running
    BY <1>0, <1>4 DEF Execute, ScanHistoryInv, RunningInv, MetricsInv, TypeInv, PhaseInv,
                      Ready, Finishing, scan_on_complete, scan_state
  <2>2. remaining[i] > 0 /\ (i # next => remaining'[i] = remaining[i])
    BY <1>0, <2>1
  <2>3. i = next => running' = running
    BY <1>0, <2>1
  <2> QED
    BY <1>0, <2>1, <2>2, <2>3 DEF ShortestJobInv
<1>5. CASE UNCHANGED ScanVars
  BY <1>1, <1>5 DEF ScanVars, vars, table, scan_state
<1> QED
  BY <1>2, <1>3, <1>4, <1>5 DEF ScanNext

\* The runs in which the answer is always one of the shortest.
AlwaysShortest == algo = "srtf" \/ (algo = "sjf" /\ AllAtZero)

\* Under SRTF, and under SJF without arrivals, the shortest runs.
LEMMA ShortestRunsThen ==
    ASSUME ScanHistoryInv, StillLeast, ShortestJobInv, AlwaysShortest
    PROVE  ShortestRuns
<1> SUFFICES ASSUME phase = "execute", NEW j \in Ready PROVE remaining[next] <= remaining[j]
  BY DEF ShortestRuns
<1>1. /\ next = running /\ next \in Procs /\ next # IDLE /\ j \in Procs /\ remaining[j] > 0
      /\ trace[j].arrival <= tick /\ tick \in Nat /\ remaining \in [Procs -> Nat]
      /\ remaining[next] > 0
      /\ \A i \in Procs : /\ trace[i].arrival \in Nat /\ trace[i].burst \in Nat
                          /\ remaining[i] <= trace[i].burst
  BY ScanFacts DEF Ready, ScanHistoryInv, RunningInv, MetricsInv, TypeInv, PhaseInv, WorkInv
<1>2. CASE algo = "srtf"
  <2>1. Key(running) <= Key(j)
    BY <1>1, <1>2 DEF StillLeast, Preemptive
  <2> QED
    BY <1>1, <1>2, <2>1 DEF Key
<1>3. CASE algo = "sjf" /\ AllAtZero
  <2>1. j # next => remaining[j] = trace[j].burst /\ trace[next].burst <= trace[j].burst
    BY <1>1, <1>3 DEF ShortestJobInv
  <2> QED
    BY <1>1, <2>1
<1> QED
  BY <1>2, <1>3 DEF AlwaysShortest

\* SPEC.md section 12, as optimality: SRTF always, and SJF when everything is
\* there at tick 0, end with the least sum of completion ticks of all the
\* schedules of the contract.  What is spent plus what is still within reach
\* stays the least sum at every step (CostStep), because the shortest runs.
THEOREM LeastWaitingCorrect == ScanSpec => []LeastWaiting
<1> DEFINE Cost == AlwaysShortest => SumSoFar + Rest = LeastSum(trace)
           I == /\ ScanHistoryInv /\ IdleInv /\ FeasInv /\ StillLeast /\ ShortestJobInv
                /\ Cost
<1>1. ScanInit => I
  <2> SUFFICES ASSUME ScanInit PROVE I
    OBVIOUS
  <2>1. ScanHistoryInv
    BY ScanInvInit, TypeInvInit, AccountingInit, WindowInit, WorkInit
       DEF ScanInit, ScanHistoryInv, MetricsInv, ScanIInv
  <2>2. IdleInv /\ FeasInv /\ SumSoFar + Rest = LeastSum(trace)
    BY CostInit DEF ScanInit, Init, IdleInv
  <2>3. running = IDLE /\ remaining = [i \in Procs |-> trace[i].burst]
    BY DEF ScanInit, scan_init, Init
  <2>4. StillLeast /\ ShortestJobInv
    BY <2>3 DEF StillLeast, ShortestJobInv
  <2> QED
    BY <2>1, <2>2, <2>4
<1>2. I /\ [ScanNext]_ScanVars => I'
  <2> SUFFICES ASSUME I, [ScanNext]_ScanVars PROVE I'
    OBVIOUS
  <2>1. /\ ScanHistoryInv' /\ StillLeast' /\ ShortestJobInv' /\ [WCNext]_vars
        /\ trace' = trace /\ Procs' = Procs /\ algo' = algo
    BY ScanHistoryStep, StillLeastStep, ShortestJobStep
  <2>2. IdleInv'
    BY <2>1, IdleStep DEF ScanHistoryInv
  <2>3. /\ FeasInv' /\ LeastSum(trace)' = LeastSum(trace)
        /\ ShortestRuns => (SumSoFar + Rest)' = SumSoFar + Rest
    BY <2>1, CostStep DEF ScanHistoryInv
  <2>4. AlwaysShortest' => AlwaysShortest
    BY <2>1 DEF AlwaysShortest, AllAtZero
  <2>5. AlwaysShortest => ShortestRuns
    BY ShortestRunsThen
  <2>6. Cost'
    BY <2>3, <2>4, <2>5
  <2> HIDE DEF Cost
  <2> QED
    BY <2>1, <2>2, <2>3, <2>6
<1>3. I => LeastWaiting
  BY CostEnd DEF LeastWaiting, AlwaysShortest, AllAtZero, ScanHistoryInv
<1> QED
  BY <1>1, <1>2, <1>3, PTL DEF ScanSpec

=============================================================================
