------------------------------ MODULE CfsProofs ------------------------------
(***************************************************************************)
(* CFS implements the contract, and its virtual runtimes keep the          *)
(* processes of a table as close to each other as cfs.c promises, for      *)
(* every set of tables in which arrivals do not fall together.             *)
(***************************************************************************)
EXTENDS Cfs, EngineProofs

\* The vruntimes are counters, and the pid remembered is that of the process
\* that ran at the last tick, if that one has work left.
RunningInv ==
    /\ vruntime \in [Procs -> Nat]
    /\ running # IDLE => /\ running \in Procs
                         /\ remaining[running] > 0
                         /\ trace[running].arrival <= tick
    /\ phase = "execute" => next = running
    /\ phase = "tick_end" =>
           running = IF next # IDLE /\ remaining[next] > 0 THEN next ELSE IDLE

CfsIInv == TypeInv /\ RunningInv

\* cfs.c, lines 173 to 176: the increment is zero for the negative nice values
\* and only for them.
LEMMA IncrementBounds ==
    ASSUME NEW tr \in Traces, tr = trace, NEW i \in DOMAIN tr
    PROVE  /\ Increment(i) \in Nat
           /\ trace[i].nice < 0 => Increment(i) = 0
<1>1. tr \in Seq(Row)
  BY EngineAssumption DEF IsTable
<1>2. tr[i] \in Row
  BY <1>1
<1>3. trace[i].nice \in -5..5
  BY <1>2 DEF Row
<1> QED
  BY <1>3 DEF Increment, weight_of, NICE_MIN, WEIGHT, NICE_0_LOAD

LEMMA CfsFacts ==
    ASSUME CfsIInv
    PROVE  /\ trace \in Traces /\ tick \in Nat
           /\ Procs \in SUBSET Nat /\ IDLE \notin Procs
           /\ \A i \in Procs : /\ trace[i].arrival \in Nat /\ trace[i].burst \in Nat \ {0}
                               /\ remaining[i] \in Nat /\ vruntime[i] \in Nat
                               /\ Increment(i) \in Nat
           /\ remaining \in [Procs -> Nat]
           /\ vruntime \in [Procs -> Nat]
           /\ Eligible = Ready
<1>1. /\ trace \in Traces /\ tick \in Nat /\ remaining \in [Procs -> Nat]
      /\ \A i \in Procs : trace[i].arrival \in Nat /\ trace[i].burst \in Nat \ {0}
      /\ Procs \in SUBSET Nat /\ IDLE \notin Procs
      /\ vruntime \in [Procs -> Nat]
  BY RowTypes, ProcsArePositive, EngineAssumption
     DEF CfsIInv, RunningInv, TypeInv, TypeOK, Procs
<1>2. \A i \in Procs : Increment(i) \in Nat
  BY <1>1, IncrementBounds DEF Procs
<1>3. Eligible = Ready
  <2>1. \A i \in Procs : remaining[i] \in Int /\ trace[i].arrival \in Int /\ tick \in Int
    BY <1>1
  <2>2. \A i \in Procs : ~ (trace[i].arrival > tick \/ remaining[i] <= 0)
                             <=> trace[i].arrival <= tick /\ remaining[i] > 0
    BY <2>1
  <2> QED
    BY <2>2 DEF Eligible, Ready
<1> QED
  BY <1>1, <1>2, <1>3

\* The scan of pick_next: the answer is a ready process with the least
\* vruntime, the running one if it is among those.
LEMMA CfsAnswers ==
    ASSUME CfsIInv, NEW pid, cfs_pick_next(pid)
    PROVE  /\ pid \in AllowedAnswers
           /\ Ready # {} => /\ pid \in Ready
                            /\ \A j \in Ready : vruntime[pid] <= vruntime[j]
           /\ running # IDLE /\ (\A j \in Ready : vruntime[running] <= vruntime[j])
                  => pid = running
<1>0. /\ \A i \in Ready : i \in Nat /\ vruntime[i] \in Nat
      /\ Eligible = Ready
      /\ running # IDLE => running \in Ready
  BY CfsFacts DEF CfsIInv, RunningInv, Ready
<1>1. CASE Ready = {}
  BY <1>0, <1>1 DEF cfs_pick_next, AllowedAnswers
<1>2. CASE Ready # {}
  <2> DEFINE key == [i \in Ready |-> vruntime[i]]
  <2>1. Ready \in SUBSET Nat /\ key \in [Ready -> Nat]
    BY <1>0
  <2>2. \E i \in Ready : \A j \in Ready : key[i] < key[j] \/ (key[i] = key[j] /\ i <= j)
    BY <1>2, <2>1, FirstLeast, Zenon
  <2>3. \E i \in Ready : \A j \in Ready :
            vruntime[i] < vruntime[j] \/ (vruntime[i] = vruntime[j] /\ i <= j)
    BY <2>2
  <2>4. /\ Best \in Ready
        /\ \A j \in Ready : vruntime[Best] < vruntime[j]
                               \/ (vruntime[Best] = vruntime[j] /\ Best <= j)
    BY <1>0, <2>3 DEF Best
  <2>5. \A j \in Ready : vruntime[Best] <= vruntime[j]
    BY <1>0, <2>4
  <2>6. pid = Winner /\ Winner \in {running, Best}
        /\ vruntime[Winner] = vruntime[Best] /\ Winner \in Ready
    BY <1>0, <1>2, <2>4 DEF cfs_pick_next, Winner
  <2>7. running # IDLE /\ (\A j \in Ready : vruntime[running] <= vruntime[j])
            => pid = running
    <3> SUFFICES ASSUME running # IDLE, \A j \in Ready : vruntime[running] <= vruntime[j]
                 PROVE  Winner = running
      BY <2>6
    <3>1. vruntime[Best] = vruntime[running]
      BY <1>0, <2>4, <2>5
    <3> QED
      BY <3>1 DEF Winner, CfsIInv, RunningInv
  <2> QED
    BY <1>2, <2>5, <2>6, <2>7 DEF AllowedAnswers
<1> QED
  BY <1>1, <1>2

LEMMA CfsNextIsWCNext ==
    ASSUME CfsIInv, [CfsNext]_CfsVars
    PROVE  [WCNext]_vars
<1>1. ASSUME NEW pid \in Answers, cfs_pick_next(pid), Pick(pid)
      PROVE  WCNext
  BY <1>1, CfsAnswers DEF WCNext
<1> QED
  BY <1>1 DEF CfsNext, CfsVars, WCNext

\* on_arrival starts a process at the least vruntime of the others that are
\* ready, or at zero when there is no other.
LEMMA StartsAtLeast ==
    ASSUME CfsIInv, NEW i \in Procs
    PROVE  /\ InitialVruntime(i) \in Nat
           /\ Ready \ {i} = {} => InitialVruntime(i) = 0
           /\ Ready \ {i} # {} =>
                  /\ \E m \in Ready \ {i} : InitialVruntime(i) = vruntime[m]
                  /\ \A j \in Ready \ {i} : InitialVruntime(i) <= vruntime[j]
<1>0. /\ \A j \in Ready : vruntime[j] \in Nat
      /\ Eligible = Ready
  BY CfsFacts DEF Ready
<1>1. CASE Ready \ {i} = {}
  BY <1>0, <1>1 DEF InitialVruntime
<1>2. CASE Ready \ {i} # {}
  <2> DEFINE V == {vruntime[j] : j \in Ready \ {i}}
  <2>1. V \in SUBSET Nat /\ V # {}
    BY <1>0, <1>2
  <2>2. \E x \in V : \A y \in V : x <= y
    BY <2>1, LeastNat
  <2>3. Min(V) \in V /\ \A y \in V : Min(V) <= y
    BY <2>2 DEF Min
  <2>4. InitialVruntime(i) = Min(V)
    BY <1>0, <1>2 DEF InitialVruntime
  <2> QED
    BY <1>2, <2>1, <2>3, <2>4
<1> QED
  BY <1>1, <1>2

LEMMA CfsInvInit == CfsInit => CfsIInv
BY TypeInvInit DEF CfsInit, cfs_init, Init, CfsIInv, RunningInv

LEMMA CfsInvStep == CfsIInv /\ [CfsNext]_CfsVars => CfsIInv'
<1> SUFFICES ASSUME CfsIInv, [CfsNext]_CfsVars PROVE CfsIInv'
  OBVIOUS
<1>0. TypeInv' /\ trace' = trace /\ Procs' = Procs
  <2>1. [Next]_vars
    BY CfsNextIsWCNext, WCNextIsNext DEF CfsIInv
  <2> QED
    BY <2>1, TypeInvStep, TraceStep DEF CfsIInv, Procs
<1>1. /\ tick \in Nat /\ IDLE \notin Procs /\ remaining \in [Procs -> Nat]
      /\ vruntime \in [Procs -> Nat]
      /\ \A i \in Procs : trace[i].arrival \in Nat /\ Increment(i) \in Nat
  BY CfsFacts
<1>2. CASE LoopTest /\ UNCHANGED cfs_state
  BY <1>0, <1>2 DEF LoopTest, table, cfs_state, CfsIInv, RunningInv
<1>3. ASSUME NEW i \in Procs, Admit(i), cfs_on_arrival(i) PROVE CfsIInv'
  <2>1. vruntime' \in [Procs -> Nat]
    BY <1>1, <1>3, StartsAtLeast DEF cfs_on_arrival
  <2> QED
    BY <1>0, <1>3, <2>1 DEF Admit, cfs_on_arrival, table, CfsIInv, RunningInv
<1>4. ASSUME NEW pid \in Answers, cfs_pick_next(pid), Pick(pid) PROVE CfsIInv'
  <2>1. /\ pid \in AllowedAnswers /\ running' = pid /\ vruntime' = vruntime
        /\ next' = pid /\ remaining' = remaining /\ tick' = tick
    BY <1>4, CfsAnswers DEF Pick, table, cfs_pick_next
  <2>2. pid # IDLE => pid \in Ready
    BY <2>1 DEF AllowedAnswers
  <2>3. phase' = IF pid = IDLE THEN "tick_end" ELSE "execute"
    BY <1>4, <2>2 DEF Pick
  <2> QED
    BY <1>0, <1>1, <2>1, <2>2, <2>3 DEF CfsIInv, RunningInv, Ready
<1>5. CASE Execute /\ (IF Finishing THEN cfs_on_complete ELSE UNCHANGED cfs_state)
  <2>1. /\ next = running /\ next \in Procs /\ remaining[next] > 0 /\ next # IDLE
        /\ trace[next].arrival <= tick
    BY <1>1, <1>5 DEF Execute, CfsIInv, RunningInv, TypeInv, PhaseInv, Ready
  <2>2. /\ remaining' = [remaining EXCEPT ![next] = @ - 1] /\ tick' = tick
        /\ phase' = "tick_end" /\ next' = next /\ vruntime' = vruntime
        /\ running' = IF remaining[next] = 1 THEN IDLE ELSE running
    BY <1>5 DEF Execute, Finishing, cfs_on_complete, cfs_state
  <2>3. remaining'[next] = remaining[next] - 1 /\ remaining[next] \in Nat
    BY <1>1, <2>1, <2>2
  <2> QED
    BY <1>0, <1>1, <2>1, <2>2, <2>3 DEF CfsIInv, RunningInv
<1>6. CASE EndTick /\ cfs_on_tick_end
  <2>1. next # IDLE => next \in Procs
    BY <1>6 DEF EndTick, CfsIInv, TypeInv, PhaseInv
  <2>2. vruntime' \in [Procs -> Nat]
    BY <1>1, <1>6, <2>1 DEF cfs_on_tick_end
  <2> QED
    BY <1>0, <1>1, <1>6, <2>2 DEF EndTick, cfs_on_tick_end, table, CfsIInv, RunningInv
<1>7. CASE UNCHANGED CfsVars
  BY <1>0, <1>7 DEF CfsVars, vars, table, cfs_state, CfsIInv, RunningInv
<1> QED
  BY <1>2, <1>3, <1>4, <1>5, <1>6, <1>7 DEF CfsNext, Halt, CfsVars

THEOREM CfsIInvAlways == CfsSpec => []CfsIInv
BY CfsInvInit, CfsInvStep, PTL DEF CfsSpec

\* cfs.c implements the contract of sched.h, fairness apart: whatever the
\* vruntimes are, the scan answers a ready process, and IDLE only when there
\* is none.
THEOREM CfsImplementsContract == CfsSpec => WCSafety
<1>1. CfsInit => Init
  BY DEF CfsInit
<1>2. CfsIInv /\ [CfsNext]_CfsVars => [WCNext]_vars
  BY CfsNextIsWCNext
<1> QED
  BY <1>1, <1>2, CfsIInvAlways, PTL DEF CfsSpec, WCSafety

-----------------------------------------------------------------------------
CfsHistoryInv == MetricsInv /\ RunningInv

LEMMA CfsHistoryInit == CfsInit => CfsHistoryInv
BY CfsInvInit, TypeInvInit, AccountingInit, WindowInit, WorkInit
   DEF CfsInit, CfsHistoryInv, MetricsInv, CfsIInv

LEMMA CfsHistoryStep ==
    ASSUME CfsHistoryInv, [CfsNext]_CfsVars
    PROVE  /\ CfsHistoryInv' /\ [Next]_vars /\ [WCNext]_vars
           /\ trace' = trace /\ Procs' = Procs
<1>1. CfsIInv
  BY DEF CfsHistoryInv, CfsIInv, MetricsInv
<1>2. [WCNext]_vars /\ [Next]_vars /\ CfsIInv'
  BY <1>1, CfsNextIsWCNext, WCNextIsNext, CfsInvStep DEF CfsIInv
<1>3. MetricsInv'
  BY <1>2, TypeInvStep, AccountingStep, WindowStep, WorkStep DEF CfsHistoryInv, MetricsInv
<1>4. trace' = trace /\ Procs' = Procs
  BY <1>2, TraceStep DEF Procs
<1> QED
  BY <1>2, <1>3, <1>4 DEF CfsHistoryInv, CfsIInv

\* The process on the CPU is one of those furthest behind, and nobody has a
\* vruntime before the first tick ends.  With these the closeness of the
\* vruntimes is inductive: an arrival joins those furthest behind, and only
\* one of them moves on.
ClosenessInv ==
    /\ tick = 0 => \A i \in Procs : vruntime[i] = 0
    /\ \/ phase = "execute"
       \/ phase = "tick_end" /\ next # IDLE
       => \A j \in Alive : vruntime[next] <= vruntime[j]
    /\ VruntimesStayClose

\* Who is ready when pick_next is called are those on_arrival was called for.
LEMMA AliveWhenPicking ==
    ASSUME CfsIInv
    PROVE  /\ phase = "admit" /\ AllAdmitted => Alive = Ready
           /\ phase \in {"execute", "tick_end"} => Alive = Ready
           /\ Alive \subseteq Ready
BY CfsFacts DEF Alive, Admitted, AllAdmitted, Ready, CfsIInv, TypeInv, TypeOK

LEMMA ClosenessStep ==
    CfsIInv /\ ClosenessInv /\ [CfsNext]_CfsVars => ClosenessInv'
<1> SUFFICES ASSUME CfsIInv, ClosenessInv, [CfsNext]_CfsVars PROVE ClosenessInv'
  OBVIOUS
<1>0. /\ trace' = trace /\ Procs' = Procs
      /\ tick \in Nat /\ IDLE \notin Procs /\ Procs \in SUBSET (Nat \ {0})
      /\ \A i \in Procs : /\ trace[i].arrival \in Nat /\ trace[i].burst \in Nat \ {0}
                          /\ remaining[i] \in Nat /\ vruntime[i] \in Nat
      /\ vruntime \in [Procs -> Nat] /\ remaining \in [Procs -> Nat]
      /\ cursor \in Nat \ {0}
  <2>1. [Next]_vars
    BY CfsNextIsWCNext, WCNextIsNext DEF CfsIInv
  <2>2. trace' = trace /\ Procs' = Procs
    BY <2>1, TraceStep DEF CfsIInv, Procs
  <2> QED
    BY <2>2, CfsFacts, ProcsArePositive DEF CfsIInv, TypeInv, TypeOK
<1>8. \A i \in Procs : Increment(i) \in Nat
  BY CfsFacts
<1>9. /\ \A i \in Procs : Increment(i)' = Increment(i)
      /\ Staggered(trace)' <=> Staggered(trace)
  BY <1>0 DEF Increment, Staggered
<1>10. Alive \subseteq Procs /\ Alive' \subseteq Procs
  BY <1>0 DEF Alive, Admitted
<1>1. ASSUME NEW i \in Procs, Admit(i), cfs_on_arrival(i) PROVE ClosenessInv'
  <2>1. /\ phase = "admit" /\ phase' = "admit" /\ tick' = tick /\ cursor' = i + 1
        /\ remaining' = remaining /\ trace[i].arrival = tick /\ i >= cursor
        /\ \A j \in Procs : cursor <= j /\ j < i => trace[j].arrival # tick
        /\ vruntime' = [vruntime EXCEPT ![i] = InitialVruntime(i)]
    BY <1>1 DEF Admit, cfs_on_arrival, table
  <2>2. Alive' = Alive \cup {j \in {i} : remaining[j] > 0} /\ i \notin Alive
    BY <1>0, <2>1 DEF Alive, Admitted
  <2>3. tick = 0 => InitialVruntime(i) = 0
    <3>1. \A j \in Ready : vruntime[j] \in Nat /\ j \in Procs
      BY <1>0 DEF Ready
    <3> QED
      BY <3>1, StartsAtLeast DEF ClosenessInv
  <2>4. ASSUME Staggered(trace), NEW a \in Alive', NEW b \in Alive'
        PROVE  vruntime'[a] - vruntime'[b] <= Increment(a)
    <3>1. a \in Procs /\ b \in Procs
      BY <1>0 DEF Alive, Admitted
    <3>2. CASE tick = 0
      BY <1>0, <1>8, <1>9, <1>10, <2>1, <2>3, <3>1, <3>2 DEF ClosenessInv
    <3>3. CASE tick # 0
      <4>1. Ready \ {i} = Alive
        BY <1>0, <2>1, <2>2, <2>4, <3>3 DEF Ready, Alive, Admitted, Staggered, Procs
      <4>2. CASE a = i /\ b = i
        BY <1>0, <1>8, <2>1, <4>2, StartsAtLeast
      <4>3. CASE a = i /\ b # i
        <5>1. b \in Alive
          BY <2>2, <4>3
        <5>2. InitialVruntime(i) <= vruntime[b] /\ InitialVruntime(i) \in Nat
          BY <4>1, <5>1, StartsAtLeast
        <5> QED
          BY <1>0, <1>8, <2>1, <3>1, <4>3, <5>2
      <4>4. CASE a # i /\ b = i
        <5>1. a \in Alive
          BY <2>2, <4>4
        <5>2. PICK m \in Alive : InitialVruntime(i) = vruntime[m]
          BY <4>1, <5>1, StartsAtLeast
        <5>3. vruntime[a] - vruntime[m] <= Increment(a)
          BY <2>4, <5>1 DEF ClosenessInv, VruntimesStayClose
        <5> QED
          BY <1>0, <1>8, <2>1, <3>1, <4>4, <5>2, <5>3
      <4>5. CASE a # i /\ b # i
        BY <1>0, <1>8, <1>9, <1>10, <2>1, <2>2, <2>4, <3>1, <4>5 DEF ClosenessInv, VruntimesStayClose
      <4> QED
        BY <4>2, <4>3, <4>4, <4>5
    <3> QED
      BY <3>2, <3>3
  <2> QED
    BY <1>0, <1>8, <1>9, <1>10, <2>1, <2>3, <2>4 DEF ClosenessInv, VruntimesStayClose
<1>2. ASSUME NEW pid \in Answers, cfs_pick_next(pid), Pick(pid) PROVE ClosenessInv'
  <2>1. /\ phase = "admit" /\ AllAdmitted /\ tick' = tick /\ remaining' = remaining
        /\ cursor' = cursor /\ next' = pid /\ vruntime' = vruntime
        /\ phase' \in {"execute", "tick_end", "error"}
    BY <1>2 DEF Pick, cfs_pick_next, table
  <2>2. pid \in AllowedAnswers
    BY <1>2, CfsAnswers
  <2>3. phase' = IF pid = IDLE THEN "tick_end" ELSE "execute"
    BY <1>2, <2>2 DEF Pick, AllowedAnswers
  <2>4. Alive' = Ready /\ Alive = Ready
    <3>1. Ready' = Ready
      BY <1>0, <2>1 DEF Ready
    <3>2. \A i : i \in Alive' <=> i \in Ready'
      <4>1. \A i \in Procs : trace[i].arrival <= tick
                <=> trace[i].arrival < tick \/ trace[i].arrival = tick
        BY <1>0
      <4> QED
        BY <1>0, <2>1, <2>3, <4>1 DEF Alive, Admitted, Ready
    <3> QED
      BY <2>1, <2>3, <3>1, <3>2, AliveWhenPicking
  <2>5. pid # IDLE => \A j \in Ready : vruntime[pid] <= vruntime[j]
    BY <1>2, <2>2, CfsAnswers DEF AllowedAnswers
  <2>6. VruntimesStayClose'
    BY <1>0, <1>8, <1>9, <1>10, <2>1, <2>3, <2>4, <2>5 DEF ClosenessInv, VruntimesStayClose
  <2> QED
    BY <1>0, <2>1, <2>3, <2>4, <2>5, <2>6 DEF ClosenessInv
<1>3. CASE Execute /\ (IF Finishing THEN cfs_on_complete ELSE UNCHANGED cfs_state)
  <2>1. /\ phase = "execute" /\ phase' = "tick_end" /\ tick' = tick /\ next' = next
        /\ next \in Procs /\ remaining' = [remaining EXCEPT ![next] = @ - 1]
        /\ vruntime' = vruntime
    BY <1>3 DEF Execute, cfs_on_complete, cfs_state, CfsIInv, TypeInv, PhaseInv, Ready
  <2>2. Alive' \subseteq Alive
    BY <1>0, <2>1 DEF Alive, Admitted
  <2>6. VruntimesStayClose'
    BY <1>0, <1>8, <1>9, <1>10, <2>1, <2>2 DEF ClosenessInv, VruntimesStayClose
  <2> QED
    BY <1>0, <2>1, <2>2, <2>6 DEF ClosenessInv
<1>4. CASE EndTick /\ cfs_on_tick_end
  <2>1. /\ phase = "tick_end" /\ phase' = "test" /\ tick' = tick + 1 /\ next' = next
        /\ remaining' = remaining
        /\ vruntime' = IF next = IDLE THEN vruntime
                       ELSE [vruntime EXCEPT ![next] = @ + Increment(next)]
        /\ next # IDLE => next \in Procs
    BY <1>4 DEF EndTick, cfs_on_tick_end, table, CfsIInv, TypeInv, PhaseInv
  <2>2. Alive' = Alive
    <3>1. \A i \in Procs : trace[i].arrival < tick + 1 <=> trace[i].arrival < tick \/ trace[i].arrival = tick
      BY <1>0
    <3>2. \A i : i \in Admitted' <=> i \in Admitted
      BY <1>0, <2>1, <3>1 DEF Admitted
    <3> QED
      BY <1>0, <2>1, <3>2 DEF Alive
  <2>3. ASSUME Staggered(trace), NEW a \in Alive, NEW b \in Alive
        PROVE  vruntime'[a] - vruntime'[b] <= Increment(a)
    <3>1. a \in Procs /\ b \in Procs
      BY <1>0 DEF Alive, Admitted
    <3>2. vruntime[a] - vruntime[b] <= Increment(a)
      BY <2>3 DEF ClosenessInv, VruntimesStayClose
    <3>3. next # IDLE => vruntime[next] <= vruntime[b]
      BY <2>1 DEF ClosenessInv
    <3> QED
      BY <1>0, <1>8, <2>1, <3>1, <3>2, <3>3
  <2>4. tick' # 0 /\ phase' # "execute"
    BY <1>0, <2>1
  <2>6. VruntimesStayClose'
    BY <1>0, <1>8, <1>9, <1>10, <2>1, <2>2, <2>3, <2>4 DEF ClosenessInv, VruntimesStayClose
  <2> QED
    BY <1>0, <2>1, <2>2, <2>3, <2>4, <2>6 DEF ClosenessInv
<1>5. CASE ((LoopTest \/ Halt) /\ UNCHANGED cfs_state) \/ UNCHANGED CfsVars
  <2>1. /\ tick' = tick /\ remaining' = remaining /\ vruntime' = vruntime /\ next' = next
        /\ phase' \in {"execute", "tick_end"} => phase' = phase
    BY <1>5 DEF LoopTest, Halt, CfsVars, vars, table, cfs_state
  <2>2. Alive' = Alive
    <3>1. \/ phase' = phase /\ cursor' = cursor
          \/ phase = "test" /\ phase' \in {"ok", "error", "admit"} /\ cursor' = 1
      BY <1>5 DEF LoopTest, Halt, CfsVars, vars
    <3>2. \A i \in Procs : ~ (i < 1)
      BY <1>0
    <3>3. Admitted' = Admitted
      BY <1>0, <2>1, <3>1, <3>2 DEF Admitted
    <3> QED
      BY <2>1, <3>3 DEF Alive
  <2>6. VruntimesStayClose'
    BY <1>0, <1>8, <1>9, <1>10, <2>1, <2>2 DEF ClosenessInv, VruntimesStayClose
  <2> QED
    BY <1>0, <2>1, <2>2, <2>6 DEF ClosenessInv
<1> QED
  BY <1>1, <1>2, <1>3, <1>4, <1>5 DEF CfsNext

LEMMA ClosenessInit == CfsInit => ClosenessInv
<1> SUFFICES ASSUME CfsInit PROVE ClosenessInv
  OBVIOUS
<1>1. /\ \A i \in Procs : vruntime[i] = 0 /\ Increment(i) \in Nat
      /\ phase = "test"
  BY CfsInvInit, CfsFacts DEF CfsInit, cfs_init, Init
<1>2. Alive \subseteq Procs
  BY DEF Alive, Admitted
<1> QED
  BY <1>1, <1>2 DEF ClosenessInv, VruntimesStayClose

\* SPEC.md section 6, CFS: in a table whose arrivals do not fall together no
\* process that is alive is ever ahead of another by more than one increment
\* of its own, however long it has run and whenever the other arrived.
THEOREM VruntimesStayCloseCorrect == CfsSpec => []VruntimesStayClose
<1>1. CfsInit => CfsIInv /\ ClosenessInv
  BY CfsInvInit, ClosenessInit
<1>2. CfsIInv /\ ClosenessInv /\ [CfsNext]_CfsVars => (CfsIInv /\ ClosenessInv)'
  BY CfsInvStep, ClosenessStep
<1>3. ClosenessInv => VruntimesStayClose
  BY DEF ClosenessInv
<1> QED
  BY <1>1, <1>2, <1>3, PTL DEF CfsSpec

-----------------------------------------------------------------------------
\* A process whose increment is zero has run at every tick since its first
\* dispatch, until it finished.
UninterruptedInv ==
    Staggered(trace) =>
        \A i \in Procs : trace[i].nice < 0 =>
            /\ start_tick[i] # NOT_STARTED /\ remaining[i] > 0 =>
                   /\ running = i
                   /\ remaining[i] = trace[i].burst - (Now - start_tick[i])
            /\ completion[i] # NOT_STARTED => completion[i] = start_tick[i] + trace[i].burst

LEMMA UninterruptedStep ==
    CfsHistoryInv /\ ClosenessInv /\ UninterruptedInv /\ [CfsNext]_CfsVars
        => UninterruptedInv'
<1> SUFFICES ASSUME CfsHistoryInv, ClosenessInv, UninterruptedInv, [CfsNext]_CfsVars,
                    Staggered(trace)', NEW i \in Procs', trace'[i].nice < 0
             PROVE  /\ start_tick'[i] # NOT_STARTED /\ remaining'[i] > 0 =>
                           /\ running' = i
                           /\ remaining'[i] = trace'[i].burst - (Now' - start_tick'[i])
                    /\ completion'[i] # NOT_STARTED =>
                           completion'[i] = start_tick'[i] + trace'[i].burst
  BY DEF UninterruptedInv
<1>0. /\ trace' = trace /\ Procs' = Procs /\ CfsIInv /\ MetricsInv /\ i \in Procs
      /\ tick \in Nat /\ IDLE \notin Procs
      /\ remaining \in [Procs -> Nat]
      /\ start_tick \in [Procs -> Nat \cup {NOT_STARTED}]
      /\ completion \in [Procs -> Nat \cup {NOT_STARTED}]
      /\ NOT_STARTED \notin Nat
      /\ trace[i].burst \in Nat \ {0}
  BY CfsHistoryStep, CfsFacts
     DEF CfsHistoryInv, CfsIInv, MetricsInv, TypeInv, TypeOK, NOT_STARTED
<1>1. /\ start_tick[i] # NOT_STARTED /\ remaining[i] > 0 =>
             /\ running = i
             /\ remaining[i] = trace[i].burst - (Now - start_tick[i])
      /\ completion[i] # NOT_STARTED => completion[i] = start_tick[i] + trace[i].burst
  BY <1>0 DEF UninterruptedInv, Staggered
<1>2. ASSUME NEW pid \in Answers, cfs_pick_next(pid), Pick(pid)
      PROVE  running = i => running' = i /\ phase' = "execute"
  <2> SUFFICES ASSUME running = i PROVE pid = i /\ pid \in Ready /\ pid # IDLE
    <3>1. running' = pid
      BY <1>2 DEF cfs_pick_next
    <3>2. pid \in Ready /\ pid # IDLE => phase' = "execute"
      BY <1>2 DEF Pick
    <3> QED
      BY <3>1, <3>2
  <2>1. Alive = Ready
    BY <1>0, <1>2, AliveWhenPicking DEF Pick
  <2>2. i \in Ready /\ running # IDLE
    BY <1>0 DEF CfsIInv, RunningInv, Ready
  <2>3. ASSUME NEW j \in Ready PROVE vruntime[i] <= vruntime[j]
    <3>1. vruntime[i] - vruntime[j] <= Increment(i)
      BY <1>0, <2>1, <2>2, <2>3 DEF ClosenessInv, VruntimesStayClose, Staggered
    <3>2. Increment(i) = 0
      BY <1>0, IncrementBounds DEF CfsIInv, TypeInv, TypeOK, Procs
    <3>3. vruntime[i] \in Nat /\ vruntime[j] \in Nat
      BY <1>0, <2>2, <2>3, CfsFacts DEF Ready
    <3> QED
      BY <3>1, <3>2, <3>3
  <2> QED
    BY <1>0, <1>2, <2>2, <2>3, CfsAnswers
<1>3. ASSUME NEW pid \in Answers, cfs_pick_next(pid), Pick(pid)
      PROVE  /\ UNCHANGED <<remaining, start_tick, completion>>
             /\ running = i => running' = i /\ Now' = Now
  BY <1>2, <1>3 DEF Pick, table, Now
<1>4. CASE Execute /\ (IF Finishing THEN cfs_on_complete ELSE UNCHANGED cfs_state)
  <2>1. /\ phase = "execute" /\ phase' = "tick_end" /\ tick' = tick
        /\ next = running
        /\ next \in Procs /\ remaining[next] > 0
        /\ start_tick' = [start_tick EXCEPT ![next] =
                              IF start_tick[next] = NOT_STARTED THEN tick ELSE @]
        /\ remaining' = [remaining EXCEPT ![next] = @ - 1]
        /\ completion' = IF remaining[next] = 1
                         THEN [completion EXCEPT ![next] = tick + 1] ELSE completion
        /\ running' = IF remaining[next] = 1 THEN IDLE ELSE running
    BY <1>0, <1>4
       DEF Execute, TypeInv, PhaseInv, Ready, Finishing, StampOf, FirstDispatch,
           cfs_on_complete, cfs_state, CfsIInv, RunningInv
  <2>2. Now = tick /\ Now' = tick + 1
    BY <2>1 DEF Now
  <2>3. /\ start_tick[i] = NOT_STARTED => remaining[i] = trace[i].burst
        /\ completion[i] # NOT_STARTED => remaining[i] = 0 /\ start_tick[i] \in Nat
    BY <1>0, StampsAndBurst
  <2>4. CASE i = next
    BY <1>0, <1>1, <2>1, <2>2, <2>3, <2>4
  <2>5. CASE i # next
    BY <1>0, <1>1, <2>1, <2>2, <2>5
  <2> QED
    BY <2>4, <2>5
<1>5. CASE \/ LoopTest /\ UNCHANGED cfs_state
           \/ \E j \in Procs : Admit(j) /\ cfs_on_arrival(j)
           \/ EndTick /\ cfs_on_tick_end
           \/ UNCHANGED CfsVars
  <2>1. /\ UNCHANGED <<remaining, start_tick, completion, running>>
        /\ Now' = Now
    BY <1>5 DEF LoopTest, Admit, EndTick, CfsVars, vars, table, cfs_state,
                cfs_on_arrival, cfs_on_tick_end, Now
  <2> QED
    BY <1>0, <1>1, <2>1
<1>6. ASSUME NEW pid \in Answers, cfs_pick_next(pid), Pick(pid)
      PROVE  /\ start_tick'[i] # NOT_STARTED /\ remaining'[i] > 0 =>
                    /\ running' = i
                    /\ remaining'[i] = trace'[i].burst - (Now' - start_tick'[i])
             /\ completion'[i] # NOT_STARTED =>
                    completion'[i] = start_tick'[i] + trace'[i].burst
  BY <1>0, <1>1, <1>3, <1>6
<1> QED
  BY <1>4, <1>5, <1>6 DEF CfsNext, Halt, CfsVars

\* cfs.c, lines 173 to 176: the increment of a negative nice value is truncated
\* to zero, so a process that has one, once started, is never displaced: it
\* finishes one burst after its first dispatch.
THEOREM ZeroIncrementCorrect == CfsSpec => []ZeroIncrementNeverYields
<1> DEFINE I == CfsHistoryInv /\ ClosenessInv /\ UninterruptedInv
<1>1. CfsInit => I
  <2> SUFFICES ASSUME CfsInit PROVE UninterruptedInv
    BY CfsHistoryInit, ClosenessInit
  <2>1. \A i \in Procs : start_tick[i] = NOT_STARTED /\ completion[i] = NOT_STARTED
    BY DEF CfsInit, Init
  <2> QED
    BY <2>1 DEF UninterruptedInv
<1>2. I /\ [CfsNext]_CfsVars => I'
  <2>1. CfsHistoryInv => CfsIInv
    BY DEF CfsHistoryInv, CfsIInv, MetricsInv
  <2> QED
    BY <2>1, CfsHistoryStep, ClosenessStep, UninterruptedStep
<1>3. I => ZeroIncrementNeverYields
  <2> SUFFICES ASSUME I, Staggered(trace), NEW i \in Procs,
                      trace[i].nice < 0, completion[i] # NOT_STARTED
               PROVE  completion[i] - start_tick[i] = trace[i].burst
    BY DEF ZeroIncrementNeverYields
  <2>1. completion[i] = start_tick[i] + trace[i].burst
    BY DEF UninterruptedInv
  <2>2. start_tick[i] \in Nat /\ trace[i].burst \in Nat
    BY StampsAndBurst, CfsFacts DEF CfsHistoryInv, CfsIInv, MetricsInv
  <2> QED
    BY <2>1, <2>2
<1> QED
  BY <1>1, <1>2, <1>3, PTL DEF CfsSpec

-----------------------------------------------------------------------------
\* When everything arrives at tick 0 a vruntime counts the ticks executed, by
\* the increment of the process; the tick being executed is added at its end.
CountingInv ==
    (\A k \in Procs : trace[k].arrival = 0) =>
        \A i \in Procs :
            vruntime[i] = Increment(i) *
                (Executed(i) - (IF phase = "tick_end" /\ next = i THEN 1 ELSE 0))

LEMMA OneMoreTimes ==
    ASSUME NEW k \in Nat, NEW e \in Int
    PROVE  k * (e - 1) + k = k * e /\ k * 0 = 0 /\ k * (e - 0) = k * e
BY SMT

LEMMA CountingStep ==
    CfsHistoryInv /\ ClosenessInv /\ CountingInv /\ [CfsNext]_CfsVars => CountingInv'
<1> SUFFICES ASSUME CfsHistoryInv, ClosenessInv, CountingInv, [CfsNext]_CfsVars,
                    \A k \in Procs' : trace'[k].arrival = 0, NEW i \in Procs'
             PROVE  vruntime'[i] = Increment(i)' *
                        (Executed(i)' - (IF phase' = "tick_end" /\ next' = i THEN 1 ELSE 0))
  BY DEF CountingInv
<1>0. /\ trace' = trace /\ Procs' = Procs /\ CfsIInv /\ i \in Procs
      /\ tick \in Nat /\ IDLE \notin Procs
      /\ remaining \in [Procs -> Nat] /\ vruntime \in [Procs -> Nat]
      /\ trace[i].burst \in Nat \ {0}
  BY CfsHistoryStep, CfsFacts DEF CfsHistoryInv, CfsIInv, MetricsInv
<1> DEFINE N == Increment(i)
           running_tick == IF phase = "tick_end" /\ next = i THEN 1 ELSE 0
<1>1. N' = N /\ N \in Nat
  BY <1>0, CfsFacts DEF Increment
<1>2. vruntime[i] = N * (Executed(i) - running_tick)
  BY <1>0 DEF CountingInv
<1>3. Executed(i) \in Int /\ Executed(i) = trace[i].burst - remaining[i]
  BY <1>0 DEF Executed
<1>4. CASE Execute /\ (IF Finishing THEN cfs_on_complete ELSE UNCHANGED cfs_state)
  <2>1. /\ phase = "execute" /\ phase' = "tick_end" /\ next' = next /\ next \in Procs
        /\ remaining' = [remaining EXCEPT ![next] = @ - 1] /\ vruntime' = vruntime
    BY <1>0, <1>4 DEF Execute, cfs_on_complete, cfs_state, CfsIInv, RunningInv,
                      TypeInv, PhaseInv, Ready
  <2>2. running_tick = 0 /\ running_tick' = IF next = i THEN 1 ELSE 0
    BY <2>1
  <2>3. Executed(i)' - running_tick' = Executed(i) - running_tick
    BY <1>0, <1>3, <2>1, <2>2 DEF Executed
  <2> QED
    BY <1>1, <1>2, <2>1, <2>3
<1>5. CASE EndTick /\ cfs_on_tick_end
  <2>1. /\ phase = "tick_end" /\ phase' = "test" /\ remaining' = remaining
        /\ vruntime' = IF next = IDLE THEN vruntime
                       ELSE [vruntime EXCEPT ![next] = @ + Increment(next)]
    BY <1>5 DEF EndTick, cfs_on_tick_end, table
  <2>2. Executed(i)' = Executed(i) /\ running_tick' = 0
    BY <1>0, <2>1 DEF Executed
  <2>3. vruntime'[i] = IF next = i THEN vruntime[i] + N ELSE vruntime[i]
    BY <1>0, <2>1
  <2> DEFINE e == Executed(i)
  <2>4. running_tick = IF next = i THEN 1 ELSE 0
    BY <2>1
  <2> HIDE DEF N, e, running_tick
  <2>5. N * (e - 1) + N = N * e /\ N * (e - 0) = N * e
    BY <1>1, <1>3, OneMoreTimes DEF e
  <2>6. vruntime[i] = N * (e - running_tick)
    BY <1>2 DEF e
  <2>7. vruntime'[i] = N * e
    BY <2>3, <2>4, <2>5, <2>6
  <2>8. N' * (e' - running_tick') = N * e
    BY <1>1, <2>2, <2>5 DEF e
  <2> QED
    BY <2>7, <2>8 DEF N, e, running_tick
<1>6. ASSUME NEW j \in Procs, Admit(j), cfs_on_arrival(j)
      PROVE  vruntime'[i] = N' * (Executed(i)' - running_tick')
  <2>1. /\ phase = "admit" /\ phase' = "admit" /\ remaining' = remaining /\ tick = 0
        /\ vruntime' = [vruntime EXCEPT ![j] = InitialVruntime(j)]
    BY <1>0, <1>6 DEF Admit, cfs_on_arrival, table
  <2>2. InitialVruntime(j) = 0 /\ vruntime[j] = 0
    <3>1. \A m \in Procs : vruntime[m] = 0
      BY <2>1 DEF ClosenessInv
    <3>2. Ready \subseteq Procs
      BY DEF Ready
    <3> QED
      BY <1>0, <3>1, <3>2, StartsAtLeast
  <2>3. vruntime'[i] = vruntime[i]
    BY <1>0, <2>1, <2>2
  <2>4. Executed(i)' = Executed(i) /\ running_tick' = 0 /\ running_tick = 0
    BY <1>0, <2>1 DEF Executed
  <2> QED
    BY <1>1, <1>2, <2>3, <2>4
<1>7. CASE \/ LoopTest /\ UNCHANGED cfs_state
           \/ \E pid \in Answers : cfs_pick_next(pid) /\ Pick(pid)
           \/ UNCHANGED CfsVars
  <2>1. UNCHANGED <<remaining, vruntime>> /\ running_tick' = running_tick
    <3>1. ASSUME NEW pid \in Answers, cfs_pick_next(pid), Pick(pid)
          PROVE  UNCHANGED <<remaining, vruntime>> /\ running_tick' = running_tick
      <4>1. phase = "admit" /\ phase' = (IF pid = IDLE THEN "tick_end" ELSE "execute")
            /\ next' = pid
        BY <3>1, <1>0, CfsAnswers DEF Pick, AllowedAnswers
      <4> QED
        BY <1>0, <3>1, <4>1 DEF Pick, cfs_pick_next, table
    <3>2. CASE (LoopTest /\ UNCHANGED cfs_state) \/ UNCHANGED CfsVars
      BY <3>2 DEF LoopTest, CfsVars, vars, table, cfs_state
    <3> QED
      BY <1>7, <3>1, <3>2
  <2>2. Executed(i)' = Executed(i)
    BY <1>0, <2>1 DEF Executed
  <2> QED
    BY <1>1, <1>2, <2>1, <2>2
<1> QED
  BY <1>4, <1>5, <1>6, <1>7 DEF CfsNext, Halt, CfsVars

\* The shares of cfs.c, of processes that start together: at every tick the ticks
\* executed times the truncated increment agree to within one increment.  So
\* the shares are inverse to those increments and not to 1024 / weight: equal
\* for nice 0 to 3, and while a process of negative nice value is unfinished
\* the others get one tick each at most.
THEOREM WeightedSharesCorrect == CfsSpec => []WeightedShares
<1> DEFINE I == CfsHistoryInv /\ ClosenessInv /\ CountingInv
<1>1. CfsInit => I
  <2> SUFFICES ASSUME CfsInit, NEW i \in Procs
               PROVE  vruntime[i] = Increment(i) *
                          (Executed(i) - (IF phase = "tick_end" /\ next = i THEN 1 ELSE 0))
    BY CfsHistoryInit, ClosenessInit DEF CountingInv
  <2>1. vruntime[i] = 0 /\ Executed(i) = 0 /\ phase = "test" /\ Increment(i) \in Nat
    BY CfsInvInit, CfsFacts DEF CfsInit, cfs_init, Init, Executed
  <2> QED
    BY <2>1, OneMoreTimes
<1>2. I /\ [CfsNext]_CfsVars => I'
  <2>1. CfsHistoryInv => CfsIInv
    BY DEF CfsHistoryInv, CfsIInv, MetricsInv
  <2> QED
    BY <2>1, CfsHistoryStep, ClosenessStep, CountingStep
<1>3. I => WeightedShares
  <2> SUFFICES ASSUME I, \A k \in Procs : trace[k].arrival = 0,
                      NEW i \in Alive, NEW j \in Alive, phase # "tick_end"
               PROVE  Increment(i) * Executed(i) - Increment(j) * Executed(j) <= Increment(i)
    BY DEF WeightedShares
  <2>1. i \in Procs /\ j \in Procs
    BY DEF Alive, Admitted
  <2>2. Staggered(trace)
    BY DEF Staggered, Procs
  <2>3. vruntime[i] - vruntime[j] <= Increment(i)
    BY <2>2 DEF ClosenessInv, VruntimesStayClose
  <2>4. ASSUME NEW k \in Procs PROVE vruntime[k] = Increment(k) * Executed(k)
    <3>1. vruntime[k] = Increment(k) * (Executed(k) - 0)
      BY DEF CountingInv
    <3>2. Executed(k) \in Int /\ Increment(k) \in Nat
      BY CfsFacts DEF Executed, CfsHistoryInv, CfsIInv, MetricsInv
    <3> QED
      BY <3>1, <3>2, OneMoreTimes
  <2> QED
    BY <2>1, <2>3, <2>4
<1> QED
  BY <1>1, <1>2, <1>3, PTL DEF CfsSpec

=============================================================================
