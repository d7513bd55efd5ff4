---------------------------- MODULE EngineProofs ----------------------------
(***************************************************************************)
(* Theorems for every set of tables and every length of the timeline       *)
(* array.  First the engine under an arbitrary scheduler: the invariants   *)
(* of the loop, and that metrics_check_invariants never fails on a run     *)
(* that engine_run returned 0 for.  Then what holds of every scheduler     *)
(* that keeps the contract: it is an engine run, so all the engine's       *)
(* theorems are its theorems too; a table that fits the timeline is never  *)
(* given up, and takes the same time whoever schedules it.                 *)
(* Last the circular array, which the proofs about three schedulers share: *)
(* each of its operations does what its name says to the sequence it       *)
(* stands for.                                                             *)
(***************************************************************************)
EXTENDS WorkConserving, Ring, SequenceTheorems, FiniteSetTheorems, FunctionTheorems,
        WellFoundedInduction, TLAPS

\* The least number principle, for a set instead of a predicate: the form in
\* which an induction over a table or over time is made in these proofs.
LEMMA LeastNat ==
    ASSUME NEW S \in SUBSET Nat, S # {}
    PROVE  \E x \in S : \A y \in S : x <= y
<1> DEFINE R == OpToRel(<, Nat)
<1>1. IsWellFoundedOn(R, Nat)
  BY NatLessThanWellFounded
<1>2. \A x, y \in Nat : <<y, x>> \in R <=> y < x
  BY DEF OpToRel
<1> HIDE DEF R
<1>3. PICK x \in S : \A y \in S : ~ (<<y, x>> \in R)
  BY <1>1, WFMin
<1>4. ASSUME NEW y \in S PROVE x <= y
  <2>1. x \in Nat /\ y \in Nat
    OBVIOUS
  <2>2. ~ (y < x)
    BY <1>2, <1>3, <2>1
  <2> QED
    BY <2>1, <2>2
<1> QED
  BY <1>4

\* A scan with a strict comparison: in a set of rows with keys there is a
\* first one among those with the least key.
LEMMA FirstLeast ==
    ASSUME NEW S \in SUBSET Nat, S # {}, NEW f \in [S -> Nat]
    PROVE  \E i \in S : \A j \in S : f[i] < f[j] \/ (f[i] = f[j] /\ i <= j)
<1> DEFINE Keys == {f[i] : i \in S}
<1>1. Keys \in SUBSET Nat /\ Keys # {}
  OBVIOUS
<1>2. PICK k \in Keys : \A x \in Keys : k <= x
  BY <1>1, LeastNat
<1> DEFINE Firsts == {i \in S : f[i] = k}
<1>3. Firsts \in SUBSET Nat /\ Firsts # {}
  BY <1>2
<1>4. PICK i \in Firsts : \A j \in Firsts : i <= j
  BY <1>3, LeastNat
<1>5. ASSUME NEW j \in S PROVE f[i] < f[j] \/ (f[i] = f[j] /\ i <= j)
  <2>1. f[i] = k /\ k <= f[j] /\ k \in Nat /\ f[j] \in Nat
    BY <1>2, <1>4
  <2>2. CASE f[j] = k
    BY <1>4, <2>1, <2>2
  <2>3. CASE f[j] # k
    BY <2>1, <2>3
  <2> QED
    BY <2>2, <2>3
<1> QED
  BY <1>4, <1>5

LEMMA FirstN ==
    ASSUME NEW n \in Nat
    PROVE  IsFiniteSet(1..n) /\ Cardinality(1..n) = n
<1>1. 1 \in Int /\ n \in Int
  OBVIOUS
<1>2. IsFiniteSet(1..n) /\ Cardinality(1..n) = IF 1 > n THEN 0 ELSE n - 1 + 1
  BY <1>1, FS_Interval, Zenon
<1> QED
  BY <1>2

\* A row of a table has the types of its columns.
LEMMA RowTypes ==
    ASSUME NEW tr \in Traces
    PROVE  /\ Len(tr) \in Nat \ {0}
           /\ DOMAIN tr = 1..Len(tr)
           /\ \A i \in DOMAIN tr : tr[i].arrival \in Nat /\ tr[i].burst \in Nat \ {0}
<1>1. tr \in Seq(Row) /\ tr # <<>>
  BY EngineAssumption DEF IsTable
<1>2. Len(tr) \in Nat \ {0} /\ DOMAIN tr = 1..Len(tr)
  BY <1>1, EmptySeq
<1>3. \A i \in DOMAIN tr : tr[i] \in Row
  BY <1>1, <1>2
<1>4. \A r \in Row : r.arrival \in Nat /\ r.burst \in Nat \ {0}
  BY DEF Row
<1> QED
  BY <1>2, <1>3, <1>4

-----------------------------------------------------------------------------
\* What the phases know of each other.  TypeOK is not inductive without it:
\* the decrement of remaining needs the checks that Pick made, and the index
\* of the timeline needs the cap that LoopTest tested.
PhaseInv ==
    /\ phase = "execute" => next \in Ready
    /\ phase = "tick_end" => next \in Procs \cup {IDLE}
    /\ phase \in {"execute", "tick_end"} => timeline[tick] = next
    /\ current = IF tick = 0 THEN IDLE ELSE timeline[tick - 1]

TypeInv == TypeOK /\ PhaseInv

LEMMA TypeInvInit == Init => TypeInv
<1> SUFFICES ASSUME Init PROVE TypeInv
  OBVIOUS
<1>1. \A i \in Procs : trace[i].burst \in Nat
  BY RowTypes DEF Init, Procs
<1>2. MaxTicks \in Nat \ {0}
  BY EngineAssumption
<1>3. TypeOK
  BY <1>1, <1>2 DEF Init, TypeOK, Answers, Phases, Ticks, UnknownPid
<1>4. PhaseInv
  BY DEF Init, PhaseInv
<1> QED
  BY <1>3, <1>4 DEF TypeInv

\* A row index is a positive integer, so it is neither IDLE nor UnknownPid.
LEMMA ProcsArePositive ==
    ASSUME trace \in Traces
    PROVE  /\ \A i \in Procs : i \in Nat \ {0}
           /\ IDLE \notin Procs /\ UnknownPid \notin Procs
BY RowTypes DEF Procs, IDLE, UnknownPid

LEMMA TypeInvStep == TypeInv /\ [Next]_vars => TypeInv'
<1> SUFFICES ASSUME TypeInv, [Next]_vars PROVE TypeInv'
  OBVIOUS
<1> USE DEF TypeInv, Phases, Ticks
<1>0. /\ MaxTicks \in Nat \ {0}
      /\ \A i \in Procs : i \in Nat \ {0} /\ trace[i].arrival \in Nat
      /\ IDLE \notin Procs /\ UnknownPid \notin Procs
  BY EngineAssumption, RowTypes, ProcsArePositive DEF TypeOK, Procs
<1>1. CASE LoopTest
  <2>1. TypeOK'
    BY <1>0, <1>1 DEF LoopTest, TypeOK, CapReached, table, result, Procs, Answers
  <2>2. PhaseInv'
    BY <1>1 DEF LoopTest, PhaseInv, table, result, Procs, Ready
  <2> QED
    BY <2>1, <2>2
<1>2. ASSUME NEW i \in Procs, Admit(i) PROVE TypeInv'
  <2>1. TypeOK'
    BY <1>0, <1>2 DEF Admit, TypeOK, table, result, Procs, Answers
  <2>2. PhaseInv'
    BY <1>2 DEF Admit, PhaseInv, table, result, Procs, Ready
  <2> QED
    BY <2>1, <2>2
<1>3. ASSUME NEW pid \in Answers, Pick(pid) PROVE TypeInv'
  <2>1. tick \in Ticks
    BY <1>3 DEF Pick, TypeOK
  <2>2. /\ timeline' \in [Ticks -> Answers]
        /\ timeline'[tick] = pid
        /\ tick > 0 => timeline'[tick - 1] = timeline[tick - 1]
    BY <1>0, <1>3, <2>1 DEF Pick, TypeOK
  <2>3. context_switches' \in Nat
    BY <1>3 DEF Pick, TypeOK
  <2>4. TypeOK'
    BY <1>3, <2>1, <2>2, <2>3 DEF Pick, TypeOK, table, Procs, Answers
  <2>5. PhaseInv'
    BY <1>3, <2>1, <2>2 DEF Pick, TypeOK, PhaseInv, table, Procs, Ready
  <2> QED
    BY <2>4, <2>5
<1>4. CASE Execute
  <2>1. next \in Procs /\ remaining[next] > 0 /\ remaining[next] \in Nat /\ tick \in Ticks
    BY <1>4 DEF Execute, TypeOK, PhaseInv, Ready
  <2>2. remaining' \in [Procs -> Nat]
    BY <1>4, <2>1 DEF Execute, TypeOK
  <2>7. tick \in Nat /\ StampOf \in Nat
    BY <1>0, <2>1 DEF StampOf
  <2>8. start_tick' \in [Procs -> Nat \cup {NOT_STARTED}]
    BY <1>4, <2>1, <2>7 DEF Execute, TypeOK, FirstDispatch
  <2>9. completion' \in [Procs -> Nat \cup {NOT_STARTED}]
    BY <1>4, <2>1, <2>7 DEF Execute, TypeOK
  <2>4. completed' \in Nat
    BY <1>4 DEF Execute, TypeOK
  <2>5. TypeOK'
    BY <1>4, <2>1, <2>2, <2>8, <2>9, <2>4 DEF Execute, TypeOK, result, Procs, Answers
  <2>6. PhaseInv'
    BY <1>4, <2>1 DEF Execute, PhaseInv, result, Procs
  <2> QED
    BY <2>5, <2>6
<1>5. CASE EndTick
  <2>1. tick \in Ticks /\ next \in Procs \cup {IDLE}
    BY <1>5 DEF EndTick, TypeOK, PhaseInv
  <2>2. TypeOK'
    BY <1>0, <1>5, <2>1 DEF EndTick, TypeOK, table, result, Procs, Answers
  <2>3. PhaseInv'
    BY <1>0, <1>5, <2>1 DEF EndTick, TypeOK, PhaseInv, table, result, Procs
  <2> QED
    BY <2>2, <2>3
<1>6. CASE UNCHANGED vars
  BY <1>6 DEF vars, table, result, TypeOK, PhaseInv, Procs, Ready, Answers
<1> QED
  BY <1>1, <1>2, <1>3, <1>4, <1>5, <1>6 DEF Next, Halt

THEOREM TypeInvAlways == Spec => []TypeInv
BY TypeInvInit, TypeInvStep, PTL DEF Spec

\* The engine's variables keep the types of their C declarations and the clock
\* never indexes the timeline outside its bounds, whatever pick_next answers.
THEOREM TypeCorrect == Spec => []TypeOK
BY TypeInvAlways, PTL DEF TypeInv

-----------------------------------------------------------------------------
\* No step changes the table's read-only columns.
LEMMA TraceStep == [Next]_vars => trace' = trace
BY DEF Next, vars, table, LoopTest, Admit, Pick, Execute, EndTick, Halt

\* A step adds a tick to those of a process only by executing it.
LEMMA TicksOfStep ==
    ASSUME TypeInv, [Next]_vars, NEW i \in Procs
    PROVE  IF Execute /\ next = i
           THEN TicksOf(i)' = TicksOf(i) \cup {tick} /\ tick \notin TicksOf(i)
           ELSE TicksOf(i)' = TicksOf(i)
<1> USE DEF TypeInv, TicksOf, Elapsed, Ticks
<1>0. MaxTicks \in Nat \ {0} /\ i \in Nat \ {0} /\ i # IDLE /\ tick \in Nat
  BY EngineAssumption, ProcsArePositive DEF TypeOK, IDLE
<1>1. CASE LoopTest
  BY <1>1 DEF LoopTest, Execute, result
<1>2. ASSUME NEW j \in Procs, Admit(j) PROVE TicksOf(i)' = TicksOf(i) /\ ~ Execute
  BY <1>2 DEF Admit, Execute, result
<1>3. ASSUME NEW pid \in Answers, Pick(pid) PROVE TicksOf(i)' = TicksOf(i) /\ ~ Execute
  <2>1. tick \in Ticks /\ phase = "admit" /\ tick' = tick
    BY <1>3 DEF Pick, TypeOK
  <2>2. \A t \in 0..(tick - 1) : timeline'[t] = timeline[t]
    BY <1>0, <1>3, <2>1 DEF Pick, TypeOK
  <2>3. CASE pid = IDLE
    <3>1. Elapsed' = 0..tick /\ Elapsed = 0..(tick - 1)
      BY <1>3, <2>1, <2>3 DEF Pick
    <3>2. timeline'[tick] # i
      BY <1>0, <1>3, <2>1, <2>3 DEF Pick, TypeOK
    <3> QED
      BY <1>0, <2>1, <2>2, <3>1, <3>2 DEF Execute
  <2>4. CASE pid # IDLE
    <3>1. Elapsed' = 0..(tick - 1) /\ Elapsed = 0..(tick - 1)
      BY <1>3, <2>1, <2>4 DEF Pick
    <3> QED
      BY <2>1, <2>2, <3>1 DEF Execute
  <2> QED
    BY <2>3, <2>4
<1>4. CASE Execute
  <2>1. Elapsed = 0..(tick - 1) /\ Elapsed' = 0..tick /\ timeline' = timeline
    BY <1>4 DEF Execute, result
  <2>2. timeline[tick] = next
    BY <1>4 DEF Execute, PhaseInv
  <2>3. /\ TicksOf(i) = {t \in 0..(tick - 1) : timeline[t] = i}
        /\ TicksOf(i)' = {t \in 0..tick : timeline[t] = i}
    BY <2>1
  <2>4. 0..tick = (0..(tick - 1)) \cup {tick} /\ tick \notin 0..(tick - 1)
    BY <1>0
  <2> HIDE DEF TicksOf, Elapsed
  <2>5. CASE next = i
    BY <1>4, <2>2, <2>3, <2>4, <2>5
  <2>6. CASE next # i
    BY <1>4, <2>2, <2>3, <2>4, <2>6
  <2> QED
    BY <2>5, <2>6
<1>5. CASE EndTick
  BY <1>0, <1>5 DEF EndTick, Execute, result
<1>6. CASE UNCHANGED vars
  BY <1>6 DEF vars, result, Execute
<1> QED
  BY <1>1, <1>2, <1>3, <1>4, <1>5, <1>6 DEF Next, Halt

LEMMA TicksOfFinite ==
    ASSUME TypeInv, NEW i \in Procs
    PROVE  IsFiniteSet(TicksOf(i)) /\ TicksOf(i) \in SUBSET Nat
<1>1. tick \in Nat
  BY EngineAssumption DEF TypeInv, TypeOK
<1>2. TicksOf(i) \in SUBSET (0..tick)
  BY <1>1 DEF TicksOf, Elapsed
<1>3. IsFiniteSet(0..tick)
  BY <1>1, FS_Interval
<1> QED
  BY <1>1, <1>2, <1>3, FS_Subset

LEMMA AccountingInit == Init => Accounting
<1> SUFFICES ASSUME Init PROVE Accounting
  OBVIOUS
<1>1. \A i \in Procs : trace[i].burst \in Nat \ {0}
  BY RowTypes DEF Init, Procs
<1>2. \A i \in Procs : TicksOf(i) = {}
  BY DEF Init, TicksOf, Elapsed
<1>3. {i \in Procs : remaining[i] = 0} = {}
  BY <1>1 DEF Init
<1>4. \A i \in Procs : trace[i].burst - remaining[i] = 0
  BY <1>1 DEF Init
<1>5. \A i \in Procs : Cardinality(TicksOf(i)) = 0
  BY <1>2, FS_EmptySet
<1>6. completed = Cardinality({i \in Procs : remaining[i] = 0})
  BY <1>3, FS_EmptySet DEF Init
<1> QED
  BY <1>4, <1>5, <1>6 DEF Accounting

LEMMA AccountingStep == TypeInv /\ Accounting /\ [Next]_vars => Accounting'
<1> SUFFICES ASSUME TypeInv, Accounting, [Next]_vars PROVE Accounting'
  OBVIOUS
<1>0. trace' = trace /\ Procs' = Procs
  BY TraceStep DEF Procs
<1>1. CASE Execute
  <2>1. /\ next \in Procs /\ remaining \in [Procs -> Nat] /\ remaining[next] > 0
        /\ remaining' = [remaining EXCEPT ![next] = @ - 1]
        /\ trace[next].burst \in Nat
    BY <1>1, RowTypes DEF Execute, TypeInv, TypeOK, PhaseInv, Ready, Procs
  <2>2. \A i \in Procs : Cardinality(TicksOf(i)') = trace[i].burst - remaining'[i]
    <3> TAKE i \in Procs
    <3>1. CASE i = next
      <4>1. TicksOf(i)' = TicksOf(i) \cup {tick} /\ tick \notin TicksOf(i)
        BY <1>1, <3>1, TicksOfStep
      <4>2. Cardinality(TicksOf(i)') = Cardinality(TicksOf(i)) + 1
        BY <4>1, TicksOfFinite, FS_AddElement
      <4> QED
        BY <2>1, <3>1, <4>2 DEF Accounting
    <3>2. CASE i # next
      BY <1>1, <2>1, <3>2, TicksOfStep DEF Accounting
    <3> QED
      BY <3>1, <3>2
  <2> DEFINE Done == {i \in Procs : remaining[i] = 0}
  <2>3. IsFiniteSet(Done)
    <3>1. Len(trace) \in Nat /\ Procs = 1..Len(trace)
      BY RowTypes DEF TypeInv, TypeOK, Procs
    <3>2. IsFiniteSet(1..Len(trace)) /\ Done \in SUBSET (1..Len(trace))
      BY <3>1, FS_Interval
    <3> QED
      BY <3>2, FS_Subset
  <2>4. completed' = Cardinality(Done')
    <3>1. CASE Finishing
      <4>1. Done' = Done \cup {next} /\ next \notin Done
        BY <1>0, <2>1, <3>1 DEF Finishing
      <4> QED
        BY <1>1, <2>3, <3>1, <4>1, FS_AddElement DEF Execute, Accounting
    <3>2. CASE ~ Finishing
      <4>1. Done' = Done
        BY <1>0, <2>1, <3>2 DEF Finishing
      <4> QED
        BY <1>1, <3>2, <4>1 DEF Execute, Accounting
    <3> QED
      BY <3>1, <3>2
  <2> QED
    BY <1>0, <2>2, <2>4 DEF Accounting
<1>2. CASE ~ Execute
  <2>1. remaining' = remaining /\ completed' = completed
    BY <1>2 DEF Next, vars, table, LoopTest, Admit, Pick, EndTick, Halt
  <2>2. \A i \in Procs : TicksOf(i)' = TicksOf(i)
    BY <1>2, TicksOfStep
  <2> QED
    BY <1>0, <2>1, <2>2 DEF Accounting
<1> QED
  BY <1>1, <1>2

THEOREM AccountingAlways == Spec => [](TypeInv /\ Accounting)
<1>1. Init => TypeInv /\ Accounting
  BY TypeInvInit, AccountingInit
<1>2. TypeInv /\ Accounting /\ [Next]_vars => (TypeInv /\ Accounting)'
  BY TypeInvStep, AccountingStep
<1> QED
  BY <1>1, <1>2, PTL DEF Spec

\* SPEC.md invariant 1 at every point of every run: the timeline gives a
\* process exactly the ticks that are gone from its burst, and the loop's
\* exit test counts the processes with nothing left.
THEOREM AccountingCorrect == Spec => []Accounting
BY AccountingAlways, PTL

-----------------------------------------------------------------------------
LEMMA WindowInit == Init => Window
<1> SUFFICES ASSUME Init, NEW i \in Procs
             PROVE  /\ start_tick[i] = NOT_STARTED /\ TicksOf(i) = {}
                    /\ completion[i] = NOT_STARTED /\ remaining[i] > 0
  BY DEF Window
<1>1. trace[i].burst \in Nat \ {0}
  BY RowTypes DEF Init, Procs
<1> QED
  BY <1>1 DEF Init, TicksOf, Elapsed

LEMMA WindowStep == TypeInv /\ Window /\ [Next]_vars => Window'
<1> SUFFICES ASSUME TypeInv, Window, [Next]_vars PROVE Window'
  OBVIOUS
<1>0. trace' = trace /\ Procs' = Procs
  BY TraceStep DEF Procs
<1>1. CASE Execute
  <2>1. /\ next \in Procs /\ remaining[next] > 0 /\ tick \in Nat
        /\ trace[next].arrival <= tick /\ trace[next].arrival \in Nat
    <3>1. next \in Ready /\ trace \in Traces /\ tick \in Ticks
      BY <1>1 DEF Execute, TypeInv, TypeOK, PhaseInv
    <3>2. trace[next].arrival \in Nat
      BY <3>1, RowTypes DEF Ready, Procs
    <3> QED
      BY <3>1, <3>2, EngineAssumption DEF Ready, Ticks
  <2>2. \A i \in Procs : TicksOf(i) \subseteq 0..(tick - 1)
    BY <1>1 DEF Execute, TicksOf, Elapsed
  <2> SUFFICES ASSUME NEW i \in Procs
               PROVE  /\ start_tick'[i] = NOT_STARTED <=> TicksOf(i)' = {}
                      /\ start_tick'[i] # NOT_STARTED => start_tick'[i] \in TicksOf(i)'
                      /\ \A t \in TicksOf(i)' : /\ trace[i].arrival <= start_tick'[i]
                                                 /\ start_tick'[i] <= t
                      /\ completion'[i] = NOT_STARTED <=> remaining'[i] > 0
                      /\ completion'[i] # NOT_STARTED =>
                            /\ completion'[i] - 1 \in TicksOf(i)'
                            /\ \A t \in TicksOf(i)' : t < completion'[i]
    BY <1>0 DEF Window
  <2>3. CASE i = next
    <3>1. TicksOf(i)' = TicksOf(i) \cup {tick} /\ completion[i] = NOT_STARTED
      BY <1>1, <2>1, <2>3, TicksOfStep DEF Window
    <3>2. /\ start_tick'[i] = IF start_tick[i] = NOT_STARTED THEN tick ELSE start_tick[i]
          /\ remaining'[i] = remaining[i] - 1 /\ remaining[i] \in Nat
          /\ completion'[i] = IF remaining[i] = 1 THEN tick + 1 ELSE completion[i]
      BY <1>1, <2>3 DEF Execute, TypeInv, TypeOK, FirstDispatch, Finishing, StampOf
    <3>3. /\ start_tick'[i] # NOT_STARTED
          /\ start_tick'[i] \in TicksOf(i)'
          /\ \A t \in TicksOf(i)' : trace[i].arrival <= start_tick'[i] /\ start_tick'[i] <= t
      <4>1. CASE start_tick[i] = NOT_STARTED
        <5>1. TicksOf(i)' = {tick} /\ start_tick'[i] = tick
          BY <3>1, <3>2, <4>1 DEF Window
        <5> QED
          BY <2>1, <2>3, <5>1 DEF NOT_STARTED
      <4>2. CASE start_tick[i] # NOT_STARTED
        <5>1. /\ start_tick'[i] = start_tick[i] /\ start_tick[i] \in TicksOf(i)
              /\ trace[i].arrival <= start_tick[i]
              /\ \A t \in TicksOf(i) : start_tick[i] <= t
          BY <3>2, <4>2 DEF Window
        <5>2. start_tick[i] <= tick
          BY <2>1, <2>2, <5>1
        <5> QED
          BY <3>1, <4>2, <5>1, <5>2
      <4> QED
        BY <4>1, <4>2
    <3>4. /\ completion'[i] = NOT_STARTED <=> remaining'[i] > 0
          /\ completion'[i] # NOT_STARTED => /\ completion'[i] - 1 \in TicksOf(i)'
                                             /\ \A t \in TicksOf(i)' : t < completion'[i]
      <4>1. CASE remaining[i] = 1
        BY <2>1, <2>2, <3>1, <3>2, <4>1 DEF NOT_STARTED
      <4>2. CASE remaining[i] # 1
        BY <2>1, <2>3, <3>1, <3>2, <4>2
      <4> QED
        BY <4>1, <4>2
    <3> QED
      BY <3>1, <3>3, <3>4
  <2>4. CASE i # next
    <3>1. TicksOf(i)' = TicksOf(i)
      BY <1>1, <2>4, TicksOfStep
    <3>2. /\ start_tick'[i] = start_tick[i] /\ remaining'[i] = remaining[i]
          /\ completion'[i] = completion[i]
      BY <1>1, <2>1, <2>4 DEF Execute, TypeInv, TypeOK
    <3> QED
      BY <3>1, <3>2 DEF Window
  <2> QED
    BY <2>3, <2>4
<1>2. CASE ~ Execute
  <2>1. UNCHANGED <<remaining, start_tick, completion>>
    BY <1>2 DEF Next, vars, table, LoopTest, Admit, Pick, EndTick, Halt
  <2>2. \A i \in Procs : TicksOf(i)' = TicksOf(i)
    BY <1>2, TicksOfStep
  <2> QED
    BY <1>0, <2>1, <2>2 DEF Window
<1> QED
  BY <1>1, <1>2

\* SPEC.md section 5 and invariants 3 and 5: every tick a process is given lies
\* between its start and its completion stamp, and both are ticks it ran.
THEOREM WindowCorrect == Spec => []Window
<1>1. Init => TypeInv /\ Window
  BY TypeInvInit, WindowInit
<1>2. TypeInv /\ Window /\ [Next]_vars => (TypeInv /\ Window)'
  BY TypeInvStep, WindowStep
<1> QED
  BY <1>1, <1>2, PTL DEF Spec

-----------------------------------------------------------------------------
LEMMA SwitchesStep ==
    TypeInv /\ SwitchesMatchTimeline /\ [Next]_vars => SwitchesMatchTimeline'
<1> SUFFICES ASSUME TypeInv, SwitchesMatchTimeline, [Next]_vars, phase' # "error"
             PROVE  (context_switches = Cardinality(SwitchTicks))'
  BY DEF SwitchesMatchTimeline
<1>0. tick \in Nat
  BY EngineAssumption DEF TypeInv, TypeOK
<1>1. ASSUME NEW pid \in Answers, Pick(pid)
      PROVE  (context_switches = Cardinality(SwitchTicks))'
  <2>1. /\ phase = "admit" /\ tick \in Ticks /\ tick' = tick
        /\ context_switches = Cardinality(SwitchTicks)
        /\ current = IF tick = 0 THEN IDLE ELSE timeline[tick - 1]
    BY <1>1 DEF Pick, TypeInv, TypeOK, PhaseInv, SwitchesMatchTimeline
  <2>2. Decided = 0..(tick - 1) /\ Decided' = 0..tick
    BY <1>1, <2>1 DEF Pick, Decided
  <2>3. /\ timeline'[tick] = pid
        /\ \A t \in 0..(tick - 1) : timeline'[t] = timeline[t]
    BY <1>0, <1>1, <2>1 DEF Pick, TypeInv, TypeOK, Ticks
  <2>4. IsFiniteSet(SwitchTicks) /\ tick \notin SwitchTicks
    <3>1. SwitchTicks \in SUBSET (0..(tick - 1))
      BY <2>2 DEF SwitchTicks
    <3>2. IsFiniteSet(0..(tick - 1)) /\ tick \notin 0..(tick - 1)
      BY <1>0, FS_Interval
    <3> QED
      BY <3>1, <3>2, FS_Subset
  <2>5. /\ SwitchTicks = {t \in 0..(tick - 1) :
                             /\ t > 0 /\ timeline[t] # timeline[t - 1]
                             /\ timeline[t] # IDLE /\ timeline[t - 1] # IDLE}
        /\ SwitchTicks' = {t \in 0..tick :
                             /\ t > 0 /\ timeline'[t] # timeline'[t - 1]
                             /\ timeline'[t] # IDLE /\ timeline'[t - 1] # IDLE}
    BY <2>2 DEF SwitchTicks
  <2>6. \A t \in 0..(tick - 1) : t > 0 => t - 1 \in 0..(tick - 1)
    BY <1>0
  <2>7. CASE IsSwitch(pid)
    <3>1. tick > 0 /\ timeline'[tick - 1] = current
      BY <1>0, <2>1, <2>3, <2>7 DEF IsSwitch
    <3>2. SwitchTicks' = SwitchTicks \cup {tick}
      BY <1>0, <2>3, <2>5, <2>6, <2>7, <3>1 DEF IsSwitch
    <3> QED
      BY <1>1, <2>1, <2>4, <2>7, <3>2, FS_AddElement DEF Pick
  <2>8. CASE ~ IsSwitch(pid)
    <3>1. tick > 0 => timeline'[tick - 1] = current
      BY <1>0, <2>1, <2>3
    <3>2. SwitchTicks' = SwitchTicks
      BY <1>0, <2>3, <2>5, <2>6, <2>8, <3>1 DEF IsSwitch
    <3> QED
      BY <1>1, <2>1, <2>8, <3>2 DEF Pick, TypeInv, TypeOK
  <2> QED
    BY <2>7, <2>8
<1>2. CASE LoopTest \/ (\E i \in Procs : Admit(i)) \/ Execute \/ EndTick \/ UNCHANGED vars
  <2>1. phase # "error"
    BY <1>2 DEF LoopTest, Admit, Execute, EndTick, vars
  <2>2. timeline' = timeline /\ context_switches' = context_switches
    BY <1>2 DEF LoopTest, Admit, Execute, EndTick, vars, result
  <2>3. Decided' = Decided
    BY <1>0, <1>2 DEF LoopTest, Admit, Execute, EndTick, vars, Decided
  <2> QED
    BY <2>1, <2>2, <2>3 DEF SwitchesMatchTimeline, SwitchTicks
<1> QED
  BY <1>1, <1>2 DEF Next, Halt

\* SPEC.md section 5, "Counting context switches": the engine's counter, kept
\* from current and next as they go by, is what the timeline shows.
THEOREM SwitchesCorrect == Spec => []SwitchesMatchTimeline
<1>1. Init => SwitchesMatchTimeline
  <2> SUFFICES ASSUME Init PROVE SwitchesMatchTimeline
    OBVIOUS
  <2>1. SwitchTicks = {}
    BY DEF Init, SwitchTicks, Decided
  <2> QED
    BY <2>1, FS_EmptySet DEF Init, SwitchesMatchTimeline
<1>2. Init => TypeInv
  BY TypeInvInit
<1>3. TypeInv /\ SwitchesMatchTimeline /\ [Next]_vars
          => (TypeInv /\ SwitchesMatchTimeline)'
  BY TypeInvStep, SwitchesStep
<1> QED
  BY <1>1, <1>2, <1>3, PTL DEF Spec

-----------------------------------------------------------------------------
\* The units of work already done, counted down from the end of each burst as
\* remaining is.
WorkDone == {w \in Procs \X Nat : remaining[w[1]] < w[2] /\ w[2] <= trace[w[1]].burst}

BusySoFar == {t \in Elapsed : timeline[t] # IDLE}

\* Every busy tick is matched by a unit of work, one for one, and was given
\* to a process; and the loop is left through its test only.  Work is counted
\* as a set of units, which grows by one element where a sum over the bursts
\* would have to be unfolded.
WorkInv ==
    /\ IsFiniteSet(WorkDone)
    /\ Cardinality(BusySoFar) = Cardinality(WorkDone)
    /\ \A t \in Elapsed : timeline[t] \in Procs \cup {IDLE}
    /\ \A i \in Procs : remaining[i] <= trace[i].burst
    /\ phase = "ok" => completed >= Len(trace)

MetricsInv == TypeInv /\ Accounting /\ Window /\ WorkInv

LEMMA WorkInit == Init => WorkInv
<1> SUFFICES ASSUME Init PROVE WorkInv
  OBVIOUS
<1>1. Elapsed = {} /\ phase # "ok"
  BY DEF Init, Elapsed
<1>2. \A i \in Procs : remaining[i] = trace[i].burst /\ trace[i].burst \in Nat
  BY RowTypes DEF Init, Procs
<1>3. WorkDone = {}
  BY <1>2 DEF WorkDone
<1>4. BusySoFar = {}
  BY <1>1 DEF BusySoFar
<1> QED
  BY <1>1, <1>2, <1>3, <1>4, FS_EmptySet DEF WorkInv

LEMMA WorkStep == TypeInv /\ WorkInv /\ [Next]_vars => WorkInv'
<1> SUFFICES ASSUME TypeInv, WorkInv, [Next]_vars PROVE WorkInv'
  OBVIOUS
<1>0. /\ trace' = trace /\ Procs' = Procs /\ tick \in Nat
      /\ \A i \in Procs : trace[i].burst \in Nat
      /\ remaining \in [Procs -> Nat]
      /\ IDLE \notin Procs
  BY TraceStep, RowTypes, ProcsArePositive, EngineAssumption DEF Procs, TypeInv, TypeOK
<1>1. CASE Execute
  <2>1. /\ next \in Procs /\ remaining[next] > 0 /\ timeline[tick] = next
        /\ remaining' = [remaining EXCEPT ![next] = @ - 1]
        /\ timeline' = timeline /\ phase' = "tick_end"
        /\ Elapsed = 0..(tick - 1) /\ Elapsed' = 0..tick
    BY <1>1 DEF Execute, TypeInv, PhaseInv, Ready, result, Elapsed
  <2>2. 0..tick = (0..(tick - 1)) \cup {tick} /\ tick \notin 0..(tick - 1)
    BY <1>0
  <2> DEFINE unit == <<next, remaining[next]>>
  <2>3. WorkDone' = WorkDone \cup {unit} /\ unit \notin WorkDone
    <3>1. unit \in Procs \X Nat /\ remaining[next] <= trace[next].burst
      BY <1>0, <2>1 DEF WorkInv
    <3>2. ASSUME NEW w \in Procs \X Nat
          PROVE  w \in WorkDone' <=> w \in WorkDone \/ w = unit
      <4>1. w = <<w[1], w[2]>> /\ w[1] \in Procs /\ w[2] \in Nat
        OBVIOUS
      <4>2. w \in WorkDone' <=> remaining'[w[1]] < w[2] /\ w[2] <= trace[w[1]].burst
        BY <1>0 DEF WorkDone
      <4>3. CASE w[1] = next
        BY <1>0, <2>1, <3>1, <4>1, <4>2, <4>3 DEF WorkDone
      <4>4. CASE w[1] # next
        BY <1>0, <2>1, <4>1, <4>2, <4>4 DEF WorkDone
      <4> QED
        BY <4>3, <4>4
    <3>3. WorkDone \subseteq Procs \X Nat /\ WorkDone' \subseteq Procs \X Nat
      BY <1>0 DEF WorkDone
    <3>4. unit \notin WorkDone
      BY <1>0, <2>1 DEF WorkDone
    <3> QED
      BY <3>1, <3>2, <3>3, <3>4
  <2>4. BusySoFar' = BusySoFar \cup {tick} /\ tick \notin BusySoFar
    BY <1>0, <2>1, <2>2 DEF BusySoFar
  <2>5. IsFiniteSet(BusySoFar)
    <3>1. BusySoFar \in SUBSET (0..(tick - 1)) /\ IsFiniteSet(0..(tick - 1))
      BY <1>0, <2>1, FS_Interval DEF BusySoFar
    <3> QED
      BY <3>1, FS_Subset
  <2>6. IsFiniteSet(WorkDone)' /\ (Cardinality(BusySoFar) = Cardinality(WorkDone))'
    <3>1. IsFiniteSet(WorkDone) /\ Cardinality(BusySoFar) = Cardinality(WorkDone)
      BY DEF WorkInv
    <3>2. IsFiniteSet(WorkDone') /\ Cardinality(WorkDone') = Cardinality(WorkDone) + 1
      BY <2>3, <3>1, FS_AddElement
    <3>3. Cardinality(BusySoFar') = Cardinality(BusySoFar) + 1
      BY <2>4, <2>5, FS_AddElement
    <3> QED
      BY <3>1, <3>2, <3>3
  <2>7. \A t \in Elapsed' : timeline'[t] \in Procs \cup {IDLE}
    BY <2>1, <2>2 DEF WorkInv
  <2>8. \A i \in Procs : remaining'[i] <= trace[i].burst
    BY <1>0, <2>1 DEF WorkInv
  <2> QED
    BY <1>0, <2>1, <2>6, <2>7, <2>8 DEF WorkInv
<1>2. CASE ~ Execute
  <2>1. remaining' = remaining
    BY <1>2 DEF Next, vars, table, LoopTest, Admit, Pick, EndTick, Halt
  <2>2. WorkDone' = WorkDone
    BY <1>0, <2>1 DEF WorkDone
  <2>3. /\ BusySoFar' = BusySoFar
        /\ \A t \in Elapsed' : timeline'[t] \in Procs \cup {IDLE}
    <3>1. ASSUME NEW pid \in Answers, Pick(pid)
          PROVE  /\ BusySoFar' = BusySoFar
                 /\ \A t \in Elapsed' : timeline'[t] \in Procs \cup {IDLE}
      <4>1. /\ phase = "admit" /\ tick \in Ticks /\ tick' = tick
            /\ Elapsed = 0..(tick - 1)
        BY <3>1 DEF Pick, Elapsed, TypeInv, TypeOK
      <4>2. /\ timeline'[tick] = pid
            /\ \A t \in 0..(tick - 1) : timeline'[t] = timeline[t]
        BY <1>0, <3>1, <4>1 DEF Pick, TypeInv, TypeOK, Ticks
      <4>3. Elapsed' = IF pid = IDLE THEN 0..tick ELSE 0..(tick - 1)
        BY <3>1, <4>1 DEF Pick, Elapsed
      <4>4. 0..tick = (0..(tick - 1)) \cup {tick}
        BY <1>0
      <4>5. CASE pid = IDLE
        BY <4>1, <4>2, <4>3, <4>4, <4>5 DEF BusySoFar, WorkInv
      <4>6. CASE pid # IDLE
        BY <4>1, <4>2, <4>3, <4>6 DEF BusySoFar, WorkInv
      <4> QED
        BY <4>5, <4>6
    <3>2. CASE LoopTest \/ (\E i \in Procs : Admit(i)) \/ EndTick \/ UNCHANGED vars
      <4>1. timeline' = timeline /\ Elapsed' = Elapsed
        BY <1>0, <3>2 DEF LoopTest, Admit, EndTick, vars, result, Elapsed
      <4> QED
        BY <1>0, <4>1 DEF BusySoFar, WorkInv
    <3> QED
      BY <1>2, <3>1, <3>2 DEF Next, Halt
  <2>4. phase' = "ok" => completed' >= Len(trace')
    BY <1>0 DEF Next, vars, LoopTest, Admit, Pick, Execute, EndTick, Halt, table, WorkInv
  <2> QED
    BY <1>0, <2>1, <2>2, <2>3, <2>4 DEF WorkInv
<1> QED
  BY <1>1, <1>2

THEOREM MetricsInvAlways == Spec => []MetricsInv
<1>1. Init => MetricsInv
  BY TypeInvInit, AccountingInit, WindowInit, WorkInit DEF MetricsInv
<1>2. MetricsInv /\ [Next]_vars => MetricsInv'
  BY TypeInvStep, AccountingStep, WindowStep, WorkStep DEF MetricsInv
<1> QED
  BY <1>1, <1>2, PTL DEF Spec

-----------------------------------------------------------------------------
\* When every process is counted as completed, nothing is left of any burst.
LEMMA CountedOut ==
    ASSUME MetricsInv, completed >= Len(trace)
    PROVE  \A i \in Procs : remaining[i] = 0
<1> DEFINE Done == {i \in Procs : remaining[i] = 0}
<1>1. Procs = 1..Len(trace) /\ Len(trace) \in Nat
  BY RowTypes DEF MetricsInv, TypeInv, TypeOK, Procs
<1>2. IsFiniteSet(Procs) /\ Cardinality(Procs) = Len(trace)
  BY <1>1, FirstN
<1>3. Done \in SUBSET Procs /\ Cardinality(Done) >= Len(trace)
  BY DEF MetricsInv, Accounting
<1>4. /\ Cardinality(Done) <= Cardinality(Procs) /\ IsFiniteSet(Done)
      /\ Cardinality(Procs) = Cardinality(Done) => Procs = Done
  BY <1>2, <1>3, FS_Subset
<1>5. Cardinality(Done) \in Nat
  BY <1>4, FS_CardinalityType
<1> QED
  BY <1>1, <1>2, <1>3, <1>4, <1>5

LEMMA CountedOutNext ==
    (MetricsInv /\ completed >= Len(trace) => \A i \in Procs : remaining[i] = 0)'
<1>1. MetricsInv /\ completed >= Len(trace) => \A i \in Procs : remaining[i] = 0
  BY CountedOut
<1> QED
  BY <1>1, PTL

LEMMA AllDone ==
    ASSUME MetricsInv, phase = "ok"
    PROVE  \A i \in Procs : remaining[i] = 0
BY CountedOut DEF MetricsInv, WorkInv

\* The ticks of a finished process fill its burst and lie between its stamps.
LEMMA StampsFitTheBurst ==
    ASSUME MetricsInv, phase = "ok", NEW i \in Procs
    PROVE  /\ completion[i] # NOT_STARTED /\ start_tick[i] # NOT_STARTED
           /\ start_tick[i] \in Nat /\ completion[i] \in Nat
           /\ start_tick[i] >= trace[i].arrival
           /\ completion[i] >= start_tick[i] + trace[i].burst
<1>1. /\ trace[i].burst \in Nat \ {0} /\ trace[i].arrival \in Nat
      /\ remaining[i] = 0
  BY RowTypes, AllDone DEF MetricsInv, TypeInv, TypeOK, Procs
<1>2. Cardinality(TicksOf(i)) = trace[i].burst
  BY <1>1 DEF MetricsInv, Accounting
<1>3. TicksOf(i) # {}
  BY <1>1, <1>2, FS_EmptySet
<1>4. completion[i] # NOT_STARTED /\ start_tick[i] # NOT_STARTED
  BY <1>1, <1>3 DEF MetricsInv, Window
<1>5. start_tick[i] \in Nat /\ completion[i] \in Nat
  BY <1>4 DEF MetricsInv, TypeInv, TypeOK
<1>6. /\ start_tick[i] \in TicksOf(i)
      /\ \A t \in TicksOf(i) : /\ trace[i].arrival <= start_tick[i]
                                /\ start_tick[i] <= t /\ t < completion[i]
  BY <1>4 DEF MetricsInv, Window
<1>7. TicksOf(i) \in SUBSET (start_tick[i]..(completion[i] - 1))
  <2>1. TicksOf(i) \in SUBSET Nat
    BY TicksOfFinite DEF MetricsInv
  <2> QED
    BY <1>5, <1>6, <2>1
<1>8. /\ IsFiniteSet(start_tick[i]..(completion[i] - 1))
      /\ Cardinality(start_tick[i]..(completion[i] - 1))
            = IF start_tick[i] > completion[i] - 1 THEN 0
              ELSE completion[i] - 1 - start_tick[i] + 1
  <2>1. start_tick[i] \in Int /\ completion[i] - 1 \in Int
    BY <1>5
  <2> QED
    BY <2>1, FS_Interval, Zenon
<1>9. Cardinality(TicksOf(i)) <= Cardinality(start_tick[i]..(completion[i] - 1))
  BY <1>7, <1>8, FS_Subset
<1>10. start_tick[i] >= trace[i].arrival
  BY <1>1, <1>5, <1>6
<1>11. completion[i] >= start_tick[i] + trace[i].burst
  BY <1>1, <1>2, <1>5, <1>8, <1>9
<1> QED
  BY <1>4, <1>5, <1>10, <1>11

\* SPEC.md invariants 1 to 8 hold whenever engine_run returns 0, so the exit
\* "invariant check failed" of run_one is unreachable: a scheduler can make
\* the engine refuse a run but not make it report a wrong one.
THEOREM ChecksNeverFailCorrect == Spec => []ChecksNeverFail
<1>1. MetricsInv => ChecksNeverFail
  <2> SUFFICES ASSUME MetricsInv, phase = "ok" PROVE metrics_check_invariants
    BY DEF ChecksNeverFail
  <2>1. /\ trace \in Traces /\ tick \in Nat /\ Procs = DOMAIN trace
        /\ \A i \in Procs : trace[i].burst \in Nat /\ trace[i].arrival \in Nat
    BY RowTypes, EngineAssumption DEF MetricsInv, TypeInv, TypeOK, Procs
  <2>2. BusyTicks = BusySoFar
    BY DEF BusyTicks, BusySoFar, Elapsed
  <2>3. WorkOf(trace) = WorkDone
    <3>1. \A w : w \in WorkOf(trace) <=>
                   \E i \in Procs : w \in {i} \X (1..trace[i].burst)
      BY <2>1 DEF WorkOf
    <3>2. \A w : w \in WorkDone <=> /\ w \in Procs \X Nat /\ w[2] > 0
                                    /\ w[2] <= trace[w[1]].burst
      BY <2>1, AllDone DEF WorkDone
    <3> QED
      BY <2>1, <3>1, <3>2
  <2>4. busy_ticks = sum_burst
    BY <2>2, <2>3 DEF busy_ticks, sum_burst, MetricsInv, WorkInv
  <2>5. total_ticks = busy_ticks + idle_ticks
    <3>1. BusyTicks \in SUBSET (0..(tick - 1)) /\ IsFiniteSet(0..(tick - 1))
      BY <2>1, FS_Interval DEF BusyTicks
    <3>2. busy_ticks \in Nat
      BY <3>1, FS_Subset, FS_CardinalityType DEF busy_ticks
    <3> QED
      BY <2>1, <3>2 DEF total_ticks, idle_ticks
  <2>6. ASSUME NEW i \in Procs
        PROVE  /\ completion[i] # NOT_STARTED /\ start_tick[i] # NOT_STARTED
               /\ start_tick[i] >= trace[i].arrival
               /\ completion[i] >= trace[i].arrival + trace[i].burst
               /\ response(i) >= 0 /\ response(i) <= waiting(i)
    BY <2>1, StampsFitTheBurst DEF response, waiting, turnaround
  <2>7. \A t \in BusyTicks : timeline[t] \in Procs
    BY <2>2 DEF BusyTicks, BusySoFar, MetricsInv, WorkInv
  <2> QED
    BY <2>4, <2>5, <2>6, <2>7 DEF metrics_check_invariants
<1> QED
  BY <1>1, MetricsInvAlways, PTL

-----------------------------------------------------------------------------
\* The number of ticks that are accounted for.
Now == IF phase = "tick_end" THEN tick + 1 ELSE tick

\* What the stamps of a process say of its burst.
LEMMA StampsAndBurst ==
    ASSUME MetricsInv, NEW i \in Procs
    PROVE  /\ start_tick[i] = NOT_STARTED => remaining[i] = trace[i].burst
           /\ completion[i] = NOT_STARTED <=> remaining[i] > 0
           /\ completion[i] # NOT_STARTED => start_tick[i] \in Nat /\ completion[i] \in Nat
<1>1. /\ trace[i].burst \in Nat \ {0} /\ remaining[i] \in Nat
      /\ start_tick[i] \in Nat \cup {NOT_STARTED}
      /\ completion[i] \in Nat \cup {NOT_STARTED}
  BY RowTypes DEF MetricsInv, TypeInv, TypeOK, Procs
<1>2. start_tick[i] = NOT_STARTED => Cardinality(TicksOf(i)) = 0
  BY FS_EmptySet DEF MetricsInv, Window
<1> QED
  BY <1>1, <1>2 DEF MetricsInv, Accounting, Window

LEMMA WCNextIsNext ==
    ASSUME TypeInv, [WCNext]_vars
    PROVE  [Next]_vars
BY DEF WCNext, Next, AllowedAnswers, Answers, Ready, Halt

\* Everything proved of the engine under an arbitrary scheduler carries over.
THEOREM WCImplementsEngine == WCSafety => []MetricsInv
<1>1. Init => MetricsInv
  BY TypeInvInit, AccountingInit, WindowInit, WorkInit DEF MetricsInv
<1>2. MetricsInv /\ [WCNext]_vars => MetricsInv'
  BY WCNextIsNext, TypeInvStep, AccountingStep, WindowStep, WorkStep DEF MetricsInv
<1> QED
  BY <1>1, <1>2, PTL DEF WCSafety

-----------------------------------------------------------------------------
\* The loop is entered only while something is unfinished, and an idle tick is
\* one at which nothing was ready.
IdleInv ==
    /\ phase \in {"admit", "execute"} => completed < Len(trace)
    /\ phase = "tick_end" /\ next = IDLE => completed < Len(trace) /\ Ready = {}

WCInv == MetricsInv /\ IdleInv /\ TickBound

\* The last row arrives last.
LEMMA ArrivalBound ==
    ASSUME NEW tr \in Traces
    PROVE  /\ LastArrival(tr) \in Nat
           /\ \A i \in DOMAIN tr : tr[i].arrival <= LastArrival(tr)
<1>1. /\ Len(tr) \in Nat \ {0} /\ DOMAIN tr = 1..Len(tr)
      /\ \A i \in DOMAIN tr : tr[i].arrival \in Nat
  BY RowTypes
<1>2. \A i, j \in DOMAIN tr : i < j => tr[i].arrival <= tr[j].arrival
  BY EngineAssumption DEF IsTable
<1>3. Len(tr) \in DOMAIN tr
  BY <1>1
<1>4. ASSUME NEW i \in DOMAIN tr PROVE tr[i].arrival <= tr[Len(tr)].arrival
  BY <1>1, <1>2, <1>3
<1> QED
  BY <1>1, <1>3, <1>4 DEF LastArrival

\* While a process is unfinished there is one with work left.
LEMMA SomeoneHasWork ==
    ASSUME MetricsInv, completed < Len(trace)
    PROVE  \E i \in Procs : remaining[i] > 0
<1>1. Procs = 1..Len(trace) /\ Len(trace) \in Nat /\ remaining \in [Procs -> Nat]
  BY RowTypes DEF MetricsInv, TypeInv, TypeOK, Procs
<1>2. IsFiniteSet(Procs) /\ Cardinality(Procs) = Len(trace)
  BY <1>1, FirstN
<1> SUFFICES ASSUME \A i \in Procs : ~ (remaining[i] > 0) PROVE FALSE
  OBVIOUS
<1>3. {i \in Procs : remaining[i] = 0} = Procs
  BY <1>1
<1>4. completed = Len(trace)
  BY <1>2, <1>3 DEF MetricsInv, Accounting
<1> QED
  BY <1>1, <1>4

LEMMA BusyTicksFinite ==
    ASSUME TypeInv
    PROVE  IsFiniteSet(BusyTicks) /\ busy_ticks \in Nat /\ tick \in Nat
<1>1. tick \in Nat
  BY EngineAssumption DEF TypeInv, TypeOK
<1>2. BusyTicks \in SUBSET (0..(tick - 1)) /\ IsFiniteSet(0..(tick - 1))
  BY <1>1, FS_Interval DEF BusyTicks
<1> QED
  BY <1>1, <1>2, FS_Subset, FS_CardinalityType DEF busy_ticks

LEMMA IdleStep == MetricsInv /\ IdleInv /\ [WCNext]_vars => IdleInv'
<1> SUFFICES ASSUME MetricsInv, IdleInv, [WCNext]_vars PROVE IdleInv'
  OBVIOUS
<1>0. trace' = trace /\ completed \in Nat /\ Len(trace) \in Nat
  BY WCNextIsNext, TraceStep, RowTypes DEF MetricsInv, TypeInv, TypeOK
<1>1. CASE LoopTest
  BY <1>0, <1>1 DEF LoopTest, IdleInv
<1>2. ASSUME NEW i \in Procs, Admit(i) PROVE IdleInv'
  BY <1>0, <1>2 DEF Admit, IdleInv
<1>3. ASSUME NEW pid \in AllowedAnswers, Pick(pid) PROVE IdleInv'
  <2>1. Ready' = Ready
    BY <1>3 DEF Pick, Ready, table, Procs
  <2>2. IDLE \notin Ready
    BY ProcsArePositive DEF Ready, MetricsInv, TypeInv, TypeOK
  <2> QED
    BY <1>0, <1>3, <2>1, <2>2 DEF Pick, IdleInv, AllowedAnswers
<1>4. CASE Execute
  <2>1. next # IDLE
    BY <1>4, ProcsArePositive
       DEF Execute, MetricsInv, TypeInv, TypeOK, PhaseInv, Ready
  <2> QED
    BY <1>4, <2>1 DEF Execute, IdleInv
<1>5. CASE EndTick
  BY <1>5 DEF EndTick, IdleInv
<1>6. CASE UNCHANGED vars
  BY <1>6 DEF vars, table, IdleInv, Ready, Procs
<1> QED
  BY <1>1, <1>2, <1>3, <1>4, <1>5, <1>6 DEF WCNext, Halt

LEMMA TickBoundStep ==
    MetricsInv /\ IdleInv /\ TickBound /\ [WCNext]_vars => TickBound'
<1> SUFFICES ASSUME MetricsInv, IdleInv, TickBound, [WCNext]_vars PROVE TickBound'
  OBVIOUS
<1>0. /\ trace' = trace /\ tick \in Nat /\ busy_ticks \in Nat
      /\ LastArrival(trace) \in Nat
      /\ \A i \in Procs : trace[i].arrival <= LastArrival(trace)
      /\ \A i \in Procs : trace[i].arrival \in Nat
  BY WCNextIsNext, TraceStep, BusyTicksFinite, ArrivalBound, RowTypes
     DEF MetricsInv, TypeInv, TypeOK, Procs
<1>1. CASE EndTick
  <2>1. timeline' = timeline /\ tick' = tick + 1 /\ timeline[tick] = next
    BY <1>1 DEF EndTick, result, MetricsInv, TypeInv, PhaseInv
  <2>2. 0..(tick' - 1) = (0..(tick - 1)) \cup {tick} /\ tick \notin 0..(tick - 1)
    BY <1>0, <2>1
  <2>3. CASE next = IDLE
    <3>1. PICK i \in Procs : remaining[i] > 0
      BY <1>1, <2>3, SomeoneHasWork DEF EndTick, IdleInv
    <3>2. tick < trace[i].arrival
      BY <1>0, <1>1, <2>3, <3>1 DEF EndTick, IdleInv, Ready
    <3> QED
      BY <1>0, <2>1, <3>2 DEF TickBound
  <2>4. CASE next # IDLE
    <3>1. BusyTicks' = BusyTicks \cup {tick} /\ tick \notin BusyTicks
      BY <2>1, <2>2, <2>4 DEF BusyTicks
    <3>2. busy_ticks' = busy_ticks + 1
      BY <3>1, BusyTicksFinite, FS_AddElement DEF busy_ticks, MetricsInv
    <3> QED
      BY <1>0, <2>1, <3>2 DEF TickBound
  <2> QED
    BY <2>3, <2>4
<1>2. CASE ~ EndTick
  <2>1. tick' = tick
    BY <1>2 DEF WCNext, vars, LoopTest, Admit, Pick, Execute, Halt
  <2>2. \A t \in 0..(tick - 1) : timeline'[t] = timeline[t]
    <3>1. ASSUME NEW pid \in AllowedAnswers, Pick(pid)
          PROVE  \A t \in 0..(tick - 1) : timeline'[t] = timeline[t]
      BY <1>0, <3>1 DEF Pick, MetricsInv, TypeInv, TypeOK, Ticks
    <3>2. CASE ~ \E pid \in AllowedAnswers : Pick(pid)
      <4>1. timeline' = timeline
        BY <1>2, <3>2 DEF WCNext, vars, result, LoopTest, Admit, Execute, Halt
      <4> QED
        BY <4>1
    <3> QED
      BY <3>1, <3>2
  <2>3. BusyTicks' = BusyTicks
    BY <2>1, <2>2 DEF BusyTicks
  <2> QED
    BY <1>0, <2>1, <2>3 DEF TickBound, busy_ticks
<1> QED
  BY <1>1, <1>2

LEMMA WCInvInit == Init => WCInv
<1> SUFFICES ASSUME Init PROVE WCInv
  OBVIOUS
<1>1. MetricsInv
  BY TypeInvInit, AccountingInit, WindowInit, WorkInit DEF MetricsInv
<1>2. tick = 0 /\ LastArrival(trace) \in Nat
  BY ArrivalBound DEF Init
<1> QED
  BY <1>1, <1>2 DEF Init, WCInv, IdleInv, TickBound

LEMMA WCInvStep == WCInv /\ [WCNext]_vars => WCInv'
<1>1. MetricsInv /\ [WCNext]_vars => MetricsInv'
  BY WCNextIsNext, TypeInvStep, AccountingStep, WindowStep, WorkStep DEF MetricsInv
<1> QED
  BY <1>1, IdleStep, TickBoundStep DEF WCInv

\* engine.h: a run is never longer than the last arrival plus the work done.
THEOREM TickBoundCorrect == WCSafety => []TickBound
<1>1. WCSafety => []WCInv
  BY WCInvInit, WCInvStep, PTL DEF WCSafety
<1> QED
  BY <1>1, PTL DEF WCInv

-----------------------------------------------------------------------------
LEMMA WorkFinite ==
    ASSUME NEW tr \in Traces
    PROVE  IsFiniteSet(WorkOf(tr)) /\ Cardinality(WorkOf(tr)) \in Nat
<1> DEFINE units == [i \in DOMAIN tr |-> {i} \X (1..tr[i].burst)]
           All == {units[i] : i \in DOMAIN tr}
<1>1. /\ Len(tr) \in Nat /\ DOMAIN tr = 1..Len(tr)
      /\ \A i \in DOMAIN tr : tr[i].burst \in Nat
  BY RowTypes
<1>2. IsFiniteSet(DOMAIN tr)
  BY <1>1, FS_Interval
<1>3. units \in Surjection(DOMAIN tr, All)
  BY DEF Surjection
<1>4. IsFiniteSet(All)
  BY <1>2, <1>3, FS_Surjection
<1>5. ASSUME NEW i \in DOMAIN tr PROVE IsFiniteSet(units[i])
  <2>1. IsFiniteSet({i})
    BY FS_Singleton
  <2>2. tr[i].burst \in Int
    BY <1>1
  <2>3. IsFiniteSet(1..tr[i].burst)
    BY <2>2, FS_Interval
  <2>4. IsFiniteSet({i} \X (1..tr[i].burst))
    BY <2>1, <2>3, FS_Product
  <2> QED
    BY <2>4
<1>6. IsFiniteSet(UNION All)
  BY <1>4, <1>5, FS_UNION
<1>7. WorkOf(tr) = UNION All
  BY DEF WorkOf
<1> QED
  BY <1>6, <1>7, FS_CardinalityType

\* Every table has some work: at least one unit.
LEMMA SomeWork ==
    ASSUME NEW tr \in Traces
    PROVE  Cardinality(WorkOf(tr)) > 0
<1>1. 1 \in DOMAIN tr /\ tr[1].burst \in Nat \ {0}
  BY RowTypes
<1>2. <<1, 1>> \in {1} \X (1..tr[1].burst)
  BY <1>1
<1>3. WorkOf(tr) # {}
  BY <1>1, <1>2 DEF WorkOf
<1> QED
  BY <1>3, WorkFinite, FS_EmptySet

\* While a process is unfinished there is work that no tick was spent on.
LEMMA BusyBelowWork ==
    ASSUME MetricsInv, phase = "test", completed < Len(trace)
    PROVE  busy_ticks < sum_burst
<1>1. /\ trace \in Traces /\ remaining \in [Procs -> Nat]
      /\ \A i \in Procs : trace[i].burst \in Nat /\ remaining[i] <= trace[i].burst
  BY RowTypes DEF MetricsInv, TypeInv, TypeOK, WorkInv, Procs
<1>2. BusyTicks = BusySoFar
  BY DEF BusyTicks, BusySoFar, Elapsed
<1>3. busy_ticks = Cardinality(WorkDone)
  BY <1>2 DEF MetricsInv, WorkInv, busy_ticks
<1>4. PICK i \in Procs : remaining[i] > 0
  BY SomeoneHasWork
<1> DEFINE unit == <<i, remaining[i]>>
<1>5. unit \notin WorkDone
  BY <1>1 DEF WorkDone
<1>6. \A j \in Procs : \A k \in 1..trace[j].burst : <<j, k>> \in WorkOf(trace)
  BY DEF WorkOf, Procs
<1>7. WorkDone \cup {unit} \in SUBSET WorkOf(trace)
  <2>1. unit \in WorkOf(trace)
    BY <1>1, <1>4, <1>6
  <2>2. ASSUME NEW w \in WorkDone PROVE w \in WorkOf(trace)
    <3>1. w = <<w[1], w[2]>> /\ w[1] \in Procs /\ w[2] \in 1..trace[w[1]].burst
      BY <1>1 DEF WorkDone
    <3> QED
      BY <1>6, <3>1
  <2> QED
    BY <2>1, <2>2
<1>8. /\ IsFiniteSet(WorkDone) /\ Cardinality(WorkDone) \in Nat
      /\ Cardinality(WorkDone \cup {unit}) = Cardinality(WorkDone) + 1
  BY <1>5, FS_AddElement, FS_CardinalityType DEF MetricsInv, WorkInv
<1>9. Cardinality(WorkDone \cup {unit}) <= Cardinality(WorkOf(trace))
  BY <1>1, <1>7, WorkFinite, FS_Subset
<1>10. Cardinality(WorkOf(trace)) \in Nat
  BY <1>1, WorkFinite
<1> QED
  BY <1>3, <1>8, <1>9, <1>10 DEF sum_burst

\* A table that fits never reaches the cap, and no answer is ever refused.
LEMMA NeverGivesUpStep ==
    WCInv /\ NeverGivesUp /\ [WCNext]_vars => NeverGivesUp'
<1> SUFFICES ASSUME WCInv, NeverGivesUp, [WCNext]_vars, Fits(trace)
             PROVE  phase' # "error"
  BY WCNextIsNext, TraceStep DEF NeverGivesUp, WCInv, MetricsInv
<1>0. phase # "error" /\ trace \in Traces
  BY DEF NeverGivesUp, WCInv, MetricsInv, TypeInv, TypeOK
<1>1. CASE LoopTest
  <2> SUFFICES ASSUME phase = "test", completed < Len(trace) PROVE tick < MaxTicks
    <3>1. completed \in Nat /\ Len(trace) \in Nat /\ tick \in Nat /\ MaxTicks \in Nat
      BY <1>0, RowTypes, EngineAssumption DEF WCInv, MetricsInv, TypeInv, TypeOK
    <3> QED
      BY <1>1, <3>1 DEF LoopTest, CapReached
  <2>1. busy_ticks < sum_burst
    BY BusyBelowWork DEF WCInv
  <2>2. tick \in Nat /\ busy_ticks \in Nat /\ LastArrival(trace) \in Nat
    BY <1>0, BusyTicksFinite, ArrivalBound DEF WCInv, MetricsInv
  <2>3. sum_burst \in Nat /\ sum_burst > 0 /\ MaxTicks \in Nat
    BY <1>0, WorkFinite, SomeWork, EngineAssumption DEF sum_burst
  <2>4. tick <= LastArrival(trace) \/ tick <= LastArrival(trace) + busy_ticks
    BY DEF WCInv, TickBound
  <2>5. LastArrival(trace) + sum_burst <= MaxTicks
    BY DEF Fits, sum_burst
  <2> QED
    BY <2>1, <2>2, <2>3, <2>4, <2>5
<1>2. ASSUME NEW pid \in AllowedAnswers, Pick(pid) PROVE phase' # "error"
  BY <1>2 DEF Pick, AllowedAnswers
<1>3. CASE (\E i \in Procs : Admit(i)) \/ Execute \/ EndTick \/ UNCHANGED vars
  BY <1>0, <1>3 DEF Admit, Execute, EndTick, vars
<1> QED
  BY <1>1, <1>2, <1>3 DEF WCNext, Halt

\* engine.h: exhausting the timeline "means a scheduler bug rather than a
\* legitimate workload".  For a table whose last arrival and bursts fit the
\* array, and a scheduler that implements this specification, engine_run never
\* returns -1.
THEOREM NeverGivesUpCorrect == WCSafety => []NeverGivesUp
<1>1. Init => WCInv /\ NeverGivesUp
  BY WCInvInit DEF Init, NeverGivesUp
<1>2. WCInv /\ NeverGivesUp /\ [WCNext]_vars => (WCInv /\ NeverGivesUp)'
  BY WCInvStep, NeverGivesUpStep
<1> QED
  BY <1>1, <1>2, PTL DEF WCSafety

-----------------------------------------------------------------------------
LEMMA MaxOfTwo ==
    ASSUME NEW a \in Int, NEW b \in Int
    PROVE  Max({a, b}) = IF a >= b THEN a ELSE b
BY DEF Max

\* What the recursive function of a table computes.  That there is such a
\* function is shown by the least number of rows for which there is none.
LEMMA InOrderFinishDef ==
    ASSUME NEW tr \in Traces
    PROVE  /\ InOrderFinish(tr)[0] = 0
           /\ \A k \in 1..Len(tr) :
                  InOrderFinish(tr)[k]
                      = Max({InOrderFinish(tr)[k - 1], tr[k].arrival}) + tr[k].burst
<1> DEFINE Def(g, k) == IF k = 0 THEN 0 ELSE Max({g[k - 1], tr[k].arrival}) + tr[k].burst
           Solves(g, m) == g = [k \in 0..m |-> Def(g, k)]
           Bad == {m \in Nat : ~ \E g : Solves(g, m)}
<1>1. Bad = {}
  <2> SUFFICES ASSUME Bad # {} PROVE FALSE
    OBVIOUS
  <2>1. PICK m \in Bad : \A y \in Bad : m <= y
    <3>1. Bad \in SUBSET Nat
      OBVIOUS
    <3> HIDE DEF Bad
    <3> QED
      BY <3>1, LeastNat
  <2>2. m \in Nat /\ ~ \E g : Solves(g, m)
    OBVIOUS
  <2>3. m # 0
    <3>1. Solves([k \in 0..0 |-> 0], 0)
      OBVIOUS
    <3> HIDE DEF Solves
    <3> QED
      BY <2>2, <3>1
  <2>4. PICK g : Solves(g, m - 1)
    <3>1. m - 1 \in Nat /\ ~ (m <= m - 1)
      BY <2>2, <2>3
    <3>2. m - 1 \notin Bad
      <4> HIDE DEF Bad
      <4> QED
        BY <2>1, <3>1
    <3> HIDE DEF Solves
    <3> QED
      BY <3>1, <3>2
  <2>5. \A k \in 0..(m - 1) : g[k] = Def(g, k)
    BY <2>4, Zenon
  <2> DEFINE h == [k \in 0..m |-> IF k < m THEN g[k] ELSE Def(g, k)]
  <2>6. ASSUME NEW k \in 0..m PROVE h[k] = Def(h, k)
    <3>1. m \in Nat /\ k \in Nat /\ k <= m /\ k - 1 < m
      BY <2>2
    <3>2. h[k] = Def(g, k)
      <4>1. CASE k < m
        <5>1. k \in 0..(m - 1) /\ h[k] = g[k]
          BY <3>1, <4>1
        <5> HIDE DEF h, Def
        <5> QED
          BY <2>5, <5>1
      <4>2. CASE k = m
        BY <3>1, <4>2
      <4> QED
        BY <3>1, <4>1, <4>2
    <3>3. k # 0 => h[k - 1] = g[k - 1]
      BY <3>1
    <3> HIDE DEF h
    <3>4. Def(h, k) = Def(g, k)
      <4>1. CASE k = 0
        BY <4>1
      <4>2. CASE k # 0
        BY <3>3, <4>2, Zenon
      <4> QED
        BY <4>1, <4>2
    <3> HIDE DEF Def
    <3> QED
      BY <3>2, <3>4
  <2>7. h = [k \in 0..m |-> Def(h, k)]
    <3>1. h = [k \in 0..m |-> h[k]]
      OBVIOUS
    <3> HIDE DEF h, Def
    <3> QED
      BY <2>6, <3>1
  <2>8. Solves(h, m)
    BY <2>7, Zenon
  <2> HIDE DEF Solves, h
  <2> QED
    BY <2>2, <2>8
<1>2. Len(tr) \in Nat
  BY RowTypes
<1>3. PICK g : Solves(g, Len(tr))
  <2> HIDE DEF Solves
  <2> QED
    BY <1>1, <1>2
<1>4. Solves(InOrderFinish(tr), Len(tr))
  BY <1>3 DEF InOrderFinish
<1>5. \A k \in 0..Len(tr) : InOrderFinish(tr)[k] = Def(InOrderFinish(tr), k)
  BY <1>4, Zenon
<1>6. 0 \in 0..Len(tr) /\ \A k \in 1..Len(tr) : k \in 0..Len(tr) /\ k # 0
  BY <1>2
<1> QED
  BY <1>5, <1>6, Zenon

\* Read off the recursion: a row ends one burst after the later of its arrival
\* and the end of the row before it.
LEMMA InOrderFinishTimes ==
    ASSUME NEW tr \in Traces
    PROVE  /\ InOrderFinish(tr)[0] = 0
           /\ \A k \in 0..Len(tr) : InOrderFinish(tr)[k] \in Nat
           /\ \A k \in 1..Len(tr) :
                  LET before == InOrderFinish(tr)[k - 1]
                      start == IF before >= tr[k].arrival THEN before ELSE tr[k].arrival
                  IN  InOrderFinish(tr)[k] = start + tr[k].burst
<1> DEFINE F == InOrderFinish(tr)
           Bad == {k \in Nat : k <= Len(tr) /\ F[k] \notin Nat}
<1>1. /\ Len(tr) \in Nat
      /\ \A k \in 1..Len(tr) : tr[k].arrival \in Nat /\ tr[k].burst \in Nat
  BY RowTypes
<1>2. /\ F[0] = 0
      /\ \A k \in 1..Len(tr) : F[k] = Max({F[k - 1], tr[k].arrival}) + tr[k].burst
  BY InOrderFinishDef
<1> HIDE DEF F
<1>3. ASSUME NEW k \in 1..Len(tr), F[k - 1] \in Nat
      PROVE  F[k] = (IF F[k - 1] >= tr[k].arrival THEN F[k - 1] ELSE tr[k].arrival) + tr[k].burst
  <2>1. F[k - 1] \in Int /\ tr[k].arrival \in Int
    BY <1>1, <1>3
  <2>2. Max({F[k - 1], tr[k].arrival})
            = IF F[k - 1] >= tr[k].arrival THEN F[k - 1] ELSE tr[k].arrival
    BY <2>1, MaxOfTwo
  <2>3. F[k] = Max({F[k - 1], tr[k].arrival}) + tr[k].burst
    BY <1>2
  <2> QED
    BY <2>2, <2>3
<1>4. Bad = {}
  <2> SUFFICES ASSUME Bad # {} PROVE FALSE
    OBVIOUS
  <2>1. PICK k \in Bad : \A y \in Bad : k <= y
    BY LeastNat
  <2>2. k # 0 /\ k \in Nat /\ k <= Len(tr)
    BY <1>2
  <2>3. k \in 1..Len(tr) /\ k - 1 \in Nat /\ k - 1 <= Len(tr) /\ ~ (k <= k - 1)
    BY <1>1, <2>2
  <2>4. F[k - 1] \in Nat
    BY <2>1, <2>3
  <2>5. F[k] \in Nat
    BY SMTT(30), <1>1, <1>3, <2>3, <2>4
  <2> QED
    BY <2>5
<1>5. \A k \in 0..Len(tr) : F[k] \in Nat
  BY <1>1, <1>4
<1>6. \A k \in 1..Len(tr) : k - 1 \in 0..Len(tr)
  BY <1>1
<1> QED
  BY <1>2, <1>3, <1>5, <1>6 DEF F

-----------------------------------------------------------------------------
\* The arrival loop admits the rows of the table one after the other.
LEMMA AdmitsInOrder ==
    ASSUME TypeInv, NEW k \in 0..Len(trace), Admitted = 1..k,
           NEW i \in Procs, Admit(i)
    PROVE  i = k + 1 /\ Admitted' = 1..(k + 1)
<1>0. /\ Procs = 1..Len(trace) /\ Len(trace) \in Nat /\ tick \in Nat /\ Procs' = Procs
      /\ trace' = trace /\ trace \in Traces
      /\ \A j \in Procs : trace[j].arrival \in Nat
      /\ cursor \in Nat \ {0}
  BY RowTypes, EngineAssumption DEF TypeInv, TypeOK, Procs, Admit, table
<1>1. /\ phase = "admit" /\ phase' = "admit" /\ tick' = tick /\ cursor' = i + 1
      /\ i \in Nat \ {0} /\ i >= cursor /\ trace[i].arrival = tick
      /\ \A j \in Procs : cursor <= j /\ j < i => trace[j].arrival # tick
  BY <1>0 DEF Admit
<1>2. \A j \in Procs : j < i => trace[j].arrival <= tick
  BY <1>0, <1>1, EngineAssumption DEF IsTable, Procs
<1>3. \A j \in Procs : j < i => j \in Admitted
  BY <1>0, <1>1, <1>2 DEF Admitted
<1>4. i \notin Admitted
  BY <1>0, <1>1 DEF Admitted
<1>5. i = k + 1
  <2>1. ~ (i <= k)
    BY <1>1, <1>4
  <2>2. CASE i = 1
    BY <2>1, <2>2
  <2>3. CASE i > 1
    <3>1. i - 1 \in Procs /\ i - 1 < i
      BY <1>0, <1>1, <2>3
    <3>2. i - 1 \in 1..k
      BY <1>3, <3>1
    <3> QED
      BY <1>1, <2>1, <3>2
  <2> QED
    BY <1>1, <2>2, <2>3
<1>6. Admitted' = Admitted \cup {i}
  BY <1>0, <1>1 DEF Admitted
<1> QED
  BY <1>5, <1>6

\* Nothing else that a scheduler which keeps the contract does, and no tick
\* that passes, changes who has been admitted.
LEMMA AdmittedStays ==
    ASSUME TypeInv, [WCNext]_vars, ~ \E i \in Procs : Admit(i)
    PROVE  Admitted' = Admitted
<1>0. /\ Procs' = Procs /\ trace' = trace /\ tick \in Nat /\ cursor \in Nat \ {0}
      /\ \A i \in Procs : trace[i].arrival \in Nat /\ i \in Nat \ {0}
  BY WCNextIsNext, TraceStep, RowTypes, ProcsArePositive, EngineAssumption
     DEF TypeInv, TypeOK, Procs
<1>1. CASE LoopTest
  BY <1>0, <1>1 DEF LoopTest, Admitted
<1>2. ASSUME NEW pid \in AllowedAnswers, Pick(pid) PROVE Admitted' = Admitted
  <2>1. /\ phase = "admit" /\ AllAdmitted /\ tick' = tick
        /\ phase' \in {"execute", "tick_end"}
    BY <1>2 DEF Pick, AllowedAnswers
  <2> QED
    BY <1>0, <2>1 DEF Admitted, AllAdmitted
<1>3. CASE Execute
  BY <1>0, <1>3 DEF Execute, Admitted
<1>4. CASE EndTick
  BY <1>0, <1>4 DEF EndTick, Admitted
<1>5. CASE UNCHANGED vars
  BY <1>0, <1>5 DEF vars, table, Admitted
<1> QED
  BY <1>1, <1>2, <1>3, <1>4, <1>5 DEF WCNext, Halt

-----------------------------------------------------------------------------
\* The units of work of the admitted rows that are still to be executed.
Left == {w \in Procs \X Nat : w[1] \in Admitted /\ 0 < w[2] /\ w[2] <= remaining[w[1]]}

\* Whoever runs, the admitted rows will be finished when table order would
\* have them finished: at once, in the past, or after as many ticks as there
\* are units left.  At the end of the last burst the clock shows that tick.
BacklogInv ==
    /\ IsFiniteSet(Left)
    /\ \E k \in 0..Len(trace) :
           /\ Admitted = 1..k
           /\ Left = {} => InOrderFinish(trace)[k] <= Now
           /\ Left # {} => InOrderFinish(trace)[k] = Now + Cardinality(Left)
    /\ completed >= Len(trace) => Now = InOrderFinish(trace)[Len(trace)]

LEMMA BacklogStep ==
    MetricsInv /\ IdleInv /\ BacklogInv /\ [WCNext]_vars => BacklogInv'
<1> SUFFICES ASSUME MetricsInv, IdleInv, BacklogInv, [WCNext]_vars PROVE BacklogInv'
  OBVIOUS
<1> DEFINE F == InOrderFinish(trace)
<1>0. /\ trace' = trace /\ Procs' = Procs /\ TypeInv /\ MetricsInv'
      /\ Procs = 1..Len(trace) /\ Len(trace) \in Nat \ {0} /\ tick \in Nat
      /\ \A i \in Procs : trace[i].arrival \in Nat /\ trace[i].burst \in Nat \ {0}
      /\ remaining \in [Procs -> Nat]
      /\ completed \in Nat
      /\ IDLE \notin Procs
  <2>1. [Next]_vars
    BY WCNextIsNext DEF MetricsInv
  <2>2. MetricsInv'
    BY <2>1, TypeInvStep, AccountingStep, WindowStep, WorkStep DEF MetricsInv
  <2>3. trace' = trace /\ Procs' = Procs
    BY <2>1, TraceStep DEF Procs
  <2> QED
    BY <2>2, <2>3, RowTypes, ProcsArePositive, EngineAssumption
       DEF MetricsInv, TypeInv, TypeOK, Procs
<1>1. F' = F
  BY <1>0
<1>2. /\ \A k \in 0..Len(trace) : F[k] \in Nat
      /\ \A k \in Procs : F[k] = (IF F[k - 1] >= trace[k].arrival
                                  THEN F[k - 1] ELSE trace[k].arrival) + trace[k].burst
  BY <1>0, InOrderFinishTimes DEF TypeInv, TypeOK
<1>3. PICK k \in 0..Len(trace) : /\ Admitted = 1..k
                                 /\ Left = {} => F[k] <= Now
                                 /\ Left # {} => F[k] = Now + Cardinality(Left)
  BY DEF BacklogInv
<1>4. /\ completed >= Len(trace) => Now = F[Len(trace)]
      /\ IsFiniteSet(Left) /\ Cardinality(Left) \in Nat
      /\ Left = {} <=> Cardinality(Left) = 0
  BY FS_CardinalityType, FS_EmptySet DEF BacklogInv
<1> SUFFICES /\ IsFiniteSet(Left')
             /\ \E m \in 0..Len(trace) :
                    /\ Admitted' = 1..m
                    /\ Left' = {} => F[m] <= Now'
                    /\ Left' # {} => F[m] = Now' + Cardinality(Left')
             /\ completed' >= Len(trace) => Now' = F[Len(trace)]
  BY <1>0, <1>1 DEF BacklogInv
<1> HIDE DEF F
<1>5. ASSUME NEW i \in Procs, Admit(i)
      PROVE  /\ IsFiniteSet(Left')
             /\ \E m \in 0..Len(trace) :
                    /\ Admitted' = 1..m
                    /\ Left' = {} => F[m] <= Now'
                    /\ Left' # {} => F[m] = Now' + Cardinality(Left')
             /\ completed' >= Len(trace) => Now' = F[Len(trace)]
  <2>1. /\ phase = "admit" /\ trace[i].arrival = tick /\ remaining' = remaining
        /\ completed' = completed /\ Now = tick /\ Now' = tick
    BY <1>5 DEF Admit, table, Now
  <2>2. i = k + 1 /\ Admitted' = 1..(k + 1) /\ i \notin Admitted
    BY <1>0, <1>3, <1>5, AdmitsInOrder
  <2>3. remaining[i] = trace[i].burst
    <3>1. \A t \in TicksOf(i) : trace[i].arrival <= t /\ t < tick
      <4> SUFFICES ASSUME NEW t \in TicksOf(i) PROVE trace[i].arrival <= t /\ t < tick
        OBVIOUS
      <4>1. t \in 0..(tick - 1)
        BY <2>1 DEF TicksOf, Elapsed
      <4>2. /\ trace[i].arrival <= start_tick[i] /\ start_tick[i] <= t
            /\ start_tick[i] \in TicksOf(i)
        BY DEF MetricsInv, Window
      <4>3. start_tick[i] \in 0..(tick - 1)
        BY <2>1, <4>2 DEF TicksOf, Elapsed
      <4> QED
        BY <1>0, <4>1, <4>2, <4>3
    <3>2. TicksOf(i) = {}
      BY <1>0, <2>1, <3>1 DEF TicksOf, Elapsed
    <3> QED
      BY <3>2, StampsAndBurst DEF MetricsInv, Window
  <2> DEFINE unit == {i} \X (1..trace[i].burst)
  <2>4. IsFiniteSet(unit) /\ Cardinality(unit) = trace[i].burst
    <3>1. trace[i].burst \in Nat \ {0}
      BY <1>0
    <3>2. /\ IsFiniteSet(1..trace[i].burst) /\ Cardinality(1..trace[i].burst) = trace[i].burst
          /\ IsFiniteSet({i}) /\ Cardinality({i}) = 1
      BY <3>1, FirstN, FS_Singleton
    <3>3. /\ IsFiniteSet(unit)
          /\ Cardinality(unit) = Cardinality({i}) * Cardinality(1..trace[i].burst)
      BY <3>2, FS_Product, Zenon
    <3> QED
      BY <3>1, <3>2, <3>3
  <2>5. Left' = Left \cup unit /\ Left \cap unit = {}
    <3>1. ASSUME NEW w \in Procs \X Nat
          PROVE  w \in Left' <=> w \in Left \/ w \in unit
      <4>1. w = <<w[1], w[2]>> /\ w[1] \in Procs /\ w[2] \in Nat
        OBVIOUS
      <4>2. w \in unit <=> w[1] = i /\ 0 < w[2] /\ w[2] <= trace[i].burst
        BY <1>0, <4>1
      <4>3. w[1] \in Admitted' <=> w[1] \in Admitted \/ w[1] = i
        BY <1>3, <2>2, <4>1, <1>0
      <4>4. w \in Left' <=> w[1] \in Admitted' /\ 0 < w[2] /\ w[2] <= remaining[w[1]]
        BY <1>0, <2>1 DEF Left
      <4> QED
        BY <2>3, <4>2, <4>3, <4>4 DEF Left
    <3>2. unit \subseteq Procs \X Nat /\ Left \subseteq Procs \X Nat /\ Left' \subseteq Procs \X Nat
      BY <1>0 DEF Left
    <3>3. Left \cap unit = {}
      BY <2>2 DEF Left
    <3> QED
      BY <3>1, <3>2, <3>3
  <2>6. /\ IsFiniteSet(Left')
        /\ Cardinality(Left') = Cardinality(Left) + trace[i].burst
    <3>1. /\ IsFiniteSet(Left \cup unit)
          /\ Cardinality(Left \cup unit)
                = Cardinality(Left) + Cardinality(unit) - Cardinality(Left \cap unit)
      BY <1>4, <2>4, FS_Union
    <3>2. Cardinality(Left \cap unit) = 0
      BY <2>5, FS_EmptySet
    <3> QED
      BY <1>0, <1>4, <2>4, <2>5, <3>1, <3>2
  <2>7. Left' # {}
    BY <1>0, <1>4, <2>6, FS_EmptySet
  <2>8. F[k + 1] = Now' + Cardinality(Left')
    <3>1. k + 1 \in Procs /\ (k + 1) - 1 = k /\ F[k] \in Nat
      BY <1>2, <2>2
    <3>2. F[k + 1] = (IF F[k] >= tick THEN F[k] ELSE tick) + trace[i].burst
      BY <1>2, <2>1, <2>2, <3>1
    <3>3. CASE Left = {}
      BY <1>0, <1>3, <1>4, <2>1, <2>6, <3>1, <3>2, <3>3
    <3>4. CASE Left # {}
      BY SMTT(30), <1>0, <1>3, <1>4, <2>1, <2>6, <3>1, <3>2, <3>4
    <3> QED
      BY <3>3, <3>4
  <2> QED
    BY <1>0, <1>4, <2>1, <2>2, <2>6, <2>7, <2>8
<1>6. ASSUME NEW pid \in AllowedAnswers, Pick(pid), ~ \E i \in Procs : Admit(i)
      PROVE  /\ Left' = Left
             /\ pid = IDLE => Left = {} /\ Now' = Now + 1
             /\ pid # IDLE => Now' = Now
             /\ completed' = completed
             /\ ~ (completed >= Len(trace))
  <2>1. /\ phase = "admit" /\ remaining' = remaining /\ completed' = completed
        /\ tick' = tick /\ Now = tick
        /\ phase' = IF pid = IDLE THEN "tick_end" ELSE "execute"
    BY <1>6 DEF Pick, table, AllowedAnswers, Now
  <2>2. Left' = Left
    BY <1>0, <1>6, <2>1, AdmittedStays DEF Left
  <2>3. pid = IDLE => Left = {}
    <3> SUFFICES ASSUME pid = IDLE, NEW w \in Left PROVE FALSE
      OBVIOUS
    <3>1. w[1] \in Procs /\ w[1] \in Admitted /\ remaining[w[1]] > 0
      BY <1>0 DEF Left
    <3>2. w[1] \in Ready
      BY <1>0, <3>1 DEF Admitted, Ready
    <3>3. Ready = {}
      BY <1>0 DEF AllowedAnswers, Ready
    <3> QED
      BY <3>2, <3>3
  <2>4. Now' = IF pid = IDLE THEN tick + 1 ELSE tick
    BY <2>1 DEF Now
  <2>5. ~ (completed >= Len(trace))
    BY <1>0, <2>1 DEF IdleInv
  <2> QED
    BY <2>1, <2>2, <2>3, <2>4, <2>5
<1>7. CASE Execute
  <2>1. /\ phase = "execute" /\ phase' = "tick_end" /\ tick' = tick
        /\ next \in Procs /\ remaining[next] > 0 /\ trace[next].arrival <= tick
        /\ remaining' = [remaining EXCEPT ![next] = @ - 1]
        /\ Now = tick /\ Now' = tick + 1
    BY <1>0, <1>7 DEF Execute, TypeInv, PhaseInv, Ready, Now
  <2>2. Admitted' = Admitted
    BY <1>0, <1>7, AdmittedStays DEF Execute, Admit
  <2> DEFINE unit == <<next, remaining[next]>>
  <2>3. unit \in Left
    BY <1>0, <2>1 DEF Left, Admitted
  <2>4. Left' = Left \ {unit}
    <3>1. ASSUME NEW w \in Procs \X Nat
          PROVE  w \in Left' <=> w \in Left /\ w # unit
      <4>1. w = <<w[1], w[2]>> /\ w[1] \in Procs /\ w[2] \in Nat
        OBVIOUS
      <4>2. w \in Left' <=> w[1] \in Admitted /\ 0 < w[2] /\ w[2] <= remaining'[w[1]]
        BY <1>0, <2>2 DEF Left
      <4>3. CASE w[1] = next
        BY <1>0, <2>1, <4>1, <4>2, <4>3 DEF Left
      <4>4. CASE w[1] # next
        BY <1>0, <2>1, <4>1, <4>2, <4>4 DEF Left
      <4> QED
        BY <4>3, <4>4
    <3>2. Left \subseteq Procs \X Nat /\ Left' \subseteq Procs \X Nat
      BY <1>0 DEF Left
    <3> QED
      BY <3>1, <3>2
  <2>5. IsFiniteSet(Left') /\ Cardinality(Left') = Cardinality(Left) - 1
    BY <1>4, <2>3, <2>4, FS_RemoveElement
  <2>6. F[k] = Now' + Cardinality(Left')
    BY <1>0, <1>3, <1>4, <2>1, <2>3, <2>5
  <2>7. Left' = {} => F[k] <= Now'
    BY <1>0, <2>1, <2>6, FS_EmptySet
  <2>8. completed' >= Len(trace) => Now' = F[Len(trace)]
    <3> SUFFICES ASSUME completed' >= Len(trace) PROVE Now' = F[Len(trace)]
      OBVIOUS
    <3>1. \A i \in Procs : remaining'[i] = 0
      <4>1. (MetricsInv /\ completed >= Len(trace))'
        BY <1>0
      <4>2. (\A i \in Procs : remaining[i] = 0)'
        BY <4>1, CountedOutNext
      <4> QED
        BY <1>0, <4>2
    <3>2. Left' = {}
      BY <1>0, <3>1 DEF Left
    <3>3. \A i \in Procs : i \in Admitted'
      <4> SUFFICES ASSUME NEW i \in Procs PROVE trace[i].arrival <= tick
        BY <1>0, <2>1 DEF Admitted
      <4>1. CASE i = next
        BY <2>1, <4>1
      <4>2. CASE i # next
        <5>1. remaining[i] = 0
          BY <1>0, <2>1, <3>1, <4>2
        <5>2. completion[i] - 1 \in TicksOf(i)
          BY <5>1, <1>0 DEF MetricsInv, Window
        <5>3. trace[i].arrival <= start_tick[i] /\ start_tick[i] <= completion[i] - 1
              /\ completion[i] - 1 \in 0..(tick - 1) /\ start_tick[i] \in TicksOf(i)
              /\ start_tick[i] \in 0..(tick - 1)
          BY <2>1, <5>2 DEF MetricsInv, Window, TicksOf, Elapsed
        <5> QED
          BY <1>0, <5>3
      <4> QED
        BY <4>1, <4>2
    <3>4. k = Len(trace)
      <4>1. Len(trace) \in 1..k
        BY <1>0, <1>3, <2>2, <3>3
      <4> QED
        BY <1>0, <4>1
    <3>5. Cardinality(Left') = 0
      BY <3>2, FS_EmptySet
    <3> QED
      BY <1>0, <2>1, <2>6, <3>4, <3>5
  <2> QED
    BY <1>3, <2>2, <2>5, <2>6, <2>7, <2>8
<1>8. CASE (LoopTest \/ EndTick \/ UNCHANGED vars) /\ ~ \E i \in Procs : Admit(i)
  <2>1. remaining' = remaining /\ completed' = completed /\ Now' = Now
    BY <1>0, <1>8 DEF LoopTest, EndTick, vars, table, Now
  <2>2. Admitted' = Admitted
    BY <1>0, <1>8, AdmittedStays
  <2>3. Left' = Left
    BY <1>0, <2>1, <2>2 DEF Left
  <2> QED
    BY <1>3, <1>4, <2>1, <2>2, <2>3
<1>9. ASSUME NEW pid \in AllowedAnswers, Pick(pid), ~ \E i \in Procs : Admit(i)
      PROVE  /\ IsFiniteSet(Left')
             /\ \E m \in 0..Len(trace) :
                    /\ Admitted' = 1..m
                    /\ Left' = {} => F[m] <= Now'
                    /\ Left' # {} => F[m] = Now' + Cardinality(Left')
             /\ completed' >= Len(trace) => Now' = F[Len(trace)]
  <2>1. Admitted' = Admitted /\ F[k] \in Nat /\ Now \in Nat
    BY <1>0, <1>2, <1>9, AdmittedStays DEF Now
  <2> QED
    BY <1>3, <1>4, <1>6, <1>9, <2>1
<1> QED
  BY <1>5, <1>7, <1>8, <1>9 DEF WCNext, Halt

\* ANALYSIS.md: "total elapsed time is identical for every algorithm on a
\* given trace".  It is the time at which the table would be done in its own
\* order, whichever processes the scheduler prefers and however often it
\* preempts, as long as it keeps the contract of sched.h.
THEOREM ElapsedTimeFixedCorrect == WCSafety => []ElapsedTimeFixed
<1> DEFINE I == MetricsInv /\ IdleInv /\ TickBound /\ BacklogInv
<1>1. Init => I
  <2> SUFFICES ASSUME Init PROVE I
    OBVIOUS
  <2>1. MetricsInv /\ IdleInv /\ TickBound
    BY WCInvInit DEF WCInv
  <2>2. /\ Len(trace) \in Nat \ {0} /\ trace \in Traces /\ completed = 0 /\ Now = 0
        /\ \A i \in Procs : trace[i].arrival \in Nat
        /\ tick = 0 /\ phase = "test"
    BY <2>1, RowTypes DEF Init, Now, MetricsInv, TypeInv, TypeOK, Procs
  <2>3. Admitted = {}
    BY <2>2 DEF Admitted
  <2>4. Left = {} /\ IsFiniteSet(Left)
    BY <2>3, FS_EmptySet DEF Left
  <2>5. 0 \in 0..Len(trace) /\ 1..0 = {} /\ InOrderFinish(trace)[0] = 0
    BY <2>2, InOrderFinishTimes
  <2> QED
    BY <2>1, <2>2, <2>3, <2>4, <2>5 DEF BacklogInv
<1>2. I /\ [WCNext]_vars => I'
  BY WCNextIsNext, TypeInvStep, AccountingStep, WindowStep, WorkStep, IdleStep,
     TickBoundStep, BacklogStep DEF MetricsInv
<1>3. I => ElapsedTimeFixed
  BY DEF BacklogInv, ElapsedTimeFixed, MetricsInv, WorkInv, Now
<1> QED
  BY <1>1, <1>2, <1>3, PTL DEF WCSafety

-----------------------------------------------------------------------------
\* A process enters Alive with its whole burst, leaves it with its last tick,
\* and in no other step; when pick_next is called Alive is what is ready.
LEMMA AliveIsReady ==
    ASSUME TypeInv, \/ phase = "admit" /\ AllAdmitted
                    \/ phase \in {"execute", "tick_end"}
    PROVE  Alive = Ready
<1>1. /\ tick \in Nat /\ cursor \in Nat \ {0}
      /\ \A i \in Procs : trace[i].arrival \in Nat /\ i \in Nat
  BY RowTypes, ProcsArePositive, EngineAssumption DEF TypeInv, TypeOK, Procs
<1>2. \A i \in Procs : trace[i].arrival <= tick
                           <=> trace[i].arrival < tick \/ trace[i].arrival = tick
  BY <1>1
<1>3. Admitted = {i \in Procs : trace[i].arrival <= tick}
  BY <1>1, <1>2 DEF Admitted, AllAdmitted
<1> QED
  BY <1>3 DEF Alive, Ready

LEMMA ArrivesWhole ==
    ASSUME MetricsInv, NEW i \in Procs, Admit(i)
    PROVE  remaining[i] = trace[i].burst /\ remaining[i] > 0 /\ start_tick[i] = NOT_STARTED
<1>1. /\ tick \in Nat /\ trace[i].arrival = tick /\ phase = "admit"
      /\ remaining[i] \in Nat /\ trace[i].burst \in Nat \ {0}
  BY RowTypes, EngineAssumption DEF MetricsInv, TypeInv, TypeOK, Procs, Admit
<1>2. TicksOf(i) = {}
  <2>1. \A t \in TicksOf(i) : t \in 0..(tick - 1)
    BY <1>1 DEF TicksOf, Elapsed
  <2>2. \A t \in TicksOf(i) : tick <= start_tick[i] /\ start_tick[i] <= t
    BY <1>1 DEF MetricsInv, Window
  <2>3. start_tick[i] \in Int
    BY DEF MetricsInv, TypeInv, TypeOK, NOT_STARTED
  <2> QED
    BY <1>1, <2>1, <2>2, <2>3
<1>3. 0 = trace[i].burst - remaining[i]
  BY <1>2, FS_EmptySet DEF MetricsInv, Accounting
<1>4. start_tick[i] = NOT_STARTED
  BY <1>2 DEF MetricsInv, Window
<1> QED
  BY <1>1, <1>3, <1>4

\* Rows arrive in table order.
LEMMA ArrivesLast ==
    ASSUME MetricsInv, NEW i \in Procs, Admit(i), NEW j \in Alive
    PROVE  j < i
<1>1. /\ trace \in Traces /\ Procs = 1..Len(trace) /\ Len(trace) \in Nat /\ j \in Procs
      /\ tick \in Nat /\ cursor \in Nat /\ phase = "admit" /\ i >= cursor
      /\ trace[i].arrival = tick
      /\ trace[j].arrival < tick \/ (trace[j].arrival = tick /\ j < cursor)
  BY RowTypes, EngineAssumption
     DEF MetricsInv, TypeInv, TypeOK, Procs, Admit, Alive, Admitted
<1>2. i < j => trace[i].arrival <= trace[j].arrival
  BY <1>1, EngineAssumption DEF IsTable, Procs
<1>3. trace[j].arrival \in Nat
  BY <1>1, RowTypes DEF Procs
<1> QED
  BY <1>1, <1>2, <1>3

LEMMA AliveStep ==
    ASSUME MetricsInv, [WCNext]_vars
    PROVE  /\ \A i \in Procs : Admit(i) => i \notin Alive /\ Alive' = Alive \cup {i}
           /\ Execute => /\ next \in Alive
                         /\ Alive' = IF remaining[next] = 1 THEN Alive \ {next} ELSE Alive
           /\ Execute \/ (\E i \in Procs : Admit(i)) \/ Alive' = Alive
<1>0. /\ Procs' = Procs /\ trace' = trace /\ tick \in Nat /\ cursor \in Nat \ {0}
      /\ TypeInv /\ remaining \in [Procs -> Nat]
      /\ \A i \in Procs : trace[i].arrival \in Nat /\ i \in Nat \ {0}
  BY WCNextIsNext, TraceStep, RowTypes, ProcsArePositive, EngineAssumption
     DEF MetricsInv, TypeInv, TypeOK, Procs
<1>1. ASSUME NEW i \in Procs, Admit(i)
      PROVE  i \notin Alive /\ Alive' = Alive \cup {i}
  <2>1. /\ phase = "admit" /\ phase' = "admit" /\ tick' = tick /\ cursor' = i + 1
        /\ remaining' = remaining /\ trace[i].arrival = tick /\ i >= cursor
        /\ \A j \in Procs : cursor <= j /\ j < i => trace[j].arrival # tick
        /\ remaining[i] > 0
    BY <1>1, ArrivesWhole DEF Admit, table
  <2>2. i \notin Admitted /\ Admitted' = Admitted \cup {i}
    BY <1>0, <2>1 DEF Admitted
  <2> QED
    BY <1>0, <2>1, <2>2 DEF Alive
<1>2. ASSUME Execute
      PROVE  /\ next \in Alive
             /\ Alive' = IF remaining[next] = 1 THEN Alive \ {next} ELSE Alive
  <2>1. /\ phase = "execute" /\ phase' = "tick_end" /\ tick' = tick
        /\ remaining' = [remaining EXCEPT ![next] = @ - 1] /\ next \in Ready
    BY <1>2 DEF Execute, MetricsInv, TypeInv, PhaseInv
  <2>2. next \in Alive
    BY <1>0, <2>1, AliveIsReady
  <2>3. Admitted' = Admitted
    BY <1>0, <2>1 DEF Admitted
  <2>4. next \in Procs /\ remaining[next] \in Nat /\ remaining[next] > 0
    BY <1>0, <2>1 DEF Ready
  <2>5. Alive \subseteq Procs
    BY DEF Alive, Admitted
  <2> QED
    BY <1>0, <2>1, <2>2, <2>3, <2>4, <2>5 DEF Alive
<1>3. ASSUME ~ Execute, ~ \E i \in Procs : Admit(i) PROVE Alive' = Alive
  <2>1. Admitted' = Admitted
    BY <1>0, <1>3, AdmittedStays
  <2>2. remaining' = remaining
    BY <1>3 DEF WCNext, LoopTest, Pick, EndTick, Halt, vars, table
  <2> QED
    BY <2>1, <2>2 DEF Alive
<1> QED
  BY <1>1, <1>2, <1>3

-----------------------------------------------------------------------------
\* The number of ticks that have been decided.
Decisions == IF phase \in {"execute", "tick_end"} THEN tick + 1 ELSE tick

LEMMA DecidedTicks ==
    ASSUME TypeInv
    PROVE  Decisions \in Nat /\ Decided = 0..(Decisions - 1) /\ Decided \subseteq Ticks
BY EngineAssumption DEF Decisions, Decided, TypeInv, TypeOK, Ticks

\* The timeline grows by Pick alone, at its end: what has been decided, and
\* who wanted the CPU at those ticks, stays.
LEMMA DecisionKept ==
    ASSUME MetricsInv,
           LoopTest \/ (\E i \in Procs : Admit(i)) \/ Execute \/ EndTick \/ UNCHANGED vars
    PROVE  /\ timeline' = timeline /\ Decisions' = Decisions /\ Decided' = Decided
           /\ \A i \in Procs : Wanting(i)' = Wanting(i)
<1>0. tick \in Nat /\ TypeInv /\ (phase = "execute" => next \in Procs)
  BY EngineAssumption DEF MetricsInv, TypeInv, TypeOK, PhaseInv, Ready
<1>1. timeline' = timeline /\ trace' = trace
  BY DEF LoopTest, Admit, Execute, EndTick, vars, table, result
<1>2. Decisions' = Decisions /\ Decided' = Decided
  BY <1>0 DEF Decisions, Decided, LoopTest, Admit, Execute, EndTick, vars
<1>3. ASSUME NEW i \in Procs PROVE Wanting(i)' = Wanting(i)
  <2>1. CASE completion' = completion
    BY <1>1, <1>2, <2>1 DEF Wanting
  <2>2. CASE completion' # completion
    <3>1. /\ Execute /\ Finishing /\ next \in Procs
          /\ completion' = [completion EXCEPT ![next] = tick + 1]
      BY <1>0, <2>2 DEF LoopTest, Admit, Execute, EndTick, vars, table, StampOf
    <3>2. CASE i # next
      <4>1. completion'[i] = completion[i]
        BY <3>1, <3>2 DEF MetricsInv, TypeInv, TypeOK
      <4> QED
        BY <1>1, <1>2, <4>1 DEF Wanting
    <3>3. CASE i = next
      <4>1. completion[i] = NOT_STARTED /\ completion'[i] = tick + 1
        BY <3>1, <3>3 DEF MetricsInv, TypeInv, TypeOK, Window, Finishing
      <4>2. \A t \in Decided : t < tick + 1
        BY <1>0, <3>1 DEF Decided, Execute
      <4> QED
        BY <1>0, <1>1, <1>2, <4>1, <4>2 DEF Wanting
    <3> QED
      BY <3>2, <3>3
  <2> QED
    BY <2>1, <2>2
<1> QED
  BY <1>1, <1>2, <1>3

LEMMA DecisionMade ==
    ASSUME MetricsInv, NEW pid \in AllowedAnswers, Pick(pid)
    PROVE  /\ Decisions = tick /\ Decisions' = tick + 1
           /\ Decided' = Decided \cup {tick} /\ tick \notin Decided
           /\ timeline'[tick] = pid /\ \A u \in Decided : timeline'[u] = timeline[u]
           /\ Alive = Ready
           /\ \A i \in Procs : Wanting(i)' = Wanting(i) \cup {t \in {tick} : i \in Alive}
<1>0. /\ tick \in Nat /\ TypeInv /\ Alive = Ready /\ phase = "admit"
      /\ tick \in Ticks /\ timeline \in [Ticks -> Answers]
      /\ timeline' = [timeline EXCEPT ![tick] = pid]
      /\ tick' = tick /\ trace' = trace /\ completion' = completion
      /\ phase' \in {"execute", "tick_end"}
  <2>1. phase = "admit" /\ AllAdmitted /\ TypeInv
    BY DEF Pick, MetricsInv
  <2>2. Alive = Ready
    BY <2>1, AliveIsReady
  <2>3. phase' \in {"execute", "tick_end"}
    BY DEF Pick, AllowedAnswers
  <2> QED
    BY <2>1, <2>2, <2>3, EngineAssumption DEF Pick, TypeInv, TypeOK, table
<1>1. /\ Decisions = tick /\ Decisions' = tick + 1
      /\ Decided' = Decided \cup {tick} /\ tick \notin Decided
      /\ Decided = 0..(tick - 1)
  BY <1>0 DEF Decisions, Decided
<1>2. timeline'[tick] = pid /\ \A u \in Decided : timeline'[u] = timeline[u]
  <2>1. Decided \subseteq Ticks
    BY <1>0, DecidedTicks
  <2> QED
    BY <1>0, <1>1, <2>1
<1>3. ASSUME NEW i \in Procs
      PROVE  Wanting(i)' = Wanting(i) \cup {t \in {tick} : i \in Alive}
  <2>1. trace[i].arrival \in Nat /\ completion[i] \in Nat \cup {NOT_STARTED}
    BY <1>0, RowTypes DEF TypeInv, TypeOK, Procs
  <2>2. completion[i] # NOT_STARTED => completion[i] <= tick
    <3>1. completion[i] # NOT_STARTED => completion[i] - 1 \in 0..(tick - 1)
      BY <1>0 DEF MetricsInv, Window, TicksOf, Elapsed
    <3> QED
      BY <1>0, <2>1, <3>1 DEF NOT_STARTED
  <2>3. i \in Alive <=> tick >= trace[i].arrival /\ completion[i] = NOT_STARTED
    BY <1>0, <2>1 DEF MetricsInv, Window, Ready
  <2> QED
    BY <1>0, <1>1, <2>1, <2>2, <2>3 DEF Wanting, NOT_STARTED
<1> QED
  BY <1>0, <1>1, <1>2, <1>3

-----------------------------------------------------------------------------
\* Whoever is picked is the first row with work left.
TakesFirst == \A pid \in Procs : Pick(pid) => \A j \in 1..(pid - 1) : remaining[j] = 0

\* The first row that is not done.
IsFirst(k) == k \in Procs /\ remaining[k] > 0 /\ \A j \in 1..(k - 1) : remaining[j] = 0

\* What the clock says of it: if it has started it will end when the recursion
\* says, and if not, the row before it has ended and it is either due right
\* now or not here yet.
FirstIsOnTime ==
    \A k \in Procs : IsFirst(k) =>
        IF remaining[k] < trace[k].burst
        THEN remaining[k] = InOrderFinish(trace)[k] - Now
        ELSE /\ InOrderFinish(trace)[k - 1] <= Now
             /\ InOrderFinish(trace)[k - 1] >= Now \/ trace[k].arrival >= Now

TableOrderInv ==
    /\ \A i, j \in Procs : i < j /\ remaining[j] < trace[j].burst => remaining[i] = 0
    /\ \A i \in Procs : remaining[i] < trace[i].burst => trace[i].arrival <= tick
    /\ phase = "execute" => IsFirst(next)
    /\ FirstIsOnTime
    /\ InTableOrder

LEMMA TableOrderInit ==
    ASSUME Init
    PROVE  TableOrderInv
<1>1. /\ trace \in Traces /\ Procs = 1..Len(trace) /\ Len(trace) \in Nat /\ Now = 0
      /\ \A i \in Procs : trace[i].arrival \in Nat /\ trace[i].burst \in Nat
      /\ \A i \in Procs : remaining[i] = trace[i].burst
      /\ \A i \in Procs : start_tick[i] = NOT_STARTED /\ completion[i] = NOT_STARTED
      /\ phase = "test"
  BY RowTypes DEF Init, Now, Procs
<1>2. \A k \in Procs : IsFirst(k) => k = 1
  <2> SUFFICES ASSUME NEW k \in Procs, IsFirst(k), k # 1 PROVE FALSE
    OBVIOUS
  <2>1. 1 \in Procs /\ 1 \in 1..(k - 1)
    BY <1>1
  <2>2. trace[1].burst \in Nat \ {0}
    BY <1>1, <2>1, RowTypes DEF Procs
  <2> QED
    BY <1>1, <2>1, <2>2 DEF IsFirst
<1>3. InOrderFinish(trace)[0] = 0
  BY <1>1, InOrderFinishTimes
<1>4. FirstIsOnTime
  <2> SUFFICES ASSUME NEW k \in Procs, IsFirst(k)
               PROVE  /\ ~ (remaining[k] < trace[k].burst)
                      /\ InOrderFinish(trace)[k - 1] <= Now
                      /\ InOrderFinish(trace)[k - 1] >= Now
    BY DEF FirstIsOnTime
  <2>1. k - 1 = 0
    BY <1>2
  <2> QED
    BY <1>1, <1>3, <2>1
<1> QED
  BY <1>1, <1>4 DEF TableOrderInv, InTableOrder

LEMMA TableOrderStep ==
    ASSUME MetricsInv, TableOrderInv, [WCNext]_vars, TakesFirst
    PROVE  TableOrderInv'
<1> DEFINE F == InOrderFinish(trace)
<1>0. /\ trace' = trace /\ Procs' = Procs
      /\ Procs = 1..Len(trace) /\ Len(trace) \in Nat \ {0} /\ tick \in Nat
      /\ \A i \in Procs : trace[i].arrival \in Nat /\ trace[i].burst \in Nat \ {0}
      /\ remaining \in [Procs -> Nat]
      /\ start_tick \in [Procs -> Nat \cup {NOT_STARTED}]
      /\ completion \in [Procs -> Nat \cup {NOT_STARTED}]
      /\ NOT_STARTED \notin Nat
      /\ IDLE \notin Procs
  BY WCNextIsNext, TraceStep, RowTypes, ProcsArePositive, EngineAssumption
     DEF MetricsInv, TypeInv, TypeOK, Procs, NOT_STARTED
<1>1. F' = F
  BY <1>0
<1>2. /\ \A k \in 0..Len(trace) : F[k] \in Nat
      /\ \A k \in Procs : F[k] = (IF F[k - 1] >= trace[k].arrival
                                  THEN F[k - 1] ELSE trace[k].arrival) + trace[k].burst
  BY <1>0, InOrderFinishTimes DEF MetricsInv, TypeInv, TypeOK
<1>3. /\ \A i, j \in Procs : i < j /\ remaining[j] < trace[j].burst => remaining[i] = 0
      /\ \A i \in Procs : remaining[i] < trace[i].burst => trace[i].arrival <= tick
      /\ phase = "execute" => IsFirst(next)
  BY DEF TableOrderInv
<1>4. \A k \in Procs : IsFirst(k) =>
          IF remaining[k] < trace[k].burst THEN remaining[k] = F[k] - Now
          ELSE F[k - 1] <= Now /\ (F[k - 1] >= Now \/ trace[k].arrival >= Now)
  BY DEF TableOrderInv, FirstIsOnTime
<1>5. \A i \in Procs :
          /\ start_tick[i] # NOT_STARTED => start_tick[i] = F[i] - trace[i].burst
          /\ completion[i] # NOT_STARTED => completion[i] = F[i]
  BY DEF TableOrderInv, InTableOrder
<1>6. CASE Execute
  <2> DEFINE k == next
  <2>1. /\ phase = "execute" /\ phase' = "tick_end" /\ tick' = tick /\ next' = next
        /\ start_tick' = [start_tick EXCEPT ![k] =
                              IF start_tick[k] = NOT_STARTED THEN tick ELSE @]
        /\ remaining' = [remaining EXCEPT ![k] = @ - 1]
        /\ completion' = IF remaining[k] = 1
                         THEN [completion EXCEPT ![k] = tick + 1] ELSE completion
        /\ Now = tick /\ Now' = tick + 1
    BY <1>6 DEF Execute, Finishing, StampOf, FirstDispatch, Now
  <2>2. k \in Procs /\ remaining[k] > 0 /\ \A j \in 1..(k - 1) : remaining[j] = 0
    BY <1>3, <2>1 DEF IsFirst
  <2>3. trace[k].arrival <= tick /\ trace[k].burst \in Nat \ {0} /\ remaining[k] \in Nat
    BY <1>0, <2>1, <2>2 DEF MetricsInv, TypeInv, PhaseInv, Ready
  <2>4. F[k] \in Nat /\ F[k - 1] \in Nat /\ remaining[k] <= trace[k].burst
    <3>1. k \in 0..Len(trace) /\ k - 1 \in 0..Len(trace)
      BY <1>0, <2>2
    <3>2. remaining[k] <= trace[k].burst
      BY <2>2 DEF MetricsInv, WorkInv
    <3> QED
      BY <1>2, <3>1, <3>2
  <2>5. remaining[k] = F[k] - tick
    <3>1. CASE remaining[k] < trace[k].burst
      BY <1>3, <1>4, <2>1, <2>2, <3>1
    <3>2. CASE ~ (remaining[k] < trace[k].burst)
      <4>1. F[k - 1] <= tick /\ (F[k - 1] >= tick \/ trace[k].arrival >= tick)
        BY <1>3, <1>4, <2>1, <2>2, <3>2
      <4>2. F[k] = (IF F[k - 1] >= trace[k].arrival
                    THEN F[k - 1] ELSE trace[k].arrival) + trace[k].burst
        BY <1>2, <2>2
      <4>3. trace[k].arrival \in Nat
        BY <1>0, <2>2
      <4> HIDE DEF F
      <4> QED
        BY SMTT(30), <1>0, <2>3, <2>4, <3>2, <4>1, <4>2, <4>3
    <3> QED
      BY <3>1, <3>2
  <2> HIDE DEF F
  <2>6. remaining'[k] = remaining[k] - 1 /\ \A i \in Procs \ {k} : remaining'[i] = remaining[i]
    BY <1>0, <2>1, <2>2
  <2>7. \A i, j \in Procs : i < j /\ remaining'[j] < trace[j].burst => remaining'[i] = 0
    BY SMTT(30), <1>0, <1>3, <2>2, <2>6
  <2>8. \A i \in Procs : remaining'[i] < trace[i].burst => trace[i].arrival <= tick'
    BY <1>0, <1>3, <2>1, <2>3, <2>6
  <2>9. ASSUME NEW m \in Procs, remaining'[m] > 0, \A j \in 1..(m - 1) : remaining'[j] = 0
        PROVE  IF remaining'[m] < trace[m].burst THEN remaining'[m] = F[m] - Now'
               ELSE F[m - 1] <= Now' /\ (F[m - 1] >= Now' \/ trace[m].arrival >= Now')
    <3>1. CASE m = k
      <4>1. remaining'[k] = F[k] - (tick + 1) /\ remaining'[k] < trace[k].burst
        BY <1>0, <2>3, <2>4, <2>5, <2>6
      <4> QED
        BY <2>1, <3>1, <4>1
    <3>2. CASE m # k
      <4>1. ~ (m < k)
        BY <1>0, <2>2, <2>6, <2>9, <3>2
      <4>2. remaining'[k] = 0
        BY SMTT(30), <1>0, <2>2, <2>9, <3>2, <4>1
      <4>3. k + 1 \in Procs /\ k + 1 <= m
        BY <1>0, <2>2, <3>2, <4>1
      <4>4. remaining[k + 1] = remaining'[k + 1] /\ ~ (remaining[k + 1] < trace[k + 1].burst)
        <5>1. k + 1 \in Procs \ {k} /\ k < k + 1 /\ remaining[k] # 0
          BY <1>0, <2>2, <4>3
        <5> QED
          BY <1>3, <2>2, <2>6, <5>1
      <4>5. m = k + 1
        <5> SUFFICES ASSUME k + 1 # m PROVE FALSE
          OBVIOUS
        <5>1. remaining'[k + 1] = 0
          BY <1>0, <2>2, <2>9, <4>3
        <5> QED
          BY <1>0, <4>3, <4>4, <5>1
      <4>6. F[m - 1] = F[k] /\ F[k] = tick + 1
        BY <1>0, <2>2, <2>4, <2>5, <2>6, <4>2, <4>5
      <4> QED
        BY <1>0, <2>1, <4>4, <4>5, <4>6
    <3> QED
      BY <3>1, <3>2
  <2>10. ASSUME NEW i \in Procs
         PROVE  /\ start_tick'[i] # NOT_STARTED => start_tick'[i] = F[i] - trace[i].burst
                /\ completion'[i] # NOT_STARTED => completion'[i] = F[i]
    <3>1. CASE i = k
      <4>1. start_tick[k] = NOT_STARTED => remaining[k] = trace[k].burst
        BY <2>2, StampsAndBurst
      <4>2. start_tick'[k] = IF start_tick[k] = NOT_STARTED THEN tick ELSE start_tick[k]
        BY <1>0, <2>1, <2>2
      <4>3. completion'[k] = IF remaining[k] = 1 THEN tick + 1 ELSE completion[k]
        BY <1>0, <2>1, <2>2
      <4>4. start_tick[k] = NOT_STARTED => tick = F[k] - trace[k].burst
        BY <1>0, <2>3, <2>4, <2>5, <4>1
      <4>5. remaining[k] = 1 => tick + 1 = F[k]
        BY <1>0, <2>4, <2>5
      <4> QED
        BY <1>5, <2>2, <3>1, <4>2, <4>3, <4>4, <4>5
    <3>2. CASE i # k
      BY <1>0, <1>5, <2>1, <2>2, <3>2
    <3> QED
      BY <3>1, <3>2
  <2>11. FirstIsOnTime' /\ InTableOrder'
    <3>1. \A m \in Procs' : IsFirst(m)' =>
              /\ m \in Procs /\ remaining'[m] > 0 /\ \A j \in 1..(m - 1) : remaining'[j] = 0
      BY <1>0 DEF IsFirst
    <3> QED
      BY <1>0, <1>1, <2>9, <2>10, <3>1 DEF FirstIsOnTime, InTableOrder, F
  <2> QED
    BY <1>0, <2>1, <2>7, <2>8, <2>11 DEF TableOrderInv
<1>7. ASSUME NEW pid \in AllowedAnswers, Pick(pid) PROVE TableOrderInv'
  <2>1. /\ phase = "admit" /\ UNCHANGED <<remaining, start_tick, completion, tick>>
        /\ next' = pid /\ phase' = (IF pid = IDLE THEN "tick_end" ELSE "execute")
        /\ Now = tick /\ Now' = (IF pid = IDLE THEN tick + 1 ELSE tick)
    BY <1>0, <1>7 DEF Pick, AllowedAnswers, table, Now, Ready
  <2>2. pid # IDLE => IsFirst(pid)
    BY <1>0, <1>7 DEF AllowedAnswers, Ready, IsFirst, TakesFirst
  <2>3. \A k \in Procs : IsFirst(k)' <=> IsFirst(k)
    BY <1>0, <2>1 DEF IsFirst
  <2>4. ASSUME NEW k \in Procs, IsFirst(k)
        PROVE  IF remaining[k] < trace[k].burst THEN remaining[k] = F[k] - Now'
               ELSE F[k - 1] <= Now' /\ (F[k - 1] >= Now' \/ trace[k].arrival >= Now')
    <3>1. CASE pid # IDLE
      BY <1>4, <2>1, <2>4, <3>1
    <3>2. CASE pid = IDLE
      <4>1. Ready = {}
        BY <1>0, <1>7, <3>2 DEF AllowedAnswers, Ready
      <4>2. ~ (trace[k].arrival <= tick)
        BY <2>4, <4>1 DEF Ready, IsFirst
      <4>3. ~ (remaining[k] < trace[k].burst)
        BY <1>3, <4>2
      <4>4. F[k - 1] <= tick /\ F[k - 1] \in Nat
        <5>1. k - 1 \in 0..Len(trace)
          BY <1>0
        <5> QED
          BY <1>2, <1>4, <2>1, <2>4, <4>3, <5>1
      <4> HIDE DEF F
      <4> QED
        BY <1>0, <2>1, <3>2, <4>2, <4>3, <4>4
    <3> QED
      BY <3>1, <3>2
  <2>5. FirstIsOnTime'
    BY <1>0, <1>1, <2>1, <2>3, <2>4 DEF FirstIsOnTime
  <2>6. InTableOrder'
    BY <1>0, <1>1, <1>5, <2>1 DEF InTableOrder
  <2>7. phase' = "execute" => IsFirst(next)'
    BY <1>0, <2>1, <2>2 DEF IsFirst
  <2> QED
    BY <1>0, <1>3, <2>1, <2>5, <2>6, <2>7 DEF TableOrderInv
<1>8. CASE LoopTest \/ (\E i \in Procs : Admit(i)) \/ EndTick \/ Halt \/ UNCHANGED vars
  <2>1. UNCHANGED <<remaining, start_tick, completion>> /\ Now' = Now /\ next' = next
    BY <1>0, <1>8 DEF LoopTest, Admit, EndTick, Halt, vars, table, Now
  <2>2. tick' >= tick /\ tick' \in Nat
    BY <1>0, <1>8 DEF LoopTest, Admit, EndTick, Halt, vars
  <2>3. phase' = "execute" => phase = "execute"
    BY <1>8 DEF LoopTest, Admit, EndTick, Halt, vars
  <2>4. \A k : IsFirst(k)' <=> IsFirst(k)
    BY <1>0, <2>1 DEF IsFirst
  <2>5. FirstIsOnTime' /\ InTableOrder'
    BY <1>0, <1>1, <1>4, <1>5, <2>1, <2>4 DEF FirstIsOnTime, InTableOrder
  <2>6. phase' = "execute" => IsFirst(next)'
    <3> SUFFICES ASSUME phase' = "execute" PROVE IsFirst(next)'
      OBVIOUS
    <3>1. IsFirst(next)
      BY <1>3, <2>3
    <3>2. next' = next /\ remaining' = remaining /\ Procs' = Procs
      BY <1>0, <2>1
    <3> QED
      BY <3>1, <3>2 DEF IsFirst
  <2>7. \A i \in Procs : remaining[i] < trace[i].burst => trace[i].arrival <= tick'
    BY <1>0, <1>3, <2>2
  <2> QED
    BY <1>0, <1>3, <2>1, <2>5, <2>6, <2>7 DEF TableOrderInv
<1> QED
  BY <1>6, <1>7, <1>8 DEF WCNext

-----------------------------------------------------------------------------
\* The circular array of rr.c, mlq.c and mlfq.c is a sequence: its three
\* operations are Append, Tail and a push in front, wherever the front is in
\* the array, as long as the ring is not full or not empty as they need it.
LEMMA Wraps ==
    ASSUME NEW a \in 0..(2 * MaxProcesses - 1)
    PROVE  /\ a % MaxProcesses = IF a < MaxProcesses THEN a ELSE a - MaxProcesses
           /\ a % MaxProcesses \in Slots
<1>1. MaxProcesses \in Nat \ {0}
  BY ProcessTableAssumption
<1>2. a % MaxProcesses = IF a < MaxProcesses THEN a ELSE a - MaxProcesses
  BY <1>1
<1> QED
  BY <1>1, <1>2 DEF Slots

\* The slot of the k-th value.
Place(r, k) == (r.head + k - 1) % MaxProcesses

LEMMA PlaceIsSlot ==
    ASSUME NEW S, NEW r \in Rings(S), NEW k \in 1..MaxProcesses
    PROVE  /\ Place(r, k) \in Slots
           /\ Place(r, k) = IF r.head + k - 1 < MaxProcesses THEN r.head + k - 1
                            ELSE r.head + k - 1 - MaxProcesses
<1>1. MaxProcesses \in Nat \ {0} /\ r.head \in 0..(MaxProcesses - 1) /\ k \in 1..MaxProcesses
  BY ProcessTableAssumption DEF Rings, Slots
<1> DEFINE a == r.head + k - 1
<1>2. a \in 0..(2 * MaxProcesses - 1)
  BY <1>1
<1> HIDE DEF a
<1>3. /\ a % MaxProcesses = IF a < MaxProcesses THEN a ELSE a - MaxProcesses
      /\ a % MaxProcesses \in Slots
  BY <1>2, Wraps
<1>4. Place(r, k) = a % MaxProcesses
  BY DEF Place, a
<1> QED
  BY <1>1, <1>3, <1>4 DEF a

\* Two places of a ring are two slots.
LEMMA PlacesDiffer ==
    ASSUME NEW S, NEW r \in Rings(S), NEW j \in 1..MaxProcesses, NEW k \in 1..MaxProcesses,
           j # k
    PROVE  Place(r, j) # Place(r, k)
<1>1. MaxProcesses \in Nat \ {0} /\ r.head \in 0..(MaxProcesses - 1)
  BY ProcessTableAssumption DEF Rings, Slots
<1> QED
  BY <1>1, PlaceIsSlot

\* What a ring holds is a sequence of its values.
LEMMA ContentsType ==
    ASSUME NEW S, NEW r \in Rings(S)
    PROVE  /\ Contents(r) \in Seq(S) /\ Len(Contents(r)) = r.count
           /\ r.count \in 0..MaxProcesses
           /\ \A k \in 1..r.count : Contents(r)[k] = r.slot[Place(r, k)]
<1>1. MaxProcesses \in Nat \ {0} /\ r.count \in 0..MaxProcesses /\ r.slot \in [Slots -> S]
  BY ProcessTableAssumption DEF Rings
<1>2. \A k \in 1..r.count : k \in 1..MaxProcesses
  BY <1>1
<1>3. \A k \in 1..r.count : r.slot[Place(r, k)] \in S
  BY <1>1, <1>2, PlaceIsSlot
<1>4. Contents(r) = [k \in 1..r.count |-> r.slot[Place(r, k)]]
  BY DEF Contents, Place
<1> QED
  BY <1>1, <1>3, <1>4

LEMMA EmptyContents ==
    ASSUME NEW S, NEW r \in EmptyRings(S)
    PROVE  r \in Rings(S) /\ Contents(r) = <<>>
<1>1. r \in Rings(S)
  BY ProcessTableAssumption DEF EmptyRings, Rings, Slots
<1>2. r.count = 0
  BY DEF EmptyRings
<1> QED
  BY <1>1, <1>2, ContentsType

\* The rings over more values.
LEMMA RingsGrow ==
    ASSUME NEW S, NEW T, S \subseteq T, NEW r \in Rings(S)
    PROVE  r \in Rings(T)
BY DEF Rings

LEMMA PushTailAppends ==
    ASSUME NEW S, NEW r \in Rings(S), NEW p \in S, r.count < MaxProcesses
    PROVE  PushTail(r, p) \in Rings(S) /\ Contents(PushTail(r, p)) = Append(Contents(r), p)
<1> DEFINE q == PushTail(r, p)
           n == r.count
<1>1. MaxProcesses \in Nat \ {0} /\ n \in Nat /\ n + 1 \in 1..MaxProcesses
  BY ProcessTableAssumption DEF Rings
<1>2. Place(r, n + 1) = (r.head + n) % MaxProcesses /\ Place(r, n + 1) \in Slots
  <2>1. r.head + (n + 1) - 1 = r.head + n
    BY <1>1 DEF Rings, Slots
  <2> QED
    BY <1>1, <2>1, PlaceIsSlot DEF Place
<1>3. /\ q.slot = [r.slot EXCEPT ![Place(r, n + 1)] = p]
      /\ q.head = r.head /\ q.count = n + 1
      /\ q \in Rings(S)
  <2> DEFINE slots == [r.slot EXCEPT ![Place(r, n + 1)] = p]
  <2>1. slots \in [Slots -> S] /\ n + 1 \in 0..MaxProcesses
    BY <1>1, <1>2 DEF Rings
  <2>2. q = [r EXCEPT !.slot = slots, !.count = n + 1]
    BY <1>2 DEF PushTail
  <2> HIDE DEF slots
  <2>3. q.slot = slots /\ q.head = r.head /\ q.count = n + 1 /\ q \in Rings(S)
    BY <2>1, <2>2 DEF Rings
  <2> QED
    BY <2>3 DEF slots
<1>4. \A k \in 1..(n + 1) : Place(q, k) = Place(r, k)
  BY <1>3 DEF Place
<1>5. \A k \in 1..(n + 1) : Contents(q)[k] = IF k = n + 1 THEN p ELSE Contents(r)[k]
  <2> SUFFICES ASSUME NEW k \in 1..(n + 1)
               PROVE  Contents(q)[k] = IF k = n + 1 THEN p ELSE Contents(r)[k]
    OBVIOUS
  <2> HIDE DEF q
  <2>1. Contents(q)[k] = q.slot[Place(r, k)]
    <3>1. q \in Rings(S) /\ k \in 1..q.count
      BY <1>3
    <3> QED
      BY <1>4, <3>1, ContentsType
  <2>2. r.slot \in [Slots -> S] /\ k \in 1..MaxProcesses
    BY <1>1 DEF Rings
  <2>3. CASE k = n + 1
    BY <1>2, <1>3, <2>1, <2>2, <2>3
  <2>4. CASE k # n + 1
    <3>1. Place(r, k) # Place(r, n + 1)
      BY <1>1, <2>2, <2>4, PlacesDiffer
    <3>2. Contents(r)[k] = r.slot[Place(r, k)]
      BY <1>1, <2>4, ContentsType
    <3>3. Place(r, k) \in Slots
      BY <2>2, PlaceIsSlot
    <3> QED
      BY <1>3, <2>1, <2>2, <2>4, <3>1, <3>2, <3>3
  <2> QED
    BY <2>3, <2>4
<1>6. Contents(q) = Append(Contents(r), p)
  <2>1. Contents(q) \in Seq(S) /\ Len(Contents(q)) = n + 1
    BY <1>3, ContentsType
  <2>2. Contents(r) \in Seq(S) /\ Len(Contents(r)) = n
    BY ContentsType
  <2> HIDE DEF q
  <2>3. Append(Contents(r), p) \in Seq(S) /\ Len(Append(Contents(r), p)) = n + 1
    BY <2>2
  <2>4. \A k \in 1..(n + 1) : Append(Contents(r), p)[k] = IF k = n + 1 THEN p ELSE Contents(r)[k]
    BY <1>1, <2>2, AppendProperties
  <2> QED
    BY <1>5, <2>1, <2>3, <2>4, SeqEqual
<1> QED
  BY <1>3, <1>6

LEMMA PopHeadIsTail ==
    ASSUME NEW S, NEW r \in Rings(S), r.count > 0
    PROVE  /\ PopHead(r) \in Rings(S)
           /\ Contents(r) # <<>>
           /\ AtFront(r) = Head(Contents(r))
           /\ Contents(PopHead(r)) = Tail(Contents(r))
<1> DEFINE q == PopHead(r)
           n == r.count
<1>1. /\ MaxProcesses \in Nat \ {0} /\ n \in 1..MaxProcesses
      /\ r.head \in 0..(MaxProcesses - 1)
  BY ProcessTableAssumption DEF Rings, Slots
<1>2. /\ q.slot = r.slot /\ q.count = n - 1
      /\ q.head = IF r.head + 1 < MaxProcesses THEN r.head + 1 ELSE 0
      /\ q \in Rings(S)
  <2>1. (r.head + 1) % MaxProcesses = IF r.head + 1 < MaxProcesses THEN r.head + 1 ELSE 0
    <3>1. r.head + 1 \in 0..(2 * MaxProcesses - 1)
      BY <1>1
    <3> QED
      BY <1>1, <3>1, Wraps
  <2> DEFINE h == (r.head + 1) % MaxProcesses
  <2>2. h \in Slots /\ n - 1 \in 0..MaxProcesses
    BY <1>1, <2>1 DEF Slots
  <2>3. q = [r EXCEPT !.head = h, !.count = n - 1]
    BY DEF PopHead
  <2> HIDE DEF h
  <2>4. q.slot = r.slot /\ q.head = h /\ q.count = n - 1 /\ q \in Rings(S)
    BY <2>2, <2>3 DEF Rings
  <2> QED
    BY <2>1, <2>4 DEF h
<1>3. Contents(r) \in Seq(S) /\ Len(Contents(r)) = n
  BY ContentsType
<1>4. AtFront(r) = Head(Contents(r)) /\ Contents(r) # <<>>
  <2>1. Place(r, 1) = r.head
    BY <1>1, PlaceIsSlot
  <2>2. Contents(r)[1] = r.slot[Place(r, 1)]
    BY <1>1, ContentsType
  <2> QED
    BY <1>1, <1>3, <2>1, <2>2 DEF AtFront
<1>5. \A k \in 1..(n - 1) : Place(q, k) = Place(r, k + 1)
  BY <1>1, <1>2, PlaceIsSlot
<1>6. Contents(q) \in Seq(S) /\ Len(Contents(q)) = n - 1
  BY <1>2, ContentsType
<1>7. \A k \in 1..(n - 1) : Contents(q)[k] = Contents(r)[k + 1]
  <2> SUFFICES ASSUME NEW k \in 1..(n - 1) PROVE Contents(q)[k] = Contents(r)[k + 1]
    OBVIOUS
  <2> HIDE DEF q
  <2>1. Contents(q)[k] = r.slot[Place(r, k + 1)]
    BY <1>2, <1>5, ContentsType
  <2> QED
    BY <1>1, <2>1, ContentsType
<1>8. Contents(q) = Tail(Contents(r))
  <2> HIDE DEF q
  <2>1. Tail(Contents(r)) \in Seq(S) /\ Len(Tail(Contents(r))) = n - 1
        /\ \A k \in 1..(n - 1) : Tail(Contents(r))[k] = Contents(r)[k + 1]
    BY <1>1, <1>3, <1>4
  <2> QED
    BY <1>1, <1>6, <1>7, <2>1, SeqEqual
<1> QED
  BY <1>2, <1>4, <1>8

LEMMA PushHeadPrepends ==
    ASSUME NEW S, NEW r \in Rings(S), NEW p \in S, r.count < MaxProcesses
    PROVE  PushHead(r, p) \in Rings(S) /\ Contents(PushHead(r, p)) = <<p>> \o Contents(r)
<1> DEFINE q == PushHead(r, p)
           n == r.count
           front == IF r.head = 0 THEN MaxProcesses - 1 ELSE r.head - 1
<1>1. /\ MaxProcesses \in Nat \ {0} /\ n \in Nat /\ n + 1 \in 1..MaxProcesses
      /\ r.head \in 0..(MaxProcesses - 1)
  BY ProcessTableAssumption DEF Rings, Slots
<1>2. (r.head + MaxProcesses - 1) % MaxProcesses = front /\ front \in Slots
  <2>1. r.head + MaxProcesses - 1 \in 0..(2 * MaxProcesses - 1)
    BY <1>1
  <2> QED
    BY <1>1, <2>1, Wraps DEF Slots
<1>3. /\ q.slot = [r.slot EXCEPT ![front] = p] /\ q.head = front /\ q.count = n + 1
      /\ q \in Rings(S)
  <2>1. q = [slot |-> [r.slot EXCEPT ![front] = p], head |-> front, count |-> n + 1]
    BY <1>2 DEF PushHead
  <2>2. [r.slot EXCEPT ![front] = p] \in [Slots -> S]
    BY <1>2 DEF Rings
  <2>3. n + 1 \in 0..MaxProcesses
    BY <1>1
  <2> HIDE DEF front
  <2> QED
    BY <1>2, <2>1, <2>2, <2>3 DEF Rings
<1>4. /\ Place(q, 1) = front
      /\ \A k \in 1..n : Place(q, k + 1) = Place(r, k) /\ Place(r, k) # front
  <2> HIDE DEF q, front
  <2>1. q \in Rings(S) /\ q.head = front /\ n + 1 \in 1..MaxProcesses
    BY <1>1, <1>3
  <2>2. \A k \in 1..(n + 1) :
            Place(q, k) = IF front + k - 1 < MaxProcesses THEN front + k - 1
                          ELSE front + k - 1 - MaxProcesses
    BY <1>1, <2>1, PlaceIsSlot
  <2>3. \A k \in 1..n :
            Place(r, k) = IF r.head + k - 1 < MaxProcesses THEN r.head + k - 1
                          ELSE r.head + k - 1 - MaxProcesses
    BY <1>1, PlaceIsSlot
  <2>4. Place(q, 1) = front
    BY <1>1, <1>2, <2>2 DEF Slots
  <2>5. \A k \in 1..n : Place(q, k + 1) = Place(r, k) /\ Place(r, k) # front
    <3> SUFFICES ASSUME NEW k \in 1..n
                 PROVE  Place(q, k + 1) = Place(r, k) /\ Place(r, k) # front
      OBVIOUS
    <3>1. k + 1 \in 1..(n + 1)
      BY <1>1
    <3>2. Place(q, k + 1) = IF front + k < MaxProcesses THEN front + k
                            ELSE front + k - MaxProcesses
      BY <1>1, <1>2, <2>2, <3>1 DEF Slots
    <3> QED
      BY <1>1, <2>3, <3>2 DEF front
  <2> QED
    BY <2>4, <2>5
<1>5. Contents(q) \in Seq(S) /\ Len(Contents(q)) = n + 1
  BY <1>3, ContentsType
<1>6. Contents(q)[1] = p
  <2> HIDE DEF q
  <2>1. Contents(q)[1] = q.slot[front]
    <3>1. q \in Rings(S) /\ 1 \in 1..q.count
      BY <1>1, <1>3
    <3> QED
      BY <1>4, <3>1, ContentsType
  <2>2. r.slot \in [Slots -> S]
    BY DEF Rings
  <2> HIDE DEF front
  <2> QED
    BY <1>2, <1>3, <2>1, <2>2
<1>7. \A k \in 1..n : Contents(q)[k + 1] = Contents(r)[k]
  <2> SUFFICES ASSUME NEW k \in 1..n PROVE Contents(q)[k + 1] = Contents(r)[k]
    OBVIOUS
  <2> HIDE DEF q, front
  <2>1. Contents(q)[k + 1] = q.slot[Place(r, k)]
    <3>1. q \in Rings(S) /\ k + 1 \in 1..q.count
      BY <1>1, <1>3
    <3> QED
      BY <1>4, <3>1, ContentsType
  <2>2. r.slot \in [Slots -> S] /\ Place(r, k) \in Slots
    BY SMTT(30), <1>1, PlaceIsSlot DEF Rings
  <2>3. Contents(r)[k] = r.slot[Place(r, k)]
    BY ContentsType
  <2> QED
    BY <1>2, <1>3, <1>4, <2>1, <2>2, <2>3
<1>8. Contents(q) = <<p>> \o Contents(r)
  <2>1. Contents(r) \in Seq(S) /\ Len(Contents(r)) = n
    BY ContentsType
  <2> HIDE DEF q
  <2>2. <<p>> \o Contents(r) \in Seq(S) /\ Len(<<p>> \o Contents(r)) = n + 1
    BY <1>1, <2>1
  <2>3. \A k \in 1..(n + 1) : (<<p>> \o Contents(r))[k] = IF k = 1 THEN p ELSE Contents(r)[k - 1]
    BY <1>1, <2>1
  <2>4. \A k \in 1..(n + 1) : Contents(q)[k] = IF k = 1 THEN p ELSE Contents(r)[k - 1]
    <3> SUFFICES ASSUME NEW k \in 1..(n + 1), k # 1 PROVE Contents(q)[k] = Contents(r)[k - 1]
      BY <1>6
    <3>1. k - 1 \in 1..n /\ (k - 1) + 1 = k
      BY <1>1
    <3> QED
      BY <1>7, <3>1
  <2> QED
    BY <1>5, <2>2, <2>3, <2>4, SeqEqual
<1> QED
  BY <1>3, <1>8

-----------------------------------------------------------------------------
\* The sequence q holds the members of A but for r, each of them once.
Holds(q, A, r) ==
    /\ \A k \in DOMAIN q : q[k] \in A /\ q[k] # r
    /\ \A i \in A : i # r => \E k \in DOMAIN q : q[k] = i
    /\ \A j, k \in DOMAIN q : q[j] = q[k] => j = k

\* One more member, at the tail.
LEMMA HoldsArrival ==
    ASSUME NEW S, NEW q \in Seq(S), NEW A, NEW r, NEW x, Holds(q, A, r), x \notin A, x # r
    PROVE  Holds(Append(q, x), A \cup {x}, r)
<1> DEFINE a == Append(q, x)
           n == Len(q)
<1>1. /\ n \in Nat /\ DOMAIN q = 1..n /\ DOMAIN a = 1..(n + 1)
      /\ a[n + 1] = x /\ \A k \in 1..n : a[k] = q[k]
  OBVIOUS
<1> HIDE DEF a, n
<1>2. \A k \in 1..n : q[k] # x
  BY <1>1 DEF Holds
<1>3. \A k \in 1..(n + 1) : k \in 1..n \/ k = n + 1
  BY <1>1
<1>4. \A k \in 1..(n + 1) : a[k] \in A \cup {x} /\ a[k] # r
  BY <1>1, <1>3 DEF Holds
<1>5. \A i \in A \cup {x} : i # r => \E k \in 1..(n + 1) : a[k] = i
  <2>1. n + 1 \in 1..(n + 1) /\ \A k \in 1..n : k \in 1..(n + 1)
    BY <1>1
  <2> QED
    BY <1>1, <2>1 DEF Holds
<1>6. \A j, k \in 1..(n + 1) : a[j] = a[k] => j = k
  BY <1>1, <1>2, <1>3 DEF Holds
<1> QED
  BY <1>1, <1>4, <1>5, <1>6 DEF Holds, a

\* The member left out comes back at the tail, or in front.
LEMMA HoldsReturn ==
    ASSUME NEW S, NEW q \in Seq(S), NEW A, NEW r \in A, NEW x, Holds(q, A, r), x \notin A
    PROVE  Holds(Append(q, r), A, x)
<1>1. Holds(q, A \ {r}, x)
  BY DEF Holds
<1>2. Holds(Append(q, r), (A \ {r}) \cup {r}, x)
  BY <1>1, HoldsArrival
<1>3. (A \ {r}) \cup {r} = A
  OBVIOUS
<1> QED
  BY <1>2, <1>3

LEMMA HoldsFront ==
    ASSUME NEW S, NEW q \in Seq(S), NEW A, NEW r \in A, NEW x, Holds(q, A, r), x \notin A
    PROVE  Holds(<<r>> \o q, A, x)
<1> DEFINE a == <<r>> \o q
           n == Len(q)
<1>1. /\ n \in Nat /\ DOMAIN q = 1..n /\ DOMAIN a = 1..(n + 1)
      /\ a[1] = r /\ \A k \in 2..(n + 1) : a[k] = q[k - 1]
  OBVIOUS
<1> HIDE DEF a, n
<1>2. \A k \in 1..(n + 1) : k = 1 \/ (k \in 2..(n + 1) /\ k - 1 \in 1..n)
  BY <1>1
<1>3. \A k \in 1..(n + 1) : a[k] \in A /\ a[k] # x
  <2> SUFFICES ASSUME NEW k \in 1..(n + 1) PROVE a[k] \in A
    OBVIOUS
  <2>1. CASE k = 1
    BY <1>1, <2>1
  <2>2. CASE k \in 2..(n + 1)
    <3>1. k - 1 \in 1..n /\ a[k] = q[k - 1]
      BY <1>1, <2>2
    <3> QED
      BY <1>1, <3>1 DEF Holds
  <2> QED
    BY <1>2, <2>1, <2>2
<1>4. \A i \in A : \E k \in 1..(n + 1) : a[k] = i
  <2> SUFFICES ASSUME NEW i \in A, i # r PROVE \E k \in 1..(n + 1) : a[k] = i
    BY <1>1
  <2>1. PICK k \in 1..n : q[k] = i
    BY <1>1 DEF Holds
  <2>2. k + 1 \in 2..(n + 1) /\ (k + 1) - 1 = k /\ k + 1 \in 1..(n + 1)
    BY <1>1
  <2>3. a[k + 1] = i
    BY <1>1, <2>1, <2>2
  <2> QED
    BY <2>2, <2>3
<1>5. \A j, k \in 1..(n + 1) : a[j] = a[k] => j = k
  <2> SUFFICES ASSUME NEW j \in 1..(n + 1), NEW k \in 1..(n + 1), a[j] = a[k] PROVE j = k
    OBVIOUS
  <2>1. CASE j = 1 \/ k = 1
    BY SMTT(30), <1>1, <1>2, <2>1 DEF Holds
  <2>2. CASE j # 1 /\ k # 1
    <3>1. j - 1 \in 1..n /\ k - 1 \in 1..n /\ q[j - 1] = q[k - 1]
      BY <1>1, <1>2, <2>2
    <3>2. j - 1 = k - 1
      BY <1>1, <3>1 DEF Holds
    <3> QED
      BY <1>1, <3>2
  <2> QED
    BY <2>1, <2>2
<1> QED
  BY <1>1, <1>3, <1>4, <1>5 DEF Holds, a

\* The first one is taken out.
LEMMA HoldsDispatch ==
    ASSUME NEW S, NEW q \in Seq(S), NEW A, NEW x, Holds(q, A, x), x \notin A, q # <<>>
    PROVE  /\ Head(q) \in A
           /\ Holds(Tail(q), A, Head(q))
<1> DEFINE a == Tail(q)
           n == Len(q)
<1>1. /\ n \in Nat \ {0} /\ DOMAIN q = 1..n /\ DOMAIN a = 1..(n - 1)
      /\ Head(q) = q[1] /\ \A k \in 1..(n - 1) : a[k] = q[k + 1]
  OBVIOUS
<1> HIDE DEF a, n
<1>2. \A k \in 1..(n - 1) : k + 1 \in 1..n /\ k + 1 # 1
  BY <1>1
<1>3. 1 \in 1..n
  BY <1>1
<1>4. q[1] \in A
  BY <1>1, <1>3 DEF Holds
<1>5. \A k \in 1..(n - 1) : a[k] \in A /\ a[k] # q[1]
  <2> SUFFICES ASSUME NEW k \in 1..(n - 1) PROVE q[k + 1] \in A /\ q[k + 1] # q[1]
    BY <1>1
  <2>1. k + 1 \in 1..n /\ k + 1 # 1
    BY <1>2
  <2> QED
    BY <1>1, <1>3, <2>1 DEF Holds
<1>6. \A i \in A : i # q[1] => \E k \in 1..(n - 1) : a[k] = i
  <2> SUFFICES ASSUME NEW i \in A, i # q[1] PROVE \E k \in 1..(n - 1) : a[k] = i
    OBVIOUS
  <2>1. PICK k \in 1..n : q[k] = i
    BY <1>1 DEF Holds
  <2>2. k - 1 \in 1..(n - 1) /\ (k - 1) + 1 = k
    BY <1>1, <2>1
  <2> QED
    BY <1>1, <2>1, <2>2
<1>7. \A j, k \in 1..(n - 1) : a[j] = a[k] => j = k
  <2> SUFFICES ASSUME NEW j \in 1..(n - 1), NEW k \in 1..(n - 1), a[j] = a[k] PROVE j = k
    OBVIOUS
  <2>1. /\ q[j + 1] = q[k + 1] /\ j + 1 \in 1..n /\ k + 1 \in 1..n
    BY <1>1, <1>2
  <2>2. j + 1 = k + 1
    BY SMTT(30), <1>1, <2>1 DEF Holds
  <2> QED
    BY <1>1, <2>2
<1> QED
  BY <1>1, <1>4, <1>5, <1>6, <1>7 DEF Holds, a

\* The one left out leaves.
LEMMA HoldsExit ==
    ASSUME NEW q, NEW A, NEW r, NEW x, Holds(q, A, r), x \notin A
    PROVE  Holds(q, A \ {r}, x)
BY DEF Holds

\* A sequence that holds some of n things, but not one of them, is shorter.
LEMMA RoomForOneMore ==
    ASSUME NEW S, NEW q \in Seq(S), NEW A, NEW r, Holds(q, A, r),
           NEW n \in Nat, NEW x \in 1..n, A \ {r} \subseteq (1..n) \ {x}
    PROVE  Len(q) <= n - 1
<1> DEFINE T == (1..n) \ {x}
<1>1. IsFiniteSet(1..n) /\ Cardinality(1..n) = n
  <2>1. IF 1 > n THEN n = 0 ELSE n - 1 + 1 = n
    OBVIOUS
  <2> QED
    BY <2>1, FS_Interval
<1>2. IsFiniteSet(T) /\ Cardinality(T) = n - 1
  BY <1>1, FS_RemoveElement
<1>3. Len(q) \in Nat /\ DOMAIN q = 1..Len(q)
  OBVIOUS
<1>4. q \in Injection(1..Len(q), T)
  <2>1. \A k \in 1..Len(q) : q[k] \in T
    BY <1>3 DEF Holds
  <2>2. q \in [1..Len(q) -> T]
    BY <1>3, <2>1
  <2> HIDE DEF T
  <2> QED
    BY <1>3, <2>2 DEF Holds, Injection, IsInjective
<1>5. Cardinality(1..Len(q)) <= Cardinality(T)
  BY <1>2, <1>4, FS_Injection
<1>6. Cardinality(1..Len(q)) = Len(q)
  <2>1. IF 1 > Len(q) THEN Len(q) = 0 ELSE Len(q) - 1 + 1 = Len(q)
    BY <1>3
  <2> QED
    BY <1>3, <2>1, FS_Interval
<1> QED
  BY <1>2, <1>3, <1>5, <1>6

-----------------------------------------------------------------------------
\* A sequence with one more in front, and one whose first is taken out.
LEMMA InFront ==
    ASSUME NEW S, NEW q \in Seq(S), NEW r
    PROVE  /\ <<r>> \o q # <<>> /\ 1 \in DOMAIN (<<r>> \o q) /\ (<<r>> \o q)[1] = r
           /\ Head(<<r>> \o q) = r /\ Tail(<<r>> \o q) = q
           /\ \A x : Append(<<r>> \o q, x) = <<r>> \o Append(q, x)
           /\ q # <<>> => <<Head(q)>> \o Tail(q) = q
<1> DEFINE T == S \cup {r}
           a == <<r>> \o q
           n == Len(q)
<1>1. q \in Seq(T) /\ <<r>> \in Seq(T) /\ r \in T
  OBVIOUS
<1>2. /\ a \in Seq(T) /\ n \in Nat /\ Len(a) = n + 1 /\ a[1] = r
      /\ \A k \in 1..n : a[k + 1] = q[k]
  BY <1>1
<1>3. Tail(a) \in Seq(T) /\ Len(Tail(a)) = n /\ \A k \in 1..n : Tail(a)[k] = a[k + 1]
  <2> HIDE DEF a, T
  <2> QED
    BY <1>2
<1>4. Tail(a) = q
  <2> HIDE DEF a, T
  <2> QED
    BY <1>1, <1>2, <1>3, SeqEqual
<1>5. a # <<>> /\ 1 \in DOMAIN a /\ Head(a) = r
  <2> HIDE DEF a, T
  <2> QED
    BY <1>2
<1>6. \A x : Append(a, x) = <<r>> \o Append(q, x)
  <2> SUFFICES ASSUME NEW x PROVE Append(a, x) = <<r>> \o Append(q, x)
    OBVIOUS
  <2> DEFINE U == T \cup {x}
             b == Append(a, x)
             c == <<r>> \o Append(q, x)
  <2>1. q \in Seq(U) /\ a \in Seq(U) /\ <<r>> \in Seq(U) /\ x \in U
    BY <1>1, <1>2
  <2>2. /\ Append(q, x) \in Seq(U) /\ Len(Append(q, x)) = n + 1 /\ Append(q, x)[n + 1] = x
        /\ \A k \in 1..n : Append(q, x)[k] = q[k]
    BY <2>1
  <2>3. /\ c \in Seq(U) /\ Len(c) = n + 2 /\ c[1] = r
        /\ \A k \in 1..(n + 1) : c[k + 1] = Append(q, x)[k]
    BY <2>1, <2>2
  <2>4. /\ b \in Seq(U) /\ Len(b) = n + 2 /\ b[n + 2] = x
        /\ \A k \in 1..(n + 1) : b[k] = a[k]
    <3> HIDE DEF a, T, U
    <3> QED
      BY <1>2, <2>1
  <2> HIDE DEF a, b, c, n, T, U
  <2>5. ASSUME NEW k \in 1..(n + 2) PROVE b[k] = c[k]
    <3>1. k = 1 \/ k = n + 2 \/ (k - 1 \in 1..n /\ (k - 1) + 1 = k /\ k \in 1..(n + 1))
      BY <1>2
    <3>2. CASE k = 1
      BY <1>2, <2>3, <2>4, <3>2
    <3>3. CASE k = n + 2
      <4>1. n + 1 \in 1..(n + 1) /\ (n + 1) + 1 = n + 2
        BY <1>2
      <4>2. c[n + 2] = Append(q, x)[n + 1]
        BY <2>3, <4>1
      <4>3. Append(q, x)[n + 1] = x /\ b[n + 2] = x
        BY <2>2, <2>4
      <4> QED
        BY <3>3, <4>2, <4>3
    <3>4. CASE k - 1 \in 1..n /\ (k - 1) + 1 = k /\ k \in 1..(n + 1)
      <4>1. PICK j \in 1..n : k = j + 1 /\ j \in 1..(n + 1)
        BY <1>2, <3>4
      <4>2. c[k] = Append(q, x)[j] /\ Append(q, x)[j] = q[j]
        BY <2>2, <2>3, <4>1
      <4>3. b[k] = a[k] /\ a[k] = q[j]
        BY <1>2, <2>4, <3>4, <4>1
      <4> QED
        BY <4>2, <4>3
    <3> QED
      BY <3>1, <3>2, <3>3, <3>4
  <2> QED
    BY <2>3, <2>4, <2>5, SeqEqual DEF b, c, a
<1>7. q # <<>> => <<Head(q)>> \o Tail(q) = q
  BY HeadTailProperties
<1> QED
  BY <1>4, <1>5, <1>6, <1>7

LEMMA FrontMembers ==
    ASSUME NEW S, NEW q \in Seq(S), NEW r
    PROVE  LET a == <<r>> \o q
           IN  {a[k] : k \in DOMAIN a} = {r} \cup {q[k] : k \in DOMAIN q}
<1> DEFINE a == <<r>> \o q
           n == Len(q)
<1>1. /\ DOMAIN a = 1..(n + 1) /\ a[1] = r /\ \A k \in 1..n : a[k + 1] = q[k]
      /\ DOMAIN q = 1..n /\ n \in Nat
  OBVIOUS
<1> HIDE DEF a, n
<1>2. ASSUME NEW k \in DOMAIN a PROVE a[k] \in {r} \cup {q[m] : m \in DOMAIN q}
  <2>1. CASE k = 1
    BY <1>1, <2>1
  <2>2. CASE k # 1
    <3>1. PICK m \in 1..n : k = m + 1
      <4>1. k \in 1..(n + 1) /\ n \in Nat
        BY <1>1
      <4>2. k - 1 \in 1..n /\ k = (k - 1) + 1
        BY <2>2, <4>1
      <4> QED
        BY <4>2
    <3> QED
      BY <1>1, <3>1
  <2> QED
    BY <2>1, <2>2
<1>3. ASSUME NEW m \in DOMAIN q PROVE \E k \in DOMAIN a : a[k] = q[m]
  <2>1. m + 1 \in DOMAIN a /\ a[m + 1] = q[m]
    BY <1>1
  <2> QED
    BY <2>1
<1>4. 1 \in DOMAIN a /\ a[1] = r
  BY <1>1
<1> QED
  BY <1>2, <1>3, <1>4 DEF a

-----------------------------------------------------------------------------
\* Sums over finite sets.  A sum is a fold, that is, a recursive function on
\* the subsets; TotalOf is that function for summands given as a function.
First(s) == CHOOSE x \in s : TRUE
TotalOf(f, U) ==
    CHOOSE total : total = [s \in SUBSET U |->
                               IF s = {} THEN 0 ELSE f[First(s)] + total[s \ {First(s)}]]

\* Induction over the subsets of a finite set, for a set of them instead of a
\* predicate.
LEMMA SubsetInduction ==
    ASSUME NEW U, IsFiniteSet(U), NEW G,
           \A s \in SUBSET U : (\A x \in s : s \ {x} \in G) => s \in G
    PROVE  SUBSET U \subseteq G
<1> DEFINE Sizes == {Cardinality(s) : s \in {s \in SUBSET U : s \notin G}}
<1>1. ASSUME NEW s \in SUBSET U PROVE IsFiniteSet(s) /\ Cardinality(s) \in Nat
  <2>1. IsFiniteSet(s)
    BY FS_Subset
  <2> QED
    BY <2>1, FS_CardinalityType
<1>2. Sizes \in SUBSET Nat
  BY <1>1
<1>3. Sizes = {}
  <2> SUFFICES ASSUME Sizes # {} PROVE FALSE
    OBVIOUS
  <2>1. PICK n \in Sizes : \A m \in Sizes : n <= m
    <3> HIDE DEF Sizes
    <3> QED
      BY <1>2, LeastNat
  <2>2. PICK s \in SUBSET U : s \notin G /\ Cardinality(s) = n
    OBVIOUS
  <2>3. PICK x \in s : s \ {x} \notin G
    BY <2>2
  <2>4. Cardinality(s \ {x}) = n - 1 /\ n \in Nat
    BY <1>1, <2>2, FS_RemoveElement
  <2>5. s \ {x} \in SUBSET U /\ Cardinality(s \ {x}) \in Sizes
    BY <2>3
  <2> HIDE DEF Sizes
  <2> QED
    BY <2>1, <2>4, <2>5
<1> QED
  BY <1>3

\* There is such a function: by the least size of subsets up to which there is
\* none.
LEMMA TotalDef ==
    ASSUME NEW U, IsFiniteSet(U), NEW f
    PROVE  /\ TotalOf(f, U)[{}] = 0
           /\ \A s \in SUBSET U : s # {} =>
                  /\ First(s) \in s
                  /\ TotalOf(f, U)[s] = f[First(s)] + TotalOf(f, U)[s \ {First(s)}]
<1> DEFINE Def(g, s) == IF s = {} THEN 0 ELSE f[First(s)] + g[s \ {First(s)}]
           UpTo(m) == {s \in SUBSET U : Cardinality(s) <= m}
           Solves(g, m) == g = [s \in UpTo(m) |-> Def(g, s)]
           Bad == {m \in Nat : ~ \E g : Solves(g, m)}
<1>1. ASSUME NEW s \in SUBSET U
      PROVE  /\ IsFiniteSet(s) /\ Cardinality(s) \in Nat /\ Cardinality(s) <= Cardinality(U)
             /\ Cardinality(s) = 0 <=> s = {}
             /\ s # {} => First(s) \in s /\ Cardinality(s \ {First(s)}) = Cardinality(s) - 1
  <2>1. IsFiniteSet(s) /\ Cardinality(s) <= Cardinality(U)
    BY FS_Subset
  <2>2. s # {} => First(s) \in s
    BY DEF First
  <2> QED
    BY <2>1, <2>2, FS_CardinalityType, FS_EmptySet, FS_RemoveElement
<1>2. Bad = {}
  <2> SUFFICES ASSUME Bad # {} PROVE FALSE
    OBVIOUS
  <2>1. PICK m \in Bad : \A y \in Bad : m <= y
    <3>1. Bad \in SUBSET Nat
      OBVIOUS
    <3> HIDE DEF Bad
    <3> QED
      BY <3>1, LeastNat
  <2>2. m \in Nat /\ ~ \E g : Solves(g, m)
    OBVIOUS
  <2>3. m # 0
    <3>1. ASSUME NEW s \in UpTo(0) PROVE s = {}
      <4>1. s \in SUBSET U /\ Cardinality(s) <= 0
        OBVIOUS
      <4>2. Cardinality(s) \in Nat /\ (Cardinality(s) = 0 <=> s = {})
        BY <1>1, <4>1
      <4> QED
        BY <4>1, <4>2
    <3>2. Solves([s \in UpTo(0) |-> 0], 0)
      <4> HIDE DEF UpTo
      <4> QED
        BY <3>1
    <3> HIDE DEF Solves
    <3> QED
      BY <2>2, <3>2
  <2>4. PICK g : Solves(g, m - 1)
    <3>1. m - 1 \in Nat /\ ~ (m <= m - 1)
      BY <2>2, <2>3
    <3>2. m - 1 \notin Bad
      <4> HIDE DEF Bad
      <4> QED
        BY <2>1, <3>1
    <3> HIDE DEF Solves
    <3> QED
      BY <3>1, <3>2
  <2>5. \A s \in UpTo(m - 1) : g[s] = Def(g, s)
    BY <2>4, Zenon
  <2> DEFINE h == [s \in UpTo(m) |-> IF s \in UpTo(m - 1) THEN g[s] ELSE Def(g, s)]
  <2>6. ASSUME NEW s \in UpTo(m) PROVE h[s] = Def(h, s)
    <3>1. h[s] = Def(g, s)
      <4> HIDE DEF Def, UpTo
      <4> QED
        BY <2>5
    <3>2. s # {} => h[s \ {First(s)}] = g[s \ {First(s)}]
      <4> SUFFICES ASSUME s # {} PROVE h[s \ {First(s)}] = g[s \ {First(s)}]
        OBVIOUS
      <4>1. s \in SUBSET U /\ Cardinality(s) <= m /\ Cardinality(s) \in Nat
        BY <1>1
      <4>2. s \ {First(s)} \in SUBSET U /\ Cardinality(s \ {First(s)}) = Cardinality(s) - 1
        BY <1>1, <4>1
      <4>3. s \ {First(s)} \in UpTo(m - 1) /\ s \ {First(s)} \in UpTo(m)
        BY <2>2, <4>1, <4>2
      <4> HIDE DEF Def, UpTo
      <4> QED
        BY <4>3
    <3> HIDE DEF h, UpTo
    <3>3. Def(h, s) = Def(g, s)
      BY <3>2
    <3> QED
      BY <3>1, <3>3
  <2>7. h = [s \in UpTo(m) |-> Def(h, s)]
    <3>1. h = [s \in UpTo(m) |-> h[s]]
      <4> HIDE DEF UpTo, Def
      <4> QED
        OBVIOUS
    <3> HIDE DEF h, Def, UpTo
    <3> QED
      BY <2>6, <3>1
  <2>8. Solves(h, m)
    BY <2>7, Zenon
  <2> HIDE DEF Solves, h
  <2> QED
    BY <2>2, <2>8
<1>3. Cardinality(U) \in Nat /\ UpTo(Cardinality(U)) = SUBSET U
  BY <1>1
<1>4. PICK g : Solves(g, Cardinality(U))
  <2> HIDE DEF Solves
  <2> QED
    BY <1>2, <1>3
<1>5. g = [s \in SUBSET U |-> Def(g, s)]
  BY <1>3, <1>4
<1>6. TotalOf(f, U) = [s \in SUBSET U |-> Def(TotalOf(f, U), s)]
  BY <1>5 DEF TotalOf
<1>7. \A s \in SUBSET U : TotalOf(f, U)[s] = Def(TotalOf(f, U), s)
  <2> DEFINE T == TotalOf(f, U)
  <2>1. T = [s \in SUBSET U |-> Def(T, s)]
    BY <1>6
  <2> HIDE DEF T, Def
  <2>2. \A s \in SUBSET U : T[s] = Def(T, s)
    BY <2>1, Zenon
  <2> QED
    BY <2>2 DEF T
<1> QED
  BY <1>1, <1>7, Zenon

LEMMA TotalType ==
    ASSUME NEW U, IsFiniteSet(U), NEW f \in [U -> Int]
    PROVE  \A s \in SUBSET U : TotalOf(f, U)[s] \in Int
<1> DEFINE T == TotalOf(f, U)
           G == {s \in SUBSET U : T[s] \in Int}
<1>1. /\ T[{}] = 0
      /\ \A s \in SUBSET U : s # {} => First(s) \in s /\ T[s] = f[First(s)] + T[s \ {First(s)}]
  BY TotalDef
<1> HIDE DEF T
<1>2. ASSUME NEW s \in SUBSET U, \A x \in s : s \ {x} \in G PROVE s \in G
  <2>1. CASE s = {}
    BY <1>1, <2>1
  <2>2. CASE s # {}
    <3>1. f[First(s)] \in Int /\ T[s \ {First(s)}] \in Int
      BY <1>1, <1>2, <2>2
    <3>2. T[s] = f[First(s)] + T[s \ {First(s)}]
      BY <1>1, <2>2
    <3>3. T[s] \in Int
      BY <3>1, <3>2
    <3> QED
      BY <3>3
  <2> QED
    BY <2>1, <2>2
<1>3. SUBSET U \subseteq G
  <2> HIDE DEF G
  <2> QED
    BY <1>2, SubsetInduction
<1> QED
  BY <1>3 DEF T

\* The order in which the elements are taken does not matter.
LEMMA TotalAdd ==
    ASSUME NEW U, IsFiniteSet(U), NEW f \in [U -> Int]
    PROVE  \A s \in SUBSET U : \A x \in U :
               x \notin s => TotalOf(f, U)[s \cup {x}] = f[x] + TotalOf(f, U)[s]
<1> DEFINE T == TotalOf(f, U)
           G == {r \in SUBSET U : \A y \in U : y \notin r => T[r \cup {y}] = f[y] + T[r]}
<1>1. \A r \in SUBSET U : r # {} => First(r) \in r /\ T[r] = f[First(r)] + T[r \ {First(r)}]
  BY TotalDef
<1>2. \A r \in SUBSET U : T[r] \in Int
  BY TotalType
<1> HIDE DEF T
<1>3. ASSUME NEW r \in SUBSET U, \A z \in r : r \ {z} \in G, NEW y \in U, y \notin r
      PROVE  T[r \cup {y}] = f[y] + T[r]
  <2> DEFINE z == First(r \cup {y})
  <2>1. z \in r \cup {y} /\ T[r \cup {y}] = f[z] + T[(r \cup {y}) \ {z}]
    BY <1>1
  <2> HIDE DEF z
  <2>2. CASE z = y
    <3>1. (r \cup {y}) \ {z} = r
      BY <1>3, <2>2
    <3> QED
      BY <2>1, <2>2, <3>1
  <2>3. CASE z # y
    <3>1. z \in r /\ z \notin r \ {z} /\ y \notin r \ {z} /\ z \in U
      BY <1>3, <2>1, <2>3
    <3>2. (r \cup {y}) \ {z} = (r \ {z}) \cup {y} /\ (r \ {z}) \cup {z} = r
      BY <2>3, <3>1
    <3>3. r \ {z} \in G
      BY <1>3, <3>1
    <3>4. T[(r \ {z}) \cup {y}] = f[y] + T[r \ {z}] /\ T[(r \ {z}) \cup {z}] = f[z] + T[r \ {z}]
      BY <3>1, <3>3
    <3>5. /\ T[r \cup {y}] = f[z] + (f[y] + T[r \ {z}]) /\ T[r] = f[z] + T[r \ {z}]
          /\ f[z] \in Int /\ f[y] \in Int /\ T[r \ {z}] \in Int
      BY <1>2, <2>1, <3>1, <3>2, <3>4
    <3> QED
      BY <3>5
  <2> QED
    BY <2>2, <2>3
<1>4. SUBSET U \subseteq G
  <2>1. \A r \in SUBSET U : (\A z \in r : r \ {z} \in G) => r \in G
    BY <1>3
  <2> HIDE DEF G
  <2> QED
    BY <2>1, SubsetInduction
<1> QED
  BY <1>4 DEF T
-----------------------------------------------------------------------------
\* The sums of the deviations and of the differences, for some of the rows,
\* from those of the summands and of their squares.
LEMMA DeviationStep ==
    ASSUME NEW n \in Int, NEW t \in Int, NEW w \in Int, NEW t1 \in Int, NEW t2 \in Int, NEW c \in Int
    PROVE  (n * w - t) * (n * w - t) + (n * n * t2 - 2 * n * t * t1 + c * (t * t))
               = n * n * (w * w + t2) - 2 * n * t * (w + t1) + (c + 1) * (t * t)
OBVIOUS

LEMMA PairStep ==
    ASSUME NEW a \in Int, NEW b \in Int, NEW c \in Int, NEW t1 \in Int, NEW t2 \in Int, NEW q \in Int
    PROVE  (a - b) * (a - b) + (q + (c * (a * a) - 2 * a * t1 + t2))
               = q + ((c + 1) * (a * a) - 2 * a * (b + t1) + (b * b + t2))
OBVIOUS

LEMMA RowStep ==
    ASSUME NEW n \in Int, NEW a \in Int, NEW c \in Int, NEW t1 \in Int, NEW t2 \in Int,
           NEW s1 \in Int, NEW s2 \in Int
    PROVE  (n * t2 - 2 * t1 * s1 + c * s2) + (n * (a * a) - 2 * a * s1 + s2)
               = n * (a * a + t2) - 2 * (a + t1) * s1 + (c + 1) * s2
OBVIOUS

LEMMA SpreadStep ==
    ASSUME NEW n \in Int, NEW t \in Int, NEW t2 \in Int
    PROVE  2 * (n * n * t2 - 2 * n * t * t + n * (t * t)) = n * (n * t2 - 2 * t * t + n * t2)
OBVIOUS

\* The summands: the squares, the squared deviations from the mean t / n scaled
\* by n, and the squared differences of all pairs.
Squares(w, P) == [i \in P |-> w[i] * w[i]]
Deviations(w, P, n, t) == [i \in P |-> (n * w[i] - t) * (n * w[i] - t)]
Differences(w, P) == [p \in P \X P |-> (w[p[1]] - w[p[2]]) * (w[p[1]] - w[p[2]])]

\* Each is a polynomial in the number of summands, their sum and the sum of
\* their squares, by induction over the subsets.
LEMMA SumOfDeviations ==
    ASSUME NEW P, IsFiniteSet(P), NEW w \in [P -> Int], NEW n \in Int, NEW t \in Int
    PROVE  \A s \in SUBSET P :
               TotalOf(Deviations(w, P, n, t), P)[s]
                   = n * n * TotalOf(Squares(w, P), P)[s] - 2 * n * t * TotalOf(w, P)[s]
                         + Cardinality(s) * (t * t)
<1> DEFINE sq == Squares(w, P)
           dev == Deviations(w, P, n, t)
<1>0. /\ sq \in [P -> Int] /\ \A i \in P : sq[i] = w[i] * w[i]
      /\ dev \in [P -> Int] /\ \A i \in P : dev[i] = (n * w[i] - t) * (n * w[i] - t)
  BY DEF Squares, Deviations
<1> HIDE DEF sq, dev
<1> DEFINE D == TotalOf(dev, P)
           Q2 == TotalOf(sq, P)
           Q1 == TotalOf(w, P)
           G == {s \in SUBSET P : D[s] = n * n * Q2[s] - 2 * n * t * Q1[s] + Cardinality(s) * (t * t)}
<1>1. /\ D[{}] = 0 /\ Q2[{}] = 0 /\ Q1[{}] = 0
      /\ \A s \in SUBSET P : s # {} =>
             /\ First(s) \in s
             /\ D[s] = dev[First(s)] + D[s \ {First(s)}]
             /\ Q2[s] = sq[First(s)] + Q2[s \ {First(s)}]
             /\ Q1[s] = w[First(s)] + Q1[s \ {First(s)}]
  <2>1. /\ D[{}] = 0
        /\ \A s \in SUBSET P : s # {} =>
               First(s) \in s /\ D[s] = dev[First(s)] + D[s \ {First(s)}]
    BY TotalDef
  <2>2. /\ Q2[{}] = 0
        /\ \A s \in SUBSET P : s # {} => Q2[s] = sq[First(s)] + Q2[s \ {First(s)}]
    BY TotalDef
  <2>3. /\ Q1[{}] = 0
        /\ \A s \in SUBSET P : s # {} => Q1[s] = w[First(s)] + Q1[s \ {First(s)}]
    BY TotalDef
  <2> HIDE DEF D, Q1, Q2
  <2> QED
    BY <2>1, <2>2, <2>3
<1>2. \A s \in SUBSET P : Q1[s] \in Int /\ Q2[s] \in Int
  <2>1. \A s \in SUBSET P : Q1[s] \in Int
    BY <1>0, TotalType
  <2>2. \A s \in SUBSET P : Q2[s] \in Int
    BY <1>0, TotalType
  <2> QED
    BY <2>1, <2>2
<1>3. \A s \in SUBSET P : IsFiniteSet(s) /\ Cardinality(s) \in Nat
  BY FS_Subset, FS_CardinalityType
<1> HIDE DEF D, Q1, Q2
<1>4. ASSUME NEW s \in SUBSET P, \A x \in s : s \ {x} \in G PROVE s \in G
  <2>1. CASE s = {}
    <3>1. Cardinality(s) = 0 /\ D[s] = 0 /\ Q1[s] = 0 /\ Q2[s] = 0
      BY <1>1, <2>1, FS_EmptySet
    <3>2. 0 = n * n * 0 - 2 * n * t * 0 + 0 * (t * t)
      OBVIOUS
    <3> QED
      BY <3>1, <3>2
  <2>2. CASE s # {}
    <3> DEFINE x == First(s)
               r == s \ {x}
    <3>1. /\ x \in s /\ x \in P /\ r \in SUBSET P /\ r \in G
          /\ D[s] = dev[x] + D[r] /\ Q2[s] = sq[x] + Q2[r] /\ Q1[s] = w[x] + Q1[r]
      BY <1>1, <1>4, <2>2
    <3>2. Cardinality(r) \in Nat /\ Cardinality(s) = Cardinality(r) + 1
      <4>1. IsFiniteSet(s) /\ Cardinality(s) \in Nat /\ Cardinality(r) \in Nat
        BY <1>3, <3>1
      <4>2. Cardinality(s \ {First(s)}) = Cardinality(s) - 1
        BY <3>1, <4>1, FS_RemoveElement
      <4> QED
        BY <4>1, <4>2
    <3> HIDE DEF x, r
    <3>3. D[r] = n * n * Q2[r] - 2 * n * t * Q1[r] + Cardinality(r) * (t * t)
      BY <3>1
    <3>4. w[x] \in Int /\ Q1[r] \in Int /\ Q2[r] \in Int /\ Cardinality(r) \in Int
      BY <1>2, <3>1, <3>2
    <3>5. sq[x] = w[x] * w[x] /\ dev[x] = (n * w[x] - t) * (n * w[x] - t)
      BY <1>0, <3>1
    <3>6. (n * w[x] - t) * (n * w[x] - t)
              + (n * n * Q2[r] - 2 * n * t * Q1[r] + Cardinality(r) * (t * t))
            = n * n * (w[x] * w[x] + Q2[r]) - 2 * n * t * (w[x] + Q1[r])
                  + (Cardinality(r) + 1) * (t * t)
      BY <3>4, DeviationStep
    <3>7. D[s] = n * n * Q2[s] - 2 * n * t * Q1[s] + Cardinality(s) * (t * t)
      BY <3>1, <3>2, <3>3, <3>5, <3>6
    <3> QED
      BY <3>7
  <2> QED
    BY <2>1, <2>2
<1>5. SUBSET P \subseteq G
  <2> HIDE DEF G
  <2> QED
    BY <1>4, SubsetInduction
<1> QED
  BY <1>5 DEF D, Q1, Q2, sq, dev

\* The pairs of rows of A and any rows, and then some pairs of one more.
LEMMA RowOfPairs ==
    ASSUME NEW P, IsFiniteSet(P), NEW w \in [P -> Int],
           NEW A \in SUBSET P, NEW x \in P, x \notin A
    PROVE  \A s \in SUBSET P :
               TotalOf(Differences(w, P), P \X P)[(A \X P) \cup ({x} \X s)]
                   = TotalOf(Differences(w, P), P \X P)[A \X P]
                         + (Cardinality(s) * (w[x] * w[x]) - 2 * w[x] * TotalOf(w, P)[s]
                                + TotalOf(Squares(w, P), P)[s])
<1> DEFINE sq == Squares(w, P)
           diff == Differences(w, P)
<1>0. /\ sq \in [P -> Int] /\ \A i \in P : sq[i] = w[i] * w[i]
      /\ diff \in [P \X P -> Int]
      /\ \A i, j \in P : diff[<<i, j>>] = (w[i] - w[j]) * (w[i] - w[j])
  BY DEF Squares, Differences
<1> HIDE DEF sq, diff
<1> DEFINE D == TotalOf(diff, P \X P)
           Q2 == TotalOf(sq, P)
           Q1 == TotalOf(w, P)
           with(s) == (A \X P) \cup ({x} \X s)
           G == {s \in SUBSET P : D[with(s)] = D[A \X P]
                    + (Cardinality(s) * (w[x] * w[x]) - 2 * w[x] * Q1[s] + Q2[s])}
<1>1. /\ Q2[{}] = 0 /\ Q1[{}] = 0
      /\ \A s \in SUBSET P : s # {} =>
             /\ First(s) \in s
             /\ Q2[s] = sq[First(s)] + Q2[s \ {First(s)}]
             /\ Q1[s] = w[First(s)] + Q1[s \ {First(s)}]
  <2>1. /\ Q2[{}] = 0
        /\ \A s \in SUBSET P : s # {} =>
               First(s) \in s /\ Q2[s] = sq[First(s)] + Q2[s \ {First(s)}]
    BY TotalDef
  <2>2. /\ Q1[{}] = 0
        /\ \A s \in SUBSET P : s # {} => Q1[s] = w[First(s)] + Q1[s \ {First(s)}]
    BY TotalDef
  <2> HIDE DEF D, Q1, Q2
  <2> QED
    BY <2>1, <2>2
<1>2. \A s \in SUBSET P : Q1[s] \in Int /\ Q2[s] \in Int
  <2>1. \A s \in SUBSET P : Q1[s] \in Int
    BY <1>0, TotalType
  <2>2. \A s \in SUBSET P : Q2[s] \in Int
    BY <1>0, TotalType
  <2> QED
    BY <2>1, <2>2
<1>3. \A s \in SUBSET P : IsFiniteSet(s) /\ Cardinality(s) \in Nat
  BY FS_Subset, FS_CardinalityType
<1>4. IsFiniteSet(P \X P)
  BY FS_Product
<1>5. A \X P \in SUBSET (P \X P) /\ D[A \X P] \in Int
  <2>1. A \X P \in SUBSET (P \X P)
    OBVIOUS
  <2> QED
    BY <1>4, <1>0, <2>1, TotalType
<1>6. ASSUME NEW r \in SUBSET P, NEW y \in P, y \notin r
      PROVE  D[with(r \cup {y})] = (w[x] - w[y]) * (w[x] - w[y]) + D[with(r)]
  <2>1. with(r) \in SUBSET (P \X P) /\ <<x, y>> \in P \X P /\ <<x, y>> \notin with(r)
    BY <1>6
  <2>2. with(r \cup {y}) = with(r) \cup {<<x, y>>}
    OBVIOUS
  <2> DEFINE R == with(r)
             u == <<x, y>>
             U == P \X P
  <2>3. R \in SUBSET U /\ u \in U /\ u \notin R /\ IsFiniteSet(U) /\ diff \in [U -> Int]
    BY <1>4, <1>0, <2>1
  <2>4. TotalOf(diff, U)[R \cup {u}] = diff[u] + TotalOf(diff, U)[R]
    <3> HIDE DEF U
    <3>1. \A s \in SUBSET U : \A z \in U :
              z \notin s => TotalOf(diff, U)[s \cup {z}] = diff[z] + TotalOf(diff, U)[s]
      BY <2>3, TotalAdd, Zenon
    <3> HIDE DEF R, u
    <3> QED
      BY <2>3, <3>1
  <2>5. diff[u] = (w[x] - w[y]) * (w[x] - w[y])
    BY <1>0
  <2> HIDE DEF with
  <2> QED
    BY <2>2, <2>4, <2>5
<1>7. with({}) = A \X P
  OBVIOUS
<1> HIDE DEF D, Q1, Q2, with
<1>8. ASSUME NEW s \in SUBSET P, \A y \in s : s \ {y} \in G PROVE s \in G
  <2>1. CASE s = {}
    <3>1. Cardinality(s) = 0 /\ D[with(s)] = D[A \X P] /\ Q1[s] = 0 /\ Q2[s] = 0
      BY <1>1, <1>7, <2>1, FS_EmptySet
    <3>2. w[x] \in Int
      OBVIOUS
    <3>3. D[A \X P] = D[A \X P] + (0 * (w[x] * w[x]) - 2 * w[x] * 0 + 0)
      BY <1>5, <3>2
    <3> QED
      BY <3>1, <3>3
  <2>2. CASE s # {}
    <3> DEFINE y == First(s)
               r == s \ {y}
    <3>1. /\ y \in s /\ y \in P /\ r \in SUBSET P /\ r \in G
          /\ Q2[s] = sq[y] + Q2[r] /\ Q1[s] = w[y] + Q1[r]
      BY <1>1, <1>8, <2>2
    <3>2. Cardinality(r) \in Nat /\ Cardinality(s) = Cardinality(r) + 1
      <4>1. IsFiniteSet(s) /\ Cardinality(s) \in Nat /\ Cardinality(r) \in Nat
        BY <1>3, <3>1
      <4>2. Cardinality(s \ {First(s)}) = Cardinality(s) - 1
        BY <3>1, <4>1, FS_RemoveElement
      <4> QED
        BY <4>1, <4>2
    <3>3. y \notin r /\ r \cup {y} = s
      BY <3>1
    <3> HIDE DEF y, r
    <3>4. D[with(r)] = D[A \X P] + (Cardinality(r) * (w[x] * w[x]) - 2 * w[x] * Q1[r] + Q2[r])
      BY <3>1
    <3>5. D[with(s)] = (w[x] - w[y]) * (w[x] - w[y]) + D[with(r)]
      BY <1>6, <3>1, <3>3
    <3>6. w[x] \in Int /\ w[y] \in Int /\ Q1[r] \in Int /\ Q2[r] \in Int /\ Cardinality(r) \in Int
      BY <1>2, <3>1, <3>2
    <3> DEFINE a == w[x]
               b == w[y]
               c == Cardinality(r)
               t1 == Q1[r]
               t2 == Q2[r]
               q == D[A \X P]
    <3>6a. a \in Int /\ b \in Int /\ c \in Int /\ t1 \in Int /\ t2 \in Int /\ q \in Int
      BY <1>5, <3>6
    <3>6b. (a - b) * (a - b) + (q + (c * (a * a) - 2 * a * t1 + t2))
            = q + ((c + 1) * (a * a) - 2 * a * (b + t1) + (b * b + t2))
      <4> HIDE DEF a, b, c, t1, t2, q
      <4> QED
        BY <3>6a, PairStep
    <3>7. (w[x] - w[y]) * (w[x] - w[y])
              + (D[A \X P] + (Cardinality(r) * (w[x] * w[x]) - 2 * w[x] * Q1[r] + Q2[r]))
            = D[A \X P] + ((Cardinality(r) + 1) * (w[x] * w[x]) - 2 * w[x] * (w[y] + Q1[r])
                               + (w[y] * w[y] + Q2[r]))
      BY <3>6b
    <3>8. sq[y] = w[y] * w[y]
      BY <1>0, <3>1
    <3>9. D[with(s)] = D[A \X P] + (Cardinality(s) * (w[x] * w[x]) - 2 * w[x] * Q1[s] + Q2[s])
      BY <3>1, <3>2, <3>4, <3>5, <3>7, <3>8
    <3> QED
      BY <3>9
  <2> QED
    BY <2>1, <2>2
<1>9. SUBSET P \subseteq G
  <2> HIDE DEF G
  <2> QED
    BY <1>8, SubsetInduction
<1> QED
  BY <1>9 DEF D, Q1, Q2, with, sq, diff

\* By induction over the rows, the pairs of each by induction over the second.
LEMMA SumOfDifferences ==
    ASSUME NEW P, IsFiniteSet(P), NEW w \in [P -> Int]
    PROVE  \A s \in SUBSET P :
               TotalOf(Differences(w, P), P \X P)[s \X P]
                   = Cardinality(P) * TotalOf(Squares(w, P), P)[s]
                         - 2 * TotalOf(w, P)[s] * TotalOf(w, P)[P]
                         + Cardinality(s) * TotalOf(Squares(w, P), P)[P]
<1> DEFINE sq == Squares(w, P)
           diff == Differences(w, P)
<1>0. /\ sq \in [P -> Int] /\ \A i \in P : sq[i] = w[i] * w[i]
      /\ diff \in [P \X P -> Int]
      /\ \A i, j \in P : diff[<<i, j>>] = (w[i] - w[j]) * (w[i] - w[j])
  BY DEF Squares, Differences
<1> HIDE DEF sq, diff
<1> DEFINE D == TotalOf(diff, P \X P)
           Q2 == TotalOf(sq, P)
           Q1 == TotalOf(w, P)
           n == Cardinality(P)
           G == {s \in SUBSET P : D[s \X P] = n * Q2[s] - 2 * Q1[s] * Q1[P] + Cardinality(s) * Q2[P]}
<1>1. /\ Q2[{}] = 0 /\ Q1[{}] = 0
      /\ \A s \in SUBSET P : s # {} =>
             /\ First(s) \in s
             /\ Q2[s] = sq[First(s)] + Q2[s \ {First(s)}]
             /\ Q1[s] = w[First(s)] + Q1[s \ {First(s)}]
  <2>1. /\ Q2[{}] = 0
        /\ \A s \in SUBSET P : s # {} =>
               First(s) \in s /\ Q2[s] = sq[First(s)] + Q2[s \ {First(s)}]
    BY TotalDef
  <2>2. /\ Q1[{}] = 0
        /\ \A s \in SUBSET P : s # {} => Q1[s] = w[First(s)] + Q1[s \ {First(s)}]
    BY TotalDef
  <2> HIDE DEF D, Q1, Q2
  <2> QED
    BY <2>1, <2>2
<1>2. \A s \in SUBSET P : Q1[s] \in Int /\ Q2[s] \in Int
  <2>1. \A s \in SUBSET P : Q1[s] \in Int
    BY <1>0, TotalType
  <2>2. \A s \in SUBSET P : Q2[s] \in Int
    BY <1>0, TotalType
  <2> QED
    BY <2>1, <2>2
<1>3. \A s \in SUBSET P : IsFiniteSet(s) /\ Cardinality(s) \in Nat
  BY FS_Subset, FS_CardinalityType
<1>4. n \in Int /\ Q1[P] \in Int /\ Q2[P] \in Int
  BY <1>2, <1>3
<1>5. D[{}] = 0
  <2>1. IsFiniteSet(P \X P)
    BY FS_Product
  <2> QED
    BY <2>1, TotalDef
<1>6. ASSUME NEW A \in SUBSET P, NEW x \in P, x \notin A
      PROVE  D[(A \X P) \cup ({x} \X P)] = D[A \X P] + (n * (w[x] * w[x]) - 2 * w[x] * Q1[P] + Q2[P])
  <2>1. \A s \in SUBSET P :
            D[(A \X P) \cup ({x} \X s)]
                = D[A \X P] + (Cardinality(s) * (w[x] * w[x]) - 2 * w[x] * Q1[s] + Q2[s])
    BY <1>6, RowOfPairs DEF sq, diff
  <2>2. P \in SUBSET P
    OBVIOUS
  <2> HIDE DEF D, Q1, Q2
  <2> QED
    BY <2>1, <2>2
<1> HIDE DEF D, Q1, Q2, n
<1>7. ASSUME NEW s \in SUBSET P, \A x \in s : s \ {x} \in G PROVE s \in G
  <2>1. CASE s = {}
    <3>1. Cardinality(s) = 0 /\ s \X P = {} /\ Q1[s] = 0 /\ Q2[s] = 0
      BY <1>1, <2>1, FS_EmptySet
    <3>2. 0 = n * 0 - 2 * 0 * Q1[P] + 0 * Q2[P]
      BY <1>4
    <3> QED
      BY <1>5, <3>1, <3>2
  <2>2. CASE s # {}
    <3> DEFINE x == First(s)
               r == s \ {x}
    <3>1. /\ x \in s /\ x \in P /\ r \in SUBSET P /\ r \in G
          /\ Q2[s] = sq[x] + Q2[r] /\ Q1[s] = w[x] + Q1[r]
      BY <1>1, <1>7, <2>2
    <3>2. Cardinality(r) \in Nat /\ Cardinality(s) = Cardinality(r) + 1
      <4>1. IsFiniteSet(s) /\ Cardinality(s) \in Nat /\ Cardinality(r) \in Nat
        BY <1>3, <3>1
      <4>2. Cardinality(s \ {First(s)}) = Cardinality(s) - 1
        BY <3>1, <4>1, FS_RemoveElement
      <4> QED
        BY <4>1, <4>2
    <3>3. x \notin r /\ s \X P = (r \X P) \cup ({x} \X P)
      BY <3>1
    <3> HIDE DEF x, r
    <3>4. D[r \X P] = n * Q2[r] - 2 * Q1[r] * Q1[P] + Cardinality(r) * Q2[P]
      BY <3>1
    <3>5. D[s \X P] = D[r \X P] + (n * (w[x] * w[x]) - 2 * w[x] * Q1[P] + Q2[P])
      BY <1>6, <3>1, <3>3
    <3>6. w[x] \in Int /\ Q1[r] \in Int /\ Q2[r] \in Int /\ Cardinality(r) \in Int
      BY <1>2, <3>1, <3>2
    <3> DEFINE a == w[x]
               c == Cardinality(r)
               t1 == Q1[r]
               t2 == Q2[r]
               s1 == Q1[P]
               s2 == Q2[P]
    <3>6a. /\ a \in Int /\ c \in Int /\ t1 \in Int /\ t2 \in Int /\ s1 \in Int /\ s2 \in Int
           /\ n \in Int
      BY <1>4, <3>6
    <3>6b. (n * t2 - 2 * t1 * s1 + c * s2) + (n * (a * a) - 2 * a * s1 + s2)
               = n * (a * a + t2) - 2 * (a + t1) * s1 + (c + 1) * s2
      <4> HIDE DEF a, c, t1, t2, s1, s2
      <4> QED
        BY <3>6a, RowStep
    <3>7. (n * Q2[r] - 2 * Q1[r] * Q1[P] + Cardinality(r) * Q2[P])
              + (n * (w[x] * w[x]) - 2 * w[x] * Q1[P] + Q2[P])
            = n * (w[x] * w[x] + Q2[r]) - 2 * (w[x] + Q1[r]) * Q1[P] + (Cardinality(r) + 1) * Q2[P]
      BY <3>6b
    <3>8. sq[x] = w[x] * w[x]
      BY <1>0, <3>1
    <3>9. D[s \X P] = n * Q2[s] - 2 * Q1[s] * Q1[P] + Cardinality(s) * Q2[P]
      BY <3>1, <3>2, <3>4, <3>5, <3>7, <3>8
    <3> QED
      BY <3>9
  <2> QED
    BY <2>1, <2>2
<1>8. SUBSET P \subseteq G
  <2> HIDE DEF G
  <2> QED
    BY <1>7, SubsetInduction
<1> QED
  BY <1>8 DEF D, Q1, Q2, n, sq, diff

\* Twice n times the squared deviations from the mean, scaled by n, are the
\* squared differences of all pairs.
LEMMA SpreadOfPairs ==
    ASSUME NEW P, IsFiniteSet(P), NEW w \in [P -> Int]
    PROVE  2 * TotalOf(Deviations(w, P, Cardinality(P), TotalOf(w, P)[P]), P)[P]
               = Cardinality(P) * TotalOf(Differences(w, P), P \X P)[P \X P]
<1> DEFINE n == Cardinality(P)
           t == TotalOf(w, P)[P]
           t2 == TotalOf(Squares(w, P), P)[P]
<1>1. P \in SUBSET P /\ n \in Int
  BY FS_CardinalityType
<1>2. t \in Int
  BY <1>1, TotalType
<1>3. t2 \in Int
  <2>1. Squares(w, P) \in [P -> Int]
    BY DEF Squares
  <2> QED
    BY <1>1, <2>1, TotalType
<1>4. TotalOf(Deviations(w, P, n, t), P)[P] = n * n * t2 - 2 * n * t * t + n * (t * t)
  <2>1. \A s \in SUBSET P :
            TotalOf(Deviations(w, P, n, t), P)[s]
                = n * n * TotalOf(Squares(w, P), P)[s] - 2 * n * t * TotalOf(w, P)[s]
                      + Cardinality(s) * (t * t)
    <3> HIDE DEF n, t
    <3> QED
      BY <1>1, <1>2, SumOfDeviations
  <2> QED
    BY <1>1, <2>1
<1>5. TotalOf(Differences(w, P), P \X P)[P \X P] = n * t2 - 2 * t * t + n * t2
  BY <1>1, SumOfDifferences
<1> HIDE DEF n, t, t2
<1>6. 2 * (n * n * t2 - 2 * n * t * t + n * (t * t)) = n * (n * t2 - 2 * t * t + n * t2)
  BY <1>1, <1>2, <1>3, SpreadStep
<1>7. 2 * TotalOf(Deviations(w, P, n, t), P)[P] = n * TotalOf(Differences(w, P), P \X P)[P \X P]
  BY <1>4, <1>5, <1>6
<1> QED
  BY <1>7 DEF n, t
-----------------------------------------------------------------------------
\* The waiting time of a finished process is the number of ticks of its stay
\* that the timeline gives to others.
LEMMA WaitingIsWaited ==
    ASSUME MetricsInv, phase = "ok", NEW i \in Procs
    PROVE  waiting(i) = waited(i) /\ waited(i) \in Nat
<1> DEFINE a == trace[i].arrival
           c == completion[i]
           Stay == a..(c - 1)
<1>1. a \in Nat /\ trace[i].burst \in Nat /\ remaining[i] = 0 /\ tick \in Nat
  BY RowTypes, AllDone, EngineAssumption DEF MetricsInv, TypeInv, TypeOK, Procs
<1>2. c \in Nat /\ c # NOT_STARTED /\ start_tick[i] # NOT_STARTED /\ start_tick[i] \in Nat
      /\ start_tick[i] >= a /\ c >= start_tick[i] + trace[i].burst
  BY StampsFitTheBurst
<1>3. \A t \in TicksOf(i) : a <= start_tick[i] /\ start_tick[i] <= t /\ t < c
  BY <1>2 DEF MetricsInv, Window
<1>4. c - 1 \in TicksOf(i) /\ Elapsed = 0..(tick - 1)
  BY <1>2 DEF MetricsInv, Window, Elapsed
<1>5. c <= tick
  BY <1>1, <1>2, <1>4 DEF TicksOf
<1>6. \A t : t \in TicksOf(i) <=> t \in 0..(tick - 1) /\ timeline[t] = i
  BY <1>4 DEF TicksOf
<1>7. TicksOf(i) \in SUBSET Stay
  <2>1. ASSUME NEW t \in TicksOf(i) PROVE t \in Stay
    <3>1. t \in Int
      BY <1>6, <2>1
    <3>2. a <= start_tick[i] /\ start_tick[i] <= t /\ t < c
      BY <1>3, <2>1
    <3> QED
      BY <1>1, <1>2, <3>1, <3>2
  <2> QED
    BY <2>1
<1>8. WaitedTicks(i) = Stay \ TicksOf(i)
  <2>1. \A t : t \in WaitedTicks(i) <=> t \in 0..(tick - 1) /\ a <= t /\ t < c /\ timeline[t] # i
    BY DEF WaitedTicks
  <2>2. \A t : t \in Stay <=> t \in 0..(tick - 1) /\ a <= t /\ t < c
    BY <1>1, <1>2, <1>5
  <2> HIDE DEF Stay, a, c
  <2> QED
    BY <1>6, <2>1, <2>2
<1>9. IsFiniteSet(Stay) /\ Cardinality(Stay) = c - a
  <2>1. a \in Int /\ c - 1 \in Int
    BY <1>1, <1>2
  <2>2. IsFiniteSet(Stay) /\ Cardinality(Stay) = IF a > c - 1 THEN 0 ELSE c - 1 - a + 1
    BY <2>1, FS_Interval, Zenon
  <2>3. c >= a
    BY <1>1, <1>2
  <2> QED
    BY <1>1, <1>2, <2>2, <2>3
<1>10. Stay \cap TicksOf(i) = TicksOf(i)
  BY <1>7
<1>11. Cardinality(TicksOf(i)) = trace[i].burst
  BY <1>1 DEF MetricsInv, Accounting
<1>12. Cardinality(WaitedTicks(i)) = c - a - trace[i].burst
  <2>1. Cardinality(Stay \ TicksOf(i)) = Cardinality(Stay) - Cardinality(Stay \cap TicksOf(i))
    <3> HIDE DEF Stay
    <3> QED
      BY <1>9, FS_Difference
  <2> HIDE DEF Stay
  <2> QED
    BY <1>8, <1>9, <1>10, <1>11, <2>1
<1>13. c - a - trace[i].burst \in Nat
  BY <1>1, <1>2
<1> QED
  BY <1>12, <1>13 DEF waiting, turnaround, waited

\* The folds of the model, as totals.
LEMMA SumOfWaiting == sum_waiting = TotalOf([i \in Procs |-> waiting(i)], Procs)[Procs]
<1> DEFINE f == [i \in Procs |-> waiting(i)]
           F(total) == [s \in SUBSET Procs |->
                            IF s = {} THEN 0 ELSE f[First(s)] + total[s \ {First(s)}]]
           G(total) == [s \in SUBSET Procs |->
                            IF s = {} THEN 0
                            ELSE waiting(CHOOSE x \in s : TRUE) + total[s \ {CHOOSE x \in s : TRUE}]]
<1>1. ASSUME NEW total PROVE F(total) = G(total)
  BY DEF First
<1>2. TotalOf(f, Procs)[Procs] = (CHOOSE total : total = F(total))[Procs]
  BY DEF TotalOf
<1>3. sum_waiting = (CHOOSE total : total = G(total))[Procs]
  BY DEF sum_waiting, SumOver, MapThenSumSet, MapThenFoldSet
<1>4. (CHOOSE total : total = F(total)) = (CHOOSE total : total = G(total))
  <2> HIDE DEF F, G
  <2> QED
    BY <1>1
<1> QED
  BY <1>2, <1>3, <1>4

LEMMA SumOfWaited == SumOver(waited) = TotalOf([i \in Procs |-> waited(i)], Procs)[Procs]
<1> DEFINE f == [i \in Procs |-> waited(i)]
           F(total) == [s \in SUBSET Procs |->
                            IF s = {} THEN 0 ELSE f[First(s)] + total[s \ {First(s)}]]
           G(total) == [s \in SUBSET Procs |->
                            IF s = {} THEN 0
                            ELSE waited(CHOOSE x \in s : TRUE) + total[s \ {CHOOSE x \in s : TRUE}]]
<1>1. ASSUME NEW total PROVE F(total) = G(total)
  BY DEF First
<1>2. TotalOf(f, Procs)[Procs] = (CHOOSE total : total = F(total))[Procs]
  BY DEF TotalOf
<1>3. SumOver(waited) = (CHOOSE total : total = G(total))[Procs]
  BY DEF SumOver, MapThenSumSet, MapThenFoldSet
<1>4. (CHOOSE total : total = F(total)) = (CHOOSE total : total = G(total))
  <2> HIDE DEF F, G
  <2> QED
    BY <1>1
<1> QED
  BY <1>2, <1>3, <1>4

LEMMA SumOfSquares ==
    scaled_variance =
        TotalOf([i \in Procs |-> (n_processes * waiting(i) - sum_waiting)
                                     * (n_processes * waiting(i) - sum_waiting)], Procs)[Procs]
<1> DEFINE sq(i) == (n_processes * waiting(i) - sum_waiting) * (n_processes * waiting(i) - sum_waiting)
           f == [i \in Procs |-> sq(i)]
           F(total) == [s \in SUBSET Procs |->
                            IF s = {} THEN 0 ELSE f[First(s)] + total[s \ {First(s)}]]
           G(total) == [s \in SUBSET Procs |->
                            IF s = {} THEN 0
                            ELSE sq(CHOOSE x \in s : TRUE) + total[s \ {CHOOSE x \in s : TRUE}]]
<1>1. ASSUME NEW total PROVE F(total) = G(total)
  <2> HIDE DEF sq
  <2> QED
    BY DEF First
<1>2. TotalOf(f, Procs)[Procs] = (CHOOSE total : total = F(total))[Procs]
  BY DEF TotalOf
<1>3. scaled_variance = (CHOOSE total : total = G(total))[Procs]
  BY DEF scaled_variance, SumOver, MapThenSumSet, MapThenFoldSet
<1>4. (CHOOSE total : total = F(total)) = (CHOOSE total : total = G(total))
  <2> HIDE DEF F, G
  <2> QED
    BY <1>1
<1> QED
  BY <1>2, <1>3, <1>4

SquareOf(p) == (waited(p[1]) - waited(p[2])) * (waited(p[1]) - waited(p[2]))

LEMMA SumOfPairs ==
    MapThenSumSet(SquareOf, Procs \X Procs) =
        TotalOf([p \in Procs \X Procs |-> SquareOf(p)], Procs \X Procs)[Procs \X Procs]
<1> DEFINE U == Procs \X Procs
           f == [p \in U |-> SquareOf(p)]
           F(total) == [s \in SUBSET U |->
                            IF s = {} THEN 0 ELSE f[First(s)] + total[s \ {First(s)}]]
           G(total) == [s \in SUBSET U |->
                            IF s = {} THEN 0
                            ELSE SquareOf(CHOOSE x \in s : TRUE) + total[s \ {CHOOSE x \in s : TRUE}]]
<1>1. ASSUME NEW total PROVE F(total) = G(total)
  <2> HIDE DEF U
  <2> QED
    BY DEF First
<1>2. TotalOf(f, U)[U] = (CHOOSE total : total = F(total))[U]
  BY DEF TotalOf
<1>3. MapThenSumSet(SquareOf, U) = (CHOOSE total : total = G(total))[U]
  BY DEF MapThenSumSet, MapThenFoldSet
<1>4. (CHOOSE total : total = F(total)) = (CHOOSE total : total = G(total))
  <2> HIDE DEF F, G
  <2> QED
    BY <1>1
<1> QED
  BY <1>2, <1>3, <1>4
-----------------------------------------------------------------------------
\* A bounded set of numbers has a greatest one: its least bound.
LEMMA GreatestNat ==
    ASSUME NEW S \in SUBSET Nat, S # {}, NEW b \in Nat, \A y \in S : y <= b
    PROVE  \E m \in S : \A y \in S : y <= m
<1> DEFINE Bounds == {c \in Nat : \A y \in S : y <= c}
<1>1. PICK c \in Bounds : \A d \in Bounds : c <= d
  <2>1. Bounds \in SUBSET Nat /\ b \in Bounds
    OBVIOUS
  <2> HIDE DEF Bounds
  <2> QED
    BY <2>1, LeastNat
<1>2. c \in Nat /\ \A y \in S : y \in Nat /\ y <= c
  OBVIOUS
<1>3. c \in S
  <2> SUFFICES ASSUME c \notin S PROVE FALSE
    OBVIOUS
  <2>1. \A y \in S : y <= c - 1
    BY <1>2
  <2>2. c - 1 \in Nat
    <3>1. PICK y \in S : y \in Nat /\ y <= c /\ y # c
      BY <1>2
    <3>2. c # 0
      BY <1>2, <3>1
    <3> QED
      BY <1>2, <3>2
  <2>3. c - 1 \in Bounds
    BY <2>1, <2>2
  <2> HIDE DEF Bounds
  <2> QED
    BY <1>1, <1>2, <2>3
<1> QED
  BY <1>2, <1>3

LEMMA MaxIsGreatest ==
    ASSUME NEW S \in SUBSET Nat, NEW m \in S, \A y \in S : y <= m
    PROVE  Max(S) = m
<1>1. m \in S /\ \A y \in S : m >= y
  OBVIOUS
<1>2. Max(S) \in S /\ \A y \in S : Max(S) >= y
  BY <1>1 DEF Max
<1>3. m >= Max(S) /\ Max(S) >= m
  BY <1>1, <1>2
<1>4. m \in Nat /\ Max(S) \in Nat
  BY <1>2
<1> QED
  BY <1>3, <1>4

\* SPEC.md section 5: the waiting times computed from the completion stamps
\* are the ones the timeline shows, in their sum, in their maximum and in
\* their spread, whatever the scheduler did.
THEOREM WaitingIsTimeNotRunCorrect == Spec => []WaitingIsTimeNotRun
<1>1. ASSUME MetricsInv, phase = "ok"
      PROVE  /\ sum_waiting = SumOver(waited)
             /\ max_waiting = Max({waited(i) : i \in Procs})
             /\ 2 * scaled_variance = n_processes * MapThenSumSet(SquareOf, Procs \X Procs)
  <2>1. \A i \in Procs : waiting(i) = waited(i) /\ waited(i) \in Nat
    BY <1>1, WaitingIsWaited
  <2>2. /\ Procs = 1..Len(trace) /\ Len(trace) \in Nat \ {0} /\ tick \in Nat
        /\ IsFiniteSet(Procs) /\ Cardinality(Procs) = n_processes
    <3>1. Procs = 1..Len(trace) /\ Len(trace) \in Nat \ {0} /\ tick \in Nat
      BY <1>1, RowTypes, EngineAssumption DEF MetricsInv, TypeInv, TypeOK, Procs
    <3> QED
      BY <3>1, FirstN DEF n_processes
  <2> DEFINE w == [i \in Procs |-> waited(i)]
  <2>3. w = [i \in Procs |-> waiting(i)]
    BY <2>1
  <2>4. sum_waiting = TotalOf(w, Procs)[Procs]
    BY <2>3, SumOfWaiting
  <2>5. sum_waiting = SumOver(waited)
    BY <2>4, SumOfWaited
  <2>6. max_waiting = Max({waited(i) : i \in Procs})
    <3> DEFINE A == {waited(i) : i \in Procs}
    <3>1. A \in SUBSET Nat /\ A # {} /\ A = {waiting(i) : i \in Procs}
      <4>1. 1 \in Procs
        BY <2>2
      <4> QED
        BY <2>1, <4>1
    <3>2. \A y \in A : y <= tick
      <4>1. ASSUME NEW i \in Procs PROVE waited(i) <= tick
        <5>1. WaitedTicks(i) \in SUBSET (0..(tick - 1))
          BY DEF WaitedTicks
        <5>2. IsFiniteSet(0..(tick - 1)) /\ Cardinality(0..(tick - 1)) = tick
          <6>1. 0 \in Int /\ tick - 1 \in Int
            BY <2>2
          <6>2. IsFiniteSet(0..(tick - 1))
                /\ Cardinality(0..(tick - 1)) = IF 0 > tick - 1 THEN 0 ELSE tick - 1 - 0 + 1
            BY <6>1, FS_Interval, Zenon
          <6> QED
            BY <2>2, <6>2
        <5> QED
          BY <5>1, <5>2, FS_Subset DEF waited
      <4> QED
        BY <4>1
    <3> HIDE DEF A
    <3>3. PICK m \in A : \A y \in A : y <= m
      BY <2>2, <3>1, <3>2, GreatestNat
    <3>4. Max(A) = m
      BY <3>1, <3>3, MaxIsGreatest
    <3> DEFINE B == {0} \cup A
    <3>5. B \in SUBSET Nat /\ m \in B /\ \A y \in B : y <= m
      BY <3>1, <3>3
    <3>6. Max(B) = m
      <4> HIDE DEF B
      <4> QED
        BY <3>5, MaxIsGreatest
    <3>7. max_waiting = Max(B)
      BY <3>1 DEF max_waiting
    <3> QED
      BY <3>4, <3>6, <3>7 DEF A
  <2>7. w \in [Procs -> Int]
    BY <2>1
  <2>8. scaled_variance = TotalOf(Deviations(w, Procs, n_processes, sum_waiting), Procs)[Procs]
    <3>1. [i \in Procs |-> (n_processes * waiting(i) - sum_waiting)
                                * (n_processes * waiting(i) - sum_waiting)]
            = Deviations(w, Procs, n_processes, sum_waiting)
      BY <2>1 DEF Deviations
    <3> QED
      BY <3>1, SumOfSquares
  <2>9. MapThenSumSet(SquareOf, Procs \X Procs)
            = TotalOf(Differences(w, Procs), Procs \X Procs)[Procs \X Procs]
    <3>1. [p \in Procs \X Procs |-> SquareOf(p)] = Differences(w, Procs)
      BY DEF SquareOf, Differences
    <3> QED
      BY <3>1, SumOfPairs
  <2> HIDE DEF w
  <2>10. 2 * scaled_variance = n_processes * MapThenSumSet(SquareOf, Procs \X Procs)
    BY <2>2, <2>4, <2>7, <2>8, <2>9, SpreadOfPairs
  <2> QED
    BY <2>5, <2>6, <2>10
<1>2. MetricsInv => WaitingIsTimeNotRun
  BY <1>1 DEF WaitingIsTimeNotRun, SquareOf
<1> QED
  BY <1>2, MetricsInvAlways, PTL

=============================================================================
