----------------------------- MODULE FcfsProofs -----------------------------
(***************************************************************************)
(* FCFS keeps its queue in table order, never reads a slot it has not      *)
(* written and implements WorkConserving and the abstract queues, for      *)
(* every set of tables and whatever an earlier run left in the array.      *)
(***************************************************************************)
EXTENDS CrossChecks, EngineProofs

\* The array is the table: every admitted row sits in the slot of its own
\* position, those before head have been dispatched and those from head on
\* have not run, so the queue order is the tie-break order ("No comparison
\* is needed anywhere in this file").  The process on the CPU is the last
\* one taken, and it has work left.
FcfsInv ==
    /\ queue \in [Slots -> Leftover \cup Procs]
    /\ head \in 0..tail
    /\ tail \in 0..Len(trace)
    /\ Admitted = 1..tail
    /\ \A k \in 0..(tail - 1) : queue[k] = k + 1
    /\ \A i \in Procs : i > head => remaining[i] = trace[i].burst
    /\ \A i \in 1..head : i # running => remaining[i] = 0
    /\ running # IDLE => running = head /\ head > 0 /\ remaining[head] > 0
    /\ phase = "execute" => next = running /\ running # IDLE
    /\ phase = "tick_end" /\ next # IDLE => next = running \/ remaining[next] = 0

FcfsIInv == TypeInv /\ FcfsInv

LEMMA FcfsInvInit == FcfsInit => FcfsIInv
<1> SUFFICES ASSUME FcfsInit PROVE FcfsIInv
  OBVIOUS
<1>1. TypeInv
  BY TypeInvInit DEF FcfsInit
<1>2. /\ Len(trace) \in Nat \ {0} /\ Procs = 1..Len(trace)
      /\ \A i \in Procs : trace[i].arrival \in Nat
  BY <1>1, RowTypes DEF TypeInv, TypeOK, Procs
<1>3. Admitted = {}
  BY <1>2 DEF FcfsInit, Init, Admitted
<1>4. queue \in [Slots -> Leftover \cup Procs]
  BY DEF FcfsInit, fcfs_init
<1> QED
  BY <1>1, <1>2, <1>3, <1>4 DEF FcfsInit, Init, fcfs_init, FcfsIInv, FcfsInv

\* What pick_next may rely on and what it answers.
LEMMA FcfsAnswers ==
    ASSUME FcfsIInv, NEW pid, fcfs_pick_next(pid), phase = "admit", AllAdmitted
    PROVE  pid \in AllowedAnswers
<1>1. /\ Procs = 1..Len(trace) /\ Len(trace) \in Nat /\ tick \in Nat
      /\ \A i \in Procs : trace[i].arrival \in Nat /\ trace[i].burst \in Nat \ {0}
      /\ remaining \in [Procs -> Nat] /\ cursor \in Nat
  BY RowTypes, EngineAssumption DEF FcfsIInv, TypeInv, TypeOK, Procs
<1>2. Admitted = {i \in Procs : trace[i].arrival <= tick}
  BY <1>1 DEF Admitted, AllAdmitted
<1>3. /\ head \in Nat /\ tail \in Nat /\ head <= tail /\ Admitted = 1..tail
      /\ tail <= Len(trace)
  BY <1>1 DEF FcfsIInv, FcfsInv
<1>4. CASE running # IDLE /\ pid = running
  BY <1>1, <1>2, <1>3, <1>4
     DEF FcfsIInv, FcfsInv, AllowedAnswers, Ready
<1>5. CASE running = IDLE /\ head < tail /\ pid = queue[head]
  <2>1. pid = head + 1 /\ pid \in Admitted
    BY <1>3, <1>5 DEF FcfsIInv, FcfsInv
  <2>2. remaining[pid] > 0
    BY <1>1, <1>2, <1>3, <2>1 DEF FcfsIInv, FcfsInv
  <2> QED
    BY <1>2, <2>1, <2>2 DEF AllowedAnswers, Ready
<1>6. CASE running = IDLE /\ head >= tail /\ pid = IDLE
  <2>1. \A i \in Admitted : i # IDLE /\ i \in 1..head
    BY <1>3, <1>6 DEF IDLE
  <2>2. Ready = {}
    BY <1>2, <1>6, <2>1 DEF FcfsIInv, FcfsInv, Ready
  <2> QED
    BY <1>6, <2>2 DEF AllowedAnswers
<1> QED
  BY <1>4, <1>5, <1>6 DEF fcfs_pick_next

LEMMA FcfsNextIsWCNext ==
    ASSUME FcfsIInv, [FcfsNext]_FcfsVars
    PROVE  [WCNext]_vars
<1>1. ASSUME NEW pid \in Answers, fcfs_pick_next(pid), Pick(pid)
      PROVE  WCNext
  BY <1>1, FcfsAnswers DEF Pick, WCNext
<1> QED
  BY <1>1 DEF FcfsNext, FcfsVars, WCNext

LEMMA FcfsInvStep == FcfsIInv /\ [FcfsNext]_FcfsVars => FcfsIInv'
<1> SUFFICES ASSUME FcfsIInv, [FcfsNext]_FcfsVars PROVE FcfsIInv'
  OBVIOUS
<1>0. TypeInv' /\ trace' = trace /\ Procs' = Procs
  <2>1. [Next]_vars
    BY FcfsNextIsWCNext, WCNextIsNext DEF FcfsIInv
  <2> QED
    BY <2>1, TypeInvStep, TraceStep DEF FcfsIInv, Procs
<1>1. /\ Procs = 1..Len(trace) /\ Len(trace) \in Nat /\ tick \in Nat
      /\ Len(trace) <= MaxProcesses /\ MaxProcesses \in Nat
      /\ \A i \in Procs : trace[i].arrival \in Nat /\ trace[i].burst \in Nat \ {0}
      /\ remaining \in [Procs -> Nat] /\ cursor \in Nat \ {0}
  BY RowTypes, EngineAssumption, FcfsAssumption, ProcessTableAssumption
     DEF FcfsIInv, TypeInv, TypeOK, Procs
<1>2. /\ head \in Nat /\ tail \in Nat /\ head <= tail /\ tail <= Len(trace)
      /\ Admitted = 1..tail
      /\ queue \in [Slots -> Leftover \cup Procs]
  BY <1>1 DEF FcfsIInv, FcfsInv
<1>3. CASE LoopTest /\ UNCHANGED fcfs_state
  <2>1. Admitted' = Admitted \/ phase' \in {"ok", "error"}
    BY <1>0, <1>1, <1>3 DEF LoopTest, Admitted, table
  <2>2. Admitted' = Admitted
    BY <1>0, <1>1, <1>3 DEF LoopTest, Admitted, table
  <2> QED
    BY <1>0, <1>3, <2>2 DEF LoopTest, table, fcfs_state, FcfsIInv, FcfsInv
<1>4. ASSUME NEW i \in Procs, Admit(i), fcfs_on_arrival(i) PROVE FcfsIInv'
  <2>1. i = tail + 1 /\ Admitted' = 1..(tail + 1)
    BY <1>1, <1>2, <1>4, AdmitsInOrder DEF FcfsIInv
  <2>2. tail \in Slots /\ Admitted' = 1..(tail + 1) /\ tail + 1 <= Len(trace)
    BY <1>1, <1>2, <2>1 DEF Slots
  <2>3. /\ queue' \in [Slots -> Leftover \cup Procs]
        /\ tail' = tail + 1 /\ head' = head /\ running' = running
        /\ \A k \in 0..tail : queue'[k] = k + 1
    <3>1. /\ queue' = [queue EXCEPT ![tail] = i]
          /\ tail' = tail + 1 /\ head' = head /\ running' = running
      BY <1>4 DEF fcfs_on_arrival
    <3>2. queue' \in [Slots -> Leftover \cup Procs]
      BY <1>2, <1>4, <2>2, <3>1
    <3>3. queue'[tail] = tail + 1 /\ \A k \in Slots \ {tail} : queue'[k] = queue[k]
      BY <1>2, <2>1, <2>2, <3>1
    <3>4. \A k \in 0..(tail - 1) : queue[k] = k + 1 /\ k \in Slots \ {tail}
      BY <1>1, <1>2 DEF FcfsIInv, FcfsInv, Slots
    <3>5. \A k \in 0..tail : queue'[k] = k + 1
      BY <1>2, <3>3, <3>4
    <3> QED
      BY <3>1, <3>2, <3>5
  <2>4. UNCHANGED <<trace, remaining, phase, next>> /\ phase = "admit"
    BY <1>4 DEF Admit, table
  <2> QED
    BY <1>0, <1>1, <1>2, <2>2, <2>3, <2>4 DEF FcfsIInv, FcfsInv
<1>5. ASSUME NEW pid \in Answers, fcfs_pick_next(pid), Pick(pid) PROVE FcfsIInv'
  <2>1. /\ phase = "admit" /\ AllAdmitted /\ tick' = tick /\ next' = pid
        /\ remaining' = remaining /\ queue' = queue /\ tail' = tail
    BY <1>5 DEF Pick, fcfs_pick_next, fcfs_state, table
  <2>2. pid \in AllowedAnswers
    BY <1>5, <2>1, FcfsAnswers
  <2>3. phase' = IF pid = IDLE THEN "tick_end" ELSE "execute"
    BY <1>5, <2>2 DEF Pick, AllowedAnswers
  <2>4. Admitted' = Admitted
    BY <1>0, <1>1, <2>1, <2>3 DEF Admitted, AllAdmitted
  <2>5. CASE running' = running /\ head' = head /\ pid = running
    BY <1>0, <2>1, <2>3, <2>4, <2>5 DEF FcfsIInv, FcfsInv
  <2>6. CASE running = IDLE /\ head < tail /\ pid = queue[head]
             /\ running' = pid /\ head' = head + 1
    <3>1. pid = head + 1
      BY <1>2, <2>6 DEF FcfsIInv, FcfsInv
    <3>2. pid \in Procs /\ pid # IDLE /\ remaining[pid] > 0
      <4>1. pid \in Procs /\ pid > head /\ pid # -1
        BY <1>1, <1>2, <2>6, <3>1
      <4>2. remaining[pid] = trace[pid].burst
        BY <4>1 DEF FcfsIInv, FcfsInv
      <4> QED
        BY <1>1, <4>1, <4>2 DEF IDLE
    <3>3. \A i \in 1..head' : i # running' => remaining[i] = 0
      BY <1>2, <2>6, <3>1, ProcsArePositive DEF FcfsIInv, FcfsInv, IDLE
    <3>4. \A i \in Procs : i > head' => remaining[i] = trace[i].burst
      BY <1>1, <1>2, <2>6 DEF FcfsIInv, FcfsInv
    <3> QED
      BY <1>0, <1>1, <1>2, <2>1, <2>3, <2>4, <2>6, <3>1, <3>2, <3>3, <3>4
         DEF FcfsIInv, FcfsInv
  <2> QED
    BY <1>5, <2>5, <2>6 DEF fcfs_pick_next, fcfs_state
<1>6. CASE Execute /\ (IF Finishing THEN fcfs_on_complete ELSE UNCHANGED fcfs_state)
  <2>1. /\ next = running /\ running # IDLE /\ running = head /\ head > 0
        /\ remaining[next] > 0 /\ next \in Procs /\ phase = "execute"
    BY <1>1, <1>2, <1>6 DEF Execute, FcfsIInv, FcfsInv
  <2>2. /\ remaining' = [remaining EXCEPT ![next] = @ - 1] /\ tick' = tick
        /\ phase' = "tick_end" /\ queue' = queue /\ tail' = tail /\ head' = head
    BY <1>6 DEF Execute, fcfs_on_complete, fcfs_state
  <2>3. Admitted' = Admitted
    BY <1>0, <2>1, <2>2 DEF Admitted
  <2>4. running' = IF remaining[next] = 1 THEN IDLE ELSE running
    BY <1>6 DEF Finishing, fcfs_on_complete, fcfs_state
  <2>5. \A i \in Procs : i > head => remaining'[i] = trace[i].burst
    BY <1>1, <1>2, <2>1, <2>2 DEF FcfsIInv, FcfsInv
  <2>6. \A i \in 1..head : i # running' => remaining'[i] = 0
    <3> SUFFICES ASSUME NEW i \in 1..head, i # running' PROVE remaining'[i] = 0
      OBVIOUS
    <3>1. i \in Procs
      BY <1>1, <1>2
    <3>2. CASE i = next
      BY <1>1, <2>1, <2>2, <2>4, <3>2
    <3>3. CASE i # next
      BY <1>1, <2>1, <2>2, <3>1, <3>3 DEF FcfsIInv, FcfsInv
    <3> QED
      BY <3>2, <3>3
  <2>7. running' # IDLE => running' = head /\ remaining'[head] > 0
    BY <1>1, <2>1, <2>2, <2>4
  <2>8. next' = next /\ (next = running' \/ remaining'[next] = 0)
    BY <1>1, <1>6, <2>1, <2>2, <2>4 DEF Execute
  <2> QED
    BY <1>0, <1>2, <2>1, <2>2, <2>3, <2>5, <2>6, <2>7, <2>8 DEF FcfsIInv, FcfsInv
<1>7. CASE EndTick /\ UNCHANGED fcfs_state
  <2>1. Admitted' = Admitted
    BY <1>0, <1>1, <1>7 DEF EndTick, Admitted
  <2> QED
    BY <1>0, <1>7, <2>1 DEF EndTick, table, fcfs_state, FcfsIInv, FcfsInv
<1>8. CASE UNCHANGED FcfsVars
  <2>1. Admitted' = Admitted
    BY <1>0, <1>8 DEF FcfsVars, vars, table, Admitted
  <2> QED
    BY <1>0, <1>8, <2>1 DEF FcfsVars, vars, table, fcfs_state, FcfsIInv, FcfsInv
<1> QED
  BY <1>3, <1>4, <1>5, <1>6, <1>7, <1>8 DEF FcfsNext, Halt, FcfsVars

THEOREM FcfsIInvAlways == FcfsSpec => []FcfsIInv
BY FcfsInvInit, FcfsInvStep, PTL DEF FcfsSpec

\* fcfs.c: "queue order equal to arrival order with the tie-break already
\* applied": slot k holds row k + 1, whatever the slots held before the run,
\* and the head moves on only when the process taken last has finished.
THEOREM FcfsInvCorrect == FcfsSpec => []FcfsInv
BY FcfsIInvAlways, PTL DEF FcfsIInv

\* FCFS implements the contract of sched.h, fairness apart: it never answers
\* a pid the engine refuses, and never leaves the CPU idle with work waiting.
THEOREM FcfsImplementsContract == FcfsSpec => WCSafety
<1>1. FcfsInit => Init
  BY DEF FcfsInit
<1>2. FcfsIInv /\ [FcfsNext]_FcfsVars => [WCNext]_vars
  BY FcfsNextIsWCNext
<1> QED
  BY <1>1, <1>2, FcfsIInvAlways, PTL DEF FcfsSpec, WCSafety

-----------------------------------------------------------------------------
\* The head of the array is the first row with work left.
LEMMA FcfsTakesFirst ==
    ASSUME FcfsIInv, [FcfsNext]_FcfsVars
    PROVE  TakesFirst
<1> SUFFICES ASSUME NEW pid \in Procs, Pick(pid), NEW j \in 1..(pid - 1)
             PROVE  remaining[j] = 0
  BY DEF TakesFirst
<1>1. phase = "admit" /\ phase' # "admit" /\ next' = pid /\ AllAdmitted
  BY DEF Pick
<1>2. fcfs_pick_next(pid)
  BY <1>1 DEF FcfsNext, FcfsVars, vars, LoopTest, Admit, Pick, Execute, EndTick, Halt
<1>3. /\ Procs = 1..Len(trace) /\ Len(trace) \in Nat /\ pid # IDLE
      /\ head \in 0..tail /\ tail \in 0..Len(trace)
  BY RowTypes, ProcsArePositive DEF FcfsIInv, FcfsInv, TypeInv, TypeOK, Procs
<1>4. CASE running # IDLE /\ pid = running
  BY <1>3, <1>4 DEF FcfsIInv, FcfsInv
<1>5. CASE running = IDLE /\ head < tail /\ pid = queue[head]
  <2>1. pid = head + 1
    BY <1>3, <1>5 DEF FcfsIInv, FcfsInv
  <2>2. j \in 1..head /\ j # running
    BY <1>3, <1>5, <2>1 DEF IDLE
  <2> QED
    BY <2>2 DEF FcfsIInv, FcfsInv
<1> QED
  BY <1>2, <1>3, <1>4, <1>5 DEF fcfs_pick_next

\* SPEC.md section 6, FCFS, in closed form: the k-th row starts at the later
\* of its arrival and the end of the row before it, and ends one burst later.
THEOREM InTableOrderCorrect == FcfsSpec => []InTableOrder
<1> DEFINE I == MetricsInv /\ FcfsInv /\ TableOrderInv
<1>1. FcfsInit => I
  BY FcfsInvInit, TypeInvInit, AccountingInit, WindowInit, WorkInit, TableOrderInit
     DEF FcfsInit, MetricsInv, FcfsIInv
<1>2. I /\ [FcfsNext]_FcfsVars => I'
  <2> SUFFICES ASSUME I, [FcfsNext]_FcfsVars PROVE I'
    OBVIOUS
  <2>1. FcfsIInv
    BY DEF FcfsIInv, MetricsInv
  <2>2. [WCNext]_vars /\ [Next]_vars /\ FcfsIInv'
    BY <2>1, FcfsNextIsWCNext, WCNextIsNext, FcfsInvStep DEF FcfsIInv
  <2>3. MetricsInv'
    BY <2>2, TypeInvStep, AccountingStep, WindowStep, WorkStep DEF MetricsInv
  <2>4. TableOrderInv'
    BY <2>1, <2>2, FcfsTakesFirst, TableOrderStep
  <2> QED
    BY <2>2, <2>3, <2>4 DEF FcfsIInv
<1>3. I => InTableOrder
  BY DEF TableOrderInv
<1> QED
  BY <1>1, <1>2, <1>3, PTL DEF FcfsSpec

\* The engine under the abstract specification is the same engine.
LEMMA SameEngine ==
    /\ Abstract!Init <=> Init
    /\ Abstract!Procs = Procs /\ Abstract!Answers = Answers
    /\ Abstract!LoopTest <=> LoopTest
    /\ \A i : Abstract!Admit(i) <=> Admit(i)
    /\ \A pid : Abstract!Pick(pid) <=> Pick(pid)
    /\ Abstract!Execute <=> Execute
    /\ Abstract!Finishing <=> Finishing
    /\ Abstract!EndTick <=> EndTick
    /\ Abstract!Halt <=> Halt
    /\ Abstract!vars = vars
<1>1. /\ Abstract!table = table /\ Abstract!result = result /\ Abstract!IDLE = IDLE
      /\ Abstract!Procs = Procs /\ Abstract!NOT_STARTED = NOT_STARTED
      /\ Abstract!Ticks = Ticks /\ Abstract!UnknownPid = UnknownPid
  BY DEF Abstract!table, table, Abstract!result, result, Abstract!IDLE, IDLE,
         Abstract!Procs, Procs, Abstract!NOT_STARTED, NOT_STARTED, Abstract!Ticks, Ticks,
         Abstract!UnknownPid, UnknownPid
<1>2. Abstract!vars = vars /\ Abstract!Answers = Answers
  BY <1>1 DEF Abstract!vars, vars, Abstract!Answers, Answers
<1>3. Abstract!Init <=> Init
  BY <1>1 DEF Abstract!Init, Init
<1>4. Abstract!LoopTest <=> LoopTest
  BY DEF Abstract!LoopTest, LoopTest, Abstract!CapReached, CapReached,
         Abstract!table, table, Abstract!result, result
<1>5. \A i : Abstract!Admit(i) <=> Admit(i)
  BY <1>1 DEF Abstract!Admit, Admit, Abstract!table, table, Abstract!result, result
<1>6. \A pid : Abstract!Pick(pid) <=> Pick(pid)
  <2>1. \A pid : Abstract!IsSwitch(pid) <=> IsSwitch(pid)
    BY <1>1 DEF Abstract!IsSwitch, IsSwitch
  <2>2. Abstract!Ready = Ready /\ Abstract!AllAdmitted = AllAdmitted
    BY <1>1 DEF Abstract!Ready, Ready, Abstract!AllAdmitted, AllAdmitted
  <2> QED
    BY <1>1, <2>1, <2>2 DEF Abstract!Pick, Pick, Abstract!table, table
<1>7. (Abstract!Finishing <=> Finishing) /\ (Abstract!Execute <=> Execute)
  BY <1>1 DEF Abstract!Execute, Execute, Abstract!Finishing, Finishing,
     Abstract!FirstDispatch, FirstDispatch, Abstract!StampOf, StampOf, Abstract!result, result
<1>8. Abstract!EndTick <=> EndTick
  BY DEF Abstract!EndTick, EndTick, Abstract!table, table, Abstract!result, result
<1>9. Abstract!Halt <=> Halt
  BY DEF Abstract!Halt, Halt, Abstract!Returned, Returned, Abstract!vars, vars,
     Abstract!table, table, Abstract!result, result
<1> QED
  BY <1>1, <1>2, <1>3, <1>4, <1>5, <1>6, <1>7, <1>8, <1>9

Line == IF running = IDLE THEN Waiting ELSE <<running>> \o Waiting

\* The line is a sequence of rows, a process with work left that runs or is
\* about to run is its front, and the queue is empty only when it is.
LEMMA LineIs ==
    ASSUME FcfsIInv
    PROVE  /\ Waiting \in Seq(Procs) /\ Line \in Seq(Procs)
           /\ running # IDLE => Line # <<>> /\ Head(Line) = running /\ Tail(Line) = Waiting
           /\ Waiting # <<>> <=> head < tail
           /\ head < tail => Head(Waiting) = queue[head]
<1>1. /\ Procs = 1..Len(trace) /\ Len(trace) \in Nat /\ Len(trace) <= MaxProcesses
      /\ MaxProcesses \in Nat
  BY RowTypes, FcfsAssumption, ProcessTableAssumption DEF FcfsIInv, TypeInv, TypeOK, Procs
<1>2. /\ head \in Nat /\ tail \in Nat /\ head <= tail /\ tail <= Len(trace)
      /\ \A k \in 0..(tail - 1) : queue[k] = k + 1
      /\ running # IDLE => running \in Procs
  BY <1>1 DEF FcfsIInv, FcfsInv
<1> DEFINE n == tail - head
<1>3. n \in Nat /\ \A k \in 1..n : head + k - 1 \in 0..(tail - 1) /\ queue[head + k - 1] = head + k
  BY <1>2
<1>4. Waiting = [k \in 1..n |-> queue[head + k - 1]]
  BY DEF Waiting
<1> HIDE DEF n
<1>5. \A k \in 1..n : queue[head + k - 1] \in Procs
  BY <1>1, <1>2, <1>3 DEF n
<1>6. Waiting \in Seq(Procs) /\ Len(Waiting) = n
  BY <1>3, <1>4, <1>5
<1>7. Line \in Seq(Procs)
  BY <1>2, <1>6 DEF Line
<1>8. running # IDLE => Line # <<>> /\ Head(Line) = running /\ Tail(Line) = Waiting
  <2> SUFFICES ASSUME running # IDLE
               PROVE Line # <<>> /\ Head(Line) = running /\ Tail(Line) = Waiting
    OBVIOUS
  <2>1. Line = <<running>> \o Waiting /\ running \in Procs
    BY <1>2 DEF Line
  <2>2. Len(Line) = n + 1 /\ Line[1] = running /\ \A k \in 1..n : Line[k + 1] = Waiting[k]
    BY <1>3, <1>6, <2>1
  <2>3. Tail(Line) \in Seq(Procs) /\ Len(Tail(Line)) = n /\ \A k \in 1..n : Tail(Line)[k] = Line[k + 1]
    BY <1>3, <1>7, <2>2
  <2>4. Tail(Line) = Waiting
    BY <1>6, <2>2, <2>3, SeqEqual
  <2> QED
    BY <1>3, <1>7, <2>2, <2>4
<1>9. (Waiting # <<>> <=> head < tail) /\ (head < tail => Head(Waiting) = queue[head])
  <2>1. n > 0 => Waiting[1] = queue[head]
    BY <1>2, <1>3, <1>4
  <2> QED
    BY <1>2, <1>3, <1>6, <2>1 DEF n
<1> QED
  BY <1>6, <1>7, <1>8, <1>9

LEMMA OneLevel ==
    ASSUME Line # <<>>, NEW i, \E k \in DOMAIN Line : Line[k] = i
    PROVE  Abstract!LevelOf(i) = 0
<1>1. Abstract!Occupied = {0}
  BY DEF Abstract!Occupied, Line
<1>2. i \in Abstract!Members(0)
  BY DEF Abstract!Members, Line
<1> QED
  BY <1>1, <1>2 DEF Abstract!LevelOf

\* The front of the one line.
LEMMA FrontIs ==
    ASSUME NEW ls, NEW q, ls = [lv \in {0} |-> q]
    PROVE  Abstract!FrontOf(ls) = IF q = <<>> THEN IDLE ELSE Head(q)
<1>1. {lv \in DOMAIN ls : ls[lv] # <<>>} = IF q = <<>> THEN {} ELSE {0}
  OBVIOUS
<1>2. Abstract!Min({0}) = 0
  BY DEF Abstract!Min
<1>3. Abstract!IDLE = IDLE
  BY DEF Abstract!IDLE, IDLE
<1> QED
  BY <1>1, <1>2, <1>3 DEF Abstract!FrontOf

LEMMA FcfsStepIsQueueStep ==
    ASSUME FcfsIInv, FcfsNext
    PROVE  Abstract!QueueNext
<1>9. /\ Len(trace) \in Nat /\ Len(trace) <= MaxProcesses /\ MaxProcesses \in Nat
      /\ Procs = 1..Len(trace)
  BY RowTypes, FcfsAssumption, ProcessTableAssumption DEF FcfsIInv, TypeInv, TypeOK, Procs
<1>0. Procs' = Procs /\ FcfsIInv'
  BY FcfsNextIsWCNext, WCNextIsNext, TraceStep, FcfsInvStep DEF FcfsIInv, Procs
<1>1. Line' = Line => UNCHANGED Abstract!lines
  BY <1>0 DEF Abstract!lines, Line
<1>2. UNCHANGED fcfs_state => Line' = Line
  BY DEF fcfs_state, Line, Waiting
<1>3. CASE LoopTest /\ UNCHANGED fcfs_state
  BY <1>1, <1>2, <1>3, SameEngine DEF Abstract!QueueNext
<1>4. ASSUME NEW i \in Procs, Admit(i), fcfs_on_arrival(i) PROVE Abstract!QueueNext
  <2>1. Line' = Append(Line, i)
    <3>1. tail' = tail + 1 /\ head' = head /\ running' = running
      BY <1>4 DEF fcfs_on_arrival
    <3>2. Waiting' = Append(Waiting, i)
      <4>1. /\ tail \in Slots /\ queue' = [queue EXCEPT ![tail] = i]
            /\ queue \in [Slots -> Leftover \cup Procs] /\ head \in 0..tail /\ tail \in Nat
            /\ \A k \in 0..(tail - 1) : k \in Slots
        <5>1. i = tail + 1 /\ i \in 1..Len(trace)
          BY <1>4, AdmitsInOrder DEF FcfsIInv, FcfsInv, Procs
        <5> QED
          BY <1>4, <1>9, <5>1 DEF fcfs_on_arrival, FcfsIInv, FcfsInv, Slots
      <4> DEFINE n == tail - head
      <4>2. n \in Nat /\ tail + 1 - head = n + 1 /\ head + (n + 1) - 1 = tail
            /\ \A k \in 1..n : head + k - 1 \in 0..(tail - 1)
        BY <4>1
      <4>3. Len(Waiting) = n /\ \A k \in 1..n : Waiting[k] = queue[head + k - 1]
        BY <4>2 DEF Waiting
      <4>4. Waiting' = [k \in 1..(n + 1) |-> queue'[head + k - 1]]
        <5>1. tail' - head' = n + 1 /\ head' = head
          BY <3>1, <4>1, <4>2
        <5> QED
          BY <5>1 DEF Waiting
      <4> HIDE DEF n
      <4>5. queue'[tail] = i /\ \A k \in 1..n : queue'[head + k - 1] = queue[head + k - 1]
        BY <4>1, <4>2
      <4>6. /\ Waiting' \in Seq(Procs) /\ Len(Waiting') = n + 1
            /\ \A k \in 1..(n + 1) : Waiting'[k] = queue'[head + k - 1]
        <5>1. \A k \in 1..(n + 1) : queue'[head + k - 1] \in Procs
          <6>1. \A k \in 1..(n + 1) : k \in 1..n \/ k = n + 1
            BY <4>2
          <6>2. \A k \in 1..n : Waiting[k] \in Procs
            BY <4>3, LineIs
          <6> QED
            BY <1>4, <4>2, <4>3, <4>5, <6>1, <6>2
        <5> QED
          BY <4>2, <4>4, <5>1
      <4>7. Append(Waiting, i) \in Seq(Procs) /\ Len(Append(Waiting, i)) = n + 1
            /\ \A k \in 1..(n + 1) :
                   Append(Waiting, i)[k] = IF k = n + 1 THEN i ELSE Waiting[k]
        BY <1>4, <4>2, <4>3, LineIs, AppendProperties
      <4>8. \A k \in 1..(n + 1) : Waiting'[k] = Append(Waiting, i)[k]
        BY <4>2, <4>3, <4>5, <4>6, <4>7
      <4> QED
        BY <4>6, <4>7, <4>8, SeqEqual
    <3> QED
      BY <3>1, <3>2, LineIs DEF Line
  <2>2. Abstract!Arrive(i)
    BY <1>0, <2>1 DEF Abstract!Arrive, TopLevel, Line
  <2> QED
    BY <1>4, <2>2, SameEngine DEF Abstract!QueueNext
<1>5. ASSUME NEW pid \in Answers, fcfs_pick_next(pid), Pick(pid) PROVE Abstract!QueueNext
  <2>1. Line' = Line /\ pid = IF Line' = <<>> THEN IDLE ELSE Head(Line')
    <3>1. CASE running # IDLE /\ pid = running /\ UNCHANGED fcfs_state
      BY <1>2, <3>1, LineIs
    <3>2. CASE running = IDLE /\ head >= tail /\ pid = IDLE /\ UNCHANGED fcfs_state
      BY <1>2, <3>2, LineIs DEF Line, FcfsIInv, FcfsInv
    <3>3. CASE /\ running = IDLE /\ head < tail /\ pid = queue[head]
               /\ running' = pid /\ head' = head + 1 /\ UNCHANGED <<queue, tail>>
      <4>1. Line = Waiting /\ Waiting # <<>> /\ Head(Waiting) = pid /\ pid # IDLE
        BY <3>3, LineIs, ProcsArePositive DEF Line, FcfsIInv, TypeInv, TypeOK
      <4>2. Waiting' = Tail(Waiting)
        <5> DEFINE n == tail - head
        <5>1. n \in Nat \ {0} /\ head \in Nat /\ tail - (head + 1) = n - 1
              /\ \A k \in 1..(n - 1) : head + 1 + k - 1 = head + (k + 1) - 1
          BY <3>3 DEF FcfsIInv, FcfsInv
        <5>2. /\ Waiting \in Seq(Procs) /\ Len(Waiting) = n
              /\ \A k \in 1..n : Waiting[k] = queue[head + k - 1]
          BY <5>1, LineIs DEF Waiting
        <5>3. Waiting' = [k \in 1..(n - 1) |-> queue[head + 1 + k - 1]]
          BY <3>3, <5>1 DEF Waiting
        <5> HIDE DEF n
        <5>4. Tail(Waiting) \in Seq(Procs) /\ Len(Tail(Waiting)) = n - 1
              /\ \A k \in 1..(n - 1) : Tail(Waiting)[k] = queue[head + (k + 1) - 1]
          BY <5>1, <5>2
        <5>5. Waiting' \in Seq(Procs) /\ Len(Waiting') = n - 1
              /\ \A k \in 1..(n - 1) : Waiting'[k] = queue[head + 1 + k - 1]
            <6>1. \A k \in 1..(n - 1) : queue[head + 1 + k - 1] \in Procs
            <7>1. \A k \in 1..(n - 1) : k + 1 \in 1..n
              BY <5>1
            <7>2. \A k \in 1..n : Waiting[k] \in Procs
              BY <5>2
            <7> QED
              BY <5>1, <5>2, <7>1, <7>2
          <6> QED
            BY <5>1, <5>3, <6>1
        <5>6. \A k \in 1..(n - 1) : Waiting'[k] = Tail(Waiting)[k]
          BY <5>1, <5>4, <5>5
        <5> QED
          BY <5>4, <5>5, <5>6, SeqEqual
      <4>3. Line' = <<pid>> \o Tail(Waiting)
        BY <3>3, <4>1, <4>2 DEF Line
      <4>4. <<Head(Waiting)>> \o Tail(Waiting) = Waiting
        BY <4>1, LineIs, HeadTailProperties
      <4> QED
        BY <4>1, <4>3, <4>4
    <3> QED
      BY <1>5, <3>1, <3>2, <3>3 DEF fcfs_pick_next
  <2>2. \A ls : ls = [lv \in {0} |-> Line'] => pid = Abstract!FrontOf(ls)
    BY <2>1, FrontIs
  <2>3. Abstract!Choose(pid)
    BY <1>1, <2>1, <2>2 DEF Abstract!Choose, Abstract!BoostDue, Line
  <2> QED
    BY <1>5, <2>3, SameEngine DEF Abstract!QueueNext
<1>6. CASE Execute /\ (IF Finishing THEN fcfs_on_complete ELSE UNCHANGED fcfs_state)
  <2>1. CASE ~ Finishing
    BY <1>1, <1>2, <1>6, <2>1, SameEngine DEF Abstract!QueueNext
  <2>2. CASE Finishing
    <3>1. Line' = Tail(Line) /\ Abstract!LevelOf(next) = 0
      <4>1. running = next /\ running # IDLE /\ running' = IDLE /\ UNCHANGED <<queue, head, tail>>
        BY <1>6, <2>2 DEF Execute, FcfsIInv, FcfsInv, fcfs_on_complete
      <4>2. Line # <<>> /\ Line[1] = next /\ 1 \in DOMAIN Line
        BY <4>1, LineIs
      <4> QED
        BY <4>1, <4>2, OneLevel, LineIs DEF Line, Waiting
    <3>2. Abstract!Leave
      BY <1>0, <3>1 DEF Abstract!Leave, Line
    <3> QED
      BY <1>6, <2>2, <3>2, SameEngine DEF Abstract!QueueNext
  <2> QED
    BY <2>1, <2>2
<1>7. CASE EndTick /\ UNCHANGED fcfs_state
  <2>1. next = IDLE \/ remaining[next] = 0 \/ Abstract!LevelOf(next) = 0
    <3> SUFFICES ASSUME next # IDLE, remaining[next] # 0 PROVE Abstract!LevelOf(next) = 0
      OBVIOUS
    <3>1. running = next
      BY <1>7 DEF EndTick, FcfsIInv, FcfsInv
    <3>2. Line # <<>> /\ Line[1] = next /\ 1 \in DOMAIN Line
      BY <3>1, LineIs
    <3> QED
      BY <3>2, OneLevel
  <2>2. Abstract!Spend
    BY <1>1, <1>2, <1>7, <2>1, SameEngine DEF Abstract!Spend, Abstract!IDLE, IDLE
  <2> QED
    BY <1>7, <2>2, SameEngine DEF Abstract!QueueNext
<1>8. CASE Halt /\ UNCHANGED fcfs_state
  BY <1>1, <1>2, <1>8, SameEngine DEF Abstract!QueueNext
<1> QED
  BY <1>3, <1>4, <1>5, <1>6, <1>7, <1>8 DEF FcfsNext

\* FCFS implements the abstract queues, fairness apart: one line in which the
\* running process keeps its place until it is done and nobody is sent back,
\* whatever the array held before the run.
THEOREM FcfsImplementsQueues == FcfsSpec => Abstract!QueueSafety
<1>1. FcfsInit => Abstract!QueueInit
  <2> SUFFICES ASSUME FcfsInit PROVE Abstract!QueueInit
    OBVIOUS
  <2>1. Line = <<>>
    BY DEF FcfsInit, fcfs_init, Line, Waiting
  <2> QED
    BY <2>1, SameEngine DEF FcfsInit, Abstract!QueueInit, Line, Abstract!Procs, Procs
<1>2. FcfsIInv /\ [FcfsNext]_FcfsVars => [Abstract!QueueNext]_(Abstract!QueueVars)
  <2>1. UNCHANGED FcfsVars => UNCHANGED Abstract!QueueVars
    BY DEF FcfsVars, fcfs_state, vars, table, Procs, Waiting, Abstract!QueueVars,
       Abstract!vars, Abstract!table, Abstract!result, result, Abstract!lines
  <2> QED
    BY <2>1, FcfsStepIsQueueStep
<1> QED
  BY <1>1, <1>2, FcfsIInvAlways, PTL DEF FcfsSpec, Abstract!QueueSafety

-----------------------------------------------------------------------------
\* Two runs side by side: fcfs.c, and the abstract queues with all their
\* constants open.

Levels == DOMAIN quantum

\* The lines q hold the members of A, each of them once and at one level.
LinesHold(q, A) ==
    /\ q \in [Levels -> Seq(Procs)]
    /\ \E at \in [A -> Levels] :
           \A lv \in Levels : Holds(q[lv], {i \in A : at[i] = lv}, IDLE)

\* The rows that are in the lines.
Waits == {i \in Admitted : q_remaining[i] > 0}

\* The abstract queues: nobody unfinished is out of line, nobody finished is
\* in it, and who runs is at the front.
LinesInv ==
    /\ quantum \in LevelQuanta
    /\ q_remaining \in [Procs -> Nat]
    /\ \A i \in Procs : i \notin Admitted => q_remaining[i] = trace[i].burst
    /\ LinesHold(line, Waits)
    /\ q_phase = "execute" => q_next \in Waits
    /\ q_phase = "tick_end" => q_next \in Procs \cup {IDLE}
    /\ q_phase \in {"execute", "tick_end"} /\ q_next # IDLE =>
           q_remaining[q_next] = 0 \/ \E lv \in Levels : line[lv] # <<>> /\ Head(line[lv]) = q_next

\* The units of work that the rows of A have left.
Units(A, left) == {w \in Procs \X Nat : w[1] \in A /\ 0 < w[2] /\ w[2] <= left[w[1]]}

\* The two are at the same place of the same tick and have as much work left,
\* if not of the same processes.
LockstepInv ==
    /\ q_tick = tick /\ q_cursor = cursor /\ q_phase = phase
    /\ q_timeline \in [Ticks -> Answers]
    /\ q_completed = Cardinality({i \in Procs : q_remaining[i] = 0})
    /\ IsFiniteSet(Units(Admitted, remaining)) /\ IsFiniteSet(Units(Admitted, q_remaining))
    /\ Cardinality(Units(Admitted, remaining)) = Cardinality(Units(Admitted, q_remaining))
    /\ \A t \in Decided : timeline[t] = IDLE <=> q_timeline[t] = IDLE

LEMMA LinesArrive ==
    ASSUME NEW q, NEW A, LinesHold(q, A), NEW x \in Procs, x \notin A, x # IDLE, NEW lv \in Levels
    PROVE  LinesHold([q EXCEPT ![lv] = Append(@, x)], A \cup {x})
<1> DEFINE r == [q EXCEPT ![lv] = Append(@, x)]
<1>1. PICK at \in [A -> Levels] : \A l \in Levels : Holds(q[l], {i \in A : at[i] = l}, IDLE)
  BY DEF LinesHold
<1> DEFINE to == [i \in A \cup {x} |-> IF i = x THEN lv ELSE at[i]]
<1>2. to \in [A \cup {x} -> Levels]
  OBVIOUS
<1>3. /\ {i \in A \cup {x} : to[i] = lv} = {i \in A : at[i] = lv} \cup {x}
      /\ \A l \in Levels : l # lv => {i \in A \cup {x} : to[i] = l} = {i \in A : at[i] = l}
  OBVIOUS
<1>4. q \in [Levels -> Seq(Procs)]
  BY DEF LinesHold
<1>5. r \in [Levels -> Seq(Procs)] /\ r[lv] = Append(q[lv], x) /\ \A l \in Levels : l # lv => r[l] = q[l]
  BY <1>4
<1> HIDE DEF r, to
<1>6. Holds(r[lv], {i \in A \cup {x} : to[i] = lv}, IDLE)
  <2> DEFINE B == {i \in A : at[i] = lv}
  <2>1. q[lv] \in Seq(Procs) /\ Holds(q[lv], B, IDLE) /\ x \notin B
    BY <1>1, <1>4
  <2> HIDE DEF B
  <2>2. Holds(Append(q[lv], x), B \cup {x}, IDLE)
    BY <2>1, HoldsArrival
  <2> QED
    BY <1>3, <1>5, <2>2 DEF B
<1>7. \A l \in Levels : Holds(r[l], {i \in A \cup {x} : to[i] = l}, IDLE)
  BY <1>1, <1>3, <1>5, <1>6
<1> QED
  BY <1>2, <1>5, <1>7 DEF LinesHold, r

LEMMA LinesLeave ==
    ASSUME NEW q, NEW A, LinesHold(q, A), IDLE \notin A, NEW lv \in Levels, q[lv] # <<>>
    PROVE  /\ Head(q[lv]) \in A
           /\ LinesHold([q EXCEPT ![lv] = Tail(@)], A \ {Head(q[lv])})
<1> DEFINE x == Head(q[lv])
           r == [q EXCEPT ![lv] = Tail(@)]
<1>1. PICK at \in [A -> Levels] : \A l \in Levels : Holds(q[l], {i \in A : at[i] = l}, IDLE)
  BY DEF LinesHold
<1> DEFINE B == {i \in A : at[i] = lv}
<1>2. /\ q[lv] \in Seq(Procs) /\ Holds(q[lv], B, IDLE) /\ IDLE \notin B
      /\ q \in [Levels -> Seq(Procs)]
  BY <1>1 DEF LinesHold
<1>3. x \in B /\ Holds(Tail(q[lv]), B, x) /\ Tail(q[lv]) \in Seq(Procs)
  <2> HIDE DEF B
  <2>1. Head(q[lv]) \in B /\ Holds(Tail(q[lv]), B, Head(q[lv]))
    BY <1>2, HoldsDispatch
  <2> QED
    BY <1>2, <2>1
<1>4. Holds(Tail(q[lv]), B \ {x}, IDLE)
  <2> HIDE DEF B, x
  <2> QED
    BY <1>2, <1>3, HoldsExit
<1> DEFINE to == [i \in A \ {x} |-> at[i]]
<1>5. /\ r \in [Levels -> Seq(Procs)] /\ r[lv] = Tail(q[lv])
      /\ \A l \in Levels : l # lv => r[l] = q[l]
  BY <1>2, <1>3
<1> HIDE DEF x, r
<1>6. /\ to \in [A \ {x} -> Levels]
      /\ {i \in A \ {x} : to[i] = lv} = B \ {x}
      /\ \A l \in Levels : l # lv => {i \in A \ {x} : to[i] = l} = {i \in A : at[i] = l}
  BY <1>3
<1> HIDE DEF to, B
<1>7. \A l \in Levels : Holds(r[l], {i \in A \ {x} : to[i] = l}, IDLE)
  BY <1>1, <1>4, <1>5, <1>6
<1>8. x \in A
  BY <1>3 DEF B
<1> QED
  BY <1>5, <1>6, <1>7, <1>8 DEF LinesHold, r, x

\* The level of a process is that of the line it is at the front of.
LEMMA LevelIs ==
    ASSUME NEW A, LinesHold(line, A), NEW lv \in Levels, line[lv] # <<>>
    PROVE  Q!LevelOf(Head(line[lv])) = lv
<1> DEFINE i == Head(line[lv])
<1>1. PICK at \in [A -> Levels] : \A l \in Levels : Holds(line[l], {j \in A : at[j] = l}, IDLE)
  BY DEF LinesHold
<1>2. line \in [Levels -> Seq(Procs)]
  BY DEF LinesHold
<1>3. \A l \in Levels : \A k \in DOMAIN line[l] : line[l][k] \in A /\ at[line[l][k]] = l
  BY <1>1 DEF Holds
<1>4. 1 \in DOMAIN line[lv] /\ i = line[lv][1]
  BY <1>2
<1>5. lv \in Q!Occupied /\ i \in Q!Members(lv) /\ at[i] = lv
  BY <1>2, <1>3, <1>4 DEF Q!Occupied, Q!Members
<1>6. \A l \in Q!Occupied : l \in Levels
  BY <1>2 DEF Q!Occupied
<1>7. \A l \in Q!Occupied : i \in Q!Members(l) => at[i] = l
  BY <1>3, <1>6 DEF Q!Members
<1> HIDE DEF i
<1>8. Q!LevelOf(i) = lv
  BY <1>5, <1>7 DEF Q!LevelOf
<1> QED
  BY <1>8 DEF i

LEMMA LinesMembers ==
    ASSUME NEW A, LinesHold(line, A), IDLE \notin A
    PROVE  Q!InLine = A
<1>1. PICK at \in [A -> Levels] : \A l \in Levels : Holds(line[l], {j \in A : at[j] = l}, IDLE)
  BY DEF LinesHold
<1>2. DOMAIN line = Levels
  BY DEF LinesHold
<1>3. ASSUME NEW i \in A PROVE \E lv \in DOMAIN line : i \in Q!Members(lv)
  <2>1. at[i] \in Levels /\ i # IDLE
    OBVIOUS
  <2>2. PICK k \in DOMAIN line[at[i]] : line[at[i]][k] = i
    BY <1>1, <2>1 DEF Holds
  <2> QED
    BY <1>2, <2>1, <2>2 DEF Q!Members
<1>4. ASSUME NEW lv \in DOMAIN line, NEW i \in Q!Members(lv) PROVE i \in A
  BY <1>1, <1>2, <1>4 DEF Q!Members, Holds
<1> QED
  BY <1>3, <1>4 DEF Q!InLine

LEMMA NoPlaces ==
    ASSUME NEW S, NEW q \in Seq(S), DOMAIN q = {}
    PROVE  q = <<>>
<1>1. Len(q) \in Nat /\ DOMAIN q = 1..Len(q)
  OBVIOUS
<1>2. Len(q) = 0
  <2> DEFINE n == Len(q)
  <2>1. n \in Nat /\ 1..n = {}
    BY <1>1
  <2> HIDE DEF n
  <2>2. ~ (1 <= n)
    BY <2>1
  <2> QED
    BY <2>1, <2>2 DEF n
<1> QED
  BY <1>2, EmptySeq

\* The answer is the front of a line, if there is anyone.
LEMMA AnswerIs ==
    ASSUME NEW q, NEW A, LinesHold(q, A), IDLE \notin A, quantum \in LevelQuanta
    PROVE  /\ A = {} => Q!FrontOf(q) = IDLE
           /\ A # {} => /\ Q!FrontOf(q) \in A
                        /\ \E lv \in Levels : q[lv] # <<>> /\ Head(q[lv]) = Q!FrontOf(q)
<1> DEFINE O == {lv \in DOMAIN q : q[lv] # <<>>}
<1>1. PICK at \in [A -> Levels] : \A l \in Levels : Holds(q[l], {j \in A : at[j] = l}, IDLE)
  BY DEF LinesHold
<1>2. q \in [Levels -> Seq(Procs)] /\ Levels \subseteq Nat
  BY LevelsAssumption DEF LinesHold, Levels
<1>3. CASE A = {}
  <2>1. \A lv \in Levels : DOMAIN q[lv] = {}
    BY <1>1, <1>3 DEF Holds
  <2>2. \A lv \in Levels : q[lv] = <<>>
    <3> SUFFICES ASSUME NEW lv \in Levels PROVE q[lv] = <<>>
      OBVIOUS
    <3>1. q[lv] \in Seq(Procs) /\ DOMAIN q[lv] = {}
      BY <1>2, <2>1
    <3> QED
      BY <3>1, NoPlaces
  <2>3. O = {}
    BY <1>2, <2>2
  <2> QED
    BY <1>3, <2>3 DEF Q!FrontOf, Q!IDLE, IDLE
<1>4. CASE A # {}
  <2>1. PICK i \in A : TRUE
    BY <1>4
  <2>2. at[i] \in Levels /\ i # IDLE
    OBVIOUS
  <2>3. PICK k \in DOMAIN q[at[i]] : q[at[i]][k] = i
    BY <1>1, <2>2 DEF Holds
  <2>4. O # {} /\ O \in SUBSET Nat /\ O \subseteq Levels
    <3>1. q[at[i]] # <<>>
      BY <2>3
    <3> QED
      BY <1>2, <2>2, <3>1
  <2>5. PICK lv \in O : \A m \in O : lv <= m
    <3> HIDE DEF O
    <3> QED
      BY <2>4, LeastNat
  <2>6. Q!Min(O) = lv
    <3>1. \A m \in O : m \in Nat
      BY <2>4
    <3> HIDE DEF O
    <3> QED
      BY <2>5, <3>1 DEF Q!Min
  <2>7. Q!FrontOf(q) = Head(q[lv])
    BY <2>4, <2>6 DEF Q!FrontOf
  <2>8. lv \in Levels /\ q[lv] # <<>>
    BY <2>4
  <2>9. Head(q[lv]) \in A
    BY <2>8, LinesLeave
  <2> QED
    BY <1>4, <2>7, <2>8, <2>9
<1> QED
  BY <1>3, <1>4

\* A boost moves everyone to one line and drops nobody.
LEMMA BoostHolds ==
    ASSUME NEW A, LinesHold(line, A), A \subseteq Procs, Procs \subseteq Nat, IDLE \notin Procs,
           0 \in Levels, Q!Boost
    PROVE  LinesHold(line', A) /\ quantum' = quantum
<1> DEFINE first == IF Q!Holding THEN <<q_current>> ELSE <<>>
<1>1. Q!InLine = A
  BY LinesMembers
<1>2. PICK others \in Q!TableOrdered :
          /\ {others[k] : k \in DOMAIN others} = A \ {first[k] : k \in DOMAIN first}
          /\ line' = [lv \in DOMAIN line |-> IF lv = 0 THEN first \o others ELSE <<>>]
  BY <1>1 DEF Q!Boost
<1>3. Q!Procs = Procs
  BY DEF Q!Procs, Procs
<1>4. /\ others \in Seq(Procs)
      /\ \A a, b \in DOMAIN others : others[a] = others[b] => a = b
  <2>1. PICK n \in 0..Len(trace) : others \in [1..n -> Procs]
    BY <1>3 DEF Q!TableOrdered
  <2>2. \A a, b \in 1..n : a < b => others[a] < others[b]
    BY <2>1 DEF Q!TableOrdered
  <2>3. \A a \in 1..n : others[a] \in Nat
    BY <2>1
  <2>4. n \in Nat
    OBVIOUS
  <2> QED
    BY <2>1, <2>2, <2>3, <2>4
<1> DEFINE top == first \o others
<1>5. top \in Seq(Procs) /\ Holds(top, A, IDLE)
  <2>1. CASE Q!Holding
    <3>1. first = <<q_current>> /\ q_current \in A /\ {first[k] : k \in DOMAIN first} = {q_current}
      <4>1. first = <<q_current>> /\ q_current \in A
        BY <1>1, <2>1 DEF Q!Holding
      <4>2. DOMAIN first = {1} /\ first[1] = q_current
        BY <4>1
      <4> QED
        BY <4>1, <4>2
    <3> HIDE DEF first
    <3>2. Holds(others, A, q_current)
      BY <1>2, <1>4, <3>1 DEF Holds
    <3>3. Holds(<<q_current>> \o others, A, IDLE)
      BY <1>4, <3>1, <3>2, HoldsFront
    <3> QED
      BY <1>4, <3>1, <3>3
  <2>2. CASE ~ Q!Holding
    <3>1. first = <<>> /\ {first[k] : k \in DOMAIN first} = {}
      BY <2>2
    <3> HIDE DEF first
    <3>2. top = others
      BY <1>4, <3>1
    <3>3. Holds(others, A, IDLE)
      BY <1>2, <1>4, <3>1 DEF Holds
    <3> QED
      BY <1>4, <3>2, <3>3
  <2> QED
    BY <2>1, <2>2
<1> HIDE DEF top, first
<1>6. line' = [lv \in Levels |-> IF lv = 0 THEN top ELSE <<>>]
  <2>1. DOMAIN line = Levels
    BY DEF LinesHold
  <2> QED
    BY <1>2, <2>1 DEF top
<1> DEFINE to == [i \in A |-> 0]
<1>7. line' \in [Levels -> Seq(Procs)] /\ to \in [A -> Levels]
  BY <1>5, <1>6
<1>8. ASSUME NEW lv \in Levels PROVE Holds(line'[lv], {i \in A : to[i] = lv}, IDLE)
  <2>1. CASE lv = 0
    <3>1. {i \in A : to[i] = lv} = A
      BY <2>1
    <3> QED
      BY <1>5, <1>6, <2>1, <3>1
  <2>2. CASE lv # 0
    <3>1. {i \in A : to[i] = lv} = {} /\ line'[lv] = <<>>
      BY <1>6, <2>2
    <3> QED
      BY <3>1 DEF Holds
  <2> QED
    BY <2>1, <2>2
<1>9. quantum' = quantum
  BY DEF Q!Boost
<1> QED
  BY <1>7, <1>8, <1>9 DEF LinesHold

\* The steps of the abstract queues, phase by phase.
LEMMA QueueMoves ==
    ASSUME Q!QueueNext
    PROVE  /\ q_phase = "test" =>
                  /\ q_phase' = IF q_completed >= Len(trace) THEN "ok"
                                ELSE IF q_tick >= MaxTicks THEN "error" ELSE "admit"
                  /\ q_cursor' = 1
                  /\ UNCHANGED <<q_remaining, q_timeline, q_completed, q_tick, q_next, line, quantum>>
           /\ q_phase = "admit" =>
                  /\ UNCHANGED <<q_remaining, q_completed, q_tick>>
                  /\ \/ \E i \in Procs :
                            /\ i >= q_cursor /\ trace[i].arrival = q_tick
                            /\ \A j \in Procs : q_cursor <= j /\ j < i => trace[j].arrival # q_tick
                            /\ q_cursor' = i + 1
                            /\ UNCHANGED <<q_timeline, q_next, q_phase>>
                            /\ Q!Arrive(i)
                     \/ \E pid \in Answers :
                            /\ \A j \in Procs : j >= q_cursor => trace[j].arrival # q_tick
                            /\ q_next' = pid
                            /\ q_timeline' = [q_timeline EXCEPT ![q_tick] = pid]
                            /\ q_phase' = IF pid = IDLE THEN "tick_end"
                                          ELSE IF pid \in Q!Ready THEN "execute" ELSE "error"
                            /\ q_cursor' = q_cursor
                            /\ Q!Choose(pid)
           /\ q_phase = "execute" =>
                  /\ q_remaining' = [q_remaining EXCEPT ![q_next] = @ - 1]
                  /\ IF q_remaining[q_next] = 1
                     THEN q_completed' = q_completed + 1 /\ Q!Leave
                     ELSE UNCHANGED <<q_completed, line, quantum>>
                  /\ q_phase' = "tick_end"
                  /\ UNCHANGED <<q_timeline, q_tick, q_next, q_cursor>>
           /\ q_phase = "tick_end" =>
                  /\ q_tick' = q_tick + 1
                  /\ q_phase' = "test"
                  /\ UNCHANGED <<q_remaining, q_timeline, q_completed, q_next, q_cursor>>
                  /\ Q!Spend
           /\ q_phase \in {"ok", "error"} => UNCHANGED q_run
<1> USE DEF Q!QueueNext
<1>0. Q!Procs = Procs /\ Q!Answers = Answers /\ Q!IDLE = IDLE
  BY DEF Q!Procs, Procs, Q!Answers, Answers, Q!IDLE, IDLE, Q!UnknownPid, UnknownPid
<1> USE DEF Q!table, Q!result, Q!lines
<1>1. CASE q_phase = "test"
  BY <1>1 DEF Q!LoopTest, Q!Admit, Q!Pick, Q!Execute, Q!EndTick, Q!Halt, Q!Returned, Q!CapReached
<1>2. CASE q_phase = "admit"
  <2>1. ASSUME NEW i \in Procs, Q!Admit(i), Q!Arrive(i)
        PROVE  /\ UNCHANGED <<q_remaining, q_completed, q_tick, q_timeline, q_next, q_phase>>
               /\ i >= q_cursor /\ trace[i].arrival = q_tick
               /\ \A j \in Procs : q_cursor <= j /\ j < i => trace[j].arrival # q_tick
               /\ q_cursor' = i + 1
    BY <1>0, <2>1 DEF Q!Admit
  <2>2. ASSUME NEW pid \in Answers, Q!Choose(pid), Q!Pick(pid)
        PROVE  /\ UNCHANGED <<q_remaining, q_completed, q_tick, q_cursor>>
               /\ \A j \in Procs : j >= q_cursor => trace[j].arrival # q_tick
               /\ q_next' = pid
               /\ q_timeline' = [q_timeline EXCEPT ![q_tick] = pid]
               /\ q_phase' = IF pid = IDLE THEN "tick_end"
                             ELSE IF pid \in Q!Ready THEN "execute" ELSE "error"
    BY <1>0, <2>2 DEF Q!Pick, Q!AllAdmitted
  <2>3. \/ \E i \in Procs : Q!Admit(i) /\ Q!Arrive(i)
        \/ \E pid \in Answers : Q!Choose(pid) /\ Q!Pick(pid)
    BY <1>0, <1>2 DEF Q!LoopTest, Q!Execute, Q!EndTick, Q!Halt, Q!Returned
  <2>4. CASE \E i \in Procs : Q!Admit(i) /\ Q!Arrive(i)
    <3>1. PICK i \in Procs : Q!Admit(i) /\ Q!Arrive(i)
      BY <2>4
    <3> QED
      BY <1>2, <2>1, <3>1
  <2>5. CASE \E pid \in Answers : Q!Choose(pid) /\ Q!Pick(pid)
    <3>1. PICK pid \in Answers : Q!Choose(pid) /\ Q!Pick(pid)
      BY <2>5
    <3> QED
      BY <1>2, <2>2, <3>1
  <2> QED
    BY <2>3, <2>4, <2>5
<1>3. CASE q_phase = "execute"
  BY <1>3 DEF Q!LoopTest, Q!Admit, Q!Pick, Q!Execute, Q!EndTick, Q!Halt, Q!Returned, Q!Finishing
<1>4. CASE q_phase = "tick_end"
  BY <1>4 DEF Q!LoopTest, Q!Admit, Q!Pick, Q!Execute, Q!EndTick, Q!Halt, Q!Returned
<1>5. CASE q_phase \in {"ok", "error"}
  BY <1>5 DEF Q!LoopTest, Q!Admit, Q!Pick, Q!Execute, Q!EndTick, Q!Halt, Q!Returned, Q!vars, q_run
<1> QED
  BY <1>1, <1>2, <1>3, <1>4, <1>5

\* One more row, one unit less, and no unit left.
LEMMA UnitsArrive ==
    ASSUME NEW A \in SUBSET Procs, NEW left \in [Procs -> Nat], NEW i \in Procs, i \notin A,
           IsFiniteSet(Units(A, left))
    PROVE  /\ IsFiniteSet(Units(A \cup {i}, left))
           /\ Cardinality(Units(A \cup {i}, left)) = Cardinality(Units(A, left)) + left[i]
<1> DEFINE U == Units(A, left)
           own == {i} \X (1..left[i])
           n == left[i]
<1>1. n \in Nat
  OBVIOUS
<1>2. IsFiniteSet(own) /\ Cardinality(own) = n
  <2>1. /\ IsFiniteSet(1..n) /\ Cardinality(1..n) = n
        /\ IsFiniteSet({i}) /\ Cardinality({i}) = 1
    BY <1>1, FirstN, FS_Singleton
  <2>2. /\ IsFiniteSet(own)
        /\ Cardinality(own) = Cardinality({i}) * Cardinality(1..n)
    BY <2>1, FS_Product, Zenon
  <2> QED
    BY <1>1, <2>1, <2>2
<1>3. Units(A \cup {i}, left) = U \cup own
  <2>1. ASSUME NEW w \in Procs \X Nat
        PROVE  w \in Units(A \cup {i}, left) <=> w \in U \/ w \in own
    <3>1. w = <<w[1], w[2]>> /\ w[1] \in Procs /\ w[2] \in Nat
      OBVIOUS
    <3>2. w \in own <=> w[1] = i /\ 0 < w[2] /\ w[2] <= left[i]
      BY <1>1, <3>1
    <3> QED
      BY <3>1, <3>2 DEF Units
  <2>2. /\ own \subseteq Procs \X Nat /\ U \subseteq Procs \X Nat
        /\ Units(A \cup {i}, left) \subseteq Procs \X Nat
    BY <1>1 DEF Units
  <2> HIDE DEF U, own
  <2> QED
    BY <2>1, <2>2
<1>4. U \cap own = {}
  BY DEF Units
<1>5. IsFiniteSet(U)
  OBVIOUS
<1> HIDE DEF U, own, n
<1>6. /\ IsFiniteSet(U \cup own)
      /\ Cardinality(U \cup own) = Cardinality(U) + Cardinality(own) - Cardinality(U \cap own)
  BY <1>2, <1>5, FS_Union
<1>7. Cardinality(U \cap own) = 0 /\ Cardinality(U) \in Nat
  BY <1>4, <1>5, FS_EmptySet, FS_CardinalityType
<1>8. IsFiniteSet(U \cup own) /\ Cardinality(U \cup own) = Cardinality(U) + n
  BY <1>1, <1>2, <1>6, <1>7
<1> QED
  BY <1>3, <1>8 DEF U, n

LEMMA UnitsSpent ==
    ASSUME NEW A \in SUBSET Procs, NEW left \in [Procs -> Nat], NEW i \in A, left[i] > 0,
           IsFiniteSet(Units(A, left)), NEW less, less = [left EXCEPT ![i] = @ - 1]
    PROVE  /\ IsFiniteSet(Units(A, less))
           /\ Cardinality(Units(A, less)) = Cardinality(Units(A, left)) - 1
<1> DEFINE U == Units(A, left)
           u == <<i, left[i]>>
<1>1. i \in Procs /\ left[i] \in Nat /\ less[i] = left[i] - 1 /\ \A j \in Procs : j # i => less[j] = left[j]
  OBVIOUS
<1>2. u \in U
  BY <1>1 DEF Units
<1>3. Units(A, less) = U \ {u}
  <2>1. ASSUME NEW w \in Procs \X Nat
        PROVE  w \in Units(A, less) <=> w \in U /\ w # u
    <3>1. w = <<w[1], w[2]>> /\ w[1] \in Procs /\ w[2] \in Nat
      OBVIOUS
    <3>2. w = u <=> w[1] = i /\ w[2] = left[i]
      BY <3>1
    <3>3. /\ w \in Units(A, less) <=> w[1] \in A /\ 0 < w[2] /\ w[2] <= less[w[1]]
          /\ w \in U <=> w[1] \in A /\ 0 < w[2] /\ w[2] <= left[w[1]]
      BY DEF Units
    <3> HIDE DEF u, U
    <3>4. CASE w[1] = i
      BY <1>1, <3>1, <3>2, <3>3, <3>4
    <3>5. CASE w[1] # i
      BY <1>1, <3>1, <3>2, <3>3, <3>5
    <3> QED
      BY <3>4, <3>5
  <2>2. U \subseteq Procs \X Nat /\ Units(A, less) \subseteq Procs \X Nat
    BY DEF Units
  <2> HIDE DEF U, u
  <2> QED
    BY <2>1, <2>2
<1>4. IsFiniteSet(U)
  OBVIOUS
<1> HIDE DEF U, u
<1>5. IsFiniteSet(U \ {u}) /\ Cardinality(U \ {u}) = Cardinality(U) - 1
  BY <1>2, <1>4, FS_RemoveElement
<1> QED
  BY <1>3, <1>5 DEF U

LEMMA UnitsGone ==
    ASSUME NEW A \in SUBSET Procs, NEW left \in [Procs -> Nat], IsFiniteSet(Units(A, left))
    PROVE  /\ Cardinality(Units(A, left)) \in Nat
           /\ Cardinality(Units(A, left)) = 0 <=> \A i \in A : left[i] = 0
<1>1. Units(A, left) = {} <=> \A i \in A : left[i] = 0
  <2>1. ASSUME NEW i \in A, left[i] # 0 PROVE Units(A, left) # {}
    <3>1. <<i, left[i]>> \in Units(A, left)
      BY <2>1 DEF Units
    <3> QED
      BY <3>1
  <2>2. ASSUME NEW w \in Units(A, left) PROVE \E i \in A : left[i] # 0
    <3>1. w[1] \in A /\ w[2] \in Nat /\ 0 < w[2] /\ w[2] <= left[w[1]] /\ left[w[1]] \in Nat
      BY DEF Units
    <3> QED
      BY <3>1
  <2> QED
    BY <2>1, <2>2
<1> QED
  BY <1>1, FS_EmptySet, FS_CardinalityType

\* A row counts as finished when nothing is left of it.
LEMMA CountsAll ==
    ASSUME trace \in Traces, NEW left \in [Procs -> Nat]
    PROVE  Cardinality({i \in Procs : left[i] = 0}) >= Len(trace) <=> \A i \in Procs : left[i] = 0
<1> DEFINE Done == {i \in Procs : left[i] = 0}
<1>1. Procs = 1..Len(trace) /\ Len(trace) \in Nat
  BY RowTypes DEF Procs
<1>2. IsFiniteSet(Procs) /\ Cardinality(Procs) = Len(trace)
  BY <1>1, FirstN
<1>3. Done \in SUBSET Procs
  OBVIOUS
<1>4. /\ Cardinality(Done) <= Cardinality(Procs) /\ IsFiniteSet(Done)
      /\ Cardinality(Procs) = Cardinality(Done) => Procs = Done
  BY <1>2, <1>3, FS_Subset
<1>5. Cardinality(Done) \in Nat
  BY <1>4, FS_CardinalityType
<1>6. Done = Procs <=> \A i \in Procs : left[i] = 0
  OBVIOUS
<1> HIDE DEF Done
<1>7. Cardinality(Done) >= Len(trace) <=> Done = Procs
  BY <1>1, <1>2, <1>4, <1>5
<1> QED
  BY <1>6, <1>7 DEF Done

LEMMA CountsType ==
    ASSUME trace \in Traces, NEW left \in [Procs -> Nat]
    PROVE  Cardinality({i \in Procs : left[i] = 0}) \in Nat
<1>1. IsFiniteSet(Procs)
  BY RowTypes, FirstN DEF Procs
<1>2. IsFiniteSet({i \in Procs : left[i] = 0})
  BY <1>1, FS_Subset
<1> QED
  BY <1>2, FS_CardinalityType

LEMMA CountsOne ==
    ASSUME trace \in Traces, NEW left \in [Procs -> Nat], NEW i \in Procs, left[i] > 0,
           NEW less, less = [left EXCEPT ![i] = @ - 1]
    PROVE  Cardinality({j \in Procs : less[j] = 0}) =
               Cardinality({j \in Procs : left[j] = 0}) + IF left[i] = 1 THEN 1 ELSE 0
<1> DEFINE Done == {j \in Procs : left[j] = 0}
           Then == {j \in Procs : less[j] = 0}
<1>1. left[i] \in Nat /\ less[i] = left[i] - 1 /\ \A j \in Procs : j # i => less[j] = left[j]
  OBVIOUS
<1>2. IsFiniteSet(Procs)
  BY RowTypes, FirstN DEF Procs
<1>3. IsFiniteSet(Done) /\ i \notin Done /\ Cardinality(Done) \in Nat
  <2>1. IsFiniteSet(Done) /\ i \notin Done
    BY <1>2, FS_Subset
  <2> QED
    BY <2>1, FS_CardinalityType
<1>4. CASE left[i] = 1
  <2>1. Then = Done \cup {i}
    BY <1>1, <1>4
  <2>2. Cardinality(Done \cup {i}) = Cardinality(Done) + 1
    BY <1>3, FS_AddElement
  <2> QED
    BY <1>4, <2>1, <2>2
<1>5. CASE left[i] # 1
  <2>1. Then = Done
    BY <1>1, <1>5
  <2> HIDE DEF Done, Then
  <2>2. Cardinality(Then) = Cardinality(Done) + 0
    BY <1>3, <2>1
  <2> QED
    BY <1>5, <2>2 DEF Done, Then
<1> QED
  BY <1>4, <1>5

BothInv == MetricsInv /\ FcfsInv /\ LinesInv /\ LockstepInv

LEMMA BothTypes ==
    ASSUME BothInv
    PROVE  /\ trace \in Traces /\ Procs = 1..Len(trace) /\ Len(trace) \in Nat \ {0}
           /\ Procs \subseteq Nat \ {0} /\ IDLE \notin Procs
           /\ \A i \in Procs : trace[i].arrival \in Nat /\ trace[i].burst \in Nat \ {0}
           /\ tick \in Nat /\ cursor \in Nat \ {0} /\ phase \in Phases
           /\ timeline \in [Ticks -> Answers]
           /\ phase \in {"admit", "execute", "tick_end"} => tick \in Ticks
           /\ remaining \in [Procs -> Nat] /\ q_remaining \in [Procs -> Nat]
           /\ \A i \in Procs : i \notin Admitted => remaining[i] = trace[i].burst
           /\ Admitted \in SUBSET Procs /\ Waits \in SUBSET Procs
           /\ IDLE \notin Waits /\ Q!Procs = Procs
<1>1. TypeOK
  BY DEF BothInv, MetricsInv, TypeInv
<1>2. /\ trace \in Traces /\ Procs = 1..Len(trace) /\ Len(trace) \in Nat \ {0}
      /\ Procs \subseteq Nat \ {0} /\ IDLE \notin Procs
      /\ \A i \in Procs : trace[i].arrival \in Nat /\ trace[i].burst \in Nat \ {0}
      /\ tick \in Nat
  BY <1>1, RowTypes, ProcsArePositive, EngineAssumption DEF TypeOK, Procs
<1>3. Admitted \in SUBSET Procs /\ Waits \in SUBSET Procs /\ Q!Procs = Procs
  BY DEF Admitted, Waits, Q!Procs, Procs
<1>4. \A i \in Procs : i \notin Admitted => remaining[i] = trace[i].burst
  BY <1>2 DEF BothInv, FcfsInv
<1>5. q_remaining \in [Procs -> Nat]
  BY DEF BothInv, LinesInv
<1>6. IDLE \notin Waits
  BY <1>2, <1>3
<1>7. /\ remaining \in [Procs -> Nat] /\ cursor \in Nat \ {0} /\ phase \in Phases
      /\ timeline \in [Ticks -> Answers]
      /\ phase \in {"admit", "execute", "tick_end"} => tick \in Ticks
  BY <1>1 DEF TypeOK
<1> QED
  BY <1>2, <1>3, <1>4, <1>5, <1>6, <1>7

\* One of them has work for the CPU when the other has, and is done when the
\* other is.
LEMMA WorkAlike ==
    ASSUME BothInv
    PROVE  /\ Alive = {} <=> Waits = {}
           /\ completed >= Len(trace) <=> q_completed >= Len(trace)
<1>1. /\ trace \in Traces
      /\ \A i \in Procs : trace[i].burst \in Nat \ {0}
      /\ remaining \in [Procs -> Nat] /\ q_remaining \in [Procs -> Nat]
      /\ \A i \in Procs : i \notin Admitted => remaining[i] = trace[i].burst
      /\ \A i \in Procs : i \notin Admitted => q_remaining[i] = trace[i].burst
      /\ Admitted \in SUBSET Procs
  BY BothTypes DEF BothInv, LinesInv
<1>2. (\A i \in Admitted : remaining[i] = 0) <=> (\A i \in Admitted : q_remaining[i] = 0)
  BY <1>1, UnitsGone DEF BothInv, LockstepInv
<1>3. Alive = {} <=> \A i \in Admitted : remaining[i] = 0
  BY <1>1 DEF Alive
<1>4. Waits = {} <=> \A i \in Admitted : q_remaining[i] = 0
  BY <1>1 DEF Waits
<1>5. /\ completed = Cardinality({i \in Procs : remaining[i] = 0})
      /\ q_completed = Cardinality({i \in Procs : q_remaining[i] = 0})
  BY DEF BothInv, LockstepInv, MetricsInv, Accounting
<1>6. /\ completed >= Len(trace) <=> \A i \in Procs : remaining[i] = 0
      /\ q_completed >= Len(trace) <=> \A i \in Procs : q_remaining[i] = 0
  BY <1>1, <1>5, CountsAll
<1>7. /\ (\A i \in Procs : remaining[i] = 0)
             <=> Procs \subseteq Admitted /\ \A i \in Admitted : remaining[i] = 0
      /\ (\A i \in Procs : q_remaining[i] = 0)
             <=> Procs \subseteq Admitted /\ \A i \in Admitted : q_remaining[i] = 0
  BY <1>1
<1> QED
  BY <1>2, <1>3, <1>4, <1>6, <1>7

\* What the abstract queues answer, after a boost or without one.
LEMMA QueueAnswer ==
    ASSUME BothInv, phase = "admit", AllAdmitted, NEW pid, Q!Choose(pid)
    PROVE  /\ quantum' = quantum
           /\ LinesHold(line', Waits)
           /\ Q!Ready = Waits
           /\ Waits = {} => pid = IDLE
           /\ Waits # {} => /\ pid \in Waits
                            /\ \E lv \in Levels : line'[lv] # <<>> /\ Head(line'[lv]) = pid
<1>1. quantum \in LevelQuanta /\ LinesHold(line, Waits)
  BY DEF BothInv, LinesInv
<1>2. quantum' = quantum /\ LinesHold(line', Waits)
  <2>1. CASE Q!BoostDue
    <3>1. 0 \in Levels
      BY <1>1, <2>1, LevelsAssumption DEF Q!BoostDue, Levels
    <3>2. Q!Boost
      BY <2>1 DEF Q!Choose
    <3> QED
      BY <1>1, <3>1, <3>2, BothTypes, BoostHolds
  <2>2. CASE ~ Q!BoostDue
    BY <1>1, <2>2 DEF Q!Choose, Q!lines
  <2> QED
    BY <2>1, <2>2
<1>3. Q!Ready = Waits
  <2>1. q_tick = tick /\ Q!Procs = Procs
    BY BothTypes DEF BothInv, LockstepInv
  <2>2. Admitted = {i \in Procs : trace[i].arrival <= tick}
    BY BothTypes DEF Admitted, AllAdmitted
  <2> QED
    BY <2>1, <2>2 DEF Q!Ready, Waits
<1>4. pid = Q!FrontOf(line')
  BY DEF Q!Choose
<1>5. IDLE \notin Waits
  BY BothTypes
<1>6. /\ Waits = {} => Q!FrontOf(line') = IDLE
      /\ Waits # {} => /\ Q!FrontOf(line') \in Waits
                       /\ \E lv \in Levels : line'[lv] # <<>> /\ Head(line'[lv]) = Q!FrontOf(line')
  BY <1>1, <1>2, <1>5, AnswerIs
<1> QED
  BY <1>2, <1>3, <1>4, <1>6

\* LinesInv and LockstepInv are about the state after the step.
LEMMA LinesThen ==
    ASSUME quantum' = quantum, trace' = trace, NEW A, LinesHold(line', A), Waits' = A
    PROVE  LinesHold(line, Waits)'
BY DEF LinesHold, Levels, Procs

LEMMA BothInvInit == BothInit => BothInv
<1> SUFFICES ASSUME BothInit PROVE BothInv
  OBVIOUS
<1>1. FcfsInit /\ Init /\ Q!QueueInit
  BY DEF BothInit, FcfsInit
<1>2. MetricsInv /\ FcfsInv
  BY <1>1, FcfsInvInit, AccountingInit, WindowInit, WorkInit DEF MetricsInv, FcfsIInv
<1>3. /\ trace \in Traces
      /\ \A i \in Procs : trace[i].arrival \in Nat /\ trace[i].burst \in Nat \ {0}
  BY <1>1, RowTypes DEF Init, Procs
<1>4. /\ q_remaining = [i \in Procs |-> trace[i].burst]
      /\ q_timeline = [t \in Ticks |-> 0]
      /\ q_tick = 0 /\ q_completed = 0 /\ q_next = IDLE /\ q_cursor = 1 /\ q_phase = "test"
      /\ quantum \in LevelQuanta
      /\ line = [lv \in DOMAIN quantum |-> <<>>]
  BY <1>1 DEF Q!QueueInit, Q!Init, Q!Procs, Procs, Q!Ticks, Ticks, Q!IDLE, IDLE
<1>5. Admitted = {} /\ Waits = {}
  BY <1>1, <1>3 DEF Init, Admitted, Waits
<1>6. LinesHold(line, {})
  <2> DEFINE at == [i \in {} |-> 0]
  <2>1. line \in [Levels -> Seq(Procs)] /\ at \in [{} -> Levels]
    BY <1>4 DEF Levels
  <2>2. \A lv \in Levels : Holds(line[lv], {i \in {} : at[i] = lv}, IDLE)
    BY <1>4 DEF Levels, Holds
  <2> QED
    BY <2>1, <2>2 DEF LinesHold
<1>7. LinesInv
  BY <1>3, <1>4, <1>5, <1>6 DEF LinesInv
<1>8. LockstepInv
  <2>1. Units(Admitted, remaining) = {} /\ Units(Admitted, q_remaining) = {}
    BY <1>5 DEF Units
  <2>2. {i \in Procs : q_remaining[i] = 0} = {}
    BY <1>3, <1>4
  <2>3. Decided = {}
    BY <1>1 DEF Init, Decided
  <2>4. q_timeline \in [Ticks -> Answers]
    BY <1>4 DEF Answers, UnknownPid
  <2> QED
    BY <1>1, <1>4, <2>1, <2>2, <2>3, <2>4, FS_EmptySet DEF Init, LockstepInv
<1> QED
  BY <1>2, <1>7, <1>8 DEF BothInv

LEMMA BothStep == BothInv /\ [BothNext]_BothVars => BothInv'
<1> SUFFICES ASSUME BothInv, [BothNext]_BothVars PROVE BothInv'
  OBVIOUS
<1>1. FcfsIInv /\ [FcfsNext]_FcfsVars
  BY DEF BothInv, MetricsInv, FcfsIInv, BothNext, BothVars
<1>2. [WCNext]_vars /\ [Next]_vars /\ FcfsInv'
  BY <1>1, FcfsNextIsWCNext, WCNextIsNext, FcfsInvStep DEF FcfsIInv
<1>3. MetricsInv' /\ trace' = trace /\ Procs' = Procs
  BY <1>2, TypeInvStep, AccountingStep, WindowStep, WorkStep, TraceStep
     DEF BothInv, MetricsInv, Procs
<1>4. /\ LinesInv /\ LockstepInv /\ q_phase = phase /\ q_tick = tick /\ q_cursor = cursor
      /\ MetricsInv
  BY DEF BothInv, LockstepInv
<1> SUFFICES LinesInv' /\ LockstepInv'
  BY <1>2, <1>3 DEF BothInv
<1>5. /\ trace \in Traces /\ Procs = 1..Len(trace)
      /\ Procs \subseteq Nat \ {0} /\ IDLE \notin Procs
      /\ \A i \in Procs : trace[i].arrival \in Nat /\ trace[i].burst \in Nat \ {0}
      /\ tick \in Nat /\ cursor \in Nat \ {0} /\ phase \in Phases
      /\ timeline \in [Ticks -> Answers]
      /\ phase \in {"admit", "execute", "tick_end"} => tick \in Ticks
      /\ remaining \in [Procs -> Nat] /\ q_remaining \in [Procs -> Nat]
      /\ Admitted \in SUBSET Procs /\ Waits \in SUBSET Procs /\ IDLE \notin Waits
  BY BothTypes
<1>10. /\ Admitted \in SUBSET Procs /\ trace \in Traces
       /\ remaining \in [Procs -> Nat] /\ q_remaining \in [Procs -> Nat]
  BY <1>5
<1>6. /\ quantum \in LevelQuanta /\ LinesHold(line, Waits)
      /\ \A i \in Procs : i \notin Admitted => q_remaining[i] = trace[i].burst
  BY <1>4 DEF LinesInv
\* A step that neither admits a row nor executes a tick.
<1>7. ASSUME Admitted' = Admitted, UNCHANGED <<remaining, q_remaining, q_completed>>
      PROVE  /\ Waits' = Waits
             /\ q_completed' = Cardinality({i \in Procs' : q_remaining'[i] = 0})
             /\ IsFiniteSet(Units(Admitted, remaining)') /\ IsFiniteSet(Units(Admitted, q_remaining)')
             /\ Cardinality(Units(Admitted, remaining)') = Cardinality(Units(Admitted, q_remaining)')
  BY <1>3, <1>4, <1>7 DEF LockstepInv, Waits, Units
<1>8. ASSUME UNCHANGED <<vars, q_run>> PROVE LinesInv' /\ LockstepInv'
  <2>1. /\ Admitted' = Admitted /\ Waits' = Waits /\ Levels' = Levels
        /\ Decided' = Decided /\ Ticks' = Ticks
        /\ UNCHANGED <<remaining, q_remaining, q_phase, q_next, line, quantum, q_tick, q_cursor,
                       phase, tick, cursor, timeline, q_timeline, q_completed>>
    BY <1>3, <1>8 DEF vars, table, result, q_run, Admitted, Waits, Levels, Decided
  <2>2. LinesInv'
    BY <1>3, <1>4, <2>1 DEF LinesInv, LinesHold
  <2>3. LockstepInv'
    BY <1>3, <1>4, <2>1 DEF LockstepInv, Units, Answers
  <2> QED
    BY <2>2, <2>3
<1>9. ASSUME BothNext PROVE LinesInv' /\ LockstepInv'
  <2>1. FcfsNext /\ Q!QueueNext
    BY <1>9 DEF BothNext
  <2>2. CASE phase = "test"
    <3>1. LoopTest
      BY <2>1, <2>2 DEF FcfsNext, LoopTest, Admit, Pick, Execute, EndTick, Halt, Returned
    <3>2. /\ phase' = IF completed >= Len(trace) THEN "ok"
                      ELSE IF tick >= MaxTicks THEN "error" ELSE "admit"
          /\ cursor' = 1 /\ UNCHANGED <<remaining, timeline, tick>>
      BY <3>1 DEF LoopTest, CapReached, table, result
    <3>3. /\ q_phase' = IF q_completed >= Len(trace) THEN "ok"
                        ELSE IF q_tick >= MaxTicks THEN "error" ELSE "admit"
          /\ q_cursor' = 1
          /\ UNCHANGED <<q_remaining, q_timeline, q_completed, q_tick, q_next, line, quantum>>
      BY <1>4, <2>1, <2>2, QueueMoves
    <3>4. Admitted' = Admitted
      BY <1>2, <1>4, <2>2, AdmittedStays DEF MetricsInv, Admit
    <3>5. phase' = q_phase' /\ phase' \notin {"execute", "tick_end"}
      BY <1>4, <3>2, <3>3, WorkAlike
    <3>6. LinesInv'
      BY <1>3, <1>4, <1>6, <1>7, <3>2, <3>3, <3>4, <3>5, LinesThen DEF LinesInv
    <3>7. Decided' = Decided
      BY <2>2, <3>2, <3>5 DEF Decided
    <3>8. LockstepInv'
      BY <1>3, <1>4, <1>7, <3>2, <3>3, <3>4, <3>5, <3>7 DEF LockstepInv, Answers
    <3> QED
      BY <3>6, <3>8
  <2>3. CASE (\E i \in Procs : Admit(i)) /\ phase = "admit"
    <3>1. PICK i \in Procs : Admit(i)
      BY <2>3
    <3>2. /\ i >= cursor /\ trace[i].arrival = tick
          /\ \A j \in Procs : cursor <= j /\ j < i => trace[j].arrival # tick
          /\ phase' = "admit" /\ cursor' = i + 1 /\ UNCHANGED <<remaining, timeline, tick>>
      BY <3>1 DEF Admit, table, result
    <3>3. /\ q_cursor' = i + 1 /\ Q!Arrive(i)
          /\ UNCHANGED <<q_remaining, q_completed, q_tick, q_timeline, q_next, q_phase>>
      <4>1. /\ UNCHANGED <<q_remaining, q_completed, q_tick>>
            /\ \E j \in Procs :
                   /\ j >= cursor /\ trace[j].arrival = tick
                   /\ \A k \in Procs : cursor <= k /\ k < j => trace[k].arrival # tick
                   /\ q_cursor' = j + 1
                   /\ UNCHANGED <<q_timeline, q_next, q_phase>>
                   /\ Q!Arrive(j)
        BY <1>4, <2>1, <2>3, <3>2, QueueMoves
      <4>2. \A j \in Procs :
                /\ j >= cursor /\ trace[j].arrival = tick
                /\ \A k \in Procs : cursor <= k /\ k < j => trace[k].arrival # tick
                => j = i
        BY <1>5, <3>2
      <4> QED
        BY <4>1, <4>2
    <3>4. i \notin Admitted /\ Admitted' = Admitted \cup {i}
      <4>1. tail \in 0..Len(trace) /\ Admitted = 1..tail /\ TypeInv
        BY DEF BothInv, FcfsInv, MetricsInv
      <4>2. i = tail + 1 /\ Admitted' = 1..(tail + 1)
        BY <3>1, <4>1, AdmitsInOrder
      <4> QED
        BY <4>1, <4>2
    <3>5. remaining[i] = trace[i].burst /\ q_remaining[i] = trace[i].burst /\ i # IDLE /\ i \notin Waits
      BY <1>4, <1>5, <1>6, <3>1, <3>4, ArrivesWhole DEF Waits
    <3>6. Waits' = Waits \cup {i}
      BY <1>3, <1>5, <3>3, <3>4, <3>5 DEF Waits
    <3>7. quantum' = quantum /\ LinesHold(line', Waits \cup {i})
      <4> DEFINE lv == EntryLevel(trace[i])
      <4>1. lv \in Levels
        BY <1>5, <1>6, LevelsAssumption DEF Levels, Procs
      <4>2. line' = [line EXCEPT ![lv] = Append(@, i)] /\ quantum' = quantum
        BY <3>3 DEF Q!Arrive
      <4> HIDE DEF lv
      <4> QED
        BY <1>6, <3>5, <4>1, <4>2, LinesArrive
    <3>8. LinesInv'
      <4>1. LinesHold(line, Waits)'
        BY <1>3, <3>6, <3>7, LinesThen
      <4>2. \A j \in Procs' : j \notin Admitted' => q_remaining'[j] = trace'[j].burst
        BY <1>3, <1>6, <3>3, <3>4
      <4> QED
        BY <1>3, <1>4, <1>5, <1>6, <2>3, <3>3, <3>7, <4>1, <4>2 DEF LinesInv
    <3>9. LockstepInv'
      <4>1. /\ IsFiniteSet(Units(Admitted, remaining)) /\ IsFiniteSet(Units(Admitted, q_remaining))
            /\ Cardinality(Units(Admitted, remaining)) = Cardinality(Units(Admitted, q_remaining))
        BY <1>4 DEF LockstepInv
      <4>2. /\ IsFiniteSet(Units(Admitted \cup {i}, remaining))
            /\ IsFiniteSet(Units(Admitted \cup {i}, q_remaining))
            /\ Cardinality(Units(Admitted \cup {i}, remaining))
                  = Cardinality(Units(Admitted \cup {i}, q_remaining))
        <5>1. /\ IsFiniteSet(Units(Admitted \cup {i}, remaining))
              /\ Cardinality(Units(Admitted \cup {i}, remaining))
                    = Cardinality(Units(Admitted, remaining)) + remaining[i]
          BY <1>10, <3>4, <4>1, UnitsArrive
        <5>2. /\ IsFiniteSet(Units(Admitted \cup {i}, q_remaining))
              /\ Cardinality(Units(Admitted \cup {i}, q_remaining))
                    = Cardinality(Units(Admitted, q_remaining)) + q_remaining[i]
          BY <1>10, <3>4, <4>1, UnitsArrive
        <5> QED
          BY <3>5, <4>1, <5>1, <5>2
      <4>3. /\ Units(Admitted, remaining)' = Units(Admitted \cup {i}, remaining)
            /\ Units(Admitted, q_remaining)' = Units(Admitted \cup {i}, q_remaining)
        BY <1>3, <3>2, <3>3, <3>4 DEF Units
      <4>4. Decided' = Decided
        BY <2>3, <3>2 DEF Decided
      <4> QED
        BY <1>3, <1>4, <2>3, <3>2, <3>3, <4>2, <4>3, <4>4 DEF LockstepInv, Answers
    <3> QED
      BY <3>8, <3>9
  <2>4. CASE ~ (\E i \in Procs : Admit(i)) /\ phase = "admit"
    <3>1. PICK pid \in Answers : fcfs_pick_next(pid) /\ Pick(pid)
      BY <2>1, <2>4 DEF FcfsNext, LoopTest, Execute, EndTick, Halt, Returned
    <3>2. AllAdmitted /\ pid \in AllowedAnswers
      BY <1>1, <2>4, <3>1, FcfsAnswers DEF Pick
    <3>3. /\ timeline' = [timeline EXCEPT ![tick] = pid]
          /\ phase' = IF pid = IDLE THEN "tick_end" ELSE "execute"
          /\ UNCHANGED <<remaining, tick, cursor>>
      BY <3>1, <3>2 DEF Pick, table, AllowedAnswers
    <3>4. PICK qid \in Answers :
              /\ q_next' = qid
              /\ q_timeline' = [q_timeline EXCEPT ![tick] = qid]
              /\ q_phase' = IF qid = IDLE THEN "tick_end"
                            ELSE IF qid \in Q!Ready THEN "execute" ELSE "error"
              /\ Q!Choose(qid)
              /\ UNCHANGED <<q_remaining, q_completed, q_tick, q_cursor>>
      BY <1>4, <2>1, <2>4, <3>2, QueueMoves DEF AllAdmitted
    <3>5. /\ quantum' = quantum /\ LinesHold(line', Waits) /\ Q!Ready = Waits
          /\ Waits = {} => qid = IDLE
          /\ Waits # {} => /\ qid \in Waits
                           /\ \E lv \in Levels : line'[lv] # <<>> /\ Head(line'[lv]) = qid
      BY <2>4, <3>2, <3>4, QueueAnswer
    <3>6. pid = IDLE <=> qid = IDLE
      <4>1. Alive = Ready
        BY <1>4, <2>4, <3>2, AliveIsReady DEF MetricsInv
      <4>2. Ready = {} => pid = IDLE
        BY <3>2 DEF AllowedAnswers
      <4>3. Ready # {} => pid \in Procs
        BY <3>2 DEF AllowedAnswers, Ready
      <4> QED
        BY <1>5, <3>5, <4>1, <4>2, <4>3, WorkAlike
    <3>7. q_phase' = phase' /\ phase' \in {"execute", "tick_end"}
      BY <3>3, <3>4, <3>5, <3>6
    <3>8. Admitted' = Admitted
      BY <1>2, <1>4, <2>4, AdmittedStays DEF MetricsInv
    <3>9. LinesInv'
      <4>1. LinesHold(line, Waits)'
        BY <1>3, <1>7, <3>3, <3>4, <3>5, <3>8, LinesThen
      <4>2. q_next' # IDLE => q_next' \in Waits /\ \E lv \in Levels : line'[lv] # <<>> /\ Head(line'[lv]) = q_next'
        BY <3>4, <3>5
      <4>3. q_phase' = "execute" => q_next' # IDLE
        BY <3>4
      <4>4. Waits' = Waits /\ Levels' = Levels
        BY <1>7, <3>3, <3>4, <3>5, <3>8 DEF Levels
      <4> QED
        BY <1>3, <1>5, <1>6, <3>4, <3>5, <3>8, <4>1, <4>2, <4>3, <4>4 DEF LinesInv
    <3>10. LockstepInv'
      <4>1. tick \in Ticks /\ Decided = 0..(tick - 1) /\ Decided' = 0..tick
        BY <1>5, <2>4, <3>3, <3>7 DEF Decided
      <4>2. q_timeline \in [Ticks -> Answers]
        BY <1>4 DEF LockstepInv
      <4>3. q_timeline' \in [Ticks -> Answers] /\ q_timeline'[tick] = qid /\ timeline'[tick] = pid
        BY <1>5, <3>3, <3>4, <4>1, <4>2
      <4>4. \A t \in Ticks : t # tick => q_timeline'[t] = q_timeline[t] /\ timeline'[t] = timeline[t]
        BY <1>5, <3>3, <3>4, <4>1, <4>2
      <4>5. \A t \in Decided : timeline'[t] = IDLE <=> q_timeline'[t] = IDLE
        <5>1. Decided \subseteq Ticks /\ tick \notin Decided
          BY <1>5, <4>1, EngineAssumption DEF Ticks
        <5> QED
          BY <1>4, <4>4, <5>1 DEF LockstepInv
      <4>6. \A t \in 0..tick : t = tick \/ t \in 0..(tick - 1)
        BY <1>5
      <4>7. \A t \in Decided' : timeline'[t] = IDLE <=> q_timeline'[t] = IDLE
        BY <3>6, <4>1, <4>3, <4>5, <4>6
      <4>8. Answers' = Answers
        BY <1>3 DEF Answers
      <4> QED
        BY <1>3, <1>4, <1>7, <3>3, <3>4, <3>7, <3>8, <4>3, <4>7, <4>8 DEF LockstepInv
    <3> QED
      BY <3>9, <3>10
  <2>5. CASE phase = "execute"
    <3>1. Execute
      BY <2>1, <2>5 DEF FcfsNext, LoopTest, Admit, Pick, Execute, EndTick, Halt, Returned
    <3>2. /\ remaining' = [remaining EXCEPT ![next] = @ - 1] /\ phase' = "tick_end"
          /\ UNCHANGED <<timeline, tick, cursor>>
      BY <3>1 DEF Execute, result
    <3>3. /\ q_remaining' = [q_remaining EXCEPT ![q_next] = @ - 1] /\ q_phase' = "tick_end"
          /\ IF q_remaining[q_next] = 1
             THEN q_completed' = q_completed + 1 /\ Q!Leave
             ELSE UNCHANGED <<q_completed, line, quantum>>
          /\ UNCHANGED <<q_timeline, q_tick, q_next, q_cursor>>
      BY <1>4, <2>1, <2>5, QueueMoves
    <3>4. Admitted' = Admitted
      BY <1>2, <1>4, <2>5, AdmittedStays DEF MetricsInv, Admit
    <3>5. next \in Admitted /\ remaining[next] > 0
      <4>1. next \in Alive
        BY <1>2, <1>4, <3>1, AliveStep
      <4> QED
        BY <4>1 DEF Alive
    <3>6. q_next \in Waits /\ q_next \in Admitted /\ q_next \in Procs /\ q_next # IDLE
          /\ q_remaining[q_next] \in Nat \ {0}
      BY <1>4, <1>5, <2>5 DEF LinesInv, Waits
    <3>7. PICK lv \in Levels : line[lv] # <<>> /\ Head(line[lv]) = q_next
      BY <1>4, <2>5, <3>6 DEF LinesInv
    <3>8. Q!LevelOf(q_next) = lv
      BY <1>6, <3>7, LevelIs
    <3>9. /\ q_remaining' \in [Procs -> Nat] /\ q_remaining'[q_next] = q_remaining[q_next] - 1
          /\ \A i \in Procs : i # q_next => q_remaining'[i] = q_remaining[i]
      BY <1>5, <3>3, <3>6
    <3>10. quantum' = quantum /\ LinesHold(line', Waits')
           /\ (q_remaining'[q_next] = 0 \/ (line'[lv] # <<>> /\ Head(line'[lv]) = q_next))
      <4>1. CASE q_remaining[q_next] = 1
        <5>1. line' = [line EXCEPT ![lv] = Tail(@)] /\ quantum' = quantum
          BY <3>3, <3>8, <4>1 DEF Q!Leave
        <5>2. LinesHold(line', Waits \ {q_next})
          BY <1>5, <1>6, <3>7, <5>1, LinesLeave
        <5>3. Waits' = Waits \ {q_next}
          <6>1. \A i \in Admitted : q_remaining'[i] > 0 <=> q_remaining[i] > 0 /\ i # q_next
            BY <1>5, <3>6, <3>9, <4>1
          <6> QED
            BY <3>4, <6>1 DEF Waits
        <5> QED
          BY <3>9, <4>1, <5>1, <5>2, <5>3
      <4>2. CASE q_remaining[q_next] # 1
        <5>1. line' = line /\ quantum' = quantum
          BY <3>3, <4>2
        <5>2. Waits' = Waits
          <6>1. \A i \in Admitted : q_remaining'[i] > 0 <=> q_remaining[i] > 0
            BY <1>5, <3>6, <3>9, <4>2
          <6> QED
            BY <3>4, <6>1 DEF Waits
        <5> QED
          BY <1>6, <3>7, <5>1, <5>2
      <4> QED
        BY <4>1, <4>2
    <3>11. LinesInv'
      <4>1. LinesHold(line, Waits)'
        BY <1>3, <3>10, LinesThen
      <4>2. \A i \in Procs' : i \notin Admitted' => q_remaining'[i] = trace'[i].burst
        BY <1>3, <1>6, <3>4, <3>6, <3>9
      <4>3. \/ q_remaining'[q_next'] = 0
            \/ \E l \in Levels' : line'[l] # <<>> /\ Head(line'[l]) = q_next'
        BY <3>3, <3>7, <3>10 DEF Levels
      <4> QED
        BY <1>3, <1>6, <3>3, <3>6, <3>9, <3>10, <4>1, <4>2, <4>3 DEF LinesInv
    <3>12. LockstepInv'
      <4>1. /\ IsFiniteSet(Units(Admitted, remaining)) /\ IsFiniteSet(Units(Admitted, q_remaining))
            /\ Cardinality(Units(Admitted, remaining)) = Cardinality(Units(Admitted, q_remaining))
            /\ q_timeline \in [Ticks -> Answers]
            /\ q_completed = Cardinality({i \in Procs : q_remaining[i] = 0})
            /\ \A t \in Decided : timeline[t] = IDLE <=> q_timeline[t] = IDLE
        BY <1>4 DEF LockstepInv
      <4>2. /\ IsFiniteSet(Units(Admitted, remaining'))
            /\ IsFiniteSet(Units(Admitted, q_remaining'))
            /\ Cardinality(Units(Admitted, remaining')) = Cardinality(Units(Admitted, q_remaining'))
        <5>1. /\ IsFiniteSet(Units(Admitted, remaining'))
              /\ Cardinality(Units(Admitted, remaining')) = Cardinality(Units(Admitted, remaining)) - 1
          BY <1>10, <3>2, <3>5, <4>1, UnitsSpent
        <5>2. /\ IsFiniteSet(Units(Admitted, q_remaining'))
              /\ Cardinality(Units(Admitted, q_remaining')) = Cardinality(Units(Admitted, q_remaining)) - 1
          <6>1. q_remaining[q_next] > 0 /\ q_remaining' = [q_remaining EXCEPT ![q_next] = @ - 1]
            BY <3>3, <3>6
          <6> QED
            BY <1>10, <3>6, <4>1, <6>1, UnitsSpent
        <5> QED
          BY <4>1, <5>1, <5>2
      <4>3. /\ Units(Admitted, remaining)' = Units(Admitted, remaining')
            /\ Units(Admitted, q_remaining)' = Units(Admitted, q_remaining')
        BY <1>3, <3>4 DEF Units
      <4>4. Decided' = Decided /\ Answers' = Answers
        BY <1>3, <2>5, <3>2 DEF Decided, Answers
      <4>5. q_completed' = Cardinality({i \in Procs : q_remaining'[i] = 0})
        <5>1. Cardinality({i \in Procs : q_remaining'[i] = 0}) =
                  q_completed + IF q_remaining[q_next] = 1 THEN 1 ELSE 0
          <6>1. q_remaining[q_next] > 0 /\ q_remaining' = [q_remaining EXCEPT ![q_next] = @ - 1]
            BY <3>3, <3>6
          <6> QED
            BY <1>10, <3>6, <4>1, <6>1, CountsOne
        <5>2. q_completed \in Nat
          BY <1>5, <4>1, CountsType
        <5> QED
          BY <3>3, <5>1, <5>2
      <4> QED
        BY <1>3, <1>4, <2>5, <3>2, <3>3, <4>1, <4>2, <4>3, <4>4, <4>5 DEF LockstepInv
    <3> QED
      BY <3>11, <3>12
  <2>6. CASE phase = "tick_end"
    <3>1. EndTick
      BY <2>1, <2>6 DEF FcfsNext, LoopTest, Admit, Pick, Execute, EndTick, Halt, Returned
    <3>2. tick' = tick + 1 /\ phase' = "test" /\ UNCHANGED <<remaining, timeline, cursor>>
      BY <3>1 DEF EndTick, table, result
    <3>3. /\ q_tick' = q_tick + 1 /\ q_phase' = "test" /\ Q!Spend
          /\ UNCHANGED <<q_remaining, q_timeline, q_completed, q_next, q_cursor>>
      BY <1>4, <2>1, <2>6, QueueMoves
    <3>4. Admitted' = Admitted
      BY <1>2, <1>4, <2>6, AdmittedStays DEF MetricsInv, Admit
    <3>5. quantum' = quantum /\ LinesHold(line', Waits)
      <4>1. CASE UNCHANGED Q!lines
        BY <1>6, <4>1 DEF Q!lines
      <4>2. CASE q_next # IDLE /\ q_remaining[q_next] # 0
        <5>1. PICK lv \in Levels : line[lv] # <<>> /\ Head(line[lv]) = q_next
          BY <1>4, <2>6, <4>2 DEF LinesInv
        <5>2. Q!LevelOf(q_next) = lv
          BY <1>6, <5>1, LevelIs
        <5> DEFINE to == NextLevel(lv)
                   without == [line EXCEPT ![lv] = Tail(@)]
        <5>3. \/ UNCHANGED <<line, quantum>>
              \/ line' = [without EXCEPT ![to] = Append(@, q_next)] /\ quantum' = quantum
          BY <3>3, <5>2 DEF Q!Spend, Q!lines
        <5>4. to \in Levels
          BY <1>6, LevelsAssumption DEF Levels
        <5>5. q_next \in Waits /\ LinesHold(without, Waits \ {q_next})
          BY <1>5, <1>6, <5>1, LinesLeave
        <5> HIDE DEF to, without
        <5>6. CASE line' = [without EXCEPT ![to] = Append(@, q_next)] /\ quantum' = quantum
          <6>1. q_next \in Procs
            BY <1>5, <5>5
          <6>2. LinesHold(line', (Waits \ {q_next}) \cup {q_next})
            BY <4>2, <5>4, <5>5, <5>6, <6>1, LinesArrive
          <6>3. (Waits \ {q_next}) \cup {q_next} = Waits
            BY <5>5
          <6> QED
            BY <5>6, <6>2, <6>3
        <5> QED
          BY <1>6, <5>3, <5>6
      <4>3. q_next = IDLE \/ q_remaining[q_next] = 0 => UNCHANGED Q!lines
        BY <3>3 DEF Q!Spend, Q!IDLE, IDLE
      <4> QED
        BY <4>1, <4>2, <4>3
    <3>6. LinesInv'
      <4>1. LinesHold(line, Waits)'
        BY <1>3, <1>7, <3>2, <3>3, <3>4, <3>5, LinesThen
      <4> QED
        BY <1>3, <1>5, <1>6, <3>3, <3>4, <3>5, <4>1 DEF LinesInv
    <3>7. LockstepInv'
      <4>1. Decided' = Decided /\ Answers' = Answers
        BY <1>3, <1>5, <2>6, <3>2 DEF Decided, Answers
      <4> QED
        BY <1>3, <1>4, <1>7, <3>2, <3>3, <3>4, <4>1 DEF LockstepInv
    <3> QED
      BY <3>6, <3>7
  <2>7. CASE phase \in {"ok", "error"}
    <3>1. UNCHANGED vars
      BY <2>1, <2>7 DEF FcfsNext, LoopTest, Admit, Pick, Execute, EndTick, Halt
    <3>2. UNCHANGED q_run
      BY <1>4, <2>1, <2>7, QueueMoves
    <3> QED
      BY <1>8, <3>1, <3>2
  <2> QED
    BY <1>5, <2>2, <2>3, <2>4, <2>5, <2>6, <2>7 DEF Phases
<1> QED
  BY <1>8, <1>9 DEF BothVars, FcfsVars

LEMMA BothInvAlways == BothSpec => []BothInv
BY BothInvInit, BothStep, PTL DEF BothSpec

\* ANALYSIS.md: "total elapsed time is identical for every algorithm on a
\* given trace": at every point of the two runs, for every set of tables and
\* whatever the levels, slices, demotions and boosts of the other one are.
THEOREM IdleTogetherCorrect == BothSpec => []IdleTogether
<1>1. BothInv => IdleTogether
  BY DEF BothInv, LockstepInv, IdleTogether
<1> QED
  BY <1>1, BothInvAlways, PTL

\* The abstract queues keep the contract of sched.h, fairness apart: a boost
\* or a demotion loses nobody, and nobody who has finished is kept.
THEOREM QueuesImplementContract == BothSpec => Q!WCSafety
<1>1. BothInit => Q!Init
  BY DEF BothInit, Q!QueueInit
<1>2. BothInv /\ [BothNext]_BothVars => [Q!WCNext]_(Q!vars)
  <2> SUFFICES ASSUME BothInv, [BothNext]_BothVars PROVE [Q!WCNext]_(Q!vars)
    OBVIOUS
  <2>1. CASE UNCHANGED BothVars
    BY <2>1 DEF BothVars, FcfsVars, vars, table, q_run, Q!vars, Q!table, Q!result
  <2>2. ASSUME NEW pid \in Q!Answers, Q!Choose(pid), Q!Pick(pid) PROVE Q!WCNext
    <3>1. q_phase = "admit" /\ Q!AllAdmitted
      BY <2>2 DEF Q!Pick
    <3>2. phase = "admit" /\ AllAdmitted
      BY <3>1 DEF BothInv, LockstepInv, Q!AllAdmitted, AllAdmitted, Q!Procs, Procs
    <3>3. /\ Q!Ready = Waits
          /\ Waits = {} => pid = IDLE
          /\ Waits # {} => pid \in Waits
      BY <2>2, <3>2, QueueAnswer
    <3>4. pid \in Q!AllowedAnswers
      BY <3>3 DEF Q!AllowedAnswers, Q!IDLE, IDLE
    <3> QED
      BY <2>2, <3>4 DEF Q!WCNext
  <2>3. CASE Q!QueueNext
    BY <2>2, <2>3 DEF Q!QueueNext, Q!WCNext
  <2> QED
    BY <2>1, <2>3 DEF BothNext
<1> QED
  BY <1>1, <1>2, BothInvAlways, PTL DEF BothSpec, Q!WCSafety
=============================================================================
