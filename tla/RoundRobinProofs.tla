--------------------------- MODULE RoundRobinProofs ---------------------------
(***************************************************************************)
(* Round Robin implements the contract and the abstract queues, its ring   *)
(* is never full when a process is pushed, and everyone has a turn and     *)
(* waits no longer than a quantum for each of the others, for every set of *)
(* tables and every quantum.                                               *)
(***************************************************************************)
EXTENDS RoundRobin, EngineProofs

\* The process on the CPU is alive and has some of its slice left; the others
\* that are alive are in the ring, once each.
RrInv ==
    /\ ring \in Rings(Leftover \cup Procs)
    /\ Holds(Contents(ring), Alive, running)
    /\ quantum \in Nat \ {0} /\ left \in Int
    /\ running = IDLE => left <= 0
    /\ running # IDLE => running \in Alive /\ left \in 1..quantum
    /\ Len(trace) <= MaxProcesses
    /\ phase \in {"test", "admit"} /\ running # IDLE => running = current
    /\ phase = "execute" => running = next
    /\ phase = "tick_end" =>
           running = IF next # IDLE /\ remaining[next] > 0 THEN next ELSE IDLE

RrIInv == MetricsInv /\ RrInv

LEMMA RrInvInit == ASSUME RrInit PROVE RrIInv
<1>1. MetricsInv
  BY TypeInvInit, AccountingInit, WindowInit, WorkInit DEF RrInit, MetricsInv
<1>2. Alive = {}
  <2>1. \A i \in Procs : trace[i].arrival \in Nat
    BY RowTypes DEF RrInit, Init, Procs
  <2> QED
    BY <2>1 DEF RrInit, Init, Alive, Admitted
<1>3. ring \in Rings(Leftover) /\ Contents(ring) = <<>>
  BY EmptyContents DEF RrInit, rr_init
<1>4. ring \in Rings(Leftover \cup Procs)
  BY <1>3, RingsGrow
<1>5. Holds(Contents(ring), Alive, running)
  BY <1>2, <1>3 DEF Holds
<1>6. quantum \in Nat \ {0} /\ left = 0 /\ running = IDLE /\ Len(trace) <= MaxProcesses
  BY RrAssumption DEF RrInit, rr_init, Init
<1> QED
  BY <1>1, <1>4, <1>5, <1>6 DEF RrIInv, RrInv, RrInit, Init

LEMMA RrFacts ==
    ASSUME RrIInv
    PROVE  /\ TypeInv /\ Alive \subseteq Procs /\ IDLE \notin Procs
           /\ Len(trace) \in Nat /\ Procs = 1..Len(trace) /\ tick \in Nat
           /\ \A i \in Procs : trace[i].arrival \in Nat
           /\ Contents(ring) \in Seq(Leftover \cup Procs)
           /\ Len(Contents(ring)) = ring.count /\ ring.count \in Nat
<1>1. Alive \subseteq Procs
  BY DEF Alive, Admitted
<1>2. /\ trace \in Traces /\ IDLE \notin Procs /\ tick \in Nat
  BY ProcsArePositive, EngineAssumption DEF RrIInv, MetricsInv, TypeInv, TypeOK
<1>3. Len(trace) \in Nat /\ Procs = 1..Len(trace) /\ \A i \in Procs : trace[i].arrival \in Nat
  BY <1>2, RowTypes DEF Procs
<1> QED
  BY <1>1, <1>2, <1>3, ContentsType DEF RrIInv, RrInv, MetricsInv

\* Whatever the ring is asked to take is one of the processes it does not
\* hold yet, so there is a slot for it.
LEMMA RingHasRoom ==
    ASSUME RrIInv, NEW i \in Procs, i \notin Alive \/ i = running
    PROVE  ring.count <= Len(trace) - 1 /\ ring.count < MaxProcesses
<1>1. Alive \ {running} \subseteq (1..Len(trace)) \ {i}
  BY RrFacts
<1>2. Len(Contents(ring)) <= Len(trace) - 1
  BY <1>1, RrFacts, RoomForOneMore DEF RrIInv, RrInv
<1> QED
  BY <1>2, RrFacts, ProcessTableAssumption DEF RrIInv, RrInv

\* The answer of rr_pick_next keeps the contract, and what it does to the ring.
LEMMA RrAnswers ==
    ASSUME RrIInv, NEW pid, rr_pick_next(pid), phase = "admit", AllAdmitted
    PROVE  /\ pid \in AllowedAnswers /\ running' = pid /\ quantum' = quantum
           /\ \/ /\ running # IDLE /\ pid = running
                 /\ UNCHANGED <<ring, left>>
              \/ /\ running = IDLE /\ pid \in Alive /\ ring.count > 0
                 /\ ring' \in Rings(Leftover \cup Procs)
                 /\ pid = Head(Contents(ring)) /\ Contents(ring') = Tail(Contents(ring))
                 /\ Holds(Contents(ring'), Alive, pid)
                 /\ left' = quantum
              \/ /\ running = IDLE /\ pid = IDLE /\ Alive = {}
                 /\ UNCHANGED <<ring, left>> /\ ring.count = 0
<1>1. Alive = Ready
  BY AliveIsReady, RrFacts
<1>2. CASE MidSlice /\ pid = running /\ UNCHANGED rr_state
  BY <1>1, <1>2 DEF RrIInv, RrInv, MidSlice, rr_state, AllowedAnswers
<1>3. CASE ~ MidSlice /\ ring.count > 0 /\ pid = AtFront(ring) /\ running' = pid
               /\ ring' = PopHead(ring) /\ left' = Slice /\ UNCHANGED quantum
  <2>1. running = IDLE
    BY <1>3 DEF RrIInv, RrInv, MidSlice
  <2>2. /\ ring' \in Rings(Leftover \cup Procs)
        /\ pid = Head(Contents(ring)) /\ Contents(ring') = Tail(Contents(ring))
    BY <1>3, PopHeadIsTail DEF RrIInv, RrInv
  <2>3. Contents(ring) # <<>>
    BY <1>3, RrFacts
  <2>4. pid \in Alive /\ Holds(Contents(ring'), Alive, pid)
    BY <2>1, <2>2, <2>3, RrFacts, HoldsDispatch DEF RrIInv, RrInv
  <2> QED
    BY <1>1, <1>3, <2>1, <2>2, <2>4 DEF AllowedAnswers, Slice
<1>4. CASE ~ MidSlice /\ ring.count = 0 /\ pid = IDLE /\ running' = IDLE
               /\ UNCHANGED <<ring, quantum, left>>
  <2>1. running = IDLE
    BY <1>4 DEF RrIInv, RrInv, MidSlice
  <2>2. DOMAIN Contents(ring) = {}
    BY <1>4 DEF Contents
  <2>3. Alive = {}
    BY <2>1, <2>2, RrFacts DEF RrIInv, RrInv, Holds
  <2> QED
    BY <1>1, <1>4, <2>1, <2>3 DEF AllowedAnswers
<1> QED
  BY <1>2, <1>3, <1>4 DEF rr_pick_next

LEMMA RrNextIsWCNext ==
    ASSUME RrIInv, [RrNext]_RrVars
    PROVE  [WCNext]_vars
<1>1. ASSUME NEW pid \in Answers, rr_pick_next(pid), Pick(pid)
      PROVE  WCNext
  BY <1>1, RrAnswers DEF WCNext, Pick
<1> QED
  BY <1>1 DEF RrNext, RrVars, WCNext

LEMMA RrInvStep == RrIInv /\ [RrNext]_RrVars => RrIInv'
<1> SUFFICES ASSUME RrIInv, [RrNext]_RrVars PROVE RrIInv'
  OBVIOUS
<1>0. [WCNext]_vars /\ [Next]_vars /\ trace' = trace /\ Procs' = Procs
  <2>1. [WCNext]_vars
    BY RrNextIsWCNext
  <2>2. [Next]_vars
    BY <2>1, WCNextIsNext DEF RrIInv, MetricsInv
  <2> QED
    BY <2>1, <2>2, TraceStep DEF Procs
<1>1. MetricsInv'
  BY <1>0, TypeInvStep, AccountingStep, WindowStep, WorkStep DEF RrIInv, MetricsInv
<1>2. UNCHANGED quantum
  BY DEF RrNext, RrVars, rr_state, rr_on_arrival, rr_pick_next, rr_on_complete, rr_on_tick_end
<1>3. /\ \A i \in Procs : Admit(i) => i \notin Alive /\ Alive' = Alive \cup {i}
      /\ Execute => /\ next \in Alive
                    /\ Alive' = IF remaining[next] = 1 THEN Alive \ {next} ELSE Alive
      /\ Execute \/ (\E i \in Procs : Admit(i)) \/ Alive' = Alive
  BY <1>0, AliveStep DEF RrIInv
<1>4. ASSUME NEW i \in Procs, Admit(i), rr_on_arrival(i) PROVE RrInv'
  <2>1. ring.count < MaxProcesses
    BY <1>3, <1>4, RingHasRoom
  <2>2. /\ ring' \in Rings(Leftover \cup Procs)
        /\ Contents(ring') = Append(Contents(ring), i)
    BY <1>4, <2>1, PushTailAppends DEF rr_on_arrival, RrIInv, RrInv
  <2>3. i \notin Alive /\ i # running /\ running' = running /\ left' = left
    BY <1>3, <1>4, RrFacts DEF rr_on_arrival, RrIInv, RrInv
  <2>4. Holds(Append(Contents(ring), i), Alive \cup {i}, running)
    BY <2>3, RrFacts, HoldsArrival DEF RrIInv, RrInv
  <2>5. Holds(Contents(ring), Alive, running)'
    BY <1>3, <1>4, <2>2, <2>3, <2>4
  <2> QED
    BY <1>0, <1>2, <1>3, <1>4, <2>2, <2>3, <2>5 DEF RrIInv, RrInv, Admit
<1>5. ASSUME NEW pid \in Answers, rr_pick_next(pid), Pick(pid) PROVE RrInv'
  <2>1. /\ phase = "admit" /\ AllAdmitted /\ next' = pid /\ remaining' = remaining
        /\ phase' = IF pid = IDLE THEN "tick_end"
                    ELSE IF pid \in Ready THEN "execute" ELSE "error"
        /\ Alive = Ready /\ \A i \in Alive : remaining[i] > 0
    <3>1. phase = "admit" /\ AllAdmitted
      BY <1>5 DEF Pick
    <3> QED
      BY <1>5, <3>1, AliveIsReady, RrFacts DEF Pick, table, Alive
  <2>2. Alive' = Alive
    BY <1>3, <1>5, <2>1 DEF Pick, Admit, Execute
  <2>3. running' = pid /\ pid \in AllowedAnswers
    BY <1>5, <2>1, RrAnswers
  <2>4. CASE running # IDLE /\ pid = running /\ UNCHANGED <<ring, left>>
    BY <1>0, <1>2, <2>1, <2>2, <2>3, <2>4 DEF RrIInv, RrInv
  <2>5. CASE /\ running = IDLE /\ pid \in Alive
             /\ ring' \in Rings(Leftover \cup Procs)
             /\ Holds(Contents(ring'), Alive, pid)
             /\ left' = quantum
    <3>1. Holds(Contents(ring), Alive, running)'
      BY <2>2, <2>3, <2>5
    <3>2. left' \in 1..quantum /\ left' \in Int /\ pid # IDLE
      BY <2>5, RrFacts DEF RrIInv, RrInv
    <3> QED
      BY <1>0, <1>2, <2>1, <2>2, <2>3, <2>5, <3>1, <3>2 DEF RrIInv, RrInv
  <2>6. CASE running = IDLE /\ pid = IDLE /\ UNCHANGED <<ring, left>>
    BY <1>0, <1>2, <2>1, <2>2, <2>3, <2>6 DEF RrIInv, RrInv
  <2> QED
    BY <1>5, <2>1, <2>4, <2>5, <2>6, RrAnswers
<1>6. ASSUME Execute, IF Finishing THEN rr_on_complete ELSE UNCHANGED rr_state
      PROVE  RrInv'
  <2>1. /\ phase = "execute" /\ phase' = "tick_end" /\ next' = next /\ running = next
        /\ next \in Procs /\ remaining[next] \in Nat /\ remaining[next] > 0
        /\ remaining' = [remaining EXCEPT ![next] = @ - 1]
        /\ remaining \in [Procs -> Nat]
    BY <1>6, RrFacts DEF Execute, RrIInv, RrInv, TypeInv, TypeOK, PhaseInv, Ready
  <2>2. remaining'[next] = remaining[next] - 1 /\ next # IDLE
    BY <2>1, RrFacts
  <2>3. CASE Finishing
    <3>1. /\ running' = IDLE /\ left' = 0 /\ UNCHANGED ring
          /\ Alive' = Alive \ {running} /\ remaining'[next] = 0
      BY <1>3, <1>6, <2>1, <2>2, <2>3 DEF rr_on_complete, Finishing
    <3>2. Holds(Contents(ring), Alive \ {running}, IDLE)
      BY RrFacts, HoldsExit DEF RrIInv, RrInv
    <3>3. Holds(Contents(ring), Alive, running)'
      BY <3>1, <3>2
    <3> QED
      BY <1>0, <1>2, <2>1, <3>1, <3>3 DEF RrIInv, RrInv
  <2>4. CASE ~ Finishing
    <3>1. /\ UNCHANGED <<ring, running, left>> /\ Alive' = Alive /\ remaining'[next] > 0
      BY <1>3, <1>6, <2>1, <2>2, <2>4 DEF rr_state, Finishing
    <3> QED
      BY <1>0, <1>2, <2>1, <2>2, <3>1 DEF RrIInv, RrInv
  <2> QED
    BY <2>3, <2>4
<1>7. ASSUME EndTick, rr_on_tick_end PROVE RrInv'
  <2>1. /\ phase = "tick_end" /\ phase' = "test" /\ remaining' = remaining
        /\ current' = next /\ Alive' = Alive
    BY <1>3, <1>7 DEF EndTick, table, Admit, Execute
  <2>2. left' \in Int /\ (running = IDLE => left' <= 0)
    BY <1>7 DEF rr_on_tick_end, RrIInv, RrInv
  <2>3. CASE next # IDLE /\ running # IDLE /\ left - 1 <= 0
    <3>1. /\ ring' = PushTail(ring, running) /\ running' = IDLE /\ left' <= 0
          /\ running \in Alive /\ running \in Procs
      BY <1>7, <2>3, RrFacts DEF rr_on_tick_end, RrIInv, RrInv
    <3>2. ring.count < MaxProcesses
      BY <3>1, RingHasRoom
    <3>3. /\ ring' \in Rings(Leftover \cup Procs)
          /\ Contents(ring') = Append(Contents(ring), running)
      BY <3>1, <3>2, PushTailAppends DEF RrIInv, RrInv
    <3>4. Holds(Append(Contents(ring), running), Alive, IDLE)
      BY <3>1, RrFacts, HoldsReturn DEF RrIInv, RrInv
    <3>5. Holds(Contents(ring), Alive, running)'
      BY <2>1, <3>1, <3>3, <3>4
    <3> QED
      BY <1>0, <1>2, <2>1, <2>2, <3>1, <3>3, <3>5 DEF RrIInv, RrInv
  <2>4. CASE ~ (next # IDLE /\ running # IDLE /\ left - 1 <= 0)
    <3>1. UNCHANGED <<ring, running>>
      BY <1>7, <2>4 DEF rr_on_tick_end
    <3>2. running # IDLE => running = next /\ left' \in 1..quantum
      BY <1>7, <2>1, <2>4 DEF rr_on_tick_end, RrIInv, RrInv
    <3> QED
      BY <1>0, <1>2, <2>1, <2>2, <3>1, <3>2 DEF RrIInv, RrInv
  <2> QED
    BY <2>3, <2>4
<1>8. CASE \/ (LoopTest \/ Halt) /\ UNCHANGED rr_state
           \/ UNCHANGED RrVars
  <2>1. /\ UNCHANGED rr_state /\ UNCHANGED <<remaining, current, next>>
        /\ \/ phase = "test" /\ phase' \in {"ok", "error", "admit"}
           \/ phase' = phase
    BY <1>8 DEF LoopTest, Halt, vars, table, RrVars
  <2>2. Alive' = Alive
    <3>1. CASE LoopTest \/ Returned
      BY <1>3, <3>1 DEF LoopTest, Admit, Execute, Returned
    <3>2. CASE UNCHANGED vars
      BY <3>2 DEF vars, table, Alive, Admitted, Procs
    <3> QED
      BY <1>8, <3>1, <3>2 DEF Halt, RrVars
  <2> QED
    BY <1>0, <1>1, <1>2, <2>1, <2>2 DEF RrIInv, RrInv, rr_state
<1> QED
  BY <1>1, <1>4, <1>5, <1>6, <1>7, <1>8 DEF RrNext, RrIInv

THEOREM RrIInvAlways == RrSafety => []RrIInv
<1>1. RrInit => RrIInv
  BY RrInvInit
<1> QED
  BY <1>1, RrInvStep, PTL DEF RrSafety

\* rr.c, between the calls of its hooks, keeps the contract of sched.h: the
\* process on the CPU is always ready, and it answers IDLE only when nobody is.
THEOREM RrImplementsContract == RrSafety => WCSafety
<1>1. RrInit => Init
  BY DEF RrInit
<1>2. RrIInv /\ [RrNext]_RrVars => [WCNext]_vars
  BY RrNextIsWCNext
<1> QED
  BY <1>1, <1>2, RrIInvAlways, PTL DEF RrSafety, WCSafety

-----------------------------------------------------------------------------
\* The undecided ticks of the slice that has been begun.
SliceLeft == IF running = IDLE THEN 0
             ELSE IF phase \in {"execute", "tick_end"} THEN left - 1 ELSE left

\* Row i has not had the CPU since tick s.
Unserved(i, s) == \A u \in s..(Decisions - 1) : timeline[u] # i

\* What a process has waited and what it has yet to wait, a quantum for each
\* one in front of it in the ring and the rest of the slice that runs, is at
\* most a quantum for each of the others.
Patience ==
    \A p \in 1..ring.count : \A s \in trace[Contents(ring)[p]].arrival..Decisions :
        Unserved(Contents(ring)[p], s) =>
            Decisions - s + (p - 1) * quantum + SliceLeft <= (Len(trace) - 1) * quantum

LEMMA Rounds ==
    ASSUME NEW q \in Nat, NEW j \in Int, NEW k \in Int
    PROVE  /\ j * q \in Int /\ j * q = (j - 1) * q + q
           /\ j <= k => j * q <= k * q
           /\ 0 <= j => 0 <= j * q
<1>1. j * q \in Int /\ j * q = (j - 1) * q + q
  OBVIOUS
<1>2. ASSUME j <= k PROVE j * q <= k * q
  <2>1. k - j \in Nat
    BY <1>2
  <2>2. (k - j) * q \in Nat
    BY <2>1
  <2>3. k * q = j * q + (k - j) * q
    OBVIOUS
  <2> QED
    BY <2>2, <2>3
<1>3. ASSUME 0 <= j PROVE 0 <= j * q
  <2>1. j \in Nat
    BY <1>3
  <2> QED
    BY <2>1
<1> QED
  BY <1>1, <1>2, <1>3

\* A process that begins to wait now.
LEMMA WaitFromNow ==
    RrIInv => /\ SliceLeft \in 0..quantum
              /\ \A p \in 1..ring.count :
                     (p - 1) * quantum + SliceLeft <= (Len(trace) - 1) * quantum
<1> SUFFICES ASSUME RrIInv
             PROVE  /\ SliceLeft \in 0..quantum
                    /\ \A p \in 1..ring.count :
                           (p - 1) * quantum + SliceLeft <= (Len(trace) - 1) * quantum
  OBVIOUS
<1>0. /\ quantum \in Nat /\ Len(trace) \in Nat /\ ring.count \in Nat
      /\ Len(Contents(ring)) = ring.count
      /\ Alive \subseteq 1..Len(trace)
  BY RrFacts DEF RrIInv, RrInv
<1>1. SliceLeft \in 0..quantum
  BY <1>0 DEF SliceLeft, RrIInv, RrInv
<1>2. ASSUME NEW p \in 1..ring.count
      PROVE  (p - 1) * quantum + SliceLeft <= (Len(trace) - 1) * quantum
  <2>0. p \in Int /\ p - 1 \in Int /\ Len(trace) - 1 \in Int /\ Len(trace) - 2 \in Int
    BY <1>0
  <2>1. CASE running # IDLE
    <3>1. ring.count <= Len(trace) - 1
      BY <2>1, RrFacts, RingHasRoom DEF RrIInv, RrInv
    <3>2. p - 1 <= Len(trace) - 2
      BY <1>0, <3>1
    <3>3. (p - 1) * quantum <= (Len(trace) - 2) * quantum
      BY <1>0, <2>0, <3>2, Rounds
    <3>4. /\ (Len(trace) - 1) * quantum = ((Len(trace) - 1) - 1) * quantum + quantum
          /\ (Len(trace) - 1) - 1 = Len(trace) - 2
      BY <1>0, <2>0, Rounds
    <3>5. (p - 1) * quantum \in Int /\ (Len(trace) - 2) * quantum \in Int
      BY <1>0, <2>0
    <3> QED
      BY <1>0, <1>1, <3>3, <3>4, <3>5
  <2>2. CASE running = IDLE
    <3>1. Alive \ {running} \subseteq (1..(Len(trace) + 1)) \ {Len(trace) + 1}
      <4>1. \A k \in 1..Len(trace) : k \in 1..(Len(trace) + 1) /\ k # Len(trace) + 1
        BY <1>0
      <4> QED
        BY <1>0, <4>1
    <3>2. Len(trace) + 1 \in Nat /\ Len(trace) + 1 \in 1..(Len(trace) + 1)
      BY <1>0
    <3>3. Len(Contents(ring)) <= (Len(trace) + 1) - 1
      BY <3>1, <3>2, RrFacts, RoomForOneMore DEF RrIInv, RrInv
    <3>4. p - 1 <= Len(trace) - 1
      BY <1>0, <3>3
    <3>5. (p - 1) * quantum <= (Len(trace) - 1) * quantum
      BY <1>0, <2>0, <3>4, Rounds
    <3>6. SliceLeft = 0 /\ (p - 1) * quantum \in Int
      BY <1>0, <2>0, <2>2 DEF SliceLeft
    <3> QED
      BY <3>5, <3>6
  <2> QED
    BY <2>1, <2>2
<1> QED
  BY <1>1, <1>2

LEMMA WaitFromNowNext ==
    (RrIInv => /\ SliceLeft \in 0..quantum
               /\ \A p \in 1..ring.count :
                      (p - 1) * quantum + SliceLeft <= (Len(trace) - 1) * quantum)'
BY WaitFromNow, PTL

\* What a step of Round Robin does to the ring and to the slice.
LEMMA RrSteps ==
    ASSUME RrIInv, [RrNext]_RrVars
    PROVE  /\ RrIInv' /\ [WCNext]_vars
           /\ trace' = trace /\ Procs' = Procs /\ quantum' = quantum
           /\ \/ \E pid \in AllowedAnswers : rr_pick_next(pid) /\ Pick(pid)
              \/ /\ \/ LoopTest \/ (\E i \in Procs : Admit(i)) \/ Execute \/ EndTick
                    \/ UNCHANGED vars
                 /\ SliceLeft' \in 0..SliceLeft /\ running' \in {running, IDLE}
                 /\ \/ Contents(ring') = Contents(ring) /\ ring'.count = ring.count
                    \/ /\ ring'.count = ring.count + 1
                       /\ \E i \in Procs :
                              /\ Contents(ring') = Append(Contents(ring), i)
                              /\ \/ Admit(i) /\ UNCHANGED SliceLeft
                                 \/ EndTick /\ timeline[tick] = i /\ i = running /\ running' = IDLE
<1>1. RrIInv'
  BY RrInvStep
<1>2. [WCNext]_vars
  BY RrNextIsWCNext
<1>3. trace' = trace /\ Procs' = Procs
  <2>1. [Next]_vars
    BY <1>2, WCNextIsNext, RrFacts
  <2> QED
    BY <2>1, TraceStep DEF Procs
<1>4. quantum' = quantum
  BY DEF RrNext, RrVars, rr_state, rr_on_arrival, rr_pick_next, rr_on_complete, rr_on_tick_end
<1>5. SliceLeft \in 0..quantum /\ SliceLeft' \in 0..quantum
  BY <1>1, <1>4, WaitFromNow, WaitFromNowNext
<1>6. ASSUME NEW i \in Procs, Admit(i), rr_on_arrival(i)
      PROVE  /\ ring'.count = ring.count + 1 /\ Contents(ring') = Append(Contents(ring), i)
             /\ UNCHANGED SliceLeft /\ running' = running
  <2>1. i \notin Alive
    BY <1>2, <1>6, AliveStep DEF RrIInv
  <2>2. ring.count < MaxProcesses /\ ring' = PushTail(ring, i) /\ ring \in Rings(Leftover \cup Procs)
    BY <1>6, <2>1, RingHasRoom DEF rr_on_arrival, RrIInv, RrInv
  <2>3. Contents(ring') = Append(Contents(ring), i)
    BY <2>2, PushTailAppends
  <2>4. ring'.count = ring.count + 1
    BY <2>2 DEF PushTail, Rings
  <2>5. UNCHANGED SliceLeft /\ running' = running
    BY <1>6 DEF rr_on_arrival, Admit, SliceLeft
  <2> QED
    BY <2>3, <2>4, <2>5
<1>7. ASSUME NEW pid \in Answers, rr_pick_next(pid), Pick(pid)
      PROVE  pid \in AllowedAnswers
  BY <1>7, RrAnswers DEF Pick
<1>8. ASSUME Execute, IF Finishing THEN rr_on_complete ELSE UNCHANGED rr_state
      PROVE  ring' = ring /\ SliceLeft' \in 0..SliceLeft /\ running' \in {running, IDLE}
  BY <1>5, <1>8 DEF Execute, rr_on_complete, rr_state, SliceLeft
<1>9. ASSUME EndTick, rr_on_tick_end
      PROVE  /\ SliceLeft' = SliceLeft /\ running' \in {running, IDLE}
             /\ \/ ring' = ring
                \/ /\ ring'.count = ring.count + 1 /\ running \in Procs
                   /\ Contents(ring') = Append(Contents(ring), running)
                   /\ timeline[tick] = running /\ running' = IDLE
  <2>1. /\ phase = "tick_end" /\ phase' = "test" /\ timeline[tick] = next
        /\ left \in Int /\ quantum \in Nat
        /\ running # IDLE => running = next /\ left \in 1..quantum /\ running \in Procs
        /\ next = IDLE => running = IDLE
    BY <1>9, RrFacts DEF EndTick, RrIInv, RrInv, TypeInv, PhaseInv
  <2>2. CASE next # IDLE /\ running # IDLE /\ left - 1 <= 0
    <3>1. /\ ring' = PushTail(ring, running) /\ running' = IDLE /\ running \in Procs
          /\ ring \in Rings(Leftover \cup Procs) /\ ring.count < MaxProcesses
      BY <1>9, <2>1, <2>2, RingHasRoom DEF rr_on_tick_end, RrIInv, RrInv
    <3>2. Contents(ring') = Append(Contents(ring), running)
      BY <3>1, PushTailAppends
    <3>3. ring'.count = ring.count + 1
      BY <3>1 DEF PushTail, Rings
    <3>4. SliceLeft = 0 /\ SliceLeft' = 0
      BY <2>1, <2>2, <3>1 DEF SliceLeft
    <3> QED
      BY <2>1, <2>2, <3>1, <3>2, <3>3, <3>4
  <2>3. CASE ~ (next # IDLE /\ running # IDLE /\ left - 1 <= 0)
    <3>1. ring' = ring /\ running' = running
      BY <1>9, <2>3 DEF rr_on_tick_end
    <3>2. running # IDLE => left' = left - 1
      BY <1>9, <2>1 DEF rr_on_tick_end
    <3> QED
      BY <2>1, <3>1, <3>2 DEF SliceLeft
  <2> QED
    BY <2>2, <2>3
<1>10. CASE \/ (LoopTest \/ Halt) /\ UNCHANGED rr_state
            \/ UNCHANGED RrVars
  <2>1. /\ UNCHANGED rr_state
        /\ phase \in {"execute", "tick_end"} <=> phase' \in {"execute", "tick_end"}
    BY <1>10 DEF LoopTest, Halt, RrVars, vars
  <2> QED
    BY <1>1, <1>2, <1>3, <1>4, <1>5, <1>10, <2>1 DEF rr_state, SliceLeft, Halt, RrVars
<1> QED
  BY <1>1, <1>2, <1>3, <1>4, <1>5, <1>6, <1>7, <1>8, <1>9, <1>10 DEF RrNext

LEMMA PatienceStep ==
    ASSUME RrIInv, Patience, [RrNext]_RrVars
    PROVE  Patience'
<1>a. SUFFICES ASSUME NEW p \in 1..ring'.count,
                      NEW s \in trace[Contents(ring')[p]].arrival..Decisions',
                      \A u \in s..(Decisions' - 1) : timeline'[u] # Contents(ring')[p]
               PROVE  Decisions' - s + (p - 1) * quantum + SliceLeft'
                          <= (Len(trace) - 1) * quantum
  BY RrSteps DEF Patience, Unserved
<1> DEFINE i == Contents(ring')[p]
           Bound == (Len(trace) - 1) * quantum
<1>0. /\ quantum \in Nat /\ Len(trace) \in Nat /\ ring.count \in Nat /\ tick \in Nat
      /\ Decisions \in Nat /\ Decisions' \in Nat
      /\ SliceLeft \in Int /\ SliceLeft' \in Int
      /\ ring'.count \in Nat /\ Contents(ring) \in Seq(Leftover \cup Procs)
      /\ Len(Contents(ring)) = ring.count
      /\ Contents(ring') \in Seq(Leftover \cup Procs) /\ Len(Contents(ring')) = ring'.count
  <2>1. RrIInv' /\ Procs' = Procs /\ quantum' = quantum
    BY RrSteps
  <2>2. SliceLeft \in 0..quantum /\ SliceLeft' \in 0..quantum
    BY <2>1, WaitFromNow, WaitFromNowNext
  <2>3. quantum \in Nat /\ Len(trace) \in Nat /\ ring.count \in Nat /\ tick \in Nat
    BY RrFacts DEF RrIInv, RrInv
  <2>4. Decisions \in Nat /\ Decisions' \in Nat
    <3>1. tick' \in Nat
      BY <2>1, EngineAssumption DEF RrIInv, MetricsInv, TypeInv, TypeOK
    <3>2. Decisions = tick \/ Decisions = tick + 1
      BY DEF Decisions
    <3>3. Decisions' = tick' \/ Decisions' = tick' + 1
      BY DEF Decisions
    <3>4. Decisions \in Nat
      BY <2>3, <3>2
    <3>5. Decisions' \in Nat
      BY <3>1, <3>3
    <3> QED
      BY <3>4, <3>5
  <2>5. /\ Contents(ring) \in Seq(Leftover \cup Procs)
        /\ Len(Contents(ring)) = ring.count
        /\ Contents(ring') \in Seq(Leftover \cup Procs) /\ Len(Contents(ring')) = ring'.count
        /\ ring'.count \in Nat
    <3>1. ring \in Rings(Leftover \cup Procs) /\ ring' \in Rings(Leftover \cup Procs)
      BY <2>1 DEF RrIInv, RrInv
    <3> QED
      BY <3>1, ContentsType
  <2> QED
    BY <2>2, <2>3, <2>4, <2>5
<1>01. i \in Procs /\ s \in Nat /\ s <= Decisions' /\ p \in Int
  <2>1. RrIInv' /\ Procs' = Procs
    BY RrSteps
  <2>2. \A q \in 1..ring'.count : Contents(ring')[q] \in Alive'
    BY <1>0, <2>1 DEF RrIInv, RrInv, Holds
  <2>3. i \in Procs
    BY <1>a, <2>1, <2>2 DEF Alive, Admitted
  <2>4. trace[i].arrival \in Nat
    BY <2>3, RrFacts
  <2> QED
    BY <1>0, <1>a, <2>3, <2>4
<1>1. ASSUME s = Decisions'
      PROVE  Decisions' - s + (p - 1) * quantum + SliceLeft' <= Bound
  <2>1. (p - 1) * quantum + SliceLeft' <= Bound
    BY <1>a, WaitFromNowNext, RrSteps
  <2>2. (p - 1) * quantum \in Int
    BY <1>0, <1>01
  <2> QED
    BY <1>0, <1>1, <2>1, <2>2
<1>2. ASSUME NEW k \in 1..ring.count, Contents(ring)[k] = i, s <= Decisions,
             Decisions \in {Decisions', Decisions' - 1},
             \A u \in s..(Decisions - 1) : timeline'[u] = timeline[u]
      PROVE  Decisions - s + (k - 1) * quantum + SliceLeft <= Bound
  <2>1. s \in trace[Contents(ring)[k]].arrival..Decisions
    BY <1>0, <1>01, <1>2, RrFacts
  <2>2. Unserved(i, s)
    <3>1. \A u \in s..(Decisions - 1) : u \in s..(Decisions' - 1)
      BY <1>0, <1>01, <1>2
    <3> QED
      BY <1>a, <1>2, <3>1 DEF Unserved
  <2> QED
    BY <1>2, <2>1, <2>2 DEF Patience
<1>3. ASSUME NEW pid \in AllowedAnswers, rr_pick_next(pid), Pick(pid), s # Decisions'
      PROVE  Decisions' - s + (p - 1) * quantum + SliceLeft' <= Bound
  <2>1. /\ Decisions = tick /\ Decisions' = tick + 1
        /\ \A u \in Decided : timeline'[u] = timeline[u]
    BY <1>3, DecisionMade DEF RrIInv
  <2>2. s <= Decisions /\ Decisions = Decisions' - 1
    BY <1>0, <1>01, <1>3, <2>1
  <2>9. /\ Decisions \in Int /\ Decisions' = Decisions + 1 /\ s \in Int
        /\ SliceLeft \in Int /\ quantum \in Int
    <3>1. s \in Int /\ SliceLeft \in Int /\ quantum \in Int /\ tick \in Int
      BY <1>0, <1>01
    <3> QED
      BY <2>1, <3>1
  <2>3. Decided = 0..(Decisions - 1)
    BY RrFacts, DecidedTicks
  <2>4. \A u \in s..(Decisions - 1) : timeline'[u] = timeline[u]
    BY <1>0, <1>01, <2>1, <2>3
  <2>5. phase = "admit" /\ AllAdmitted /\ phase' \in {"execute", "tick_end"}
    BY <1>3 DEF Pick, AllowedAnswers
  <2>6. CASE /\ running # IDLE /\ pid = running
             /\ UNCHANGED <<ring, left>>
    <3>1. SliceLeft' = SliceLeft - 1
      <4>1. running' = running /\ left \in Int
        BY <1>3, <2>5, <2>6, RrAnswers DEF RrIInv, RrInv
      <4> QED
        BY <2>5, <2>6, <4>1 DEF SliceLeft
    <3>2. Decisions - s + (p - 1) * quantum + SliceLeft <= Bound
      BY <1>a, <1>2, <2>2, <2>4, <2>6
    <3>3. (p - 1) * quantum \in Int /\ Bound \in Int
      BY <1>0, <1>01
    <3> DEFINE w == (p - 1) * quantum
    <3>4. Decisions - s + w + SliceLeft <= Bound /\ w \in Int /\ Bound \in Int
      BY <3>2, <3>3
    <3> HIDE DEF w, Bound
    <3>5. /\ Decisions \in Int /\ Decisions' = Decisions + 1 /\ s \in Int
          /\ SliceLeft \in Int /\ SliceLeft' = SliceLeft - 1
      BY <2>9, <3>1
    <3>6. Decisions' - s + w + SliceLeft' <= Bound
      BY <3>4, <3>5
    <3> QED
      BY <3>6 DEF w
  <2>7. CASE /\ running = IDLE /\ pid \in Alive /\ ring.count > 0
             /\ Contents(ring') = Tail(Contents(ring)) /\ left' = quantum
    <3>1. SliceLeft = 0 /\ SliceLeft' = quantum - 1
      <4>1. running' = pid /\ pid # IDLE
        BY <1>3, <2>5, <2>7, RrAnswers, RrFacts
      <4> QED
        BY <2>5, <2>7, <4>1 DEF SliceLeft
    <3>2. p + 1 \in 1..ring.count /\ Contents(ring)[p + 1] = i
      BY <1>a, <1>0, <2>7
    <3>3. Decisions - s + ((p + 1) - 1) * quantum + SliceLeft <= Bound
      BY <1>2, <2>2, <2>4, <3>2
    <3>4. p * quantum = (p - 1) * quantum + quantum /\ (p + 1) - 1 = p
      BY <1>0, <1>01, Rounds
    <3>5. (p - 1) * quantum \in Int /\ Bound \in Int /\ p * quantum \in Int
      BY <1>0, <1>01
    <3>6. Decisions - s + p * quantum + SliceLeft <= Bound
      BY <3>3, <3>4
    <3> DEFINE w == (p - 1) * quantum
               v == p * quantum
    <3>7. /\ v = w + quantum /\ w \in Int /\ Bound \in Int /\ v \in Int
          /\ Decisions - s + v + SliceLeft <= Bound
      BY <3>4, <3>5, <3>6
    <3> HIDE DEF w, v, Bound
    <3>8. /\ Decisions \in Int /\ Decisions' = Decisions + 1 /\ s \in Int
          /\ SliceLeft = 0 /\ SliceLeft' = quantum - 1 /\ quantum \in Int
      BY <2>9, <3>1
    <3>9. Decisions' - s + w + SliceLeft' <= Bound
      BY <3>7, <3>8
    <3> QED
      BY <3>9 DEF w
  <2>8. CASE UNCHANGED ring /\ ring.count = 0
    BY <1>a, <1>0, <2>8
  <2> QED
    BY <1>3, <2>5, <2>6, <2>7, <2>8, RrAnswers
<1>4. ASSUME LoopTest \/ (\E j \in Procs : Admit(j)) \/ Execute \/ EndTick \/ UNCHANGED vars,
             SliceLeft' \in 0..SliceLeft, s # Decisions',
             \/ Contents(ring') = Contents(ring) /\ ring'.count = ring.count
             \/ /\ ring'.count = ring.count + 1
                /\ \E j \in Procs :
                       /\ Contents(ring') = Append(Contents(ring), j)
                       /\ Admit(j) \/ (EndTick /\ timeline[tick] = j)
      PROVE  Decisions' - s + (p - 1) * quantum + SliceLeft' <= Bound
  <2>1. timeline' = timeline /\ Decisions' = Decisions
    BY <1>4, DecisionKept DEF RrIInv
  <2>2. p \in 1..ring.count /\ Contents(ring)[p] = i
    <3>1. CASE Contents(ring') = Contents(ring) /\ ring'.count = ring.count
      BY <1>a, <3>1
    <3>2. ASSUME NEW j \in Procs, Contents(ring') = Append(Contents(ring), j),
                 ring'.count = ring.count + 1,
                 Admit(j) \/ (EndTick /\ timeline[tick] = j)
          PROVE  p \in 1..ring.count /\ Contents(ring)[p] = i
      <4>1. p # ring.count + 1
        <5> SUFFICES ASSUME p = ring.count + 1 PROVE FALSE
          OBVIOUS
        <5>1. i = j
          BY <1>0, <3>2
        <5>2. ~ Admit(j)
          BY SMTT(30), <1>a, <1>0, <1>01, <1>4, <2>1, <5>1 DEF Admit, Decisions
        <5>3. EndTick /\ timeline[tick] = i /\ Decisions = tick + 1
          BY <3>2, <5>1, <5>2 DEF EndTick, Decisions
        <5>4. tick \in s..(Decisions' - 1)
          <6>1. s \in Int /\ s <= tick
            BY <1>0, <1>01, <1>4, <2>1, <5>3
          <6> QED
            BY <1>0, <2>1, <5>3, <6>1
        <5> QED
          BY <1>a, <2>1, <5>3, <5>4
      <4> QED
        BY <1>a, <1>0, <3>2, <4>1
    <3> QED
      BY <1>4, <3>1, <3>2
  <2>3. Decisions - s + (p - 1) * quantum + SliceLeft <= Bound
    BY <1>0, <1>01, <1>2, <1>4, <2>1, <2>2
  <2>4. (p - 1) * quantum \in Int /\ Bound \in Int
    BY <1>0, <1>01
  <2> DEFINE w == (p - 1) * quantum
  <2> HIDE DEF w, Bound
  <2> QED
    BY <1>0, <1>01, <1>4, <2>1, <2>3, <2>4
<1> QED
  <2>1. CASE s = Decisions'
    BY <1>1, <2>1
  <2>2. CASE s # Decisions'
    BY <1>3, <1>4, <2>2, RrSteps
  <2> QED
    BY <2>1, <2>2

\* Every tick that is decided was wanted by those who wait since it, so what
\* the bound says of a tick that is being decided follows from Patience.
LEMMA BoundedWaitStep ==
    ASSUME RrIInv, BoundedWait, [RrNext]_RrVars, Patience'
    PROVE  BoundedWait'
<1>0. /\ RrIInv' /\ [WCNext]_vars
      /\ trace' = trace /\ Procs' = Procs /\ quantum' = quantum
      /\ quantum \in Nat /\ Len(trace) \in Nat /\ tick \in Nat
      /\ \A i \in Procs : trace[i].arrival \in Nat
      /\ SliceLeft' \in Nat
      /\ Decided = 0..(Decisions - 1) /\ Decisions \in Nat
  <2>1. RrIInv' /\ quantum' = quantum
    BY RrSteps
  <2>2. SliceLeft' \in 0..quantum'
    BY <2>1, WaitFromNowNext
  <2>3. quantum \in Nat /\ Len(trace) \in Nat
    BY RrFacts DEF RrIInv, RrInv
  <2> QED
    BY <2>1, <2>2, <2>3, RrSteps, RrFacts, DecidedTicks
<1>a. SUFFICES ASSUME NEW i \in Procs, NEW s \in Wanting(i)', NEW t \in Wanting(i)',
                      s <= t, \A u \in s..t : timeline'[u] # i
               PROVE  t - s < quantum * (Len(trace) - 1)
  BY <1>0 DEF BoundedWait
<1>1. ASSUME s \in Wanting(i), t \in Wanting(i), \A u \in s..t : timeline'[u] = timeline[u]
      PROVE  t - s < quantum * (Len(trace) - 1)
  BY <1>a, <1>1 DEF BoundedWait
<1>2. CASE LoopTest \/ (\E j \in Procs : Admit(j)) \/ Execute \/ EndTick \/ UNCHANGED vars
  <2>1. timeline' = timeline /\ Wanting(i)' = Wanting(i)
    BY <1>a, <1>2, DecisionKept DEF RrIInv
  <2> QED
    BY <1>a, <1>1, <2>1
<1>3. ASSUME NEW pid \in AllowedAnswers, rr_pick_next(pid), Pick(pid)
      PROVE  t - s < quantum * (Len(trace) - 1)
  <2>1. /\ Decisions = tick /\ Decisions' = tick + 1
        /\ timeline'[tick] = pid /\ \A u \in Decided : timeline'[u] = timeline[u]
        /\ Wanting(i)' = Wanting(i) \cup {u \in {tick} : i \in Alive}
    BY <1>a, <1>3, DecisionMade DEF RrIInv
  <2>2. \A u \in Wanting(i) : u \in 0..(tick - 1) /\ u >= trace[i].arrival
    BY <1>0, <2>1 DEF Wanting
  <2>3. s \in Nat /\ t \in Nat /\ s <= tick /\ t <= tick
    BY <1>0, <1>a, <2>1, <2>2
  <2>4. CASE t # tick
    <3>1. t \in Wanting(i) /\ s # tick /\ s \in Wanting(i)
      BY <1>0, <1>a, <2>1, <2>2, <2>3, <2>4
    <3>2. \A u \in s..t : u \in Decided
      BY <1>0, <2>1, <2>3, <2>4
    <3> QED
      BY <1>1, <2>1, <3>1, <3>2
  <2>5. CASE t = tick
    <3>1. i \in Alive /\ i # pid
      <4>1. tick \notin Wanting(i)
        BY <1>0, <2>2
      <4>2. tick \in s..t
        BY <1>0, <2>3, <2>5
      <4> QED
        BY <1>a, <2>1, <2>5, <4>1, <4>2
    <3>2. Alive' = Alive /\ running' = pid
      <4>1. phase = "admit" /\ AllAdmitted
        BY <1>3 DEF Pick
      <4>2. Alive' = Alive
        <5>1. ~ Execute /\ ~ \E j \in Procs : Admit(j)
          BY <4>1 DEF Execute, Admit, AllAdmitted
        <5> QED
          BY <1>0, <5>1, AliveStep DEF RrIInv
      <4> QED
        BY <1>3, <4>1, <4>2, RrAnswers
    <3>3. PICK p \in DOMAIN Contents(ring') : Contents(ring')[p] = i
      <4>1. Holds(Contents(ring'), Alive', running')
        BY <1>0 DEF RrIInv, RrInv
      <4> QED
        BY <3>1, <3>2, <4>1 DEF Holds
    <3>4. p \in 1..ring'.count /\ p \in Int
      <4>1. ring'.count \in Nat
        <5>1. ring' \in Rings(Leftover \cup Procs)
          BY <1>0 DEF RrIInv, RrInv
        <5> QED
          BY <5>1, ContentsType
      <4> QED
        BY <3>3, <4>1 DEF Contents
    <3>5. s \in trace[i].arrival..Decisions'
      <4>1. i \in Alive => tick >= trace[i].arrival
        <5>1. Alive = Ready
          BY <1>3, DecisionMade DEF RrIInv
        <5> QED
          BY <5>1 DEF Ready
      <4> QED
        BY <1>0, <1>a, <2>1, <2>2, <2>3, <3>1, <4>1
    <3>6. \A u \in s..(Decisions' - 1) : timeline'[u] # i
      <4>1. (tick + 1) - 1 = tick
        BY <1>0
      <4> QED
        BY <1>a, <2>1, <2>5, <4>1
    <3>7. Decisions' - s + (p - 1) * quantum + SliceLeft' <= (Len(trace) - 1) * quantum
      BY <1>0, <3>3, <3>4, <3>5, <3>6 DEF Patience, Unserved
    <3>8. 0 <= (p - 1) * quantum /\ (p - 1) * quantum \in Int
      <4>1. p - 1 \in Nat
        BY <3>4
      <4>2. (p - 1) * quantum \in Nat
        BY <1>0, <4>1
      <4> QED
        BY <4>2
    <3> DEFINE w == (p - 1) * quantum
               b == (Len(trace) - 1) * quantum
    <3>9. /\ (tick + 1) - s + w + SliceLeft' <= b /\ 0 <= w /\ w \in Int /\ b \in Int
          /\ tick \in Int /\ s \in Int /\ SliceLeft' \in Int /\ 0 <= SliceLeft'
      BY <1>0, <2>1, <2>3, <3>7, <3>8
    <3>10. b = quantum * (Len(trace) - 1)
      BY <1>0
    <3> HIDE DEF w, b
    <3> DEFINE l == SliceLeft'
    <3>11. /\ (tick + 1) - s + w + l <= b /\ 0 <= w /\ w \in Int /\ b \in Int
           /\ tick \in Int /\ s \in Int /\ l \in Int /\ 0 <= l
      BY <3>9
    <3> HIDE DEF l
    <3>12. tick - s < b
      BY <3>11
    <3> QED
      BY <2>5, <3>10, <3>12
  <2> QED
    BY <2>4, <2>5
<1> QED
  BY <1>2, <1>3, RrSteps

\* rr.c, whatever the ring's indices do: a process is never kept from the CPU
\* for longer than a quantum for each of the others, from its arrival to its
\* first turn and from each turn to the next.
THEOREM BoundedWaitCorrect == RrSafety => []BoundedWait
<1> DEFINE I == RrIInv /\ Patience /\ BoundedWait
<1>1. RrInit => I
  <2> SUFFICES ASSUME RrInit PROVE I
    OBVIOUS
  <2>1. RrIInv
    BY RrInvInit
  <2>2. ring.count = 0 /\ Decided = {}
    BY DEF RrInit, rr_init, EmptyRings, Init, Decided
  <2> QED
    BY <2>1, <2>2 DEF Patience, BoundedWait, Wanting
<1>2. I /\ [RrNext]_RrVars => I'
  BY RrInvStep, PatienceStep, BoundedWaitStep
<1> QED
  BY <1>1, <1>2, PTL DEF RrSafety

-----------------------------------------------------------------------------
\* The ticks j has had since tick s, and its being in front of place p.
RanSince(j, s) == {u \in Decided : s < u /\ timeline[u] = j}
Ahead(j, p) == \E k \in 1..(p - 1) : Contents(ring)[k] = j

\* The process at place p has not run since tick s.  Then those in front of it
\* have not run since then either, the one that runs has had the part of its
\* slice that is gone, nobody has had more than a quantum, and who has had
\* nothing, although it wanted to all along, is in front.
TurnsSince(p, s) ==
    \A j \in Procs \ {Contents(ring)[p]} :
        /\ Ahead(j, p) => RanSince(j, s) = {}
        /\ Cardinality(RanSince(j, s)) <= IF j = running THEN quantum - SliceLeft ELSE quantum
        /\ RanSince(j, s) = {} /\ s..(Decisions - 1) \subseteq Wanting(j) => Ahead(j, p)

Turns ==
    \A p \in 1..ring.count : \A s \in Decided :
        timeline[s] = Contents(ring)[p] /\ Unserved(Contents(ring)[p], s + 1)
            => TurnsSince(p, s)

LEMMA RanSinceFinite ==
    ASSUME RrIInv, NEW j, NEW s
    PROVE  IsFiniteSet(RanSince(j, s)) /\ Cardinality(RanSince(j, s)) \in Nat
<1>1. Decided = 0..(Decisions - 1) /\ Decisions \in Nat
  BY RrFacts, DecidedTicks
<1>2. IsFiniteSet(Decided)
  <2>1. 0 \in Int /\ Decisions - 1 \in Int
    BY <1>1
  <2> QED
    BY <1>1, <2>1, FS_Interval
<1>3. RanSince(j, s) \in SUBSET Decided
  BY DEF RanSince
<1> QED
  BY <1>2, <1>3, FS_Subset, FS_CardinalityType

\* A process that wanted a tick it did not get is still alive after it.
LEMMA StillAlive ==
    ASSUME RrIInv, phase = "tick_end", NEW j \in Procs, tick \in Wanting(j),
           timeline[tick] # j
    PROVE  j \in Alive
<1>0. /\ tick \in Nat /\ trace[j].arrival \in Nat /\ Alive = Ready
      /\ completion[j] \in Nat \cup {NOT_STARTED} /\ remaining[j] \in Nat
  BY RrFacts, AliveIsReady DEF TypeInv, TypeOK
<1>1. completion[j] = NOT_STARTED
  <2> SUFFICES ASSUME completion[j] # NOT_STARTED PROVE FALSE
    OBVIOUS
  <2>1. completion[j] - 1 \in TicksOf(j) /\ tick < completion[j]
    BY DEF RrIInv, MetricsInv, Window, Wanting
  <2>2. completion[j] - 1 = tick
    BY <1>0, <2>1 DEF TicksOf, Elapsed
  <2> QED
    BY <2>1, <2>2 DEF TicksOf
<1>2. remaining[j] > 0
  BY <1>0, <1>1 DEF RrIInv, MetricsInv, Window
<1> QED
  BY <1>0, <1>2 DEF Ready, Wanting

LEMMA TurnTypes ==
    ASSUME RrIInv, [RrNext]_RrVars
    PROVE  /\ RrIInv' /\ [WCNext]_vars
           /\ trace' = trace /\ Procs' = Procs /\ quantum' = quantum
           /\ quantum \in Nat /\ tick \in Nat /\ IDLE \notin Procs
           /\ SliceLeft \in 0..quantum /\ SliceLeft' \in 0..quantum
           /\ Decided = 0..(Decisions - 1) /\ Decisions \in Nat
           /\ Contents(ring) \in Seq(Leftover \cup Procs) /\ Len(Contents(ring)) = ring.count
           /\ DOMAIN Contents(ring) = 1..ring.count /\ ring.count \in Nat
           /\ Contents(ring') \in Seq(Leftover \cup Procs) /\ Len(Contents(ring')) = ring'.count
           /\ DOMAIN Contents(ring') = 1..ring'.count /\ ring'.count \in Nat
           /\ Holds(Contents(ring), Alive, running)
           /\ Holds(Contents(ring'), Alive', running')
           /\ \A k \in 1..ring.count : Contents(ring)[k] \in Procs
           /\ \A k \in 1..ring'.count : Contents(ring')[k] \in Procs
<1>1. /\ RrIInv' /\ [WCNext]_vars /\ trace' = trace /\ Procs' = Procs /\ quantum' = quantum
  BY RrSteps
<1>2. SliceLeft \in 0..quantum /\ SliceLeft' \in 0..quantum
  BY <1>1, WaitFromNow, WaitFromNowNext
<1>3. quantum \in Nat /\ tick \in Nat /\ IDLE \notin Procs
  BY RrFacts DEF RrIInv, RrInv
<1>4. Decided = 0..(Decisions - 1) /\ Decisions \in Nat
  BY RrFacts, DecidedTicks
<1>5. /\ ring \in Rings(Leftover \cup Procs) /\ ring' \in Rings(Leftover \cup Procs)
      /\ Holds(Contents(ring), Alive, running)
      /\ Holds(Contents(ring'), Alive', running')
  BY <1>1 DEF RrIInv, RrInv
<1>6. /\ Contents(ring) \in Seq(Leftover \cup Procs) /\ Len(Contents(ring)) = ring.count
      /\ Contents(ring') \in Seq(Leftover \cup Procs) /\ Len(Contents(ring')) = ring'.count
      /\ ring.count \in Nat /\ ring'.count \in Nat
  BY <1>5, ContentsType
<1>7. DOMAIN Contents(ring) = 1..ring.count /\ DOMAIN Contents(ring') = 1..ring'.count
  BY DEF Contents
<1>8. Alive \subseteq Procs /\ Alive' \subseteq Procs
  BY <1>1 DEF Alive, Admitted
<1>9. /\ \A k \in 1..ring.count : Contents(ring)[k] \in Procs
      /\ \A k \in 1..ring'.count : Contents(ring')[k] \in Procs
  BY <1>5, <1>7, <1>8 DEF Holds
<1> QED
  BY <1>1, <1>2, <1>3, <1>4, <1>5, <1>6, <1>7, <1>9

\* In a step that decides no tick a place stays as it is, or a new one is
\* filled at the tail.
LEMMA TurnsKept ==
    ASSUME RrIInv, Turns, [RrNext]_RrVars,
           LoopTest \/ (\E i \in Procs : Admit(i)) \/ Execute \/ EndTick \/ UNCHANGED vars
    PROVE  Turns'
<1>0. /\ timeline' = timeline /\ Decisions' = Decisions /\ Decided' = Decided
      /\ \A j \in Procs : Wanting(j)' = Wanting(j)
  BY DecisionKept DEF RrIInv
<1>01. \A j, s : RanSince(j, s)' = RanSince(j, s)
  BY <1>0 DEF RanSince
<1>02. ~ \E pid \in AllowedAnswers : rr_pick_next(pid) /\ Pick(pid)
  BY DEF LoopTest, Admit, AllAdmitted, Execute, EndTick, Pick, vars, AllowedAnswers, Ready
<1>1. /\ SliceLeft' \in 0..SliceLeft /\ running' \in {running, IDLE}
      /\ \/ Contents(ring') = Contents(ring) /\ ring'.count = ring.count
         \/ /\ ring'.count = ring.count + 1
            /\ \E i \in Procs :
                   /\ Contents(ring') = Append(Contents(ring), i)
                   /\ \/ Admit(i) /\ UNCHANGED SliceLeft
                      \/ EndTick /\ timeline[tick] = i /\ i = running /\ running' = IDLE
  BY <1>02, RrSteps
<1>a. SUFFICES ASSUME NEW p \in 1..ring'.count, NEW s \in Decided,
                      timeline[s] = Contents(ring')[p],
                      \A u \in (s + 1)..(Decisions - 1) : timeline[u] # Contents(ring')[p],
                      NEW j \in Procs \ {Contents(ring')[p]}
               PROVE  /\ (\E k \in 1..(p - 1) : Contents(ring')[k] = j) => RanSince(j, s) = {}
                      /\ Cardinality(RanSince(j, s))
                             <= IF j = running' THEN quantum - SliceLeft' ELSE quantum
                      /\ RanSince(j, s) = {} /\ s..(Decisions - 1) \subseteq Wanting(j)
                             => \E k \in 1..(p - 1) : Contents(ring')[k] = j
  <2>1. Procs' = Procs /\ quantum' = quantum
    BY TurnTypes
  <2>2. ASSUME NEW p \in 1..ring'.count, NEW s \in Decided,
               timeline[s] = Contents(ring')[p] /\ Unserved(Contents(ring)[p], s + 1)'
        PROVE  TurnsSince(p, s)'
    <3>1. \A u \in (s + 1)..(Decisions - 1) : timeline[u] # Contents(ring')[p]
      BY <1>0, <2>2 DEF Unserved
    <3>2. ASSUME NEW j \in Procs \ {Contents(ring')[p]}
          PROVE  /\ Ahead(j, p)' => RanSince(j, s)' = {}
                 /\ Cardinality(RanSince(j, s)')
                        <= IF j = running' THEN quantum' - SliceLeft' ELSE quantum'
                 /\ RanSince(j, s)' = {} /\ s..(Decisions' - 1) \subseteq Wanting(j)'
                        => Ahead(j, p)'
      <4>1. RanSince(j, s)' = RanSince(j, s) /\ Wanting(j)' = Wanting(j)
        BY <1>0, <1>01, <3>2
      <4>2. Ahead(j, p)' <=> \E k \in 1..(p - 1) : Contents(ring')[k] = j
        BY DEF Ahead
      <4> QED
        BY <1>a, <1>0, <2>1, <2>2, <3>1, <3>2, <4>1, <4>2
    <3> QED
      BY <2>1, <3>2 DEF TurnsSince
  <2> QED
    BY <1>0, <2>2 DEF Turns
<1>2. /\ quantum \in Nat /\ SliceLeft \in 0..quantum /\ SliceLeft' \in 0..SliceLeft
      /\ Cardinality(RanSince(j, s)) \in Nat /\ j # IDLE /\ j \in Procs
      /\ ring.count \in Nat /\ p \in Nat \ {0} /\ running' \in {running, IDLE}
  BY <1>a, <1>1, TurnTypes, RanSinceFinite
<1>3. CASE p \in 1..ring.count /\ \A k \in 1..p : Contents(ring')[k] = Contents(ring)[k]
  <2>1. Contents(ring')[p] = Contents(ring)[p]
    BY <1>2, <1>3
  <2>2. \A k \in 1..(p - 1) : Contents(ring')[k] = Contents(ring)[k]
    BY <1>2, <1>3
  <2>3. TurnsSince(p, s)
    BY <1>a, <1>3, <2>1 DEF Turns, Unserved
  <2>4. /\ (\E k \in 1..(p - 1) : Contents(ring')[k] = j) => RanSince(j, s) = {}
        /\ Cardinality(RanSince(j, s))
               <= IF j = running THEN quantum - SliceLeft ELSE quantum
        /\ RanSince(j, s) = {} /\ s..(Decisions - 1) \subseteq Wanting(j)
               => \E k \in 1..(p - 1) : Contents(ring')[k] = j
    BY <1>a, <2>1, <2>2, <2>3 DEF TurnsSince, Ahead
  <2>5. Cardinality(RanSince(j, s)) <= IF j = running' THEN quantum - SliceLeft' ELSE quantum
    BY <1>2, <2>4
  <2> QED
    BY <2>4, <2>5
<1>4. ASSUME NEW i \in Procs, p = ring.count + 1, Contents(ring') = Append(Contents(ring), i),
             \/ Admit(i)
             \/ EndTick /\ timeline[tick] = i /\ i = running /\ running' = IDLE
      PROVE  /\ RanSince(j, s) = {}
             /\ s..(Decisions - 1) \subseteq Wanting(j)
                    => \E k \in 1..(p - 1) : Contents(ring')[k] = j
  <2>0. /\ Contents(ring')[p] = i /\ timeline[s] = i
        /\ \A k \in 1..(p - 1) : k \in 1..ring.count /\ Contents(ring')[k] = Contents(ring)[k]
        /\ p - 1 = ring.count
    BY <1>2, <1>4, <1>a, TurnTypes
  <2>1. ~ Admit(i)
    <3> SUFFICES ASSUME Admit(i) PROVE FALSE
      OBVIOUS
    <3>1. phase = "admit" /\ trace[i].arrival = tick /\ Elapsed = 0..(tick - 1) /\ Decided = Elapsed
      BY DEF Admit, Elapsed, Decided
    <3>2. s \in TicksOf(i) /\ s < tick /\ s \in Int /\ tick \in Int
      BY <1>a, <2>0, <3>1, TurnTypes DEF TicksOf
    <3>3. tick <= start_tick[i] /\ start_tick[i] <= s /\ start_tick[i] \in Int
      BY <3>1, <3>2 DEF RrIInv, MetricsInv, Window, TypeInv, TypeOK, NOT_STARTED
    <3> QED
      BY <3>2, <3>3
  <2>2. phase = "tick_end" /\ timeline[tick] = i /\ i = running /\ Decisions = tick + 1
    BY <1>4, <2>1 DEF EndTick, Decisions
  <2>3. s = tick
    <3>1. s \in 0..tick /\ tick \in Nat
      BY <1>a, <2>2, TurnTypes
    <3>2. s # tick => tick \in (s + 1)..(Decisions - 1)
      BY <2>2, <3>1
    <3> QED
      BY <1>a, <2>0, <2>2, <3>2
  <2>4. RanSince(j, s) = {}
    <3>1. \A u \in Decided : ~ (s < u)
      BY <2>2, <2>3, TurnTypes
    <3> QED
      BY <3>1 DEF RanSince
  <2>5. ASSUME s..(Decisions - 1) \subseteq Wanting(j)
        PROVE  \E k \in 1..(p - 1) : Contents(ring')[k] = j
    <3>1. tick \in Wanting(j)
      BY <2>2, <2>3, <2>5, TurnTypes
    <3>2. j \in Alive /\ j # running
      BY <1>a, <2>0, <2>2, <3>1, StillAlive
    <3>3. PICK k \in 1..ring.count : Contents(ring)[k] = j
      BY <3>2, TurnTypes DEF Holds
    <3> QED
      BY <2>0, <3>3
  <2> QED
    BY <2>4, <2>5
<1>5. CASE Contents(ring') = Contents(ring) /\ ring'.count = ring.count
  BY <1>a, <1>3, <1>5
<1>6. ASSUME NEW i \in Procs, Contents(ring') = Append(Contents(ring), i),
             ring'.count = ring.count + 1,
             \/ Admit(i)
             \/ EndTick /\ timeline[tick] = i /\ i = running /\ running' = IDLE
      PROVE  /\ (\E k \in 1..(p - 1) : Contents(ring')[k] = j) => RanSince(j, s) = {}
             /\ Cardinality(RanSince(j, s))
                    <= IF j = running' THEN quantum - SliceLeft' ELSE quantum
             /\ RanSince(j, s) = {} /\ s..(Decisions - 1) \subseteq Wanting(j)
                    => \E k \in 1..(p - 1) : Contents(ring')[k] = j
  <2>1. CASE p = ring.count + 1
    <3>1. RanSince(j, s) = {} /\ Cardinality(RanSince(j, s)) = 0
      BY <1>4, <1>6, <2>1, FS_EmptySet
    <3>2. Cardinality(RanSince(j, s)) <= IF j = running' THEN quantum - SliceLeft' ELSE quantum
      BY <1>2, <3>1
    <3> QED
      BY <1>4, <1>6, <2>1, <3>1, <3>2
  <2>2. CASE p # ring.count + 1
    <3>1. p \in 1..ring.count
      BY <1>a, <1>2, <1>6, <2>2
    <3>2. \A k \in 1..p : Contents(ring')[k] = Contents(ring)[k]
      BY <1>6, <3>1, TurnTypes
    <3> QED
      BY <1>3, <3>1, <3>2
  <2> QED
    BY <2>1, <2>2
<1> QED
  BY <1>1, <1>5, <1>6

\* The tick that is decided goes to one process: the running one, whose slice
\* gets shorter by it, or the front one, which has had nothing since any tick
\* of a process behind it.
LEMMA TurnsPicked ==
    ASSUME RrIInv, Turns, [RrNext]_RrVars,
           NEW pid \in AllowedAnswers, rr_pick_next(pid), Pick(pid)
    PROVE  Turns'
<1>0. /\ Decisions = tick /\ Decisions' = tick + 1
      /\ Decided' = Decided \cup {tick} /\ tick \notin Decided
      /\ timeline'[tick] = pid /\ \A u \in Decided : timeline'[u] = timeline[u]
      /\ \A i \in Procs : Wanting(i)' = Wanting(i) \cup {u \in {tick} : i \in Alive}
      /\ Decided = 0..(tick - 1) /\ tick \in Nat
  BY DecisionMade, TurnTypes DEF RrIInv
<1>01. phase = "admit" /\ AllAdmitted /\ phase' \in {"execute", "tick_end"}
  BY DEF Pick, AllowedAnswers
<1>02. running' = pid
  BY <1>01, RrAnswers
<1>03. ASSUME NEW j, NEW s \in Decided
       PROVE  RanSince(j, s)' = IF j = pid THEN RanSince(j, s) \cup {tick} ELSE RanSince(j, s)
  <2>1. s < tick
    BY <1>0, <1>03
  <2>2. RanSince(j, s)' = {u \in Decided \cup {tick} : s < u /\ timeline'[u] = j}
    BY <1>0 DEF RanSince
  <2>3. tick \notin RanSince(j, s)
    BY <1>0 DEF RanSince
  <2> QED
    BY <1>0, <2>1, <2>2, <2>3 DEF RanSince
<1>a. SUFFICES ASSUME NEW p \in 1..ring'.count, NEW s \in Decided,
                      timeline[s] = Contents(ring')[p],
                      \A u \in (s + 1)..(tick - 1) : timeline[u] # Contents(ring')[p],
                      NEW j \in Procs \ {Contents(ring')[p]}
               PROVE  /\ (\E k \in 1..(p - 1) : Contents(ring')[k] = j)
                             => j # pid /\ RanSince(j, s) = {}
                      /\ Cardinality(RanSince(j, s)')
                             <= IF j = pid THEN quantum - SliceLeft' ELSE quantum
                      /\ j # pid /\ RanSince(j, s) = {} /\ s..(tick - 1) \subseteq Wanting(j)
                             => \E k \in 1..(p - 1) : Contents(ring')[k] = j
  <2>1. Procs' = Procs /\ quantum' = quantum
    BY TurnTypes
  <2>2. ASSUME NEW p \in 1..ring'.count, NEW s \in Decided',
               timeline'[s] = Contents(ring')[p] /\ Unserved(Contents(ring)[p], s + 1)'
        PROVE  TurnsSince(p, s)'
    <3>1. \A u \in (s + 1)..tick : timeline'[u] # Contents(ring')[p]
      <4>1. (tick + 1) - 1 = tick
        BY <1>0
      <4> QED
        BY <1>0, <2>2, <4>1 DEF Unserved
    <3>2. Contents(ring')[p] # pid
      BY <1>02, <2>2, TurnTypes DEF Holds
    <3>3. s \in Decided /\ timeline[s] = Contents(ring')[p]
      BY <1>0, <2>2, <3>2
    <3>4. \A u \in (s + 1)..(tick - 1) : timeline[u] # Contents(ring')[p]
      <4>1. \A u \in (s + 1)..(tick - 1) : u \in (s + 1)..tick /\ u \in Decided
        BY <1>0, <3>3
      <4> QED
        BY <1>0, <3>1, <4>1
    <3>5. ASSUME NEW j \in Procs \ {Contents(ring')[p]}
          PROVE  /\ Ahead(j, p)' => RanSince(j, s)' = {}
                 /\ Cardinality(RanSince(j, s)')
                        <= IF j = running' THEN quantum' - SliceLeft' ELSE quantum'
                 /\ RanSince(j, s)' = {} /\ s..(Decisions' - 1) \subseteq Wanting(j)'
                        => Ahead(j, p)'
      <4>1. Ahead(j, p)' <=> \E k \in 1..(p - 1) : Contents(ring')[k] = j
        BY DEF Ahead
      <4>2. s..(Decisions' - 1) \subseteq Wanting(j)' => s..(tick - 1) \subseteq Wanting(j)
        <5>1. \A u \in s..(tick - 1) : u \in s..((tick + 1) - 1) /\ u # tick
          BY <1>0, <3>3
        <5>2. Wanting(j)' \subseteq Wanting(j) \cup {tick}
          BY <1>0, <3>5
        <5> QED
          BY <1>0, <5>1, <5>2
      <4>3. RanSince(j, s)' = {} <=> j # pid /\ RanSince(j, s) = {}
        BY <1>03, <3>3
      <4> QED
        BY <1>a, <1>02, <2>1, <2>2, <3>3, <3>4, <3>5, <4>1, <4>2, <4>3
    <3> QED
      BY <2>1, <3>5 DEF TurnsSince
  <2> QED
    BY <2>2 DEF Turns
<1>1. /\ quantum \in Nat /\ SliceLeft \in 0..quantum /\ SliceLeft' \in 0..quantum
      /\ j # IDLE /\ j \in Procs /\ j # Contents(ring')[p]
      /\ IsFiniteSet(RanSince(j, s)) /\ Cardinality(RanSince(j, s)) \in Nat
      /\ p \in Nat \ {0}
  BY <1>a, TurnTypes, RanSinceFinite
<1>2. Cardinality(RanSince(j, s)') = IF j = pid THEN Cardinality(RanSince(j, s)) + 1
                                     ELSE Cardinality(RanSince(j, s))
  <2>1. tick \notin RanSince(j, s)
    BY <1>0 DEF RanSince
  <2>2. Cardinality(RanSince(j, s) \cup {tick}) = Cardinality(RanSince(j, s)) + 1
    BY <1>1, <2>1, FS_AddElement
  <2> QED
    BY <1>a, <1>03, <2>2
<1>3. \A k \in 1..(p - 1) : k \in 1..ring'.count /\ Contents(ring')[k] # pid
  <2>1. \A k \in 1..(p - 1) : k \in 1..ring'.count
    BY <1>a, TurnTypes
  <2> QED
    BY <1>02, <2>1, TurnTypes DEF Holds
<1>4. CASE running # IDLE /\ pid = running /\ UNCHANGED <<ring, left>>
  <2>1. TurnsSince(p, s) /\ Contents(ring') = Contents(ring)
    BY <1>0, <1>a, <1>4 DEF Turns, Unserved
  <2>2. SliceLeft' = SliceLeft - 1
    <3>1. left \in Int
      BY DEF RrIInv, RrInv
    <3> QED
      BY <1>01, <1>02, <1>4, <3>1 DEF SliceLeft
  <2>3. /\ Ahead(j, p) => RanSince(j, s) = {}
        /\ Cardinality(RanSince(j, s)) <= IF j = running THEN quantum - SliceLeft ELSE quantum
        /\ RanSince(j, s) = {} /\ s..(tick - 1) \subseteq Wanting(j) => Ahead(j, p)
    BY <1>0, <1>1, <2>1 DEF TurnsSince
  <2>4. Cardinality(RanSince(j, s)') <= IF j = pid THEN quantum - SliceLeft' ELSE quantum
    BY <1>1, <1>2, <1>4, <2>2, <2>3
  <2> QED
    BY <1>3, <2>1, <2>3, <2>4 DEF Ahead
<1>5. CASE /\ running = IDLE /\ pid \in Alive /\ ring.count > 0
           /\ pid = Head(Contents(ring)) /\ Contents(ring') = Tail(Contents(ring))
           /\ left' = quantum
  <2>1. /\ p + 1 \in 1..ring.count
        /\ \A k \in 1..p : k + 1 \in 1..ring.count /\ Contents(ring')[k] = Contents(ring)[k + 1]
        /\ pid = Contents(ring)[1] /\ (p + 1) - 1 = p
    <3>1. /\ Contents(ring) \in Seq(Leftover \cup Procs) /\ Len(Contents(ring)) = ring.count
          /\ ring.count \in Nat /\ Contents(ring) # <<>>
          /\ ring'.count = Len(Tail(Contents(ring)))
      BY <1>5, TurnTypes
    <3>2. ring'.count = ring.count - 1 /\ p \in 1..(ring.count - 1)
      BY <1>a, <3>1
    <3>3. \A k \in 1..p : k + 1 \in 1..ring.count /\ k \in 1..(ring.count - 1)
      BY <3>1, <3>2
    <3>4. \A k \in 1..(ring.count - 1) : Tail(Contents(ring))[k] = Contents(ring)[k + 1]
      BY <3>1
    <3> QED
      BY <1>5, <3>1, <3>2, <3>3, <3>4
  <2>2. Contents(ring)[p + 1] = Contents(ring')[p]
    BY <1>1, <2>1
  <2>3. TurnsSince(p + 1, s)
    BY <1>0, <1>a, <2>1, <2>2 DEF Turns, Unserved
  <2>4. SliceLeft' = quantum - 1
    <3>1. running' # IDLE
      BY <1>02, <1>5, RrFacts
    <3> QED
      BY <1>01, <1>5, <3>1 DEF SliceLeft
  <2>5. /\ (\E k \in 1..p : Contents(ring)[k] = j) => RanSince(j, s) = {}
        /\ Cardinality(RanSince(j, s)) <= quantum
        /\ RanSince(j, s) = {} /\ s..(tick - 1) \subseteq Wanting(j)
               => \E k \in 1..p : Contents(ring)[k] = j
    BY <1>0, <1>1, <1>5, <2>1, <2>2, <2>3 DEF TurnsSince, Ahead
  <2>6. (\E k \in 1..(p - 1) : Contents(ring')[k] = j) => RanSince(j, s) = {}
    <3>1. \A k \in 1..(p - 1) : k + 1 \in 1..p /\ Contents(ring')[k] = Contents(ring)[k + 1]
      BY <1>1, <2>1
    <3> QED
      BY <2>5, <3>1
  <2>7. Cardinality(RanSince(j, s)') <= IF j = pid THEN quantum - SliceLeft' ELSE quantum
    <3>1. CASE j = pid
      <4>1. 1 \in 1..p /\ Contents(ring)[1] = j
        BY <1>1, <2>1, <3>1
      <4>2. Cardinality(RanSince(j, s)) = 0
        BY <2>5, <4>1, FS_EmptySet
      <4> QED
        BY <1>1, <1>2, <2>4, <3>1, <4>2
    <3>2. CASE j # pid
      BY <1>2, <2>5, <3>2
    <3> QED
      BY <3>1, <3>2
  <2>8. j # pid /\ RanSince(j, s) = {} /\ s..(tick - 1) \subseteq Wanting(j)
            => \E k \in 1..(p - 1) : Contents(ring')[k] = j
    <3> SUFFICES ASSUME j # pid, RanSince(j, s) = {}, s..(tick - 1) \subseteq Wanting(j)
                 PROVE  \E k \in 1..(p - 1) : Contents(ring')[k] = j
      OBVIOUS
    <3>1. PICK k \in 1..p : Contents(ring)[k] = j
      BY <2>5
    <3>2. k # 1
      BY <2>1, <3>1
    <3>3. k - 1 \in 1..(p - 1) /\ k - 1 \in 1..p /\ (k - 1) + 1 = k
      BY <1>1, <3>2
    <3>4. Contents(ring')[k - 1] = j
      BY <2>1, <3>1, <3>3
    <3> QED
      BY <3>3, <3>4
  <2> QED
    BY <1>3, <2>6, <2>7, <2>8
<1>6. CASE UNCHANGED ring /\ ring.count = 0
  BY <1>a, <1>6
<1> QED
  BY <1>01, <1>4, <1>5, <1>6, RrAnswers

LEMMA OneTurnEachStep ==
    ASSUME RrIInv, Turns, OneTurnEach, [RrNext]_RrVars
    PROVE  OneTurnEach'
<1>a. SUFFICES ASSUME NEW i \in Procs, NEW s \in Decided', NEW t \in Decided',
                      timeline'[s] = i, timeline'[t] = i, s + 1 < t,
                      \A u \in Between(s, t) : timeline'[u] # i,
                      NEW j \in Procs \ {i}
               PROVE  LET turn == {u \in Between(s, t) : timeline'[u] = j}
                      IN  /\ s..t \subseteq Wanting(j)' => turn # {}
                          /\ Cardinality(turn) <= quantum
  <2>1. Procs' = Procs /\ quantum' = quantum
    BY TurnTypes
  <2>2. ASSUME NEW i \in Procs', NEW s \in Decided', NEW t \in Decided',
               timeline'[s] = i /\ timeline'[t] = i, s + 1 < t,
               \A u \in Between(s, t) : timeline'[u] # i,
               NEW j \in Procs' \ {i}
        PROVE  LET turn == {u \in Between(s, t) : timeline'[u] = j}
               IN  /\ s..t \subseteq Wanting(j)' => turn # {}
                   /\ Cardinality(turn) <= quantum'
    BY <1>a, <2>1, <2>2
  <2> QED
    BY <2>2 DEF OneTurnEach
<1>0. quantum \in Nat /\ tick \in Nat /\ Decided = 0..(Decisions - 1) /\ Decisions \in Nat
  BY TurnTypes
<1> DEFINE turn == {u \in Between(s, t) : timeline'[u] = j}
           Goal == /\ s..t \subseteq Wanting(j)' => turn # {}
                   /\ Cardinality(turn) <= quantum
<1>1. ASSUME s \in Decided, t \in Decided, \A u \in Decided : timeline'[u] = timeline[u],
             Wanting(j)' \cap Decided \subseteq Wanting(j)
      PROVE  Goal
  <2>1. s..t \subseteq Decided /\ Between(s, t) \subseteq Decided
    BY <1>0, <1>1 DEF Between
  <2>2. turn = {u \in Between(s, t) : timeline[u] = j}
    BY <1>1, <2>1
  <2>3. /\ timeline[s] = i /\ timeline[t] = i /\ \A u \in Between(s, t) : timeline[u] # i
    BY <1>a, <1>1, <2>1
  <2>4. /\ s..t \subseteq Wanting(j) => turn # {}
        /\ Cardinality(turn) <= quantum
    <3>1. \A k \in Procs \ {i} :
             LET had == {u \in Between(s, t) : timeline[u] = k}
             IN  /\ s..t \subseteq Wanting(k) => had # {}
                 /\ Cardinality(had) <= quantum
      BY <1>a, <1>1, <2>3, Zenon DEF OneTurnEach
    <3> QED
      BY <1>a, <2>2, <3>1
  <2> QED
    BY <1>1, <2>1, <2>4
<1>2. CASE LoopTest \/ (\E k \in Procs : Admit(k)) \/ Execute \/ EndTick \/ UNCHANGED vars
  <2>1. timeline' = timeline /\ Decided' = Decided /\ Wanting(j)' = Wanting(j)
    BY <1>a, <1>2, DecisionKept DEF RrIInv
  <2> QED
    BY <1>a, <1>1, <2>1
<1>3. ASSUME NEW pid \in AllowedAnswers, rr_pick_next(pid), Pick(pid)
      PROVE  Goal
  <2>1. /\ Decisions = tick /\ Decided' = Decided \cup {tick} /\ tick \notin Decided
        /\ timeline'[tick] = pid /\ \A u \in Decided : timeline'[u] = timeline[u]
        /\ Wanting(j)' = Wanting(j) \cup {u \in {tick} : j \in Alive}
    BY <1>a, <1>3, DecisionMade DEF RrIInv
  <2>2. CASE t \in Decided
    <3>1. s \in Decided
      BY <1>0, <1>a, <2>1, <2>2
    <3> QED
      BY <1>1, <2>1, <2>2, <3>1
  <2>3. CASE t = tick
    <3>1. s \in Decided /\ s \in Nat /\ s + 1 < tick /\ i = pid /\ i # IDLE
      BY <1>0, <1>a, <2>1, <2>3, TurnTypes
    <3>2. /\ Between(s, t) = (s + 1)..(tick - 1)
          /\ \A u \in Between(s, t) : u \in Decided /\ s < u /\ timeline'[u] = timeline[u]
      BY <1>0, <2>1, <2>3, <3>1 DEF Between
    <3>3. turn = RanSince(j, s)
      <4>1. \A u \in Decided : s < u => u \in Between(s, t)
        BY <1>0, <2>1, <3>1, <3>2
      <4> QED
        BY <3>2, <4>1 DEF RanSince
    <3>4. phase = "admit" /\ AllAdmitted
      BY <1>3 DEF Pick
    <3>5. running = IDLE /\ ring.count > 0 /\ pid = Head(Contents(ring))
      <4>1. running # pid
        <5> SUFFICES ASSUME running = pid PROVE FALSE
          OBVIOUS
        <5>1. running = current /\ tick # 0
          BY <1>0, <3>1, <3>4 DEF RrIInv, RrInv
        <5>2. timeline[tick - 1] = pid
          BY <5>1 DEF RrIInv, MetricsInv, TypeInv, PhaseInv
        <5>3. tick - 1 \in Between(s, t)
          BY <1>0, <3>1, <3>2
        <5> QED
          BY <1>a, <3>1, <3>2, <5>2, <5>3
      <4> QED
        BY <1>3, <3>1, <3>4, <4>1, RrAnswers
    <3>6. 1 \in 1..ring.count /\ Contents(ring)[1] = i
      BY <3>1, <3>5, TurnTypes
    <3>7. timeline[s] = i /\ Unserved(i, s + 1)
      BY <1>a, <2>1, <3>1, <3>2 DEF Unserved
    <3>8. TurnsSince(1, s)
      BY <3>1, <3>6, <3>7 DEF Turns
    <3>9. j # running /\ j \in Procs \ {Contents(ring)[1]}
      BY <1>a, <3>5, <3>6, TurnTypes
    <3>10. Cardinality(RanSince(j, s)) <= quantum
      BY <3>8, <3>9 DEF TurnsSince
    <3>11. s..(Decisions - 1) \subseteq Wanting(j) => RanSince(j, s) # {}
      <4>1. ~ Ahead(j, 1)
        BY DEF Ahead
      <4> QED
        BY <3>8, <3>9, <4>1 DEF TurnsSince
    <3>12. s..t \subseteq Wanting(j)' => s..(Decisions - 1) \subseteq Wanting(j)
      <4>1. \A u \in s..(Decisions - 1) : u \in s..t /\ u # tick
        BY <1>0, <2>1, <2>3, <3>1
      <4> QED
        BY <2>1, <4>1
    <3> QED
      BY <3>3, <3>10, <3>11, <3>12
  <2> QED
    BY <1>a, <2>1, <2>2, <2>3
<1>4. Goal
  BY <1>2, <1>3, RrSteps
<1> QED
  BY <1>4

\* rr.c: between two turns of a process everyone who wanted the CPU all along
\* has run, who arrived at the very tick at which the slice expired included,
\* and nobody for more than a quantum.
THEOREM OneTurnEachCorrect == RrSafety => []OneTurnEach
<1> DEFINE I == RrIInv /\ Turns /\ OneTurnEach
<1>1. RrInit => I
  <2> SUFFICES ASSUME RrInit PROVE I
    OBVIOUS
  <2>1. RrIInv
    BY RrInvInit
  <2>2. ring.count = 0 /\ Decided = {}
    BY DEF RrInit, rr_init, EmptyRings, Init, Decided
  <2> QED
    BY <2>1, <2>2 DEF Turns, OneTurnEach
<1>2. I /\ [RrNext]_RrVars => I'
  <2> SUFFICES ASSUME I, [RrNext]_RrVars PROVE I'
    OBVIOUS
  <2>1. RrIInv'
    BY RrInvStep
  <2>2. Turns'
    BY TurnsKept, TurnsPicked, RrSteps
  <2>3. OneTurnEach'
    BY OneTurnEachStep
  <2> QED
    BY <2>1, <2>2, <2>3
<1> QED
  BY <1>1, <1>2, PTL DEF RrSafety

-----------------------------------------------------------------------------
\* A quantum no burst exceeds is never used up: the slice that is left covers
\* what remains, so nobody goes back to the ring, and arrivals enter it in the
\* order of the table.
LargeQuantum == \A i \in Procs : trace[i].burst <= quantum

RowsInOrder ==
    /\ \A j, k \in 1..ring.count : j < k => Contents(ring)[j] < Contents(ring)[k]
    /\ running # IDLE =>
           /\ \A k \in 1..ring.count : running < Contents(ring)[k]
           /\ remaining[running] <= IF phase = "tick_end" THEN left - 1 ELSE left

LEMMA RowsInOrderStep ==
    ASSUME RrIInv, LargeQuantum, RowsInOrder, [RrNext]_RrVars
    PROVE  RowsInOrder'
<1> DEFINE C == Contents(ring)
           n == ring.count
<1>1. /\ RrIInv' /\ [WCNext]_vars /\ trace' = trace /\ Procs' = Procs /\ quantum' = quantum
  BY RrSteps
<1>2. /\ n \in Nat /\ Len(C) = n /\ C \in Seq(Leftover \cup Procs)
      /\ Procs = 1..Len(trace) /\ Len(trace) \in Nat /\ Alive \subseteq Procs
      /\ IDLE \notin Procs /\ left \in Int
      /\ remaining \in [Procs -> Nat]
      /\ \A k \in 1..n : C[k] \in Alive /\ C[k] # running
      /\ running # IDLE => running \in Alive /\ remaining[running] \in Nat \ {0}
  BY RrFacts DEF RrIInv, RrInv, TypeInv, TypeOK, Holds, Alive
<1>3. /\ \A j, k \in 1..n : j < k => C[j] < C[k]
      /\ running # IDLE => /\ \A k \in 1..n : running < C[k]
                           /\ remaining[running] <= IF phase = "tick_end" THEN left - 1 ELSE left
  BY DEF RowsInOrder
<1>4. ASSUME UNCHANGED <<ring, running, left, remaining>>,
             (phase' = "tick_end") <=> (phase = "tick_end")
      PROVE  RowsInOrder'
  BY <1>3, <1>4 DEF RowsInOrder
<1>5. ASSUME NEW i \in Procs, Admit(i), rr_on_arrival(i) PROVE RowsInOrder'
  <2>1. i \notin Alive
    BY <1>1, <1>5, AliveStep DEF RrIInv
  <2>2. ring.count < MaxProcesses /\ ring' = PushTail(ring, i) /\ ring \in Rings(Leftover \cup Procs)
    BY <1>5, <2>1, RingHasRoom DEF rr_on_arrival, RrIInv, RrInv
  <2>3. Contents(ring') = Append(C, i) /\ ring'.count = n + 1
    <3>1. Contents(ring') = Append(C, i)
      BY <2>2, PushTailAppends
    <3>2. ring'.count = n + 1
      BY <2>2 DEF PushTail, Rings
    <3> QED
      BY <3>1, <3>2
  <2> DEFINE D == Contents(ring')
  <2> HIDE DEF C, n, D
  <2>4. /\ \A k \in 1..n : D[k] = C[k] /\ C[k] < i
        /\ D[n + 1] = i
    <3>1. D = Append(C, i)
      BY <2>3 DEF D
    <3>2. \A k \in 1..n : C[k] < i
      BY <1>2, <1>5, ArrivesLast DEF RrIInv
    <3> DEFINE S == Leftover \cup Procs
    <3>3. C \in Seq(S) /\ Len(C) = n /\ n \in Nat
      BY <1>2
    <3> HIDE DEF S
    <3>4. /\ \A k \in 1..n : Append(C, i)[k] = C[k]
          /\ Append(C, i)[n + 1] = i
      BY <3>3
    <3> QED
      BY <3>1, <3>2, <3>4
  <2>5. running # IDLE => running < i
    BY <1>2, <1>5, ArrivesLast DEF RrIInv
  <2>6. UNCHANGED <<running, left, remaining, phase>>
    BY <1>5 DEF rr_on_arrival, Admit, table
  <2>7. ASSUME NEW j \in 1..(n + 1), NEW k \in 1..(n + 1), j < k PROVE D[j] < D[k]
    <3>1. j \in 1..n /\ (k \in 1..n \/ k = n + 1)
      BY <1>2, <2>7
    <3>2. CASE k \in 1..n
      BY <1>3, <2>4, <2>7, <3>1, <3>2
    <3>3. CASE k = n + 1
      BY <2>4, <3>1, <3>3
    <3> QED
      BY <3>1, <3>2, <3>3
  <2>8. ASSUME running # IDLE, NEW k \in 1..(n + 1) PROVE running < D[k]
    <3>1. k \in 1..n \/ k = n + 1
      BY <1>2
    <3> QED
      BY <1>3, <2>4, <2>5, <2>8, <3>1
  <2> QED
    BY <1>3, <2>3, <2>6, <2>7, <2>8 DEF RowsInOrder, D
<1>6. ASSUME NEW pid \in Answers, rr_pick_next(pid), Pick(pid) PROVE RowsInOrder'
  <2>1. /\ phase = "admit" /\ AllAdmitted /\ remaining' = remaining
        /\ phase' = IF pid = IDLE THEN "tick_end"
                    ELSE IF pid \in Ready THEN "execute" ELSE "error"
    BY <1>6 DEF Pick, table
  <2>2. /\ pid \in AllowedAnswers /\ running' = pid
        /\ \/ running # IDLE /\ pid = running /\ UNCHANGED <<ring, left>>
           \/ /\ running = IDLE /\ pid \in Alive /\ ring.count > 0
              /\ pid = Head(C) /\ Contents(ring') = Tail(C)
              /\ ring' \in Rings(Leftover \cup Procs)
              /\ left' = quantum
           \/ running = IDLE /\ pid = IDLE /\ UNCHANGED <<ring, left>>
    BY <1>6, <2>1, RrAnswers
  <2>3. CASE running # IDLE /\ pid = running /\ UNCHANGED <<ring, left>>
    BY <1>3, <2>1, <2>2, <2>3 DEF RowsInOrder
  <2>4. CASE /\ running = IDLE /\ pid \in Alive /\ ring.count > 0
             /\ pid = Head(C) /\ Contents(ring') = Tail(C)
             /\ ring' \in Rings(Leftover \cup Procs)
             /\ left' = quantum
    <3>1. ring'.count = n - 1 /\ \A k \in 1..(n - 1) : Contents(ring')[k] = C[k + 1]
      <4>1. Len(Contents(ring')) = ring'.count
        BY <2>4, ContentsType
      <4> QED
        BY <1>2, <2>4, <4>1
    <3>2. pid = C[1]
      BY <1>2, <2>4
    <3>3. remaining[pid] <= quantum
      <4>1. pid \in Procs /\ remaining[pid] <= trace[pid].burst /\ trace[pid].burst <= quantum
        BY <1>2, <2>4 DEF RrIInv, MetricsInv, WorkInv, LargeQuantum
      <4>2. trace[pid].burst \in Nat /\ remaining[pid] \in Nat /\ quantum \in Nat
        BY <1>2, <4>1, RowTypes DEF RrIInv, RrInv, MetricsInv, TypeInv, TypeOK, Procs
      <4> QED
        BY <4>1, <4>2
    <3> DEFINE D == Contents(ring')
    <3> HIDE DEF C, n, D
    <3>7. \A k \in 1..(n - 1) : D[k] = C[k + 1] /\ k + 1 \in 1..n /\ 1 < k + 1
      BY <1>2, <3>1 DEF D
    <3>8. 1 \in 1..n
      BY <1>2, <2>4 DEF n
    <3>4. \A j, k \in 1..(n - 1) : j < k => D[j] < D[k]
      BY <1>2, <1>3, <3>7
    <3>5. \A k \in 1..(n - 1) : pid < D[k]
      BY <1>3, <3>2, <3>7, <3>8
    <3>6. phase' # "tick_end"
      BY <1>2, <2>1, <2>4
    <3> QED
      BY <2>1, <2>2, <2>4, <3>1, <3>3, <3>4, <3>5, <3>6 DEF RowsInOrder, D
  <2>5. CASE running = IDLE /\ pid = IDLE /\ UNCHANGED <<ring, left>>
    BY <1>3, <2>2, <2>5 DEF RowsInOrder
  <2> QED
    BY <2>2, <2>3, <2>4, <2>5
<1>7. CASE Execute /\ (IF Finishing THEN rr_on_complete ELSE UNCHANGED rr_state)
  <2>1. /\ phase = "execute" /\ phase' = "tick_end" /\ running = next /\ ring' = ring
        /\ remaining' = [remaining EXCEPT ![next] = @ - 1]
        /\ running' = IDLE \/ (running' = running /\ left' = left)
    BY <1>7 DEF Execute, rr_on_complete, rr_state, RrIInv, RrInv
  <2>2. next \in Procs /\ next # IDLE
    BY <1>2, <2>1, RrFacts DEF RrIInv, MetricsInv, TypeInv, PhaseInv, Ready
  <2>3. remaining'[next] = remaining[next] - 1 /\ remaining[next] \in Nat
    BY <1>2, <2>1, <2>2
  <2>4. remaining[next] <= left
    BY <1>3, <2>1, <2>2
  <2>5. running' # IDLE => remaining'[running'] <= left' - 1
    BY <1>2, <2>1, <2>3, <2>4
  <2> QED
    BY <1>3, <2>1, <2>5 DEF RowsInOrder
<1>8. CASE EndTick /\ rr_on_tick_end
  <2>1. phase = "tick_end" /\ phase' = "test" /\ remaining' = remaining
    BY <1>8 DEF EndTick, table
  <2>2. left' = IF next = IDLE THEN left ELSE left - 1
    BY <1>8 DEF rr_on_tick_end
  <2>3. ~ (next # IDLE /\ running # IDLE /\ left - 1 <= 0)
    BY <1>2, <1>3, <2>1
  <2>4. ring' = ring /\ running' = running
    BY <1>8, <2>3 DEF rr_on_tick_end
  <2>5. running # IDLE => remaining[running] <= left'
    BY <1>2, <1>3, <2>1, <2>2
  <2> QED
    BY <1>3, <2>1, <2>4, <2>5 DEF RowsInOrder
<1>9. CASE \/ LoopTest /\ UNCHANGED rr_state
           \/ Halt /\ UNCHANGED rr_state
           \/ UNCHANGED RrVars
  BY <1>4, <1>9 DEF LoopTest, Halt, RrVars, rr_state, vars, table
<1> QED
  BY <1>5, <1>6, <1>7, <1>8, <1>9 DEF RrNext

\* Whoever is picked is then the first row with work left.
LEMMA LargeTakesFirst ==
    ASSUME RrIInv, LargeQuantum, RowsInOrder, [RrNext]_RrVars
    PROVE  TakesFirst
<1> SUFFICES ASSUME NEW pid \in Procs, Pick(pid), NEW j \in 1..(pid - 1), remaining[j] # 0
             PROVE  FALSE
  BY DEF TakesFirst
<1>1. phase = "admit" /\ phase' # "admit" /\ next' = pid /\ AllAdmitted
  BY DEF Pick
<1>2. rr_pick_next(pid)
  BY <1>1 DEF RrNext, RrVars, vars, LoopTest, Admit, Pick, Execute, EndTick, Halt
<1>3. /\ trace \in Traces /\ Procs = 1..Len(trace) /\ Len(trace) \in Nat /\ tick \in Nat
      /\ IDLE \notin Procs /\ j \in Procs /\ j < pid /\ remaining[j] > 0
      /\ Alive = Ready
  <2>1. Procs = 1..Len(trace) /\ Len(trace) \in Nat /\ IDLE \notin Procs /\ tick \in Nat
    BY RrFacts
  <2>2. j \in Procs /\ j < pid
    BY <2>1
  <2>3. remaining[j] \in Nat /\ trace \in Traces
    BY <2>2 DEF RrIInv, MetricsInv, TypeInv, TypeOK
  <2> QED
    BY <1>1, <2>1, <2>2, <2>3, AliveIsReady, RrFacts
<1>4. pid \in Ready
  BY <1>1, <1>2, <1>3, RrAnswers DEF AllowedAnswers
<1>5. trace[j].arrival <= trace[pid].arrival /\ trace[pid].arrival <= tick
  BY <1>3, <1>4, EngineAssumption DEF IsTable, Procs, Ready
<1>6. j \in Alive
  BY <1>3, <1>5, RowTypes DEF Ready, Procs
<1>7. RowsInOrder' /\ RrIInv' /\ Alive' = Alive /\ running' = pid
  <2>1. [WCNext]_vars
    BY RrSteps
  <2>2. remaining' = remaining /\ tick' = tick /\ trace' = trace
    BY DEF Pick, table
  <2>3. phase' = "execute"
    BY <1>3, <1>4 DEF Pick
  <2>4. Alive' = Alive
    <3>1. Procs' = Procs
      BY <2>2 DEF Procs
    <3>2. Alive' = {i \in Procs : (trace[i].arrival < tick \/ trace[i].arrival = tick) /\ remaining[i] > 0}
      BY <2>2, <2>3, <3>1 DEF Alive, Admitted
    <3>3. Alive = {i \in Procs : trace[i].arrival <= tick /\ remaining[i] > 0}
      BY <1>3 DEF Ready
    <3>4. \A i \in Procs : trace[i].arrival \in Nat
      BY <1>3, RowTypes DEF Procs
    <3> QED
      BY <1>3, <3>2, <3>3, <3>4
  <2> QED
    BY <1>1, <1>2, <2>4, RowsInOrderStep, RrSteps, RrAnswers
<1>8. \E k \in DOMAIN Contents(ring') : Contents(ring')[k] = j
  BY <1>3, <1>6, <1>7 DEF RrIInv, RrInv, Holds
<1>9. DOMAIN Contents(ring') = 1..ring'.count
  BY DEF Contents
<1> QED
  BY <1>3, <1>7, <1>8, <1>9 DEF RowsInOrder

\* SPEC.md cross-check: with a quantum at least as large as the longest burst
\* Round Robin runs the table as FCFS does, in the closed form of both.
THEOREM LargeQuantumIsFcfsCorrect == RrSafety => []LargeQuantumIsFcfs
<1> DEFINE I == RrIInv /\ (LargeQuantum => RowsInOrder /\ TableOrderInv)
<1>1. RrInit => I
  <2> SUFFICES ASSUME RrInit PROVE I
    OBVIOUS
  <2>1. RrIInv
    BY RrInvInit
  <2>2. ring.count = 0 /\ running = IDLE /\ Init
    BY DEF RrInit, rr_init, EmptyRings
  <2> QED
    BY <2>1, <2>2, TableOrderInit DEF RowsInOrder
<1>2. I /\ [RrNext]_RrVars => I'
  <2> SUFFICES ASSUME I, [RrNext]_RrVars PROVE I'
    OBVIOUS
  <2>1. RrIInv' /\ [WCNext]_vars /\ (LargeQuantum' <=> LargeQuantum)
    BY RrSteps DEF LargeQuantum
  <2>2. ASSUME LargeQuantum PROVE RowsInOrder' /\ TableOrderInv'
    BY <2>1, <2>2, RowsInOrderStep, LargeTakesFirst, TableOrderStep DEF RrIInv
  <2> QED
    BY <2>1, <2>2
<1>3. I => LargeQuantumIsFcfs
  BY DEF LargeQuantum, LargeQuantumIsFcfs, TableOrderInv
<1> QED
  BY <1>1, <1>2, <1>3, PTL DEF RrSafety

-----------------------------------------------------------------------------
\* The engine under the abstract specification is the same engine.
LEMMA SameEngine ==
    /\ Abstract!Init <=> Init
    /\ Abstract!Procs = Procs /\ Abstract!Answers = Answers
    /\ Abstract!LoopTest <=> LoopTest
    /\ \A i : Abstract!Admit(i) <=> Admit(i)
    /\ \A pid : Abstract!Pick(pid) <=> Pick(pid)
    /\ Abstract!Execute <=> Execute
    /\ Abstract!Finishing <=> Finishing
    /\ Abstract!EndTick <=> EndTick
    /\ Abstract!Halt <=> Halt
    /\ Abstract!vars = vars
<1>1. /\ Abstract!table = table /\ Abstract!result = result /\ Abstract!IDLE = IDLE
      /\ Abstract!Procs = Procs /\ Abstract!NOT_STARTED = NOT_STARTED
      /\ Abstract!Ticks = Ticks /\ Abstract!UnknownPid = UnknownPid
  BY DEF Abstract!table, table, Abstract!result, result, Abstract!IDLE, IDLE,
         Abstract!Procs, Procs, Abstract!NOT_STARTED, NOT_STARTED, Abstract!Ticks, Ticks,
         Abstract!UnknownPid, UnknownPid
<1>2. Abstract!vars = vars /\ Abstract!Answers = Answers
  BY <1>1 DEF Abstract!vars, vars, Abstract!Answers, Answers
<1>3. Abstract!Init <=> Init
  BY <1>1 DEF Abstract!Init, Init
<1>4. Abstract!LoopTest <=> LoopTest
  BY DEF Abstract!LoopTest, LoopTest, Abstract!CapReached, CapReached,
         Abstract!table, table, Abstract!result, result
<1>5. \A i : Abstract!Admit(i) <=> Admit(i)
  BY <1>1 DEF Abstract!Admit, Admit, Abstract!table, table, Abstract!result, result
<1>6. \A pid : Abstract!Pick(pid) <=> Pick(pid)
  <2>1. \A pid : Abstract!IsSwitch(pid) <=> IsSwitch(pid)
    BY <1>1 DEF Abstract!IsSwitch, IsSwitch
  <2>2. Abstract!Ready = Ready /\ Abstract!AllAdmitted = AllAdmitted
    BY <1>1 DEF Abstract!Ready, Ready, Abstract!AllAdmitted, AllAdmitted
  <2> QED
    BY <1>1, <2>1, <2>2 DEF Abstract!Pick, Pick, Abstract!table, table
<1>7. (Abstract!Finishing <=> Finishing) /\ (Abstract!Execute <=> Execute)
  BY <1>1 DEF Abstract!Execute, Execute, Abstract!Finishing, Finishing,
     Abstract!FirstDispatch, FirstDispatch, Abstract!StampOf, StampOf, Abstract!result, result
<1>8. Abstract!EndTick <=> EndTick
  BY DEF Abstract!EndTick, EndTick, Abstract!table, table, Abstract!result, result
<1>9. Abstract!Halt <=> Halt
  BY DEF Abstract!Halt, Halt, Abstract!Returned, Returned, Abstract!vars, vars,
     Abstract!table, table, Abstract!result, result
<1> QED
  BY <1>1, <1>2, <1>3, <1>4, <1>5, <1>6, <1>7, <1>8, <1>9

LEMMA OneLevel ==
    ASSUME InOrder # <<>>, NEW i, \E k \in DOMAIN InOrder : InOrder[k] = i
    PROVE  Abstract!LevelOf(i) = 0
<1>1. Abstract!Occupied = {0}
  BY DEF Abstract!Occupied
<1>2. i \in Abstract!Members(0)
  BY DEF Abstract!Members
<1> QED
  BY <1>1, <1>2 DEF Abstract!LevelOf

LEMMA FrontIs ==
    ASSUME NEW Q, NEW q, Q = [lv \in {0} |-> q]
    PROVE  Abstract!FrontOf(Q) = IF q = <<>> THEN IDLE ELSE Head(q)
<1>1. {lv \in DOMAIN Q : Q[lv] # <<>>} = IF q = <<>> THEN {} ELSE {0}
  OBVIOUS
<1>2. Abstract!Min({0}) = 0
  BY DEF Abstract!Min
<1>3. Abstract!IDLE = IDLE
  BY DEF Abstract!IDLE, IDLE
<1> QED
  BY <1>1, <1>2, <1>3 DEF Abstract!FrontOf

\* Those in the ring are those that are alive and not on the CPU.
LEMMA RestIs ==
    ASSUME RrInv
    PROVE  \A i : RestOf(i) = IF i = running THEN left ELSE IF i \in Alive THEN quantum ELSE 0
<1>1. \A i : i # running => (i \in Alive <=> i \in Range(Contents(ring)))
  BY DEF RrInv, Holds, Range
<1> QED
  BY <1>1 DEF RestOf

LEMMA RunnerInFront ==
    ASSUME RrIInv, running # IDLE
    PROVE  /\ InOrder # <<>> /\ Head(InOrder) = running /\ Tail(InOrder) = Contents(ring)
           /\ Abstract!LevelOf(running) = 0
<1>1. InOrder = <<running>> \o Contents(ring)
  BY DEF InOrder
<1>2. /\ InOrder # <<>> /\ Head(InOrder) = running /\ Tail(InOrder) = Contents(ring)
      /\ 1 \in DOMAIN InOrder /\ InOrder[1] = running
  BY <1>1, RrFacts, InFront
<1> QED
  BY <1>2, OneLevel

LEMMA RrStepIsQueueStep ==
    ASSUME RrIInv, RrNext
    PROVE  Abstract!QueueNext
<1>0. /\ Procs' = Procs /\ RrIInv' /\ quantum' = quantum /\ IDLE \notin Procs
      /\ \A i : RestOf(i) = IF i = running THEN left ELSE IF i \in Alive THEN quantum ELSE 0
      /\ \A i : (RestOf(i))' = IF i = running' THEN left'
                               ELSE IF i \in Alive' THEN quantum ELSE 0
  <2>1. Procs' = Procs /\ RrIInv' /\ IDLE \notin Procs
    BY RrNextIsWCNext, WCNextIsNext, TraceStep, RrInvStep, RrFacts DEF RrIInv, MetricsInv, Procs
  <2>2. quantum' = quantum
    BY DEF RrNext, rr_state, rr_on_arrival, rr_pick_next, rr_on_complete, rr_on_tick_end
  <2>3. RrInv /\ RrInv'
    BY <2>1 DEF RrIInv
  <2>4. \A i : (RestOf(i))' = IF i = running' THEN left' ELSE IF i \in Alive' THEN quantum' ELSE 0
    <3>1. \A i : i # running' => (i \in Alive' <=> i \in Range(Contents(ring')))
      BY <2>3 DEF RrInv, Holds, Range
    <3> QED
      BY <3>1 DEF RestOf
  <2> QED
    BY <2>1, <2>2, <2>3, <2>4, RestIs
<1>1. /\ \A i \in Procs : Admit(i) => i \notin Alive /\ Alive' = Alive \cup {i}
      /\ Execute => /\ next \in Alive
                    /\ Alive' = IF remaining[next] = 1 THEN Alive \ {next} ELSE Alive
      /\ Execute \/ (\E i \in Procs : Admit(i)) \/ Alive' = Alive
  BY RrNextIsWCNext, AliveStep DEF RrIInv
<1>2. UNCHANGED <<ring, running>> => InOrder' = InOrder
  BY DEF InOrder
<1>3. ASSUME UNCHANGED <<ring, running, left>>, Alive' = Alive PROVE UNCHANGED Abstract!lines
  <2>1. InOrder' = InOrder /\ \A i : (RestOf(i))' = RestOf(i)
    BY <1>0, <1>2, <1>3
  <2> QED
    BY <1>0, <2>1 DEF Abstract!lines
<1>4. CASE (LoopTest \/ Halt) /\ UNCHANGED rr_state
  <2>1. Alive' = Alive
    BY <1>1, <1>4 DEF LoopTest, Halt, Returned, Admit, Execute
  <2> QED
    BY <1>3, <1>4, <2>1, SameEngine DEF Abstract!QueueNext, rr_state
<1>5. ASSUME NEW i \in Procs, Admit(i), rr_on_arrival(i) PROVE Abstract!QueueNext
  <2>1. InOrder' = Append(InOrder, i)
    <3>1. Contents(ring') = Append(Contents(ring), i) /\ running' = running
      BY <1>1, <1>5, RingHasRoom, PushTailAppends DEF rr_on_arrival, RrIInv, RrInv
    <3> QED
      BY <3>1, RrFacts, InFront DEF InOrder
  <2>2. (RestOf(i))' = quantum /\ \A j : j # i => (RestOf(j))' = RestOf(j)
    BY <1>0, <1>1, <1>5 DEF rr_on_arrival, RrIInv, RrInv
  <2>3. Abstract!Arrive(i)
    BY <1>0, <1>5, <2>1, <2>2 DEF Abstract!Arrive, TopLevel
  <2> QED
    BY <1>5, <2>3, SameEngine DEF Abstract!QueueNext
<1>6. ASSUME NEW pid \in Answers, rr_pick_next(pid), Pick(pid) PROVE Abstract!QueueNext
  <2>1. /\ phase = "admit" /\ AllAdmitted /\ Alive' = Alive
    BY <1>1, <1>6 DEF Pick, Admit, Execute
  <2>2. /\ InOrder' = InOrder /\ pid = IF InOrder' = <<>> THEN IDLE ELSE Head(InOrder')
        /\ \A i \in Procs : (RestOf(i))' = RestOf(i)
    <3>1. CASE running # IDLE /\ pid = running /\ running' = pid /\ UNCHANGED <<ring, left>>
      BY <1>0, <1>2, <2>1, <3>1, RunnerInFront
    <3>2. CASE /\ running = IDLE /\ pid \in Alive /\ ring.count > 0 /\ running' = pid
               /\ pid = Head(Contents(ring)) /\ Contents(ring') = Tail(Contents(ring))
               /\ left' = quantum
      <4>1. Contents(ring) # <<>> /\ pid # IDLE
        BY <3>2, RrFacts
      <4>2. InOrder = Contents(ring) /\ InOrder' = Contents(ring)
        BY <3>2, <4>1, RrFacts, InFront DEF InOrder
      <4> QED
        BY <1>0, <2>1, <3>2, <4>1, <4>2
    <3>3. CASE running = IDLE /\ pid = IDLE /\ running' = pid /\ Alive = {}
               /\ UNCHANGED <<ring, left>> /\ ring.count = 0
      <4>1. InOrder = <<>>
        BY <3>3, RrFacts DEF InOrder
      <4> QED
        BY <1>0, <1>2, <2>1, <3>3, <4>1
    <3> QED
      BY <1>6, <2>1, <3>1, <3>2, <3>3, RrAnswers
  <2>3. \A Q : Q = [lv \in {0} |-> InOrder'] => pid = Abstract!FrontOf(Q)
    BY <2>2, FrontIs
  <2>4. Abstract!Choose(pid)
    BY <1>0, <2>2, <2>3 DEF Abstract!Choose, Abstract!BoostDue, Abstract!lines
  <2> QED
    BY <1>6, <2>4, SameEngine DEF Abstract!QueueNext
<1>7. CASE Execute /\ (IF Finishing THEN rr_on_complete ELSE UNCHANGED rr_state)
  <2>1. /\ running = next /\ running # IDLE /\ next \in Procs
        /\ Alive' = IF remaining[next] = 1 THEN Alive \ {next} ELSE Alive
    BY <1>1, <1>7, RrFacts DEF Execute, RrIInv, RrInv
  <2>2. CASE ~ Finishing
    BY <1>3, <1>7, <2>1, <2>2, SameEngine DEF Abstract!QueueNext, Finishing, rr_state
  <2>3. CASE Finishing
    <3>1. running' = IDLE /\ ring' = ring
      BY <1>7, <2>3 DEF rr_on_complete
    <3>2. InOrder' = Tail(InOrder) /\ Abstract!LevelOf(next) = 0
      BY <2>1, <3>1, RunnerInFront DEF InOrder
    <3>3. \A i \in Procs : (RestOf(i))' = IF i = next THEN 0 ELSE RestOf(i)
      BY <1>0, <2>1, <2>3, <3>1 DEF Finishing
    <3>4. Abstract!Leave
      BY <1>0, <2>1, <3>2, <3>3 DEF Abstract!Leave
    <3> QED
      BY <1>7, <2>3, <3>4, SameEngine DEF Abstract!QueueNext
  <2> QED
    BY <2>2, <2>3
<1>8. CASE EndTick /\ rr_on_tick_end
  <2>1. /\ Alive' = Alive /\ phase = "tick_end"
        /\ running = IF next # IDLE /\ remaining[next] > 0 THEN next ELSE IDLE
        /\ quantum \in Nat \ {0} /\ left \in Int /\ (running # IDLE => left \in 1..quantum)
    BY <1>1, <1>8 DEF EndTick, Admit, Execute, RrIInv, RrInv
  <2>2. CASE running = IDLE
    <3>1. InOrder' = InOrder /\ \A i \in Procs : (RestOf(i))' = RestOf(i)
      BY <1>0, <1>2, <1>8, <2>1, <2>2 DEF rr_on_tick_end
    <3>2. next = IDLE \/ remaining[next] = 0
      BY <1>8, <2>1, <2>2, RrFacts DEF EndTick, TypeInv, TypeOK, PhaseInv
    <3>3. Abstract!Spend
      BY <1>0, <3>1, <3>2 DEF Abstract!Spend, Abstract!lines, Abstract!IDLE, IDLE
    <3> QED
      BY <1>8, <3>3, SameEngine DEF Abstract!QueueNext
  <2>3. CASE running # IDLE
    <3>1. running = next /\ remaining[next] # 0 /\ next # IDLE /\ Abstract!LevelOf(next) = 0
          /\ next \in Procs
      BY <2>1, <2>3, RunnerInFront, RrFacts DEF RrIInv, RrInv
    <3>2. CASE left > 1
      <4>1. InOrder' = InOrder /\ left' = left - 1 /\ running' = running
        BY <1>2, <1>8, <2>1, <3>1, <3>2 DEF rr_on_tick_end
      <4>2. /\ RestOf(next) = left
            /\ \A i \in Procs : (RestOf(i))' = IF i = next THEN left - 1 ELSE RestOf(i)
        BY <1>0, <2>1, <3>1, <4>1
      <4>3. Abstract!Spend
        BY <1>0, <2>1, <3>1, <3>2, <4>1, <4>2 DEF Abstract!Spend, Abstract!IDLE, IDLE
      <4> QED
        BY <1>8, <4>3, SameEngine DEF Abstract!QueueNext
    <3>3. CASE ~ left > 1
      <4>1. ring' = PushTail(ring, next) /\ running' = IDLE
        BY <1>8, <2>1, <3>1, <3>3 DEF rr_on_tick_end
      <4>2. Contents(ring') = Append(Contents(ring), next)
        BY <3>1, <4>1, RingHasRoom, PushTailAppends DEF RrIInv, RrInv
      <4>3. InOrder' = Append(Tail(InOrder), next)
        BY <2>3, <4>1, <4>2, RunnerInFront DEF InOrder
      <4>4. /\ RestOf(next) = left
            /\ \A i \in Procs : (RestOf(i))' = IF i = next THEN quantum ELSE RestOf(i)
        BY <1>0, <2>1, <2>3, <3>1, <4>1 DEF RrIInv, RrInv
      <4>5. Abstract!Spend
        BY <1>0, <2>1, <3>1, <3>3, <4>3, <4>4 DEF Abstract!Spend, Abstract!IDLE, IDLE, SameLevel
      <4> QED
        BY <1>8, <4>5, SameEngine DEF Abstract!QueueNext
    <3> QED
      BY <3>2, <3>3
  <2> QED
    BY <2>2, <2>3
<1> QED
  BY <1>4, <1>5, <1>6, <1>7, <1>8 DEF RrNext

\* rr.c implements the abstract queues, fairness apart: one line in which a
\* slice is whole when it begins, an expired process goes behind everyone that
\* has arrived, that tick included, and the one that runs keeps its place.
THEOREM RrImplementsQueues == RrSafety => Abstract!QueueSafety
<1>1. RrInit => Abstract!QueueInit
  <2> SUFFICES ASSUME RrInit PROVE Abstract!QueueInit
    OBVIOUS
  <2>1. InOrder = <<>> /\ quantum \in Quanta
    BY EmptyContents DEF RrInit, rr_init, InOrder
  <2>2. \A i \in Procs : RestOf(i) = 0
    <3>1. Alive = {} /\ running = IDLE /\ IDLE \notin Procs
      <4>1. \A i \in Procs : trace[i].arrival \in Nat
        BY RowTypes DEF RrInit, Init, Procs
      <4> QED
        BY <4>1, ProcsArePositive DEF RrInit, rr_init, Init, Alive, Admitted
    <3>2. RrInv
      BY RrInvInit DEF RrIInv
    <3> QED
      BY <3>1, <3>2, RestIs
  <2> QED
    BY <2>1, <2>2, SameEngine DEF RrInit, Abstract!QueueInit
<1>2. RrIInv /\ [RrNext]_RrVars => [Abstract!QueueNext]_(Abstract!QueueVars)
  <2>1. UNCHANGED RrVars => UNCHANGED Abstract!QueueVars
    BY DEF RrVars, rr_state, vars, table, Procs, InOrder, RestOf, Abstract!QueueVars,
       Abstract!vars, Abstract!table, Abstract!result, result, Abstract!lines
  <2> QED
    BY <2>1, RrStepIsQueueStep
<1> QED
  BY <1>1, <1>2, RrIInvAlways, PTL DEF RrSafety, Abstract!QueueSafety

=============================================================================
