------------------------------ MODULE MlqProofs ------------------------------
(***************************************************************************)
(* MLQ implements the contract and the abstract queues, none of its rings  *)
(* is full when a process is pushed, higher queues win outright, within a  *)
(* round-robin level nobody begins another slice before everyone else      *)
(* there has run, and with everyone in one queue it is that queue's line,  *)
(* for every set of tables and all quanta of the levels.                   *)
(***************************************************************************)
EXTENDS Mlq, EngineProofs

MlqStates ==
    [queue : [Levels -> Rings(Leftover \cup Procs)], saved : [Levels -> Nat],
     running : Procs \cup {IDLE}, level : Levels \cup {NO_LEVEL}, left : Nat]

At(A, lv) == {i \in A : Level(i) = lv}

\* The rings hold the members of A but for the running process, each of them
\* once and at its own level.
RingsHold(s, A) ==
    /\ s \in MlqStates
    /\ \A lv \in Levels : Holds(Contents(s.queue[lv]), At(A, lv), s.running)

\* The process on the CPU is alive and has some of its slice left, if its
\* level gives slices; the others that are alive are in the rings.
MlqInv ==
    /\ RingsHold(mlq, Alive)
    /\ mlq.running # IDLE => /\ mlq.running \in Alive
                             /\ mlq.level = Level(mlq.running)
                             /\ LevelQuantum[mlq.level] > 0 => mlq.left > 0
    /\ Len(trace) <= MaxProcesses
    /\ phase \in {"test", "admit"} /\ mlq.running # IDLE => mlq.running = current
    /\ phase = "execute" => mlq.running = next
    /\ phase = "tick_end" =>
           mlq.running = IF next # IDLE /\ remaining[next] > 0 THEN next ELSE IDLE

MlqIInv == MetricsInv /\ MlqInv

LEMMA LevelTypes ==
    ASSUME TypeInv
    PROVE  /\ \A i \in Procs : Level(i) \in Levels
           /\ LevelQuantum \in [Levels -> Nat]
           /\ Alive \subseteq Procs /\ IDLE \notin Procs
           /\ Len(trace) \in Nat /\ Procs = 1..Len(trace)
<1>1. trace \in Traces
  BY DEF TypeInv, TypeOK
<1>2. trace \in Seq(Row)
  BY <1>1, EngineAssumption DEF IsTable
<1>3. \A i \in Procs : trace[i] \in Row
  BY <1>2 DEF Procs
<1>4. \A r \in Row : r.queue \in 0..2
  BY DEF Row
<1>5. Len(trace) \in Nat /\ Procs = 1..Len(trace)
  BY <1>1, RowTypes DEF Procs
<1> QED
  BY <1>1, <1>3, <1>4, <1>5, MlqAssumption, ProcsArePositive DEF Level, Levels, Alive, Admitted

\* Who is queued does not depend on who runs elsewhere.
LEMMA HoldsElsewhere ==
    ASSUME NEW q, NEW A, NEW r, NEW x, Holds(q, A, r), r \notin A, x \notin A
    PROVE  Holds(q, A, x)
BY DEF Holds

\* A ring that is to take a process it does not hold has a slot for it.
LEMMA LevelHasRoom ==
    ASSUME TypeInv, Len(trace) <= MaxProcesses, NEW s, NEW A, A \subseteq Procs, RingsHold(s, A),
           NEW i \in Procs, i \notin A \/ i = s.running, NEW lv \in Levels
    PROVE  s.queue[lv].count < MaxProcesses
<1> DEFINE q == Contents(s.queue[lv])
<1>1. s.queue[lv] \in Rings(Leftover \cup Procs) /\ Holds(q, At(A, lv), s.running)
  BY DEF RingsHold, MlqStates
<1>2. q \in Seq(Leftover \cup Procs) /\ Len(q) = s.queue[lv].count
  BY <1>1, ContentsType
<1>3. At(A, lv) \ {s.running} \subseteq (1..Len(trace)) \ {i}
  BY LevelTypes DEF At
<1>4. Len(q) <= Len(trace) - 1
  BY <1>1, <1>2, <1>3, LevelTypes, RoomForOneMore
<1> QED
  BY <1>2, <1>4, LevelTypes, ProcessTableAssumption

\* highest finds the first level with anything queued.
LEMMA HighestIsFirst ==
    ASSUME NEW s \in MlqStates
    PROVE  \/ /\ highest(s) = NO_LEVEL
              /\ \A lv \in Levels : s.queue[lv].count = 0
           \/ /\ highest(s) \in Levels /\ s.queue[highest(s)].count > 0
              /\ \A lv \in Levels : s.queue[lv].count > 0 => highest(s) <= lv
<1> DEFINE O == {lv \in Levels : s.queue[lv].count > 0}
<1>1. \A lv \in Levels : s.queue[lv].count \in Nat
  BY ProcessTableAssumption DEF MlqStates, Rings
<1>2. CASE O = {}
  BY <1>1, <1>2 DEF highest
<1>3. CASE O # {}
  <2>1. \E lv \in O : \A m \in O : lv <= m
    BY <1>3 DEF Levels
  <2>2. Min(O) \in O /\ \A m \in O : Min(O) <= m
    BY <2>1 DEF Min
  <2>3. highest(s) = Min(O)
    BY <1>3 DEF highest
  <2> QED
    BY <2>2, <2>3
<1> QED
  BY <1>2, <1>3

-----------------------------------------------------------------------------
\* What the helpers do to the rings.
LEMMA ArrivalQueued ==
    ASSUME TypeInv, NEW s, NEW A, A \subseteq Procs, RingsHold(s, A),
           NEW i \in Procs, i \notin A, i # s.running,
           s.queue[Level(i)].count < MaxProcesses
    PROVE  LET t == push_tail(s, Level(i), i)
           IN  /\ RingsHold(t, A \cup {i})
               /\ t.running = s.running /\ t.level = s.level /\ t.left = s.left
               /\ t.saved = s.saved
               /\ Contents(t.queue[Level(i)]) = Append(Contents(s.queue[Level(i)]), i)
               /\ \A m \in Levels \ {Level(i)} : t.queue[m] = s.queue[m]
<1> DEFINE t == push_tail(s, Level(i), i)
           S == Leftover \cup Procs
<1>1. Level(i) \in Levels /\ s \in MlqStates
  BY LevelTypes DEF RingsHold
<1>2. /\ s.queue[Level(i)] \in Rings(S)
      /\ Contents(s.queue[Level(i)]) \in Seq(S)
      /\ PushTail(s.queue[Level(i)], i) \in Rings(S)
      /\ Contents(PushTail(s.queue[Level(i)], i)) = Append(Contents(s.queue[Level(i)]), i)
  <2>1. s.queue[Level(i)] \in Rings(S) /\ i \in S
    BY <1>1 DEF MlqStates
  <2> HIDE DEF S
  <2> QED
    BY <2>1, PushTailAppends, ContentsType
<1>3. /\ t.queue = [s.queue EXCEPT ![Level(i)] = PushTail(@, i)]
      /\ t.running = s.running /\ t.level = s.level /\ t.left = s.left
      /\ t.saved = s.saved /\ t \in MlqStates
  BY <1>1, <1>2 DEF push_tail, MlqStates
<1> HIDE DEF t, S
<1>4. ASSUME NEW lv \in Levels
      PROVE  Holds(Contents(t.queue[lv]), At(A \cup {i}, lv), t.running)
  <2>1. Holds(Contents(s.queue[lv]), At(A, lv), s.running) /\ s.queue \in [Levels -> Rings(S)]
    BY <1>1 DEF RingsHold, MlqStates, S
  <2>2. CASE lv = Level(i)
    <3>1. t.queue[lv] = PushTail(s.queue[lv], i) /\ At(A \cup {i}, lv) = At(A, lv) \cup {i}
      BY <1>1, <1>3, <2>1, <2>2 DEF At
    <3>2. i \notin At(A, lv)
      BY DEF At
    <3>3. Contents(s.queue[lv]) \in Seq(S)
      BY <1>2, <2>2
    <3>4. Holds(Append(Contents(s.queue[lv]), i), At(A, lv) \cup {i}, s.running)
      BY <2>1, <3>2, <3>3, HoldsArrival
    <3>5. Contents(t.queue[lv]) = Append(Contents(s.queue[lv]), i)
      BY <1>2, <2>2, <3>1
    <3> QED
      BY <1>3, <3>1, <3>4, <3>5
  <2>3. CASE lv # Level(i)
    <3>1. t.queue[lv] = s.queue[lv] /\ At(A \cup {i}, lv) = At(A, lv)
      BY <1>1, <1>3, <2>1, <2>3 DEF At
    <3> QED
      BY <1>3, <2>1, <3>1
  <2> QED
    BY <2>2, <2>3
<1>5. /\ Contents(t.queue[Level(i)]) = Append(Contents(s.queue[Level(i)]), i)
      /\ \A m \in Levels \ {Level(i)} : t.queue[m] = s.queue[m]
  <2>1. s.queue \in [Levels -> Rings(S)]
    BY <1>1 DEF MlqStates, S
  <2>2. t.queue[Level(i)] = PushTail(s.queue[Level(i)], i)
        /\ \A m \in Levels \ {Level(i)} : t.queue[m] = s.queue[m]
    BY <1>1, <1>3, <2>1
  <2> QED
    BY <1>2, <2>2
<1> QED
  BY <1>3, <1>4, <1>5 DEF RingsHold, t

\* The running process goes back to the tail of its ring, or in front.
LEMMA RunningQueued ==
    ASSUME TypeInv, NEW s, NEW A, A \subseteq Procs, RingsHold(s, A),
           NEW t, t \in MlqStates, t.running = IDLE,
           s.running \in A, NEW lv \in Levels, lv = Level(s.running),
           \A m \in Levels \ {lv} : t.queue[m] = s.queue[m],
           \/ Contents(t.queue[lv]) = Append(Contents(s.queue[lv]), s.running)
           \/ Contents(t.queue[lv]) = <<s.running>> \o Contents(s.queue[lv])
    PROVE  RingsHold(t, A)
<1> DEFINE S == Leftover \cup Procs
<1>1. /\ IDLE \notin A
      /\ \A m \in Levels : /\ s.queue[m] \in Rings(S)
                           /\ Holds(Contents(s.queue[m]), At(A, m), s.running)
  BY LevelTypes DEF RingsHold, MlqStates
<1>2. \A m \in Levels : IDLE \notin At(A, m) /\ (s.running \in At(A, m) <=> m = lv)
  BY <1>1 DEF At
<1>3. Contents(s.queue[lv]) \in Seq(S)
  BY <1>1, ContentsType
<1> HIDE DEF S
<1>4. ASSUME NEW m \in Levels PROVE Holds(Contents(t.queue[m]), At(A, m), IDLE)
  <2>1. CASE m = lv
    <3>1. /\ Holds(Contents(s.queue[lv]), At(A, lv), s.running)
          /\ s.running \in At(A, lv) /\ IDLE \notin At(A, lv)
      BY <1>1, <1>2
    <3>2. Holds(Append(Contents(s.queue[lv]), s.running), At(A, lv), IDLE)
      BY <1>3, <3>1, HoldsReturn
    <3>3. Holds(<<s.running>> \o Contents(s.queue[lv]), At(A, lv), IDLE)
      BY <1>3, <3>1, HoldsFront
    <3> QED
      BY <2>1, <3>2, <3>3
  <2>2. CASE m # lv
    BY <1>1, <1>2, <2>2, HoldsElsewhere
  <2> QED
    BY <2>1, <2>2
<1> QED
  BY <1>4 DEF RingsHold

LEMMA Released ==
    ASSUME TypeInv, Len(trace) <= MaxProcesses,
           NEW s, NEW A, A \subseteq Procs, RingsHold(s, A),
           Displaced(s), s.running \in A, s.level = Level(s.running)
    PROVE  /\ RingsHold(Release(s), A) /\ Release(s).running = IDLE
           /\ Contents(Release(s).queue[s.level]) = <<s.running>> \o Contents(s.queue[s.level])
           /\ \A m \in Levels \ {s.level} : Release(s).queue[m] = s.queue[m]
           /\ Release(s).saved = [s.saved EXCEPT ![s.level] = s.left]
<1> DEFINE S == Leftover \cup Procs
           t == Release(s)
           lv == s.level
<1>1. /\ lv \in Levels /\ s \in MlqStates /\ s.running \in Procs /\ s.running \in S
      /\ s.queue[lv] \in Rings(S)
  BY LevelTypes DEF RingsHold, MlqStates
<1>2. s.queue[lv].count < MaxProcesses
  BY <1>1, LevelHasRoom
<1> HIDE DEF S
<1>3. /\ PushHead(s.queue[lv], s.running) \in Rings(S)
      /\ Contents(PushHead(s.queue[lv], s.running)) = <<s.running>> \o Contents(s.queue[lv])
  BY <1>1, <1>2, PushHeadPrepends
<1>4. /\ t.queue = [s.queue EXCEPT ![lv] = PushHead(@, s.running)]
      /\ t.running = IDLE /\ t \in MlqStates /\ t.saved = [s.saved EXCEPT ![lv] = s.left]
  BY <1>1, <1>3 DEF Release, push_head, MlqStates, S
<1> HIDE DEF t
<1>5. /\ Contents(t.queue[lv]) = <<s.running>> \o Contents(s.queue[lv])
      /\ \A m \in Levels \ {lv} : t.queue[m] = s.queue[m]
  BY <1>1, <1>3, <1>4 DEF MlqStates
<1>6. RingsHold(t, A)
  BY <1>1, <1>4, <1>5, RunningQueued
<1> QED
  BY <1>4, <1>5, <1>6 DEF t

\* A dispatch takes the first process of the first level that has one, with
\* the rest of its slice or a whole one, and answers IDLE if no level has any.
LEMMA Dispatched ==
    ASSUME TypeInv, NEW s, NEW A, A \subseteq Procs, RingsHold(s, A), s.running = IDLE
    PROVE  LET t == Dispatch(s)
           IN  /\ RingsHold(t, A)
               /\ \/ t.running = IDLE /\ A = {} /\ t.queue = s.queue /\ t.saved = s.saved
                  \/ /\ t.running \in A /\ t.level = Level(t.running)
                     /\ LevelQuantum[t.level] > 0 => t.left > 0
                     /\ \A j \in A : t.level <= Level(j)
                     /\ Contents(s.queue[t.level]) # <<>>
                     /\ t.running = Head(Contents(s.queue[t.level]))
                     /\ Contents(t.queue[t.level]) = Tail(Contents(s.queue[t.level]))
                     /\ \A m \in Levels \ {t.level} : t.queue[m] = s.queue[m]
                     /\ t.saved = [s.saved EXCEPT ![t.level] = 0]
                     /\ t.left = IF s.saved[t.level] > 0 THEN s.saved[t.level]
                                 ELSE LevelQuantum[t.level]
<1> DEFINE S == Leftover \cup Procs
           t == Dispatch(s)
           h == highest(s)
<1>1. /\ s \in MlqStates /\ IDLE \notin A
      /\ \A m \in Levels : /\ s.queue[m] \in Rings(S)
                           /\ Holds(Contents(s.queue[m]), At(A, m), IDLE)
                           /\ IDLE \notin At(A, m)
                           /\ Len(Contents(s.queue[m])) = s.queue[m].count
                           /\ Contents(s.queue[m]) \in Seq(S)
  BY LevelTypes, ContentsType DEF RingsHold, MlqStates, At
<1>2. \A j \in A : Level(j) \in Levels /\ s.queue[Level(j)].count > 0
  <2> SUFFICES ASSUME NEW j \in A PROVE Level(j) \in Levels /\ s.queue[Level(j)].count > 0
    OBVIOUS
  <2>1. Level(j) \in Levels /\ j \in At(A, Level(j)) /\ j # IDLE
    BY <1>1, LevelTypes DEF At
  <2>2. PICK k \in DOMAIN Contents(s.queue[Level(j)]) : Contents(s.queue[Level(j)])[k] = j
    BY <1>1, <2>1 DEF Holds
  <2> QED
    BY <1>1, <2>1, <2>2
<1>3. CASE h = NO_LEVEL
  <2>1. t = [s EXCEPT !.running = IDLE, !.level = NO_LEVEL]
    BY <1>3 DEF Dispatch
  <2>2. /\ t \in MlqStates /\ t.running = IDLE /\ t.queue = s.queue /\ t.saved = s.saved
    BY <1>1, <2>1 DEF MlqStates
  <2>3. \A lv \in Levels : s.queue[lv].count = 0
    BY <1>1, <1>3, HighestIsFirst DEF NO_LEVEL, Levels
  <2>4. A = {}
    BY <1>2, <2>3
  <2>5. RingsHold(t, A)
    BY <1>1, <2>2 DEF RingsHold
  <2> QED
    BY <2>2, <2>4, <2>5
<1>4. CASE h # NO_LEVEL
  <2> DEFINE q == Contents(s.queue[h])
  <2>1. /\ h \in Levels /\ s.queue[h].count > 0
        /\ \A lv \in Levels : s.queue[lv].count > 0 => h <= lv
    BY <1>1, <1>4, HighestIsFirst
  <2>2. \A j \in A : h <= Level(j)
    BY <1>2, <2>1
  <2> HIDE DEF h, S
  <2>3. /\ PopHead(s.queue[h]) \in Rings(S) /\ q # <<>>
        /\ AtFront(s.queue[h]) = Head(q)
        /\ Contents(PopHead(s.queue[h])) = Tail(q)
    BY <1>1, <2>1, PopHeadIsTail
  <2>4. Head(q) \in At(A, h) /\ Holds(Tail(q), At(A, h), Head(q))
    BY <1>1, <2>1, <2>3, HoldsDispatch
  <2>5. Head(q) \in A /\ Level(Head(q)) = h /\ Head(q) \in Procs
    BY <2>4 DEF At
  <2>6. /\ t.queue = [s.queue EXCEPT ![h] = PopHead(@)]
        /\ t.saved = [s.saved EXCEPT ![h] = 0]
        /\ t.running = Head(q) /\ t.level = h
        /\ t.left = (IF s.saved[h] > 0 THEN s.saved[h] ELSE LevelQuantum[h])
        /\ t = [queue |-> t.queue, saved |-> t.saved, running |-> t.running,
                level |-> t.level, left |-> t.left]
    BY <1>1, <1>4, <2>3 DEF Dispatch, pop_head, MlqStates, h
  <2>7. /\ s.saved \in [Levels -> Nat] /\ LevelQuantum \in [Levels -> Nat]
        /\ s.queue \in [Levels -> Rings(S)]
    BY <1>1, LevelTypes DEF MlqStates, S
  <2> HIDE DEF t, q
  <2>8. t \in MlqStates
    <3>1. t.queue \in [Levels -> Rings(S)] /\ t.saved \in [Levels -> Nat] /\ t.left \in Nat
      BY <2>1, <2>3, <2>6, <2>7
    <3> QED
      BY <2>1, <2>5, <2>6, <3>1 DEF MlqStates, S
  <2>9. ASSUME NEW m \in Levels PROVE Holds(Contents(t.queue[m]), At(A, m), t.running)
    <3>1. CASE m = h
      <4>1. Contents(t.queue[m]) = Tail(q)
        BY <2>1, <2>3, <2>6, <2>7, <3>1
      <4> QED
        BY <2>4, <2>6, <3>1, <4>1
    <3>2. CASE m # h
      <4>1. t.queue[m] = s.queue[m] /\ Head(q) \notin At(A, m)
        BY <2>1, <2>5, <2>6, <2>7, <3>2 DEF At
      <4> QED
        BY <1>1, <2>6, <4>1, HoldsElsewhere
    <3> QED
      BY <3>1, <3>2
  <2>10. LevelQuantum[h] > 0 => t.left > 0
    BY <2>1, <2>6, <2>7
  <2>11. /\ Contents(t.queue[t.level]) = Tail(q)
         /\ \A m \in Levels \ {t.level} : t.queue[m] = s.queue[m]
    BY <2>1, <2>3, <2>6, <2>7
  <2> QED
    BY <2>2, <2>3, <2>5, <2>6, <2>8, <2>9, <2>10, <2>11 DEF RingsHold, t, q
<1> QED
  BY <1>3, <1>4

\* Who is not displaced and does not go on is not there.
LEMMA NobodyReleased ==
    ASSUME MlqIInv, ~ Continues(mlq), ~ Displaced(mlq)
    PROVE  Release(mlq) = mlq /\ mlq.running = IDLE
<1>1. ASSUME mlq.running # IDLE PROVE FALSE
  <2>1. /\ mlq.level \in Levels /\ LevelQuantum[mlq.level] \in Nat
        /\ (LevelQuantum[mlq.level] > 0 => mlq.left > 0)
    BY <1>1, LevelTypes DEF MlqIInv, MlqInv, MetricsInv
  <2> QED
    BY <1>1, <2>1 DEF Continues
<1> QED
  BY <1>1 DEF Release

\* The answer of mlq_pick_next keeps the contract, and nobody of a higher
\* queue is passed over.
LEMMA MlqAnswers ==
    ASSUME MlqIInv, NEW pid, mlq_pick_next(pid), phase = "admit", AllAdmitted
    PROVE  /\ pid \in AllowedAnswers /\ mlq'.running = pid /\ RingsHold(mlq', Alive)
           /\ pid # IDLE => /\ pid \in Alive /\ mlq'.level = Level(pid)
                            /\ LevelQuantum[mlq'.level] > 0 => mlq'.left > 0
                            /\ \A j \in Alive : Level(pid) <= Level(j)
<1>0. /\ TypeInv /\ Alive \subseteq Procs /\ Alive = Ready /\ IDLE \notin Procs
      /\ RingsHold(mlq, Alive) /\ mlq \in MlqStates /\ Len(trace) <= MaxProcesses
      /\ pid = mlq'.running
  BY AliveIsReady, LevelTypes DEF MlqIInv, MlqInv, MetricsInv, RingsHold, mlq_pick_next
<1>1. CASE Continues(mlq)
  <2>1. mlq' = mlq /\ mlq.running # IDLE /\ ~ Displaced(mlq)
    BY <1>1 DEF Continues, mlq_pick_next
  <2>2. pid \in Alive /\ mlq.level = Level(pid) /\ Level(pid) \in Levels
        /\ (LevelQuantum[mlq.level] > 0 => mlq.left > 0)
    BY <1>0, <2>1, LevelTypes DEF MlqIInv, MlqInv
  <2>3. ASSUME NEW j \in Alive PROVE Level(pid) <= Level(j)
    <3>1. CASE j = pid
      BY <2>2, <3>1 DEF Levels
    <3>2. CASE j # pid
      <4>1. Level(j) \in Levels /\ j \in At(Alive, Level(j))
        BY <1>0, LevelTypes DEF At
      <4>2. PICK k \in DOMAIN Contents(mlq.queue[Level(j)]) :
                     Contents(mlq.queue[Level(j)])[k] = j
        BY <1>0, <2>1, <3>2, <4>1 DEF RingsHold, Holds
      <4>3. mlq.queue[Level(j)] \in Rings(Leftover \cup Procs)
        BY <1>0, <4>1 DEF MlqStates
      <4>4. mlq.queue[Level(j)].count > 0
        BY <4>2, <4>3, ContentsType
      <4>5. highest(mlq) \in Levels /\ highest(mlq) <= Level(j)
        BY <1>0, <4>1, <4>4, HighestIsFirst
      <4>6. ~ (highest(mlq) < mlq.level)
        BY <2>1, <4>5 DEF Displaced, NO_LEVEL, Levels
      <4> QED
        BY <2>2, <4>1, <4>5, <4>6 DEF Levels
    <3> QED
      BY <3>1, <3>2
  <2> QED
    BY <1>0, <2>1, <2>2, <2>3 DEF AllowedAnswers
<1>2. CASE ~ Continues(mlq)
  <2> DEFINE R == Release(mlq)
  <2>1. RingsHold(R, Alive) /\ R.running = IDLE
    <3>1. CASE Displaced(mlq)
      <4>1. mlq.running \in Alive /\ mlq.level = Level(mlq.running)
        BY <3>1 DEF Displaced, MlqIInv, MlqInv
      <4> QED
        BY <1>0, <3>1, <4>1, Released
    <3>2. CASE ~ Displaced(mlq)
      BY <1>0, <1>2, <3>2, NobodyReleased
    <3> QED
      BY <3>1, <3>2
  <2>2. mlq' = Dispatch(R)
    BY <1>2 DEF mlq_pick_next
  <2> HIDE DEF R
  <2>3. /\ RingsHold(mlq', Alive)
        /\ \/ pid = IDLE /\ Alive = {}
           \/ /\ pid \in Alive /\ mlq'.level = Level(pid)
              /\ LevelQuantum[mlq'.level] > 0 => mlq'.left > 0
              /\ \A j \in Alive : mlq'.level <= Level(j)
    BY <1>0, <2>1, <2>2, Dispatched
  <2> QED
    BY <1>0, <2>3 DEF AllowedAnswers
<1> QED
  BY <1>1, <1>2

-----------------------------------------------------------------------------
LEMMA SlicePartSpent ==
    ASSUME NEW s \in MlqStates, NEW n \in Nat, NEW t, t = [s EXCEPT !.left = n]
    PROVE  /\ t \in MlqStates /\ t.queue = s.queue /\ t.running = s.running
           /\ t.level = s.level /\ t.left = n
BY DEF MlqStates

\* What the end of a slice makes of the state.
Requeued(s, lv, i) == [push_tail(s, lv, i) EXCEPT !.left = 0, !.running = IDLE]

LEMMA SliceSpent ==
    ASSUME NEW s \in MlqStates, NEW lv \in Levels, NEW i,
           PushTail(s.queue[lv], i) \in Rings(Leftover \cup Procs)
    PROVE  /\ Requeued(s, lv, i) \in MlqStates /\ Requeued(s, lv, i).running = IDLE
           /\ Requeued(s, lv, i).queue = [s.queue EXCEPT ![lv] = PushTail(@, i)]
           /\ Requeued(s, lv, i).level = s.level /\ Requeued(s, lv, i).saved = s.saved
BY DEF push_tail, MlqStates, Requeued

LEMMA MlqNextIsWCNext ==
    ASSUME MlqIInv, [MlqNext]_MlqVars
    PROVE  [WCNext]_vars
<1>1. ASSUME NEW pid \in Answers, mlq_pick_next(pid), Pick(pid)
      PROVE  WCNext
  BY <1>1, MlqAnswers DEF WCNext, Pick
<1> QED
  BY <1>1 DEF MlqNext, MlqVars, WCNext

LEMMA MlqInvInit == ASSUME MlqInit PROVE MlqIInv
<1>1. MetricsInv /\ TypeInv
  BY TypeInvInit, AccountingInit, WindowInit, WorkInit DEF MlqInit, MetricsInv
<1>2. Alive = {}
  <2>1. \A i \in Procs : trace[i].arrival \in Nat
    BY RowTypes DEF MlqInit, Init, Procs
  <2> QED
    BY <2>1 DEF MlqInit, Init, Alive, Admitted
<1>3. /\ mlq.queue \in [Levels -> EmptyRings(Leftover)] /\ mlq.saved \in [Levels -> {0}]
      /\ mlq.running = IDLE /\ mlq.level = NO_LEVEL /\ mlq.left = 0
      /\ mlq = [queue |-> mlq.queue, saved |-> mlq.saved, running |-> mlq.running,
                level |-> mlq.level, left |-> mlq.left]
  BY DEF MlqInit, mlq_init
<1>4. \A lv \in Levels : /\ mlq.queue[lv] \in Rings(Leftover \cup Procs)
                         /\ Contents(mlq.queue[lv]) = <<>>
  <2>1. \A lv \in Levels : mlq.queue[lv] \in EmptyRings(Leftover)
    BY <1>3
  <2> QED
    BY <2>1, EmptyContents, RingsGrow
<1>5. mlq \in MlqStates
  <2>1. mlq.saved \in [Levels -> Nat]
    BY <1>3
  <2>2. mlq.queue \in [Levels -> Rings(Leftover \cup Procs)]
    <3>1. mlq.queue = [lv \in Levels |-> mlq.queue[lv]]
      BY <1>3
    <3> QED
      BY <1>4, <3>1, Zenon
  <2> DEFINE R == Rings(Leftover \cup Procs)
  <2> HIDE DEF R
  <2>3. mlq.queue \in [Levels -> R]
    BY <2>2 DEF R
  <2>4. mlq \in [queue : [Levels -> R], saved : [Levels -> Nat],
                 running : Procs \cup {IDLE}, level : Levels \cup {NO_LEVEL}, left : Nat]
    BY <1>3, <2>1, <2>3
  <2> QED
    BY <2>4 DEF MlqStates, R
<1>6. RingsHold(mlq, Alive)
  BY <1>2, <1>4, <1>5 DEF RingsHold, Holds, At
<1>7. Len(trace) <= MaxProcesses
  BY MlqAssumption DEF MlqInit, Init
<1> QED
  BY <1>1, <1>3, <1>6, <1>7 DEF MlqIInv, MlqInv, MlqInit, Init

\* Arrival and the end of a slice, in terms of the sequences.
LEMMA ArrivalIs ==
    ASSUME MlqIInv, NEW i \in Procs, Admit(i), mlq_on_arrival(i)
    PROVE  /\ i \notin Alive /\ Alive' = Alive \cup {i} /\ i # mlq.running
           /\ Level(i) \in Levels /\ RingsHold(mlq', Alive \cup {i})
           /\ mlq'.running = mlq.running /\ mlq'.level = mlq.level /\ mlq'.left = mlq.left
           /\ mlq'.saved = mlq.saved
           /\ Contents(mlq'.queue[Level(i)]) = Append(Contents(mlq.queue[Level(i)]), i)
           /\ \A m \in Levels \ {Level(i)} : mlq'.queue[m] = mlq.queue[m]
<1>1. /\ TypeInv /\ Alive \subseteq Procs /\ IDLE \notin Procs /\ Len(trace) <= MaxProcesses
      /\ RingsHold(mlq, Alive) /\ Level(i) \in Levels
  BY LevelTypes DEF MlqIInv, MlqInv, MetricsInv
<1>2. i \notin Alive /\ Alive' = Alive \cup {i}
  <2>1. [WCNext]_vars
    BY DEF WCNext
  <2> QED
    BY <2>1, AliveStep DEF MlqIInv
<1>3. i # mlq.running /\ mlq' = push_tail(mlq, Level(i), i)
  BY <1>1, <1>2 DEF MlqIInv, MlqInv, mlq_on_arrival, Level
<1>4. mlq.queue[Level(i)].count < MaxProcesses
  BY <1>1, <1>2, LevelHasRoom
<1> QED
  BY <1>1, <1>2, <1>3, <1>4, ArrivalQueued

LEMMA RequeueIs ==
    ASSUME MlqIInv, EndTick, mlq_on_tick_end, HasSlice, ~ (mlq.left > 1)
    PROVE  /\ mlq.running \in Alive /\ mlq.level = Level(mlq.running) /\ mlq.level \in Levels
           /\ mlq.left = 1 /\ mlq'.running = IDLE /\ mlq'.level = mlq.level
           /\ mlq'.saved = mlq.saved /\ RingsHold(mlq', Alive)
           /\ Contents(mlq'.queue[mlq.level])
                  = Append(Contents(mlq.queue[mlq.level]), mlq.running)
           /\ \A m \in Levels \ {mlq.level} : mlq'.queue[m] = mlq.queue[m]
<1> DEFINE r == mlq.running
           S == Leftover \cup Procs
<1>1. /\ TypeInv /\ Alive \subseteq Procs /\ IDLE \notin Procs /\ Len(trace) <= MaxProcesses
      /\ RingsHold(mlq, Alive) /\ mlq \in MlqStates
      /\ \A i \in Procs : Level(i) \in Levels
  BY LevelTypes DEF MlqIInv, MlqInv, MetricsInv, RingsHold
<1>2. /\ mlq' = [push_tail(mlq, mlq.level, r) EXCEPT !.left = 0, !.running = IDLE]
      /\ r \in Alive /\ r \in Procs /\ r # IDLE /\ mlq.level = Level(r)
      /\ mlq.level \in Levels /\ r \in S /\ mlq.left = 1
      /\ mlq.queue[mlq.level] \in Rings(S)
  <2>1. LevelQuantum[mlq.level] > 0 /\ r # IDLE
    BY DEF HasSlice
  <2>2. mlq.left > 0 /\ mlq.left \in Nat
    BY <1>1, <2>1 DEF MlqIInv, MlqInv, MlqStates
  <2>3. mlq.left = 1 /\ r \in Alive /\ r \in Procs /\ mlq.level = Level(r)
        /\ mlq.level \in Levels
    BY <1>1, <2>1, <2>2 DEF MlqIInv, MlqInv
  <2>4. push_tail(mlq, mlq.level, r).left = 1
    BY <1>1, <2>3 DEF push_tail, MlqStates
  <2>5. mlq' = [push_tail(mlq, mlq.level, r)
                    EXCEPT !.left = push_tail(mlq, mlq.level, r).left - 1,
                           !.running = IDLE]
    BY DEF mlq_on_tick_end
  <2>6. mlq.queue[mlq.level] \in Rings(S)
    BY <1>1, <2>3 DEF MlqStates
  <2> QED
    BY <2>1, <2>3, <2>4, <2>5, <2>6
<1>3. mlq.queue[mlq.level].count < MaxProcesses
  BY <1>1, <1>2, LevelHasRoom
<1> HIDE DEF S
<1>4. /\ PushTail(mlq.queue[mlq.level], r) \in Rings(S)
      /\ Contents(PushTail(mlq.queue[mlq.level], r))
             = Append(Contents(mlq.queue[mlq.level]), r)
  BY <1>2, <1>3, PushTailAppends
<1>5. /\ mlq' \in MlqStates /\ mlq'.running = IDLE
      /\ mlq'.queue = [mlq.queue EXCEPT ![mlq.level] = PushTail(@, r)]
      /\ mlq'.level = mlq.level /\ mlq'.saved = mlq.saved
  <2>1. PushTail(mlq.queue[mlq.level], r) \in Rings(Leftover \cup Procs)
    BY <1>4 DEF S
  <2>2. /\ mlq \in MlqStates /\ mlq.level \in Levels
        /\ mlq' = Requeued(mlq, mlq.level, r)
    BY <1>1, <1>2 DEF Requeued
  <2> QED
    BY <2>1, <2>2, SliceSpent
<1>6. /\ Contents(mlq'.queue[mlq.level]) = Append(Contents(mlq.queue[mlq.level]), r)
      /\ \A m \in Levels \ {mlq.level} : mlq'.queue[m] = mlq.queue[m]
  BY <1>1, <1>2, <1>4, <1>5 DEF MlqStates
<1>7. RingsHold(mlq', Alive)
  <2> DEFINE s == mlq
             t == mlq'
  <2>1. /\ s.running \in Alive /\ s.level = Level(s.running) /\ s.level \in Levels
        /\ t \in MlqStates /\ t.running = IDLE /\ RingsHold(s, Alive)
        /\ \A m \in Levels \ {s.level} : t.queue[m] = s.queue[m]
        /\ Contents(t.queue[s.level]) = Append(Contents(s.queue[s.level]), s.running)
    BY <1>1, <1>2, <1>5, <1>6
  <2> HIDE DEF s, t
  <2>2. RingsHold(t, Alive)
    BY <1>1, <2>1, RunningQueued
  <2> QED
    BY <2>2 DEF t
<1> QED
  BY <1>2, <1>5, <1>6, <1>7

LEMMA MlqInvStep == MlqIInv /\ [MlqNext]_MlqVars => MlqIInv'
<1> SUFFICES ASSUME MlqIInv, [MlqNext]_MlqVars PROVE MlqIInv'
  OBVIOUS
<1>0. [WCNext]_vars /\ [Next]_vars /\ trace' = trace /\ Procs' = Procs
  <2>1. [WCNext]_vars
    BY MlqNextIsWCNext
  <2>2. [Next]_vars
    BY <2>1, WCNextIsNext DEF MlqIInv, MetricsInv
  <2> QED
    BY <2>1, <2>2, TraceStep DEF Procs
<1>1. MetricsInv'
  BY <1>0, TypeInvStep, AccountingStep, WindowStep, WorkStep DEF MlqIInv, MetricsInv
<1>2. /\ TypeInv /\ Alive \subseteq Procs /\ IDLE \notin Procs /\ Len(trace) <= MaxProcesses
      /\ RingsHold(mlq, Alive) /\ mlq \in MlqStates
      /\ \A i \in Procs : Level(i) \in Levels /\ Level(i)' = Level(i)
      /\ LevelQuantum \in [Levels -> Nat]
  BY <1>0, LevelTypes DEF MlqIInv, MlqInv, MetricsInv, RingsHold, Level
<1>3. /\ \A i \in Procs : Admit(i) => i \notin Alive /\ Alive' = Alive \cup {i}
      /\ Execute => /\ next \in Alive
                    /\ Alive' = IF remaining[next] = 1 THEN Alive \ {next} ELSE Alive
      /\ Execute \/ (\E i \in Procs : Admit(i)) \/ Alive' = Alive
  BY <1>0, AliveStep DEF MlqIInv
<1>4. ASSUME RingsHold(mlq', Alive') PROVE RingsHold(mlq, Alive)'
  <2>1. MlqStates' = MlqStates /\ \A lv : At(Alive, lv)' = {i \in Alive' : Level(i)' = lv}
    BY <1>0 DEF MlqStates, At
  <2>2. Alive' \subseteq Procs
    BY <1>0 DEF Alive, Admitted
  <2>3. \A lv : At(Alive, lv)' = At(Alive', lv)
    BY <1>2, <2>1, <2>2 DEF At
  <2> QED
    BY <1>4, <2>1, <2>3 DEF RingsHold
<1>5. ASSUME NEW i \in Procs, Admit(i), mlq_on_arrival(i) PROVE MlqInv'
  <2>1. /\ RingsHold(mlq', Alive \cup {i}) /\ Alive' = Alive \cup {i}
        /\ mlq'.running = mlq.running /\ mlq'.level = mlq.level /\ mlq'.left = mlq.left
    BY <1>5, ArrivalIs
  <2>2. RingsHold(mlq, Alive)'
    BY <1>4, <2>1
  <2> QED
    BY <1>0, <1>2, <1>5, <2>1, <2>2 DEF MlqIInv, MlqInv, Admit
<1>6. ASSUME NEW pid \in Answers, mlq_pick_next(pid), Pick(pid) PROVE MlqInv'
  <2>1. /\ phase = "admit" /\ AllAdmitted /\ next' = pid /\ remaining' = remaining
        /\ phase' = IF pid = IDLE THEN "tick_end"
                    ELSE IF pid \in Ready THEN "execute" ELSE "error"
        /\ \A i \in Alive : remaining[i] > 0
    BY <1>6 DEF Pick, table, Alive
  <2>2. Alive' = Alive
    BY <1>3, <2>1, <1>6 DEF Pick, Admit, Execute
  <2>3. /\ pid \in AllowedAnswers /\ mlq'.running = pid /\ RingsHold(mlq', Alive)
        /\ pid # IDLE => /\ pid \in Alive /\ mlq'.level = Level(pid)
                         /\ LevelQuantum[mlq'.level] > 0 => mlq'.left > 0
    BY <1>6, <2>1, MlqAnswers
  <2>4. RingsHold(mlq, Alive)'
    BY <1>4, <2>2, <2>3
  <2>5. phase' \in {"execute", "tick_end"} /\ (pid = IDLE <=> phase' = "tick_end")
    BY <1>2, <2>1, <2>3 DEF AllowedAnswers, Ready
  <2> QED
    BY <1>0, <1>2, <2>1, <2>2, <2>3, <2>4, <2>5 DEF MlqInv
<1>7. ASSUME Execute, IF Finishing THEN mlq_on_complete ELSE UNCHANGED mlq
      PROVE  MlqInv'
  <2>1. /\ phase = "execute" /\ phase' = "tick_end" /\ next' = next /\ mlq.running = next
        /\ next \in Procs /\ remaining[next] \in Nat /\ remaining[next] > 0
        /\ remaining' = [remaining EXCEPT ![next] = @ - 1]
        /\ remaining \in [Procs -> Nat]
    BY <1>7, <1>2 DEF Execute, MlqIInv, MlqInv, TypeInv, TypeOK, PhaseInv, Ready
  <2>2. remaining'[next] = remaining[next] - 1 /\ next # IDLE
    BY <1>2, <2>1
  <2>3. CASE Finishing
    <3>1. /\ mlq' = [mlq EXCEPT !.running = IDLE, !.level = NO_LEVEL, !.left = 0]
          /\ Alive' = Alive \ {next} /\ remaining'[next] = 0
      BY <1>3, <1>7, <2>1, <2>2, <2>3 DEF mlq_on_complete, Finishing
    <3>2. mlq'.running = IDLE /\ mlq'.queue = mlq.queue /\ mlq' \in MlqStates
      BY <1>2, <3>1 DEF MlqStates
    <3>3. ASSUME NEW lv \in Levels PROVE Holds(Contents(mlq'.queue[lv]), At(Alive', lv), IDLE)
      <4>1. /\ Holds(Contents(mlq.queue[lv]), At(Alive, lv), next)
            /\ IDLE \notin At(Alive, lv) /\ At(Alive', lv) = At(Alive, lv) \ {next}
        BY <1>2, <2>1, <3>1 DEF RingsHold, At
      <4> QED
        BY <3>2, <4>1, HoldsExit
    <3>4. RingsHold(mlq, Alive)'
      BY <1>4, <3>2, <3>3 DEF RingsHold
    <3> QED
      BY <1>0, <1>2, <2>1, <2>2, <3>1, <3>2, <3>4 DEF MlqInv
  <2>4. CASE ~ Finishing
    <3>1. UNCHANGED mlq /\ Alive' = Alive /\ remaining'[next] > 0
      BY <1>3, <1>7, <2>1, <2>2, <2>4 DEF Finishing
    <3>2. RingsHold(mlq, Alive)'
      BY <1>2, <1>4, <3>1
    <3> QED
      BY <1>0, <1>2, <2>1, <2>2, <3>1, <3>2 DEF MlqIInv, MlqInv
  <2> QED
    BY <2>3, <2>4
<1>8. ASSUME EndTick, mlq_on_tick_end PROVE MlqInv'
  <2>1. /\ phase = "tick_end" /\ phase' = "test" /\ remaining' = remaining
        /\ current' = next /\ Alive' = Alive
    BY <1>3, <1>8 DEF EndTick, table, Admit, Execute
  <2>2. mlq.running # IDLE => /\ mlq.running = next /\ mlq.running \in Alive
                              /\ mlq.level = Level(mlq.running) /\ mlq.level \in Levels
                              /\ mlq.left \in Nat /\ LevelQuantum[mlq.level] \in Nat
    BY <1>2, <2>1 DEF MlqIInv, MlqInv, MlqStates
  <2>3. CASE ~ HasSlice
    <3>1. mlq' = mlq
      BY <1>8, <2>3 DEF mlq_on_tick_end
    <3>2. RingsHold(mlq, Alive)'
      BY <1>2, <1>4, <2>1, <3>1
    <3> QED
      BY <1>0, <1>2, <2>1, <2>2, <3>1, <3>2 DEF MlqIInv, MlqInv
  <2>4. CASE HasSlice /\ mlq.left > 1
    <3>1. /\ mlq' = [mlq EXCEPT !.left = mlq.left - 1]
          /\ mlq.left - 1 \in Nat /\ mlq.left - 1 > 0
      <4>1. mlq.left \in Nat
        BY <2>2, <2>4 DEF HasSlice
      <4> QED
        BY <1>8, <2>4, <4>1 DEF mlq_on_tick_end
    <3>2. /\ mlq' \in MlqStates /\ mlq'.queue = mlq.queue /\ mlq'.running = mlq.running
          /\ mlq'.level = mlq.level /\ mlq'.left > 0
      BY <1>2, <3>1, SlicePartSpent
    <3>3. RingsHold(mlq', Alive')
      BY <1>2, <2>1, <3>2 DEF RingsHold
    <3> QED
      BY <1>0, <1>2, <1>4, <2>1, <2>2, <3>2, <3>3 DEF MlqInv
  <2>5. CASE HasSlice /\ ~ (mlq.left > 1)
    <3>1. mlq'.running = IDLE /\ RingsHold(mlq', Alive)
      BY <1>8, <2>5, RequeueIs
    <3>2. RingsHold(mlq, Alive)'
      BY <1>4, <2>1, <3>1
    <3>3. next # IDLE /\ remaining[next] > 0 => mlq.running = next
      BY <2>1 DEF MlqIInv, MlqInv
    <3> QED
      BY <1>0, <1>2, <2>1, <3>1, <3>2, <3>3 DEF MlqInv
  <2> QED
    BY <2>3, <2>4, <2>5
<1>9. CASE \/ (LoopTest \/ Halt) /\ UNCHANGED mlq
           \/ UNCHANGED MlqVars
  <2>1. /\ UNCHANGED mlq /\ UNCHANGED <<remaining, current, next>>
        /\ \/ phase = "test" /\ phase' \in {"ok", "error", "admit"}
           \/ phase' = phase
    BY <1>9 DEF LoopTest, Halt, vars, table, MlqVars
  <2>2. Alive' = Alive
    <3>1. CASE LoopTest \/ Returned
      BY <1>3, <3>1 DEF LoopTest, Admit, Execute, Returned
    <3>2. CASE UNCHANGED vars
      BY <3>2 DEF vars, table, Alive, Admitted, Procs
    <3> QED
      BY <1>9, <3>1, <3>2 DEF Halt, MlqVars
  <2>3. RingsHold(mlq, Alive)'
    BY <1>2, <1>4, <2>1, <2>2
  <2>4. mlq' = mlq /\ (mlq.running # IDLE => mlq.running \in Procs)
    BY <1>2, <2>1 DEF MlqIInv, MlqInv
  <2>5. MlqInv'
    BY <1>0, <1>2, <2>1, <2>2, <2>3, <2>4 DEF MlqIInv, MlqInv, Level
  <2> QED
    BY <1>1, <2>5 DEF MlqIInv
<1> QED
  BY <1>1, <1>5, <1>6, <1>7, <1>8, <1>9 DEF MlqNext, MlqIInv, Level

THEOREM MlqIInvAlways == MlqSpec => []MlqIInv
<1>1. MlqInit => MlqIInv
  BY MlqInvInit
<1> QED
  BY <1>1, MlqInvStep, PTL DEF MlqSpec

\* mlq.c keeps the contract of sched.h, fairness apart: through displacement,
\* saved slices and requeuing a process is always in exactly one place.
THEOREM MlqImplementsContract == MlqSpec => WCSafety
<1>1. MlqInit => Init
  BY DEF MlqInit
<1>2. MlqIInv /\ [MlqNext]_MlqVars => [WCNext]_vars
  BY MlqNextIsWCNext
<1> QED
  BY <1>1, <1>2, MlqIInvAlways, PTL DEF MlqSpec, WCSafety

-----------------------------------------------------------------------------
LEMMA HigherFirstStep ==
    MlqIInv /\ HigherQueuesFirst /\ [MlqNext]_MlqVars => HigherQueuesFirst'
<1> SUFFICES ASSUME MlqIInv, HigherQueuesFirst, [MlqNext]_MlqVars PROVE HigherQueuesFirst'
  OBVIOUS
<1>1. [WCNext]_vars /\ trace' = trace /\ Procs' = Procs /\ MetricsInv
  BY MlqNextIsWCNext, WCNextIsNext, TraceStep DEF Procs, MlqIInv, MetricsInv
<1>2. ASSUME NEW pid \in Answers, mlq_pick_next(pid), Pick(pid) PROVE HigherQueuesFirst'
  <2>1. /\ pid \in AllowedAnswers
        /\ pid # IDLE => \A j \in Alive : Level(pid) <= Level(j)
    BY <1>2, MlqAnswers DEF Pick
  <2>2. /\ Decided' = Decided \cup {tick}
        /\ timeline'[tick] = pid /\ \A u \in Decided : timeline'[u] = timeline[u]
        /\ tick \notin Decided
        /\ \A i \in Procs : Wanting(i)' = Wanting(i) \cup {t \in {tick} : i \in Alive}
    BY <1>1, <1>2, <2>1, DecisionMade
  <2>3. \A i \in Procs : Level(i)' = Level(i) /\ i # IDLE /\ Wanting(i) \subseteq Decided
    BY <1>1, LevelTypes DEF Level, MetricsInv, Wanting
  <2> SUFFICES ASSUME NEW t \in Decided', NEW i \in Procs, NEW j \in Procs,
                      timeline'[t] = i, t \in Wanting(j)'
               PROVE  Level(i) <= Level(j)
    BY <1>1, <2>3 DEF HigherQueuesFirst
  <2>4. CASE t = tick
    BY <2>1, <2>2, <2>3, <2>4
  <2>5. CASE t # tick
    BY <2>2, <2>5 DEF HigherQueuesFirst
  <2> QED
    BY <2>4, <2>5
<1>3. CASE LoopTest \/ (\E i \in Procs : Admit(i)) \/ Execute \/ EndTick \/ UNCHANGED vars
  <2>1. timeline' = timeline /\ Decided' = Decided /\ \A i \in Procs : Wanting(i)' = Wanting(i)
    BY <1>1, <1>3, DecisionKept
  <2> QED
    BY <1>1, <2>1 DEF HigherQueuesFirst, Level
<1> QED
  BY <1>2, <1>3 DEF MlqNext, MlqVars, Halt

\* mlq.c: higher queues win outright, at every tick of every run.
THEOREM HigherQueuesFirstCorrect == MlqSpec => []HigherQueuesFirst
<1>1. MlqInit => HigherQueuesFirst
  <2>1. Init => Decided = {}
    BY DEF Init, Decided
  <2> QED
    BY <2>1 DEF MlqInit, HigherQueuesFirst
<1> QED
  BY <1>1, HigherFirstStep, MlqIInvAlways, PTL DEF MlqSpec

-----------------------------------------------------------------------------
\* What is left of the slice of a process: of the one that runs in left, of
\* the head of a ring in saved; the others have whole slices before them.
RestIn(s, i) ==
    IF i = s.running THEN s.left
    ELSE IF s.saved[Level(i)] > 0 /\ i = Head(Contents(s.queue[Level(i)]))
    THEN s.saved[Level(i)] ELSE LevelQuantum[Level(i)]

\* A saved slice is one that has been begun and not used up, it is that of a
\* head, and the process that runs at a level leaves none saved there.
SavedOk(s) ==
    \A lv \in RoundRobinLevels : s.saved[lv] > 0 =>
        /\ s.saved[lv] < LevelQuantum[lv]
        /\ s.queue[lv].count > 0
        /\ s.running # IDLE => s.level # lv

\* The ticks a process has had, the one about to be taken off its slice apart.
Charged(i) == Executed(i) - (IF phase = "tick_end" /\ i = mlq.running THEN 1 ELSE 0)

WholeSlices(n, q) == \E k \in 0..n : n = k * q

\* However often it has been displaced, what a process has had of its slice
\* and what it has left make whole slices.
SlicesInv ==
    /\ SavedOk(mlq)
    /\ mlq.running # IDLE /\ mlq.level \in RoundRobinLevels =>
           /\ mlq.left <= LevelQuantum[mlq.level]
           /\ phase \in {"test", "admit"} => mlq.left < LevelQuantum[mlq.level]
    /\ \A i \in Alive : Level(i) \in RoundRobinLevels =>
           WholeSlices(Charged(i) + RestIn(mlq, i), LevelQuantum[Level(i)])

\* The process at place p of the line q has run at tick s, and has been sent
\* back since.  Then everyone of W who was there at s has run since, or is in
\* front of it.  tl is a timeline of d ticks.
TurnTaken(tl, d, W, q, p) ==
    \A s \in 0..(d - 1) : tl[s] = q[p] =>
        \A j \in W \ {q[p]} : trace[j].arrival <= s =>
            \/ \E k \in 1..(p - 1) : q[k] = j
            \/ \E u \in s..(d - 1) : tl[u] = j

\* It need not be so of a head that is in the middle of its slice.
InTurn(tl, d, W, q, begun) ==
    \A p \in DOMAIN q : (p = 1 /\ begun > 0) \/ TurnTaken(tl, d, W, q, p)

TurnsInv ==
    \A lv \in RoundRobinLevels :
        InTurn(timeline, Decisions, At(Alive, lv), Queued(lv), mlq.saved[lv])

-----------------------------------------------------------------------------
\* A line after an arrival, a requeue, a dispatch and a displacement.
LEMMA TurnsAtTail ==
    ASSUME NEW tl, NEW d \in Nat, NEW W, NEW S, NEW q \in Seq(S), NEW b, NEW x,
           InTurn(tl, d, W, q, b),
           q # <<>> \/ ~ (b > 0),
           \A s \in 0..(d - 1) : tl[s] = x =>
               \A j \in W \ {x} : trace[j].arrival <= s => \E k \in DOMAIN q : q[k] = j,
           x \in W \/ \A s \in 0..(d - 1) : ~ (trace[x].arrival <= s)
    PROVE  InTurn(tl, d, W \cup {x}, Append(q, x), b)
<1> DEFINE n == Len(q)
           r == Append(q, x)
<1>1. /\ n \in Nat /\ DOMAIN q = 1..n /\ DOMAIN r = 1..(n + 1)
      /\ \A k \in 1..n : r[k] = q[k]
      /\ r[n + 1] = x
  OBVIOUS
<1> HIDE DEF r, n
<1>2. ASSUME NEW p \in 1..n, TurnTaken(tl, d, W, q, p)
      PROVE  TurnTaken(tl, d, W \cup {x}, r, p)
  <2>1. r[p] = q[p] /\ \A k \in 1..(p - 1) : r[k] = q[k]
    BY <1>1
  <2> QED
    BY <1>2, <2>1 DEF TurnTaken
<1>3. TurnTaken(tl, d, W \cup {x}, r, n + 1)
  <2>1. \A k \in DOMAIN q : k \in 1..((n + 1) - 1) /\ r[k] = q[k]
    BY <1>1
  <2> QED
    BY <1>1, <2>1 DEF TurnTaken
<1>4. ASSUME NEW p \in 1..(n + 1)
      PROVE  (p = 1 /\ b > 0) \/ TurnTaken(tl, d, W \cup {x}, r, p)
  <2>1. CASE p = n + 1
    BY <1>3, <2>1
  <2>2. CASE p # n + 1
    <3>1. p \in 1..n
      BY <1>1, <2>2
    <3> QED
      BY <1>1, <1>2, <3>1 DEF InTurn
  <2> QED
    BY <2>1, <2>2
<1> QED
  BY <1>1, <1>4 DEF InTurn, r

LEMMA TurnsAtHead ==
    ASSUME NEW tl, NEW d \in Nat, NEW W, NEW S, NEW q \in Seq(S), NEW b, NEW x,
           InTurn(tl, d, W, q, 0), b > 0
    PROVE  InTurn(tl, d, W, <<x>> \o q, b)
<1> DEFINE n == Len(q)
           r == <<x>> \o q
<1>1. /\ n \in Nat /\ DOMAIN q = 1..n /\ DOMAIN r = 1..(n + 1)
      /\ \A k \in 1..n : r[k + 1] = q[k]
  OBVIOUS
<1> HIDE DEF r, n
<1>2. ASSUME NEW p \in 1..n PROVE TurnTaken(tl, d, W, r, p + 1)
  <2>1. TurnTaken(tl, d, W, q, p)
    BY <1>1 DEF InTurn
  <2>2. /\ r[p + 1] = q[p]
        /\ \A k \in 1..(p - 1) : /\ k + 1 \in 1..((p + 1) - 1) /\ k \in 1..n
                                 /\ r[k + 1] = q[k]
    <3>1. \A k \in 1..(p - 1) : k + 1 \in 1..((p + 1) - 1) /\ k \in 1..n
      BY <1>1
    <3> QED
      BY <1>1, <3>1
  <2> SUFFICES ASSUME NEW s \in 0..(d - 1), tl[s] = r[p + 1],
                      NEW j \in W \ {r[p + 1]}, trace[j].arrival <= s
               PROVE  \/ \E k \in 1..((p + 1) - 1) : r[k] = j
                      \/ \E u \in s..(d - 1) : tl[u] = j
    BY DEF TurnTaken
  <2>3. \/ \E k \in 1..(p - 1) : q[k] = j
        \/ \E u \in s..(d - 1) : tl[u] = j
    BY <2>1, <2>2 DEF TurnTaken
  <2> QED
    BY <2>2, <2>3
<1>3. ASSUME NEW p \in 1..(n + 1) PROVE p = 1 \/ TurnTaken(tl, d, W, r, p)
  <2>1. p = 1 \/ (p - 1 \in 1..n /\ (p - 1) + 1 = p)
    BY <1>1
  <2> QED
    BY <1>2, <2>1
<1> QED
  BY <1>1, <1>3 DEF InTurn, r

\* One more tick is decided, for x, which is not in the line.
LEMMA TurnsElsewhere ==
    ASSUME NEW tl, NEW d \in Nat, NEW W, NEW q, NEW b, NEW x, NEW tm,
           InTurn(tl, d, W, q, b),
           \A p \in DOMAIN q : q[p] # x,
           \A u \in 0..(d - 1) : tm[u] = tl[u], tm[d] = x
    PROVE  InTurn(tm, d + 1, W, q, b)
<1>1. \A s \in 0..((d + 1) - 1) : s # d => s \in 0..(d - 1)
  OBVIOUS
<1>2. \A s \in 0..(d - 1) : \A u \in s..(d - 1) : u \in s..((d + 1) - 1) /\ u \in 0..(d - 1)
  OBVIOUS
<1>3. ASSUME NEW p \in DOMAIN q, TurnTaken(tl, d, W, q, p)
      PROVE  TurnTaken(tm, d + 1, W, q, p)
  <2> SUFFICES ASSUME NEW s \in 0..((d + 1) - 1), tm[s] = q[p],
                      NEW j \in W \ {q[p]}, trace[j].arrival <= s
               PROVE  \/ \E k \in 1..(p - 1) : q[k] = j
                      \/ \E u \in s..((d + 1) - 1) : tm[u] = j
    BY DEF TurnTaken
  <2>1. s \in 0..(d - 1) /\ tl[s] = q[p]
    BY <1>1
  <2>2. \/ \E k \in 1..(p - 1) : q[k] = j
        \/ \E u \in s..(d - 1) : tl[u] = j
    BY <1>3, <2>1 DEF TurnTaken
  <2> QED
    BY <1>2, <2>1, <2>2
<1> QED
  BY <1>3 DEF InTurn

\* The head is given the tick.
LEMMA TurnsDispatched ==
    ASSUME NEW tl, NEW d \in Nat, NEW W, NEW S, NEW q \in Seq(S), q # <<>>, NEW b, NEW tm,
           InTurn(tl, d, W, q, b),
           \A p \in DOMAIN Tail(q) : Tail(q)[p] # Head(q),
           \A u \in 0..(d - 1) : tm[u] = tl[u], tm[d] = Head(q)
    PROVE  InTurn(tm, d + 1, W, Tail(q), 0)
<1> DEFINE r == Tail(q)
           n == Len(q)
           x == Head(q)
<1>1. /\ n \in Nat /\ DOMAIN q = 1..n /\ DOMAIN r = 1..(n - 1)
      /\ \A k \in 1..(n - 1) : r[k] = q[k + 1]
      /\ x = q[1]
  OBVIOUS
<1>2. \A p \in DOMAIN r : r[p] # x
  OBVIOUS
<1>3. tm[d] = x
  OBVIOUS
<1> HIDE DEF r, n, x
<1>4. \A s \in 0..((d + 1) - 1) : s # d => s \in 0..(d - 1)
  OBVIOUS
<1>5. \A s \in 0..(d - 1) : /\ d \in s..((d + 1) - 1)
                            /\ \A u \in s..(d - 1) : u \in s..((d + 1) - 1) /\ u \in 0..(d - 1)
  OBVIOUS
<1>6. ASSUME NEW p \in 1..(n - 1) PROVE TurnTaken(tm, d + 1, W, r, p)
  <2>0. p + 1 \in 1..n /\ p + 1 # 1 /\ r[p] = q[p + 1] /\ r[p] # x
    <3>1. p \in DOMAIN r /\ p + 1 \in 1..n /\ p + 1 # 1
      BY <1>1
    <3>2. r[p] = q[p + 1]
      BY <1>1
    <3> QED
      BY <1>2, <3>1, <3>2, Zenon
  <2>1. TurnTaken(tl, d, W, q, p + 1)
    BY <1>1, <2>0 DEF InTurn
  <2> SUFFICES ASSUME NEW s \in 0..((d + 1) - 1), tm[s] = r[p],
                      NEW j \in W \ {r[p]}, trace[j].arrival <= s
               PROVE  \/ \E k \in 1..(p - 1) : r[k] = j
                      \/ \E u \in s..((d + 1) - 1) : tm[u] = j
    BY DEF TurnTaken
  <2>2. s \in 0..(d - 1) /\ tl[s] = q[p + 1]
    BY <1>3, <1>4, <2>0
  <2>3. \/ \E k \in 1..((p + 1) - 1) : q[k] = j
        \/ \E u \in s..(d - 1) : tl[u] = j
    BY <2>0, <2>1, <2>2 DEF TurnTaken
  <2>4. CASE \E u \in s..(d - 1) : tl[u] = j
    BY <1>5, <2>2, <2>4
  <2>5. ASSUME NEW k \in 1..((p + 1) - 1), q[k] = j
        PROVE  \/ \E m \in 1..(p - 1) : r[m] = j
               \/ \E u \in s..((d + 1) - 1) : tm[u] = j
    <3>1. CASE k = 1
      BY <1>1, <1>3, <1>5, <2>2, <2>5, <3>1
    <3>2. CASE k # 1
      <4>1. k - 1 \in 1..(p - 1) /\ k - 1 \in 1..(n - 1) /\ (k - 1) + 1 = k
        BY <1>1, <3>2
      <4>2. r[k - 1] = j
        BY <1>1, <2>5, <4>1
      <4> QED
        BY <4>1, <4>2
    <3> QED
      BY <3>1, <3>2
  <2> QED
    BY <2>3, <2>4, <2>5
<1> QED
  BY <1>1, <1>6 DEF InTurn, r

-----------------------------------------------------------------------------
\* What is left of the slices, and what is saved, through the helpers.
LEMMA RingFacts ==
    ASSUME TypeInv, NEW s, NEW A, A \subseteq Procs, RingsHold(s, A), NEW lv \in Levels
    PROVE  LET q == Contents(s.queue[lv])
           IN  /\ s \in MlqStates /\ s.saved \in [Levels -> Nat] /\ s.left \in Nat
               /\ q \in Seq(Leftover \cup Procs) /\ Len(q) = s.queue[lv].count
               /\ DOMAIN q = 1..Len(q) /\ Len(q) \in Nat
               /\ Holds(q, At(A, lv), s.running)
               /\ \A k \in DOMAIN q : q[k] \in A /\ q[k] # s.running /\ Level(q[k]) = lv
               /\ q # <<>> => Head(q) = q[1] /\ 1 \in DOMAIN q
<1> DEFINE q == Contents(s.queue[lv])
           S == Leftover \cup Procs
<1>1. /\ s \in MlqStates /\ s.queue[lv] \in Rings(S) /\ Holds(q, At(A, lv), s.running)
      /\ s.saved \in [Levels -> Nat] /\ s.left \in Nat
  BY DEF RingsHold, MlqStates
<1>2. q \in Seq(S) /\ Len(q) = s.queue[lv].count
  <2> HIDE DEF S
  <2> QED
    BY <1>1, ContentsType
<1>3. DOMAIN q = 1..Len(q) /\ Len(q) \in Nat /\ (q # <<>> => Head(q) = q[1] /\ 1 \in DOMAIN q)
  <2> HIDE DEF q, S
  <2> QED
    BY <1>2
<1> QED
  BY <1>1, <1>2, <1>3 DEF Holds, At

LEMMA RestKept ==
    ASSUME NEW s, NEW t, NEW j, j # s.running, j # t.running,
           t.saved[Level(j)] = s.saved[Level(j)],
           \/ ~ (s.saved[Level(j)] > 0)
           \/ Head(Contents(t.queue[Level(j)])) = Head(Contents(s.queue[Level(j)]))
    PROVE  RestIn(t, j) = RestIn(s, j)
BY DEF RestIn

LEMMA WholeRest ==
    ASSUME NEW s, NEW j, j # s.running,
           ~ (s.saved[Level(j)] > 0) \/ j # Head(Contents(s.queue[Level(j)]))
    PROVE  RestIn(s, j) = LevelQuantum[Level(j)]
BY DEF RestIn

\* t is s after i, one of A or a new one, has been put at the tail of line lv.
PushedAtTail(s, t, A, i, lv) ==
    /\ A \subseteq Procs /\ RingsHold(s, A) /\ SavedOk(s)
    /\ i \in Procs /\ lv \in Levels /\ lv = Level(i) /\ (i \notin A \/ i = s.running)
    /\ Contents(t.queue[lv]) = Append(Contents(s.queue[lv]), i)
    /\ Len(Contents(t.queue[lv])) = t.queue[lv].count
    /\ \A m \in Levels \ {lv} : t.queue[m] = s.queue[m]
    /\ t.saved = s.saved /\ t.level = s.level /\ t.running \in {s.running, IDLE}
    /\ i # t.running /\ (i = s.running \/ (t.running = s.running /\ t.left = s.left))

\* A push at the tail leaves the heads alone, and the pushed process has a
\* whole slice before it.
LEMMA TailRests ==
    ASSUME TypeInv, NEW s, NEW t, NEW A, NEW i, NEW lv, PushedAtTail(s, t, A, i, lv)
    PROVE  /\ SavedOk(t)
           /\ \A j \in A \ {i} : Level(j) \in RoundRobinLevels => RestIn(t, j) = RestIn(s, j)
           /\ lv \in RoundRobinLevels => RestIn(t, i) = LevelQuantum[lv]
<1>0. /\ A \subseteq Procs /\ RingsHold(s, A) /\ SavedOk(s)
      /\ i \in Procs /\ lv \in Levels /\ lv = Level(i) /\ (i \notin A \/ i = s.running)
      /\ Contents(t.queue[lv]) = Append(Contents(s.queue[lv]), i)
      /\ Len(Contents(t.queue[lv])) = t.queue[lv].count
      /\ \A m \in Levels \ {lv} : t.queue[m] = s.queue[m]
      /\ t.saved = s.saved /\ t.level = s.level /\ t.running \in {s.running, IDLE}
      /\ i # t.running /\ (i = s.running \/ (t.running = s.running /\ t.left = s.left))
  BY DEF PushedAtTail
<1> DEFINE q == Contents(s.queue[lv])
           r == Contents(t.queue[lv])
<1>1. /\ q \in Seq(Leftover \cup Procs) /\ Len(q) = s.queue[lv].count /\ Len(q) \in Nat
      /\ Len(r) = t.queue[lv].count
      /\ r = Append(q, i)
      /\ q # <<>> => Head(q) \in A /\ Head(q) # s.running
      /\ s.saved \in [Levels -> Nat]
  <2>1. /\ q \in Seq(Leftover \cup Procs) /\ Len(q) = s.queue[lv].count /\ Len(q) \in Nat
        /\ s.saved \in [Levels -> Nat]
    BY <1>0, RingFacts
  <2>2. q # <<>> => Head(q) \in A /\ Head(q) # s.running
    <3>1. \A k \in DOMAIN q : q[k] \in A /\ q[k] # s.running
      BY <1>0, RingFacts, Zenon
    <3>2. q # <<>> => Head(q) = q[1] /\ 1 \in DOMAIN q
      BY <1>0, RingFacts, Zenon
    <3> HIDE DEF q
    <3> QED
      BY <3>1, <3>2
  <2> QED
    BY <1>0, <2>1, <2>2
<1>2. /\ Len(r) = Len(q) + 1
      /\ q # <<>> => Head(r) = Head(q)
      /\ Len(q) > 0 => q # <<>>
  BY <1>1
<1> HIDE DEF q, r
<1>3. lv \in RoundRobinLevels /\ s.saved[lv] > 0 => q # <<>> /\ Head(r) = Head(q) /\ Head(q) # i
  BY <1>0, <1>1, <1>2 DEF SavedOk
<1>4. SavedOk(t)
  <2> SUFFICES ASSUME NEW m \in RoundRobinLevels, t.saved[m] > 0
               PROVE  /\ t.saved[m] < LevelQuantum[m]
                      /\ t.queue[m].count > 0
                      /\ t.running # IDLE => t.level # m
    BY DEF SavedOk
  <2>1. /\ s.saved[m] < LevelQuantum[m] /\ s.queue[m].count > 0
        /\ s.running # IDLE => s.level # m
    BY <1>0 DEF SavedOk
  <2>2. t.queue[m].count > 0
    <3>1. CASE m = lv
      BY <1>0, <1>1, <1>2, <3>1
    <3>2. CASE m # lv
      BY <1>0, <2>1, <3>2 DEF RoundRobinLevels
    <3> QED
      BY <3>1, <3>2
  <2> QED
    BY <1>0, <2>1, <2>2
<1>5. ASSUME NEW j \in A \ {i}, Level(j) \in RoundRobinLevels
      PROVE  RestIn(t, j) = RestIn(s, j)
  <2>1. CASE j = s.running
    BY <1>0, <2>1, <1>5 DEF RestIn
  <2>2. CASE j # s.running
    <3>1. j # t.running
      BY <1>0, <1>5, <2>2, LevelTypes
    <3>2. \/ ~ (s.saved[Level(j)] > 0)
          \/ Head(Contents(t.queue[Level(j)])) = Head(Contents(s.queue[Level(j)]))
      <4>1. CASE Level(j) = lv
        BY <1>0, <1>3, <1>5, <4>1 DEF q, r
      <4>2. CASE Level(j) # lv
        BY <1>0, <1>5, <4>2 DEF RoundRobinLevels
      <4> QED
        BY <4>1, <4>2
    <3> QED
      BY <1>0, <2>2, <3>1, <3>2, RestKept
  <2> QED
    BY <2>1, <2>2
<1>6. ASSUME lv \in RoundRobinLevels PROVE RestIn(t, i) = LevelQuantum[lv]
  BY <1>0, <1>3, <1>6 DEF RestIn, r
<1> QED
  BY <1>4, <1>5, <1>6

\* The rest of a displaced process is saved, and nobody's is lost for it.
LEMMA ReleaseRests ==
    ASSUME TypeInv, Len(trace) <= MaxProcesses,
           NEW s, NEW A, A \subseteq Procs, RingsHold(s, A), SavedOk(s),
           Displaced(s), s.running \in A, s.level = Level(s.running),
           s.level \in RoundRobinLevels => s.left > 0 /\ s.left < LevelQuantum[s.level]
    PROVE  /\ SavedOk(Release(s))
           /\ \A j \in A : Level(j) \in RoundRobinLevels => RestIn(Release(s), j) = RestIn(s, j)
<1> DEFINE t == Release(s)
           lv == s.level
           r == Contents(t.queue[lv])
<1>0. lv \in Levels /\ s.running # IDLE /\ IDLE \notin A
  BY LevelTypes
<1>1. /\ RingsHold(t, A) /\ t.running = IDLE
      /\ r = <<s.running>> \o Contents(s.queue[lv])
      /\ \A m \in Levels \ {lv} : t.queue[m] = s.queue[m]
      /\ t.saved = [s.saved EXCEPT ![lv] = s.left]
  BY Released
<1>2. /\ Contents(s.queue[lv]) \in Seq(Leftover \cup Procs)
      /\ s.saved \in [Levels -> Nat] /\ s.left \in Nat
      /\ Len(r) = t.queue[lv].count
  BY <1>0, <1>1, RingFacts
<1>3. t.saved[lv] = s.left /\ \A m \in Levels \ {lv} : t.saved[m] = s.saved[m]
  BY <1>0, <1>1, <1>2
<1>4. Len(r) > 0 /\ Head(r) = s.running
  BY <1>1, <1>2
<1> HIDE DEF t, r
<1>5. SavedOk(t)
  <2> SUFFICES ASSUME NEW m \in RoundRobinLevels, t.saved[m] > 0
               PROVE  t.saved[m] < LevelQuantum[m] /\ t.queue[m].count > 0
    BY <1>1 DEF SavedOk
  <2>1. CASE m = lv
    BY <1>2, <1>3, <1>4, <2>1
  <2>2. CASE m # lv
    BY <1>1, <1>3, <2>2 DEF SavedOk, RoundRobinLevels
  <2> QED
    BY <2>1, <2>2
<1>6. ASSUME NEW j \in A, Level(j) \in RoundRobinLevels
      PROVE  RestIn(t, j) = RestIn(s, j)
  <2>1. CASE j = s.running
    BY <1>0, <1>1, <1>3, <1>4, <1>6, <2>1 DEF RestIn, r
  <2>2. CASE j # s.running /\ Level(j) = lv
    <3>1. ~ (s.saved[lv] > 0)
      BY <1>0, <1>6, <2>2 DEF SavedOk
    <3> QED
      BY <1>0, <1>1, <1>4, <1>6, <2>2, <3>1 DEF RestIn, r
  <2>3. CASE j # s.running /\ Level(j) # lv
    <3>1. Level(j) \in Levels \ {lv} /\ j # IDLE
      BY <1>0, <1>6, <2>3 DEF RoundRobinLevels
    <3>2. /\ t.saved[Level(j)] = s.saved[Level(j)] /\ j # t.running
          /\ t.queue[Level(j)] = s.queue[Level(j)]
      BY <1>1, <1>3, <3>1
    <3> QED
      BY <2>3, <3>2, RestKept
  <2> QED
    BY <2>1, <2>2, <2>3
<1> QED
  BY <1>5, <1>6 DEF t

\* Who takes the CPU takes over what is saved at its level.
LEMMA DispatchRests ==
    ASSUME TypeInv, NEW s, NEW A, A \subseteq Procs, RingsHold(s, A), SavedOk(s),
           s.running = IDLE
    PROVE  LET t == Dispatch(s)
           IN  /\ SavedOk(t)
               /\ \A j \in A : Level(j) \in RoundRobinLevels => RestIn(t, j) = RestIn(s, j)
               /\ t.running # IDLE /\ t.level \in RoundRobinLevels
                      => t.left <= LevelQuantum[t.level]
<1> DEFINE t == Dispatch(s)
           lv == t.level
<1>0. IDLE \notin A
  BY LevelTypes
<1>1. CASE t.running = IDLE /\ A = {} /\ t.queue = s.queue /\ t.saved = s.saved
  <2> HIDE DEF t
  <2>1. SavedOk(t)
    BY <1>1 DEF SavedOk
  <2> QED
    BY <1>1, <2>1 DEF t
<1>2. CASE /\ t.running \in A /\ t.level = Level(t.running)
           /\ Contents(s.queue[t.level]) # <<>>
           /\ t.running = Head(Contents(s.queue[t.level]))
           /\ \A m \in Levels \ {t.level} : t.queue[m] = s.queue[m]
           /\ t.saved = [s.saved EXCEPT ![t.level] = 0]
           /\ t.left = IF s.saved[t.level] > 0 THEN s.saved[t.level] ELSE LevelQuantum[t.level]
  <2> HIDE DEF t
  <2>1. lv \in Levels /\ LevelQuantum \in [Levels -> Nat] /\ s.saved \in [Levels -> Nat]
    BY <1>2, LevelTypes DEF RingsHold, MlqStates
  <2>2. t.saved[lv] = 0 /\ \A m \in Levels \ {lv} : t.saved[m] = s.saved[m]
    BY <1>2, <2>1
  <2>3. SavedOk(t)
    <3> SUFFICES ASSUME NEW m \in RoundRobinLevels, t.saved[m] > 0
                 PROVE  /\ t.saved[m] < LevelQuantum[m]
                        /\ t.queue[m].count > 0
                        /\ t.level # m
      BY DEF SavedOk
    <3>1. m # lv
      BY <2>2
    <3>2. m \in Levels \ {lv} /\ s.saved[m] > 0 /\ t.queue[m] = s.queue[m]
      BY <1>2, <2>2, <3>1 DEF RoundRobinLevels
    <3> QED
      BY <2>2, <3>1, <3>2 DEF SavedOk
  <2>4. ASSUME NEW j \in A, Level(j) \in RoundRobinLevels
        PROVE  RestIn(t, j) = RestIn(s, j)
    <3>1. CASE j = t.running
      BY <1>0, <1>2, <3>1 DEF RestIn
    <3>2. CASE j # t.running /\ Level(j) = lv
      <4>1. ~ (t.saved[Level(j)] > 0) /\ j # s.running
        BY <1>0, <2>2, <3>2
      <4>2. j # Head(Contents(s.queue[Level(j)]))
        BY <1>2, <3>2
      <4> QED
        BY <3>2, <4>1, <4>2, WholeRest
    <3>3. CASE j # t.running /\ Level(j) # lv
      <4>1. Level(j) \in Levels \ {lv} /\ j # s.running
        BY <1>0, <2>4, <3>3 DEF RoundRobinLevels
      <4>2. /\ t.saved[Level(j)] = s.saved[Level(j)]
            /\ t.queue[Level(j)] = s.queue[Level(j)]
        BY <1>2, <2>2, <4>1
      <4> QED
        BY <3>3, <4>1, <4>2, RestKept
    <3> QED
      BY <3>1, <3>2, <3>3
  <2>5. ASSUME lv \in RoundRobinLevels PROVE t.left <= LevelQuantum[lv]
    <3>1. s.saved[lv] > 0 => s.saved[lv] < LevelQuantum[lv]
      BY <2>5 DEF SavedOk
    <3>2. s.saved[lv] \in Nat /\ LevelQuantum[lv] \in Nat
      BY <2>1
    <3>3. t.left = IF s.saved[lv] > 0 THEN s.saved[lv] ELSE LevelQuantum[lv]
      BY <1>2
    <3> QED
      BY <3>1, <3>2, <3>3
  <2> QED
    BY <2>3, <2>4, <2>5 DEF t
<1> QED
  BY <1>1, <1>2, Dispatched

-----------------------------------------------------------------------------
LEMMA RoundRobinQuanta ==
    ASSUME NEW lv \in RoundRobinLevels
    PROVE  lv \in Levels /\ LevelQuantum[lv] \in Nat \ {0} /\ LevelQuantum[lv] > 0
BY MlqAssumption DEF RoundRobinLevels

LEMMA OneMoreSlice ==
    ASSUME NEW n \in Int, NEW q \in Nat \ {0}, WholeSlices(n, q)
    PROVE  WholeSlices(n + q, q)
<1>1. PICK k \in 0..n : n = k * q
  BY DEF WholeSlices
<1>2. k \in Int /\ 0 <= k /\ k <= n
  BY <1>1
<1>3. k + 1 \in 0..(n + q)
  BY <1>2
<1>4. (k + 1) * q = k * q + q
  BY <1>2
<1> QED
  BY <1>1, <1>3, <1>4 DEF WholeSlices

LEMMA FirstSlice ==
    ASSUME NEW q \in Nat \ {0}
    PROVE  WholeSlices(0 + q, q)
<1>1. 0 + q = 1 * q /\ 1 \in 0..(0 + q)
  OBVIOUS
<1> QED
  BY <1>1 DEF WholeSlices

\* What a step must leave to keep SlicesInv, with the primes in place.
LEMMA SlicesFrom ==
    ASSUME MlqIInv, [MlqNext]_MlqVars, SavedOk(mlq'),
           mlq'.running # IDLE /\ mlq'.level \in RoundRobinLevels =>
               /\ mlq'.left <= LevelQuantum[mlq'.level]
               /\ phase' \in {"test", "admit"} => mlq'.left < LevelQuantum[mlq'.level],
           \A i \in Alive' : Level(i) \in RoundRobinLevels =>
               WholeSlices(Charged(i)' + RestIn(mlq', i), LevelQuantum[Level(i)])
    PROVE  SlicesInv'
<1>1. trace' = trace /\ Procs' = Procs
  BY MlqNextIsWCNext, WCNextIsNext, TraceStep DEF Procs, MlqIInv, MetricsInv
<1>2. SavedOk(mlq)' <=> SavedOk(mlq')
  BY DEF SavedOk
<1>3. \A i : Level(i)' = Level(i)
  BY <1>1 DEF Level
<1>4. \A i : RestIn(mlq, i)' = RestIn(mlq', i)
  BY <1>3 DEF RestIn
<1> QED
  BY <1>2, <1>3, <1>4 DEF SlicesInv

LEMMA SlicesPicked ==
    ASSUME MlqIInv, SlicesInv, NEW pid, mlq_pick_next(pid), phase = "admit", AllAdmitted
    PROVE  /\ SavedOk(mlq')
           /\ mlq'.running # IDLE /\ mlq'.level \in RoundRobinLevels
                  => mlq'.left <= LevelQuantum[mlq'.level]
           /\ \A i \in Alive : Level(i) \in RoundRobinLevels => RestIn(mlq', i) = RestIn(mlq, i)
<1>0. /\ TypeInv /\ Alive \subseteq Procs /\ IDLE \notin Procs
      /\ RingsHold(mlq, Alive) /\ Len(trace) <= MaxProcesses /\ SavedOk(mlq)
  BY LevelTypes DEF MlqIInv, MlqInv, MetricsInv, SlicesInv
<1>1. CASE Continues(mlq)
  <2>1. mlq' = mlq
    BY <1>1 DEF mlq_pick_next
  <2> QED
    BY <2>1, <1>0 DEF SlicesInv
<1>2. CASE ~ Continues(mlq)
  <2> DEFINE R == Release(mlq)
  <2>1. /\ RingsHold(R, Alive) /\ R.running = IDLE /\ SavedOk(R)
        /\ \A i \in Alive : Level(i) \in RoundRobinLevels => RestIn(R, i) = RestIn(mlq, i)
    <3>1. CASE Displaced(mlq)
      <4>1. mlq.running \in Alive /\ mlq.level = Level(mlq.running)
        BY <3>1 DEF Displaced, MlqIInv, MlqInv
      <4>2. mlq.level \in RoundRobinLevels => mlq.left > 0 /\ mlq.left < LevelQuantum[mlq.level]
        BY <3>1 DEF Displaced, MlqIInv, MlqInv, SlicesInv, RoundRobinLevels
      <4> QED
        BY <1>0, <3>1, <4>1, <4>2, Released, ReleaseRests
    <3>2. CASE ~ Displaced(mlq)
      <4>1. R = mlq /\ R.running = IDLE
        BY <1>2, <3>2, NobodyReleased
      <4> QED
        BY <1>0, <4>1
    <3> QED
      BY <3>1, <3>2
  <2>2. mlq' = Dispatch(R)
    BY <1>2 DEF mlq_pick_next
  <2> HIDE DEF R
  <2>3. /\ SavedOk(mlq')
        /\ \A j \in Alive : Level(j) \in RoundRobinLevels => RestIn(mlq', j) = RestIn(R, j)
        /\ mlq'.running # IDLE /\ mlq'.level \in RoundRobinLevels
               => mlq'.left <= LevelQuantum[mlq'.level]
    BY <1>0, <2>1, <2>2, DispatchRests
  <2> QED
    BY <2>1, <2>3
<1> QED
  BY <1>1, <1>2

LEMMA SlicesStep ==
    ASSUME MlqIInv, SlicesInv, [MlqNext]_MlqVars
    PROVE  SlicesInv'
<1>0. /\ [WCNext]_vars /\ trace' = trace /\ Procs' = Procs /\ TypeInv
      /\ Alive \subseteq Procs /\ IDLE \notin Procs /\ Len(trace) <= MaxProcesses
      /\ RingsHold(mlq, Alive) /\ mlq \in MlqStates /\ SavedOk(mlq)
      /\ \A i \in Procs : Level(i) \in Levels
      /\ remaining \in [Procs -> Nat] /\ \A i \in Procs : trace[i].burst \in Nat
      /\ \A i \in Alive : Level(i) \in RoundRobinLevels =>
             WholeSlices(Charged(i) + RestIn(mlq, i), LevelQuantum[Level(i)])
      /\ mlq.running # IDLE /\ mlq.level \in RoundRobinLevels =>
             /\ mlq.left <= LevelQuantum[mlq.level]
             /\ phase \in {"test", "admit"} => mlq.left < LevelQuantum[mlq.level]
  <2>1. [WCNext]_vars /\ trace' = trace /\ Procs' = Procs
    BY MlqNextIsWCNext, WCNextIsNext, TraceStep DEF Procs, MlqIInv, MetricsInv
  <2>2. remaining \in [Procs -> Nat] /\ \A i \in Procs : trace[i].burst \in Nat
    BY RowTypes DEF MlqIInv, MetricsInv, TypeInv, TypeOK, Procs
  <2> QED
    BY <2>1, <2>2, LevelTypes DEF MlqIInv, MlqInv, MetricsInv, RingsHold, SlicesInv
<1>1. /\ Execute => /\ next \in Alive
                    /\ Alive' = IF remaining[next] = 1 THEN Alive \ {next} ELSE Alive
      /\ Execute \/ (\E i \in Procs : Admit(i)) \/ Alive' = Alive
  BY <1>0, AliveStep DEF MlqIInv
<1>2. \A i : /\ Charged(i) = Executed(i) - (IF phase = "tick_end" /\ i = mlq.running THEN 1 ELSE 0)
             /\ Charged(i)' = Executed(i)'
                              - (IF phase' = "tick_end" /\ i = mlq'.running THEN 1 ELSE 0)
             /\ Executed(i) = trace[i].burst - remaining[i]
             /\ Executed(i)' = trace[i].burst - remaining'[i]
  BY <1>0 DEF Charged, Executed
<1>3. \A i \in Procs : Executed(i) \in Int
  BY <1>0, <1>2
<1>4. ASSUME NEW i \in Procs, Admit(i), mlq_on_arrival(i) PROVE SlicesInv'
  <2>1. /\ i \notin Alive /\ Alive' = Alive \cup {i} /\ i # mlq.running
        /\ Level(i) \in Levels /\ RingsHold(mlq', Alive \cup {i})
        /\ mlq'.running = mlq.running /\ mlq'.level = mlq.level /\ mlq'.left = mlq.left
        /\ mlq'.saved = mlq.saved
        /\ Contents(mlq'.queue[Level(i)]) = Append(Contents(mlq.queue[Level(i)]), i)
        /\ \A m \in Levels \ {Level(i)} : mlq'.queue[m] = mlq.queue[m]
    BY <1>4, ArrivalIs
  <2>2. /\ SavedOk(mlq')
        /\ \A j \in Alive \ {i} : Level(j) \in RoundRobinLevels => RestIn(mlq', j) = RestIn(mlq, j)
        /\ Level(i) \in RoundRobinLevels => RestIn(mlq', i) = LevelQuantum[Level(i)]
    <3> DEFINE s == mlq
               t == mlq'
               B == Alive \cup {i}
               lv == Level(i)
    <3>0. Len(Contents(t.queue[lv])) = t.queue[lv].count
      <4>1. RingsHold(t, B) /\ B \subseteq Procs /\ lv \in Levels /\ TypeInv
        BY <1>0, <2>1
      <4> HIDE DEF t, B, lv
      <4> QED
        BY <4>1, RingFacts
    <3>1. TypeInv /\ PushedAtTail(s, t, Alive, i, lv)
      BY <1>0, <2>1, <3>0 DEF PushedAtTail
    <3>2. /\ SavedOk(t)
          /\ \A j \in Alive \ {i} : Level(j) \in RoundRobinLevels => RestIn(t, j) = RestIn(s, j)
          /\ lv \in RoundRobinLevels => RestIn(t, i) = LevelQuantum[lv]
      <4> HIDE DEF s, t, B, lv
      <4> QED
        BY <3>1, TailRests
    <3> QED
      BY <3>2 DEF s, t, lv
  <2>3. phase = "admit" /\ phase' = "admit" /\ remaining' = remaining /\ remaining[i] = trace[i].burst
    BY <1>0, <1>4, ArrivesWhole DEF Admit, table, MlqIInv
  <2>4. ASSUME NEW j \in Alive', Level(j) \in RoundRobinLevels
        PROVE  WholeSlices(Charged(j)' + RestIn(mlq', j), LevelQuantum[Level(j)])
    <3>1. CASE j = i
      <4>1. Charged(i)' = 0
        BY <1>0, <1>2, <2>3
      <4> QED
        BY <2>2, <2>4, <3>1, <4>1, RoundRobinQuanta, FirstSlice
    <3>2. CASE j # i
      <4>1. j \in Alive /\ Charged(j)' = Charged(j)
        BY <1>2, <2>1, <2>3, <2>4, <3>2
      <4> QED
        BY <1>0, <2>2, <2>4, <3>2, <4>1
    <3> QED
      BY <3>1, <3>2
  <2> QED
    BY <1>0, <2>1, <2>2, <2>3, <2>4, SlicesFrom
<1>5. ASSUME NEW pid \in Answers, mlq_pick_next(pid), Pick(pid) PROVE SlicesInv'
  <2>1. /\ phase = "admit" /\ AllAdmitted /\ remaining' = remaining
        /\ phase' = IF pid = IDLE THEN "tick_end"
                    ELSE IF pid \in Ready THEN "execute" ELSE "error"
    BY <1>5 DEF Pick, table
  <2>2. Alive' = Alive
    BY <1>1, <1>5, <2>1 DEF Pick, Admit, Execute
  <2>3. mlq'.running = pid /\ pid \in AllowedAnswers
    BY <1>5, <2>1, MlqAnswers
  <2>4. /\ SavedOk(mlq')
        /\ mlq'.running # IDLE /\ mlq'.level \in RoundRobinLevels
               => mlq'.left <= LevelQuantum[mlq'.level]
        /\ \A i \in Alive : Level(i) \in RoundRobinLevels => RestIn(mlq', i) = RestIn(mlq, i)
    BY <1>5, <2>1, SlicesPicked
  <2>5. \A i \in Alive : Charged(i)' = Charged(i)
    BY <1>0, <1>2, <2>1, <2>3 DEF AllowedAnswers, Ready
  <2>6. phase' \notin {"test", "admit"}
    BY <2>1
  <2> QED
    BY <1>0, <2>2, <2>4, <2>5, <2>6, SlicesFrom
<1>6. ASSUME Execute, IF Finishing THEN mlq_on_complete ELSE UNCHANGED mlq
      PROVE  SlicesInv'
  <2>1. /\ phase = "execute" /\ phase' = "tick_end" /\ mlq.running = next
        /\ next \in Procs /\ remaining' = [remaining EXCEPT ![next] = @ - 1]
    BY <1>0, <1>1, <1>6 DEF Execute, MlqIInv, MlqInv
  <2>2. /\ remaining'[next] = remaining[next] - 1 /\ remaining[next] \in Nat
        /\ \A i \in Procs \ {next} : remaining'[i] = remaining[i]
    BY <1>0, <2>1
  <2>3. CASE Finishing
    <3>1. /\ mlq' = [mlq EXCEPT !.running = IDLE, !.level = NO_LEVEL, !.left = 0]
          /\ Alive' = Alive \ {next}
      BY <1>1, <1>6, <2>3 DEF mlq_on_complete, Finishing
    <3>2. mlq'.running = IDLE /\ mlq'.queue = mlq.queue /\ mlq'.saved = mlq.saved
      BY <1>0, <3>1 DEF MlqStates
    <3>3. SavedOk(mlq')
      BY <1>0, <3>2 DEF SavedOk
    <3>4. ASSUME NEW i \in Alive', Level(i) \in RoundRobinLevels
          PROVE  WholeSlices(Charged(i)' + RestIn(mlq', i), LevelQuantum[Level(i)])
      <4>1. i \in Alive /\ i \in Procs \ {next} /\ i # IDLE
        BY <1>0, <3>1, <3>4
      <4>2. Charged(i)' = Charged(i)
        BY <1>2, <2>1, <2>2, <3>2, <4>1
      <4>3. RestIn(mlq', i) = RestIn(mlq, i)
        BY <2>1, <3>2, <4>1, RestKept
      <4> QED
        BY <1>0, <3>4, <4>1, <4>2, <4>3
    <3> QED
      BY <3>2, <3>3, <3>4, SlicesFrom
  <2>4. CASE ~ Finishing
    <3>1. mlq' = mlq /\ Alive' = Alive
      BY <1>1, <1>6, <2>4 DEF Finishing
    <3>2. \A i \in Alive : Charged(i)' = Charged(i)
      BY <1>0, <1>2, <1>3, <2>1, <2>2, <3>1
    <3> QED
      BY <1>0, <2>1, <3>1, <3>2, SlicesFrom
  <2> QED
    BY <2>3, <2>4
<1>7. ASSUME EndTick, mlq_on_tick_end PROVE SlicesInv'
  <2>1. /\ phase = "tick_end" /\ phase' = "test" /\ remaining' = remaining /\ Alive' = Alive
        /\ mlq.running = IF next # IDLE /\ remaining[next] > 0 THEN next ELSE IDLE
    BY <1>1, <1>7 DEF EndTick, table, Admit, Execute, MlqIInv, MlqInv
  <2>2. mlq.running # IDLE => /\ mlq.running \in Alive /\ mlq.level = Level(mlq.running)
    BY <2>1 DEF MlqIInv, MlqInv
  <2>3. \A i \in Procs : /\ i # mlq.running => Charged(i)' = Charged(i)
                         /\ i = mlq.running => Charged(i)' = Charged(i) + 1
    BY <1>2, <1>3, <2>1
  <2>4. CASE ~ HasSlice
    <3>1. mlq' = mlq
      BY <1>7, <2>4 DEF mlq_on_tick_end
    <3>2. mlq.running # IDLE => mlq.level \notin RoundRobinLevels
      BY <2>1, <2>4 DEF HasSlice, RoundRobinLevels
    <3>3. \A i \in Alive : Level(i) \in RoundRobinLevels => i # mlq.running
      BY <1>0, <2>2, <3>2
    <3> QED
      BY <1>0, <2>1, <2>3, <3>1, <3>2, <3>3, SlicesFrom
  <2>5. CASE HasSlice /\ mlq.left > 1
    <3>1. /\ mlq' = [mlq EXCEPT !.left = mlq.left - 1]
          /\ mlq.left - 1 \in Nat /\ mlq.left \in Nat /\ mlq.running # IDLE
      <4>1. mlq.left \in Nat /\ mlq.running # IDLE
        BY <1>0, <2>5 DEF HasSlice, MlqStates
      <4> QED
        BY <1>7, <2>5, <4>1 DEF mlq_on_tick_end
    <3>2. /\ mlq'.queue = mlq.queue /\ mlq'.running = mlq.running
          /\ mlq'.level = mlq.level /\ mlq'.left = mlq.left - 1 /\ mlq'.saved = mlq.saved
      BY <1>0, <3>1 DEF MlqStates
    <3>3. SavedOk(mlq')
      BY <1>0, <3>2 DEF SavedOk
    <3>4. ASSUME mlq.level \in RoundRobinLevels PROVE mlq'.left < LevelQuantum[mlq.level]
      BY <1>0, <3>1, <3>2, <3>4, RoundRobinQuanta
    <3>5. ASSUME NEW i \in Alive, Level(i) \in RoundRobinLevels
          PROVE  WholeSlices(Charged(i)' + RestIn(mlq', i), LevelQuantum[Level(i)])
      <4>1. CASE i = mlq.running
        <5>1. RestIn(mlq, i) = mlq.left /\ RestIn(mlq', i) = mlq.left - 1
          BY <3>2, <4>1 DEF RestIn
        <5>2. Charged(i)' = Charged(i) + 1 /\ Charged(i) \in Int
          BY <1>0, <1>2, <1>3, <2>3, <4>1
        <5>3. Charged(i)' + RestIn(mlq', i) = Charged(i) + RestIn(mlq, i)
          BY <3>1, <5>1, <5>2
        <5> QED
          BY <1>0, <3>5, <5>3
      <4>2. CASE i # mlq.running
        <5>1. Charged(i)' = Charged(i)
          BY <1>0, <2>3, <4>2
        <5>2. RestIn(mlq', i) = RestIn(mlq, i)
          BY <3>2, <4>2, RestKept
        <5> QED
          BY <1>0, <3>5, <5>1, <5>2
      <4> QED
        BY <4>1, <4>2
    <3>6. mlq'.running # IDLE /\ mlq'.level \in RoundRobinLevels =>
              mlq'.left <= LevelQuantum[mlq'.level] /\ mlq'.left < LevelQuantum[mlq'.level]
      BY <3>1, <3>2, <3>4, RoundRobinQuanta
    <3> QED
      BY <2>1, <3>3, <3>5, <3>6, SlicesFrom
  <2>6. CASE HasSlice /\ ~ (mlq.left > 1)
    <3> DEFINE r == mlq.running
    <3>1. /\ r \in Alive /\ mlq.level = Level(r) /\ mlq.level \in Levels
          /\ mlq.left = 1 /\ mlq'.running = IDLE /\ mlq'.level = mlq.level
          /\ mlq'.saved = mlq.saved /\ RingsHold(mlq', Alive)
          /\ Contents(mlq'.queue[mlq.level]) = Append(Contents(mlq.queue[mlq.level]), r)
          /\ \A m \in Levels \ {mlq.level} : mlq'.queue[m] = mlq.queue[m]
      BY <1>7, <2>6, RequeueIs
    <3>2. /\ SavedOk(mlq')
          /\ \A j \in Alive \ {r} : Level(j) \in RoundRobinLevels
                 => RestIn(mlq', j) = RestIn(mlq, j)
          /\ mlq.level \in RoundRobinLevels => RestIn(mlq', r) = LevelQuantum[mlq.level]
      <4> DEFINE s == mlq
                 t == mlq'
                 lv == mlq.level
      <4>0. Len(Contents(t.queue[lv])) = t.queue[lv].count
        <5>1. RingsHold(t, Alive) /\ lv \in Levels /\ TypeInv /\ Alive \subseteq Procs
          BY <1>0, <3>1
        <5> HIDE DEF t, lv
        <5> QED
          BY <5>1, RingFacts
      <4>1. TypeInv /\ PushedAtTail(s, t, Alive, r, lv)
        BY <1>0, <3>1, <4>0 DEF PushedAtTail
      <4>2. /\ SavedOk(t)
            /\ \A j \in Alive \ {r} : Level(j) \in RoundRobinLevels => RestIn(t, j) = RestIn(s, j)
            /\ lv \in RoundRobinLevels => RestIn(t, r) = LevelQuantum[lv]
        <5> HIDE DEF s, t, r, lv
        <5> QED
          BY <4>1, TailRests
      <4> QED
        BY <4>2
    <3>3. ASSUME NEW i \in Alive, Level(i) \in RoundRobinLevels
          PROVE  WholeSlices(Charged(i)' + RestIn(mlq', i), LevelQuantum[Level(i)])
      <4>1. CASE i = r
        <5>1. RestIn(mlq, i) = 1
          BY <3>1, <4>1 DEF RestIn
        <5>2. Charged(i)' = Charged(i) + 1 /\ Charged(i) \in Int
          BY <1>0, <1>2, <1>3, <2>3, <4>1
        <5>3. WholeSlices(Charged(i)', LevelQuantum[Level(i)])
          BY <1>0, <3>3, <5>1, <5>2
        <5>4. WholeSlices(Charged(i)' + LevelQuantum[Level(i)], LevelQuantum[Level(i)])
          BY <3>3, <5>2, <5>3, RoundRobinQuanta, OneMoreSlice
        <5> QED
          BY <3>1, <3>2, <3>3, <4>1, <5>4
      <4>2. CASE i # r
        <5>1. Charged(i)' = Charged(i)
          BY <1>0, <2>3, <4>2
        <5> QED
          BY <1>0, <3>2, <3>3, <4>2, <5>1
      <4> QED
        BY <4>1, <4>2
    <3> QED
      BY <2>1, <3>1, <3>2, <3>3, SlicesFrom
  <2> QED
    BY <2>4, <2>5, <2>6
<1>8. CASE \/ (LoopTest \/ Halt) /\ UNCHANGED mlq
           \/ UNCHANGED MlqVars
  <2>1. /\ mlq' = mlq /\ remaining' = remaining
        /\ phase' = "tick_end" <=> phase = "tick_end"
        /\ phase' \in {"test", "admit"} => phase \in {"test", "admit"}
    BY <1>8 DEF LoopTest, Halt, Returned, vars, table, MlqVars
  <2>2. Alive' = Alive
    <3>1. CASE LoopTest \/ Returned
      BY <1>1, <3>1 DEF LoopTest, Admit, Execute, Returned
    <3>2. CASE UNCHANGED vars
      BY <3>2 DEF vars, table, Alive, Admitted, Procs
    <3> QED
      BY <1>8, <3>1, <3>2 DEF Halt, MlqVars
  <2>3. \A i : Charged(i)' = Charged(i)
    BY <1>2, <2>1
  <2> QED
    BY <1>0, <2>1, <2>2, <2>3, SlicesFrom
<1> QED
  BY <1>4, <1>5, <1>6, <1>7, <1>8 DEF MlqNext

-----------------------------------------------------------------------------
\* What a step must leave to keep TurnsInv, with the primes in place.
LEMMA TurnsFrom ==
    ASSUME trace' = trace,
           \A lv \in RoundRobinLevels :
               InTurn(timeline', Decisions', At(Alive', lv),
                      Contents(mlq'.queue[lv]), mlq'.saved[lv])
    PROVE  TurnsInv'
<1>1. \A i : Level(i)' = Level(i)
  BY DEF Level
<1>2. \A lv : At(Alive, lv)' = At(Alive', lv) /\ Queued(lv)' = Contents(mlq'.queue[lv])
  BY <1>1 DEF At, Queued
<1> QED
  BY <1>2 DEF TurnsInv, InTurn, TurnTaken

\* Fewer to take turns with, and nothing else.
LEMMA TurnsFewer ==
    ASSUME NEW tl, NEW d, NEW W, NEW V, V \subseteq W, NEW q, NEW b, InTurn(tl, d, W, q, b)
    PROVE  InTurn(tl, d, V, q, b)
BY DEF InTurn, TurnTaken

LEMMA TurnFacts ==
    ASSUME MlqIInv, SlicesInv, TurnsInv, NEW lv \in RoundRobinLevels
    PROVE  LET q == Contents(mlq.queue[lv])
           IN  /\ lv \in Levels /\ Decisions \in Nat /\ q \in Seq(Leftover \cup Procs)
               /\ InTurn(timeline, Decisions, At(Alive, lv), q, mlq.saved[lv])
               /\ mlq.saved[lv] \in Nat /\ (q # <<>> \/ ~ (mlq.saved[lv] > 0))
               /\ \A i \in At(Alive, lv) : i # mlq.running => \E k \in DOMAIN q : q[k] = i
<1> DEFINE q == Contents(mlq.queue[lv])
<1>1. /\ TypeInv /\ Alive \subseteq Procs /\ RingsHold(mlq, Alive) /\ SavedOk(mlq)
      /\ lv \in Levels
  BY LevelTypes DEF MlqIInv, MlqInv, MetricsInv, SlicesInv, RoundRobinLevels
<1>2. /\ q \in Seq(Leftover \cup Procs) /\ Len(q) = mlq.queue[lv].count
      /\ mlq.saved \in [Levels -> Nat] /\ Holds(q, At(Alive, lv), mlq.running)
  BY <1>1, RingFacts
<1>3. q # <<>> \/ ~ (mlq.saved[lv] > 0)
  <2> HIDE DEF q
  <2> QED
    BY <1>1, <1>2 DEF SavedOk
<1>4. Decisions \in Nat
  BY <1>1, DecidedTicks
<1> QED
  BY <1>1, <1>2, <1>3, <1>4 DEF TurnsInv, Queued, Holds

\* A step that decides nothing, and takes nothing from the lines.
LEMMA TurnsStay ==
    ASSUME MlqIInv, SlicesInv, TurnsInv, trace' = trace,
           timeline' = timeline, Decisions' = Decisions, Alive' \subseteq Alive,
           mlq'.queue = mlq.queue, mlq'.saved = mlq.saved
    PROVE  TurnsInv'
<1>1. ASSUME NEW lv \in RoundRobinLevels
      PROVE  InTurn(timeline', Decisions', At(Alive', lv),
                    Contents(mlq'.queue[lv]), mlq'.saved[lv])
  <2>1. At(Alive', lv) \subseteq At(Alive, lv)
    BY DEF At
  <2>2. InTurn(timeline, Decisions, At(Alive, lv), Contents(mlq.queue[lv]), mlq.saved[lv])
    BY TurnFacts
  <2>3. InTurn(timeline, Decisions, At(Alive', lv), Contents(mlq.queue[lv]), mlq.saved[lv])
    BY <2>1, <2>2, TurnsFewer
  <2> QED
    BY <2>3
<1> QED
  BY <1>1, TurnsFrom

\* A step that puts i at the tail of the line of level lv, after an arrival or
\* at the end of its slice.
LEMMA TurnsQueued ==
    ASSUME MlqIInv, SlicesInv, TurnsInv, trace' = trace,
           timeline' = timeline, Decisions' = Decisions,
           NEW i \in Procs, Alive' = Alive \cup {i}, NEW lv, lv = Level(i),
           Contents(mlq'.queue[lv]) = Append(Contents(mlq.queue[lv]), i),
           \A m \in Levels \ {lv} : mlq'.queue[m] = mlq.queue[m],
           mlq'.saved = mlq.saved,
           i = mlq.running
               \/ \A s \in 0..(Decisions - 1) : timeline[s] # i /\ ~ (trace[i].arrival <= s),
           i \in Alive <=> i = mlq.running
    PROVE  TurnsInv'
<1>1. ASSUME NEW m \in RoundRobinLevels
      PROVE  InTurn(timeline', Decisions', At(Alive', m),
                    Contents(mlq'.queue[m]), mlq'.saved[m])
  <2> DEFINE q == Contents(mlq.queue[m])
             W == At(Alive, m)
             b == mlq.saved[m]
  <2>1. /\ m \in Levels /\ Decisions \in Nat /\ q \in Seq(Leftover \cup Procs)
        /\ InTurn(timeline, Decisions, W, q, b) /\ (q # <<>> \/ ~ (b > 0))
        /\ \A j \in W : j # mlq.running => \E k \in DOMAIN q : q[k] = j
    BY TurnFacts
  <2>2. CASE m = lv
    <3>1. At(Alive', m) = W \cup {i} /\ (i \in W <=> i = mlq.running)
      BY <2>2 DEF At
    <3>2. \A s \in 0..(Decisions - 1) : timeline[s] = i =>
              \A j \in W \ {i} : trace[j].arrival <= s => \E k \in DOMAIN q : q[k] = j
      <4> HIDE DEF q, W
      <4> QED
        BY <2>1
    <3>3. i \in W \/ \A s \in 0..(Decisions - 1) : ~ (trace[i].arrival <= s)
      BY <3>1
    <3> HIDE DEF q, W, b
    <3>4. InTurn(timeline, Decisions, W \cup {i}, Append(q, i), b)
      BY <2>1, <3>2, <3>3, TurnsAtTail
    <3> QED
      BY <2>2, <3>1, <3>4 DEF q, b
  <2>3. CASE m # lv
    <3>1. At(Alive', m) = W /\ mlq'.queue[m] = mlq.queue[m]
      BY <2>1, <2>3 DEF At
    <3> QED
      BY <2>1, <3>1
  <2> QED
    BY <2>2, <2>3
<1> QED
  BY <1>1, TurnsFrom

\* A pick takes the head of a line whose places keep their turns, and if it
\* gives it a whole slice, it is its turn.
LEMMA TurnsPicked ==
    ASSUME MlqIInv, SlicesInv, TurnsInv, NEW pid \in AllowedAnswers,
           mlq_pick_next(pid), Pick(pid)
    PROVE  /\ \A lv \in RoundRobinLevels :
                  InTurn(timeline', tick + 1, At(Alive, lv),
                         Contents(mlq'.queue[lv]), mlq'.saved[lv])
           /\ pid # IDLE /\ Level(pid) \in RoundRobinLevels =>
                  \/ mlq'.left < LevelQuantum[Level(pid)]
                  \/ \A s \in 0..(tick - 1) : timeline[s] = pid =>
                         \A j \in At(Alive, Level(pid)) \ {pid} : trace[j].arrival <= s =>
                             \E u \in s..(tick - 1) : timeline[u] = j
<1>0. /\ TypeInv /\ Alive \subseteq Procs /\ IDLE \notin Procs /\ Len(trace) <= MaxProcesses
      /\ RingsHold(mlq, Alive) /\ SavedOk(mlq) /\ phase = "admit" /\ AllAdmitted
      /\ \A i \in Procs : Level(i) \in Levels
  BY LevelTypes DEF MlqIInv, MlqInv, MetricsInv, SlicesInv, Pick
<1>1. /\ tick \in Nat /\ timeline'[tick] = pid
      /\ \A u \in 0..(tick - 1) : timeline'[u] = timeline[u]
      /\ Decisions = tick
  BY <1>0, DecisionMade, DecidedTicks DEF MlqIInv
<1>2. /\ mlq'.running = pid /\ RingsHold(mlq', Alive)
      /\ pid # IDLE => pid \in Alive /\ mlq'.level = Level(pid)
  BY <1>0, MlqAnswers
<1>3. CASE Continues(mlq)
  <2>1. mlq' = mlq /\ mlq.running # IDLE /\ mlq.running = pid
    BY <1>2, <1>3 DEF mlq_pick_next, Continues
  <2>2. ASSUME NEW lv \in RoundRobinLevels
        PROVE  InTurn(timeline', tick + 1, At(Alive, lv), Contents(mlq.queue[lv]), mlq.saved[lv])
    <3> DEFINE q == Contents(mlq.queue[lv])
    <3>1. InTurn(timeline, tick, At(Alive, lv), q, mlq.saved[lv]) /\ lv \in Levels
      BY <1>1, TurnFacts
    <3>2. \A p \in DOMAIN q : q[p] # pid
      BY <1>0, <2>1, <3>1 DEF RingsHold, Holds
    <3> HIDE DEF q
    <3>3. InTurn(timeline', tick + 1, At(Alive, lv), q, mlq.saved[lv])
      BY <1>1, <3>1, <3>2, TurnsElsewhere
    <3> QED
      BY <3>3 DEF q
  <2>3. Level(pid) \in RoundRobinLevels => mlq'.left < LevelQuantum[Level(pid)]
    BY <1>0, <1>2, <2>1 DEF SlicesInv
  <2> QED
    BY <2>1, <2>2, <2>3
<1>4. CASE ~ Continues(mlq)
  <2> DEFINE R == Release(mlq)
  <2>1. /\ RingsHold(R, Alive) /\ R.running = IDLE /\ SavedOk(R)
        /\ \A lv \in RoundRobinLevels :
               InTurn(timeline, tick, At(Alive, lv), Contents(R.queue[lv]), R.saved[lv])
    <3>1. CASE Displaced(mlq)
      <4> DEFINE h == mlq.level
                 x == mlq.running
      <4>1. /\ x # IDLE /\ x \in Alive /\ h = Level(x) /\ h \in Levels
            /\ mlq.left \in Nat /\ mlq.saved \in [Levels -> Nat]
            /\ (LevelQuantum[h] > 0 => mlq.left > 0)
            /\ (h \in RoundRobinLevels => mlq.left > 0 /\ mlq.left < LevelQuantum[h])
        BY <1>0, <3>1
           DEF Displaced, MlqIInv, MlqInv, SlicesInv, RingsHold, MlqStates, RoundRobinLevels
      <4>2. /\ RingsHold(R, Alive) /\ R.running = IDLE
            /\ Contents(R.queue[h]) = <<x>> \o Contents(mlq.queue[h])
            /\ \A m \in Levels \ {h} : R.queue[m] = mlq.queue[m]
            /\ R.saved = [mlq.saved EXCEPT ![h] = mlq.left]
        BY <1>0, <3>1, <4>1, Released
      <4>3. SavedOk(R)
        BY <1>0, <3>1, <4>1, ReleaseRests
      <4> HIDE DEF R
      <4>4. ASSUME NEW lv \in RoundRobinLevels
            PROVE  InTurn(timeline, tick, At(Alive, lv), Contents(R.queue[lv]), R.saved[lv])
        <5>1. /\ InTurn(timeline, tick, At(Alive, lv), Contents(mlq.queue[lv]), mlq.saved[lv])
              /\ Contents(mlq.queue[lv]) \in Seq(Leftover \cup Procs) /\ lv \in Levels
          BY <1>1, TurnFacts
        <5>2. CASE lv = h
          <6>1. mlq.saved[lv] = 0 /\ R.saved[lv] = mlq.left /\ mlq.left > 0
            BY <1>0, <4>1, <4>2, <5>2 DEF SavedOk
          <6> DEFINE q == Contents(mlq.queue[h])
          <6>2. /\ InTurn(timeline, tick, At(Alive, h), q, 0)
                /\ q \in Seq(Leftover \cup Procs)
            BY <5>1, <5>2, <6>1
          <6> HIDE DEF q, h, x
          <6>3. InTurn(timeline, tick, At(Alive, h), <<x>> \o q, mlq.left)
            BY <1>1, <6>1, <6>2, TurnsAtHead
          <6> QED
            BY <4>2, <5>2, <6>1, <6>3 DEF q
        <5>3. CASE lv # h
          BY <4>1, <4>2, <5>1, <5>3
        <5> QED
          BY <5>2, <5>3
      <4> QED
        BY <4>2, <4>3, <4>4
    <3>2. CASE ~ Displaced(mlq)
      <4>1. R = mlq /\ R.running = IDLE
        BY <1>4, <3>2, NobodyReleased
      <4>2. \A lv \in RoundRobinLevels :
               InTurn(timeline, tick, At(Alive, lv), Contents(mlq.queue[lv]), mlq.saved[lv])
        BY <1>1, TurnFacts
      <4> QED
        BY <1>0, <4>1, <4>2
    <3> QED
      BY <3>1, <3>2
  <2>2. mlq' = Dispatch(R)
    BY <1>4 DEF mlq_pick_next
  <2> HIDE DEF R
  <2>3. /\ \/ pid = IDLE /\ mlq'.queue = R.queue /\ mlq'.saved = R.saved
           \/ /\ pid \in Alive /\ mlq'.level = Level(pid)
              /\ Contents(R.queue[mlq'.level]) # <<>>
              /\ pid = Head(Contents(R.queue[mlq'.level]))
              /\ Contents(mlq'.queue[mlq'.level]) = Tail(Contents(R.queue[mlq'.level]))
              /\ \A m \in Levels \ {mlq'.level} : mlq'.queue[m] = R.queue[m]
              /\ mlq'.saved = [R.saved EXCEPT ![mlq'.level] = 0]
              /\ mlq'.left = IF R.saved[mlq'.level] > 0 THEN R.saved[mlq'.level]
                             ELSE LevelQuantum[mlq'.level]
    BY <1>0, <1>2, <2>1, <2>2, Dispatched
  <2>4. ASSUME NEW lv \in RoundRobinLevels
        PROVE  /\ lv \in Levels /\ R.saved \in [Levels -> Nat]
               /\ Contents(R.queue[lv]) \in Seq(Leftover \cup Procs)
               /\ \A p \in DOMAIN Contents(mlq'.queue[lv]) : Contents(mlq'.queue[lv])[p] # pid
    <3>1. lv \in Levels
      BY DEF RoundRobinLevels
    <3>2. R.saved \in [Levels -> Nat] /\ Contents(R.queue[lv]) \in Seq(Leftover \cup Procs)
      BY <1>0, <2>1, <3>1, RingFacts
    <3>3. \A p \in DOMAIN Contents(mlq'.queue[lv]) : Contents(mlq'.queue[lv])[p] # pid
      <4> DEFINE t == mlq'
      <4>1. RingsHold(t, Alive) /\ t.running = pid
        BY <1>2
      <4> HIDE DEF t
      <4>2. \A p \in DOMAIN Contents(t.queue[lv]) : Contents(t.queue[lv])[p] # pid
        BY <3>1, <4>1 DEF RingsHold, Holds
      <4> QED
        BY <4>2 DEF t
    <3> QED
      BY <3>1, <3>2, <3>3
  <2>5. ASSUME NEW lv \in RoundRobinLevels,
               Contents(mlq'.queue[lv]) = Contents(R.queue[lv]), mlq'.saved[lv] = R.saved[lv]
        PROVE  InTurn(timeline', tick + 1, At(Alive, lv), Contents(mlq'.queue[lv]), mlq'.saved[lv])
    <3> DEFINE q == Contents(R.queue[lv])
    <3>1. /\ InTurn(timeline, tick, At(Alive, lv), q, R.saved[lv])
          /\ \A p \in DOMAIN q : q[p] # pid
      BY <2>1, <2>4, <2>5
    <3> HIDE DEF q
    <3>2. InTurn(timeline', tick + 1, At(Alive, lv), q, R.saved[lv])
      BY <1>1, <3>1, TurnsElsewhere
    <3> QED
      BY <2>5, <3>2 DEF q
  <2>6. CASE pid = IDLE /\ mlq'.queue = R.queue /\ mlq'.saved = R.saved
    BY <2>5, <2>6
  <2>7. CASE pid # IDLE
    <3> DEFINE h == mlq'.level
               q == Contents(R.queue[h])
    <3>1. /\ pid \in Alive /\ h = Level(pid) /\ h \in Levels
          /\ q # <<>> /\ pid = Head(q) /\ Contents(mlq'.queue[h]) = Tail(q)
          /\ \A m \in Levels \ {h} : mlq'.queue[m] = R.queue[m]
          /\ mlq'.saved = [R.saved EXCEPT ![h] = 0]
          /\ mlq'.left = IF R.saved[h] > 0 THEN R.saved[h] ELSE LevelQuantum[h]
      BY <1>0, <2>3, <2>7
    <3>2. ASSUME h \in RoundRobinLevels
          PROVE  InTurn(timeline', tick + 1, At(Alive, h), Contents(mlq'.queue[h]), mlq'.saved[h])
      <4>0. /\ q \in Seq(Leftover \cup Procs) /\ R.saved \in [Levels -> Nat]
            /\ InTurn(timeline, tick, At(Alive, h), q, R.saved[h])
            /\ \A p \in DOMAIN Contents(mlq'.queue[h]) : Contents(mlq'.queue[h])[p] # pid
        BY <2>1, <2>4, <3>2
      <4>1. /\ q \in Seq(Leftover \cup Procs) /\ mlq'.saved[h] = 0
            /\ InTurn(timeline, tick, At(Alive, h), q, R.saved[h])
            /\ \A p \in DOMAIN Tail(q) : Tail(q)[p] # Head(q)
        <5> HIDE DEF q, h
        <5> QED
          BY <3>1, <4>0 DEF h
      <4>2. q # <<>> /\ timeline'[tick] = Head(q)
        BY <1>1, <3>1
      <4> HIDE DEF q, h
      <4>3. InTurn(timeline', tick + 1, At(Alive, h), Tail(q), 0)
        BY <1>1, <4>1, <4>2, TurnsDispatched
      <4> QED
        BY <3>1, <4>1, <4>3 DEF q, h
    <3>3. ASSUME NEW lv \in RoundRobinLevels, lv # h
          PROVE  InTurn(timeline', tick + 1, At(Alive, lv), Contents(mlq'.queue[lv]), mlq'.saved[lv])
      <4>1. mlq'.queue[lv] = R.queue[lv] /\ mlq'.saved[lv] = R.saved[lv]
        BY <2>4, <3>1, <3>3
      <4> QED
        BY <2>5, <4>1
    <3>4. ASSUME Level(pid) \in RoundRobinLevels, ~ (mlq'.left < LevelQuantum[Level(pid)])
          PROVE  \A s \in 0..(tick - 1) : timeline[s] = pid =>
                     \A j \in At(Alive, Level(pid)) \ {pid} : trace[j].arrival <= s =>
                         \E u \in s..(tick - 1) : timeline[u] = j
      <4>1. ~ (R.saved[h] > 0)
        BY <2>1, <3>1, <3>4 DEF SavedOk
      <4>2. q \in Seq(Leftover \cup Procs) /\ q # <<>> /\ pid = Head(q)
        BY <2>4, <3>1, <3>4
      <4>3. 1 \in DOMAIN q /\ q[1] = pid
        <5> HIDE DEF q
        <5> QED
          BY <4>2
      <4>4. TurnTaken(timeline, tick, At(Alive, h), q, 1)
        BY <2>1, <3>1, <3>4, <4>1, <4>3 DEF InTurn
      <4>5. \A k \in 1..(1 - 1) : FALSE
        OBVIOUS
      <4> HIDE DEF q, h
      <4> QED
        BY <3>1, <4>3, <4>4, <4>5 DEF TurnTaken, h
    <3> QED
      BY <3>2, <3>3, <3>4
  <2> QED
    BY <1>0, <2>3, <2>6, <2>7
<1> QED
  BY <1>3, <1>4

LEMMA TurnsStep ==
    ASSUME MlqIInv, SlicesInv, TurnsInv, [MlqNext]_MlqVars
    PROVE  TurnsInv'
<1>0. /\ [WCNext]_vars /\ trace' = trace /\ TypeInv /\ MetricsInv
      /\ mlq \in MlqStates /\ tick \in Nat
      /\ Alive \subseteq Procs /\ IDLE \notin Procs
  <2>1. [WCNext]_vars /\ trace' = trace
    BY MlqNextIsWCNext, WCNextIsNext, TraceStep DEF MlqIInv, MetricsInv
  <2>2. TypeInv /\ MetricsInv /\ mlq \in MlqStates /\ tick \in Nat
    BY EngineAssumption DEF MlqIInv, MlqInv, MetricsInv, RingsHold, TypeInv, TypeOK
  <2> QED
    BY <2>1, <2>2, LevelTypes
<1>1. /\ Execute => /\ next \in Alive
                    /\ Alive' = IF remaining[next] = 1 THEN Alive \ {next} ELSE Alive
      /\ Execute \/ (\E i \in Procs : Admit(i)) \/ Alive' = Alive
  BY <1>0, AliveStep
<1>2. ASSUME LoopTest \/ (\E i \in Procs : Admit(i)) \/ Execute \/ EndTick \/ UNCHANGED vars
      PROVE  timeline' = timeline /\ Decisions' = Decisions
  BY <1>0, <1>2, DecisionKept
<1>3. ASSUME NEW i \in Procs, Admit(i), mlq_on_arrival(i) PROVE TurnsInv'
  <2>1. timeline' = timeline /\ Decisions' = Decisions
    BY <1>2, <1>3
  <2>2. /\ i \notin Alive /\ Alive' = Alive \cup {i} /\ i # mlq.running
        /\ mlq'.saved = mlq.saved
        /\ Contents(mlq'.queue[Level(i)]) = Append(Contents(mlq.queue[Level(i)]), i)
        /\ \A m \in Levels \ {Level(i)} : mlq'.queue[m] = mlq.queue[m]
    BY <1>3, ArrivalIs
  <2>3. /\ Decisions = tick /\ Elapsed = 0..(tick - 1) /\ trace[i].arrival = tick
        /\ start_tick[i] = NOT_STARTED
    BY <1>0, <1>3, ArrivesWhole DEF Admit, Decisions, Elapsed
  <2>4. TicksOf(i) = {}
    BY <1>0, <2>3 DEF MetricsInv, Window
  <2>5. \A s \in 0..(Decisions - 1) : timeline[s] # i /\ ~ (trace[i].arrival <= s)
    BY <1>0, <2>3, <2>4 DEF TicksOf
  <2> QED
    BY <1>0, <2>1, <2>2, <2>5, TurnsQueued
<1>4. ASSUME NEW pid \in Answers, mlq_pick_next(pid), Pick(pid) PROVE TurnsInv'
  <2>1. pid \in AllowedAnswers
    BY <1>4, MlqAnswers DEF Pick
  <2>2. Decisions' = tick + 1
    BY <1>0, <1>4, <2>1, DecisionMade
  <2>3. Alive' = Alive
    BY <1>1, <1>4 DEF Pick, Admit, Execute
  <2>4. \A lv \in RoundRobinLevels :
            InTurn(timeline', tick + 1, At(Alive, lv),
                   Contents(mlq'.queue[lv]), mlq'.saved[lv])
    BY <1>4, <2>1, TurnsPicked
  <2> QED
    BY <1>0, <2>2, <2>3, <2>4, TurnsFrom
<1>5. ASSUME Execute, IF Finishing THEN mlq_on_complete ELSE UNCHANGED mlq
      PROVE  TurnsInv'
  <2>1. mlq'.queue = mlq.queue /\ mlq'.saved = mlq.saved
    BY <1>0, <1>5 DEF mlq_on_complete, MlqStates
  <2>2. Alive' \subseteq Alive
    BY <1>1, <1>5
  <2> QED
    BY <1>0, <1>2, <1>5, <2>1, <2>2, TurnsStay
<1>6. ASSUME EndTick, mlq_on_tick_end PROVE TurnsInv'
  <2>1. timeline' = timeline /\ Decisions' = Decisions
    BY <1>2, <1>6
  <2>2. Alive' = Alive
    BY <1>1, <1>6 DEF EndTick, Admit, Execute
  <2>3. CASE HasSlice /\ ~ (mlq.left > 1)
    <3>1. /\ mlq.running \in Alive /\ mlq.level = Level(mlq.running)
          /\ mlq'.saved = mlq.saved
          /\ Contents(mlq'.queue[mlq.level])
                 = Append(Contents(mlq.queue[mlq.level]), mlq.running)
          /\ \A m \in Levels \ {mlq.level} : mlq'.queue[m] = mlq.queue[m]
      BY <1>6, <2>3, RequeueIs
    <3>2. mlq.running \in Procs /\ Alive' = Alive \cup {mlq.running}
      BY <1>0, <2>2, <3>1
    <3> QED
      BY <1>0, <2>1, <3>1, <3>2, TurnsQueued
  <2>4. CASE ~ HasSlice \/ mlq.left > 1
    <3>1. mlq'.queue = mlq.queue /\ mlq'.saved = mlq.saved
      BY <1>0, <1>6, <2>4 DEF mlq_on_tick_end, MlqStates
    <3> QED
      BY <1>0, <2>1, <2>2, <3>1, TurnsStay
  <2> QED
    BY <2>3, <2>4
<1>7. CASE \/ (LoopTest \/ Halt) /\ UNCHANGED mlq
           \/ UNCHANGED MlqVars
  <2>1. LoopTest \/ UNCHANGED vars
    BY <1>7 DEF Halt, MlqVars
  <2>2. mlq' = mlq
    BY <1>7 DEF MlqVars
  <2>3. Alive' = Alive
    <3>1. CASE LoopTest
      BY <1>1, <3>1 DEF LoopTest, Admit, Execute
    <3>2. CASE UNCHANGED vars
      BY <3>2 DEF vars, table, Alive, Admitted, Procs
    <3> QED
      BY <2>1, <3>1, <3>2
  <2> QED
    BY <1>0, <1>2, <2>1, <2>2, <2>3, TurnsStay
<1> QED
  BY <1>3, <1>4, <1>5, <1>6, <1>7 DEF MlqNext

-----------------------------------------------------------------------------
\* The quotient, by what bounds it.
LEMMA Quotient ==
    ASSUME NEW n \in Nat, NEW q \in Nat \ {0}
    PROVE  n \div q \in Nat /\ q * (n \div q) <= n /\ n < q * (n \div q) + q
OBVIOUS

LEMMA QuotientIs ==
    ASSUME NEW n \in Nat, NEW q \in Nat \ {0}, NEW k \in Nat, q * k <= n, n < q * k + q
    PROVE  n \div q = k
OBVIOUS

LEMMA QuotientGrows ==
    ASSUME NEW m \in Nat, NEW n \in Nat, NEW q \in Nat \ {0}, m <= n
    PROVE  m \div q \in Nat /\ n \div q \in Nat /\ m \div q <= n \div q
BY Quotient

\* With r ticks left of a slice that has been begun, the tick before was in it.
LEMMA SliceNotOver ==
    ASSUME NEW e \in Nat, NEW q \in Nat \ {0}, NEW r \in Nat, 0 < r, r < q,
           WholeSlices(e + r, q)
    PROVE  e > 0 /\ e - 1 \in Nat /\ (e - 1) \div q = e \div q
<1>1. PICK k \in 0..(e + r) : e + r = k * q
  BY DEF WholeSlices
<1>2. k \in Nat /\ k # 0
  BY <1>1
<1> DEFINE m == k - 1
<1>3. m \in Nat /\ k = m + 1
  BY <1>2
<1> HIDE DEF m
<1>4. k * q = q * m + q /\ q * m \in Nat
  BY <1>3
<1>5. e = q * m + (q - r)
  BY <1>1, <1>4
<1>6. e > 0 /\ e - 1 \in Nat /\ q * m <= e - 1 /\ e < q * m + q /\ q * m <= e /\ e - 1 < q * m + q
  BY <1>4, <1>5
<1>7. e \div q = m /\ (e - 1) \div q = m
  BY <1>3, <1>6, QuotientIs
<1> QED
  BY <1>6, <1>7

LEMMA LastOne ==
    ASSUME NEW n \in Nat, NEW S \in SUBSET (0..n), S # {}
    PROVE  \E x \in S : \A y \in S : y <= x
<1> DEFINE R == {n - y : y \in S}
<1>1. R \in SUBSET Nat /\ R # {}
  <2>1. \A y \in 0..n : n - y \in Nat
    OBVIOUS
  <2> QED
    BY <2>1
<1>2. PICK r \in R : \A y \in R : r <= y
  BY <1>1, LeastNat
<1>3. PICK x \in S : r = n - x
  BY <1>2
<1>4. ASSUME NEW y \in S PROVE y <= x
  <2>1. n - y \in R /\ x \in 0..n /\ y \in 0..n
    OBVIOUS
  <2> QED
    BY <1>2, <1>3, <2>1
<1> QED
  BY <1>4

\* What a step that decides a tick does to the slices that are counted.
LEMMA SlicesCounted ==
    ASSUME MlqIInv, NEW pid \in AllowedAnswers, Pick(pid), NEW i \in Procs
    PROVE  /\ \A t \in Decided : SliceAt(i, t)' = SliceAt(i, t)
           /\ \A t : t = tick =>
                  SliceAt(i, t)' = Cardinality(TicksOf(i)) \div LevelQuantum[Level(i)]
           /\ TicksOf(i) = {u \in Decided : timeline[u] = i}
           /\ IsFiniteSet(TicksOf(i)) /\ TicksOf(i) \in SUBSET (0..tick)
           /\ Cardinality(TicksOf(i)) \in Nat
           /\ Cardinality(TicksOf(i)) = trace[i].burst - remaining[i]
<1>0. /\ MetricsInv /\ TypeInv /\ phase = "admit" /\ tick \in Nat /\ trace' = trace
  BY EngineAssumption DEF MlqIInv, MetricsInv, TypeInv, TypeOK, Pick, table
<1>1. /\ Decided' = Decided \cup {tick} /\ Decided = 0..(tick - 1)
      /\ \A u \in Decided : timeline'[u] = timeline[u]
      /\ Elapsed = Decided /\ Level(i)' = Level(i)
  BY <1>0, DecisionMade DEF Decided, Elapsed, Level
<1>2. \A u \in Decided : u \in Int /\ u < tick
  BY <1>0, <1>1
<1>3. ASSUME NEW t \in Decided PROVE SliceAt(i, t)' = SliceAt(i, t)
  <2>1. {u \in Decided' : u < t /\ timeline'[u] = i} = {u \in Decided : u < t /\ timeline[u] = i}
    BY <1>0, <1>1, <1>2
  <2> QED
    BY <1>1, <2>1 DEF SliceAt
<1>4. ASSUME NEW t, t = tick
      PROVE  SliceAt(i, t)' = Cardinality(TicksOf(i)) \div LevelQuantum[Level(i)]
  <2>1. {u \in Decided' : u < t /\ timeline'[u] = i} = TicksOf(i)
    BY <1>0, <1>1, <1>2, <1>4 DEF TicksOf
  <2> QED
    BY <1>1, <2>1 DEF SliceAt
<1>5. IsFiniteSet(TicksOf(i)) /\ TicksOf(i) = {u \in Decided : timeline[u] = i}
  BY <1>0, <1>1, TicksOfFinite DEF TicksOf
<1>6. TicksOf(i) \in SUBSET (0..tick)
  BY <1>0, <1>1, <1>5
<1>7. Cardinality(TicksOf(i)) \in Nat
  BY <1>5, FS_CardinalityType
<1>8. Cardinality(TicksOf(i)) = trace[i].burst - remaining[i]
  BY <1>0 DEF MetricsInv, Accounting
<1> QED
  BY <1>3, <1>4, <1>5, <1>6, <1>7, <1>8

\* A process that is picked in the middle of its slice was in that slice at
\* its last tick.
LEMMA SliceGoesOn ==
    ASSUME MlqIInv, SlicesInv, NEW pid \in AllowedAnswers, mlq_pick_next(pid), Pick(pid),
           pid # IDLE, Level(pid) \in RoundRobinLevels,
           mlq'.left < LevelQuantum[Level(pid)]
    PROVE  \E t \in TicksOf(pid) :
               SliceAt(pid, t) = Cardinality(TicksOf(pid)) \div LevelQuantum[Level(pid)]
<1> DEFINE T == TicksOf(pid)
           e == Cardinality(T)
           q == LevelQuantum[Level(pid)]
           r == mlq'.left
<1>0. /\ phase = "admit" /\ AllAdmitted /\ tick \in Nat /\ IDLE \notin Procs
      /\ Alive \subseteq Procs /\ Level(pid) \in Levels
      /\ q \in Nat \ {0} /\ q > 0
  BY EngineAssumption, LevelTypes, RoundRobinQuanta
     DEF MlqIInv, MetricsInv, TypeInv, TypeOK, Pick
<1>1. /\ pid \in Alive /\ pid \in Procs /\ mlq'.running = pid /\ mlq'.level = Level(pid)
      /\ r > 0 /\ r \in Nat
  <2>1. /\ pid \in Alive /\ mlq'.running = pid /\ mlq'.level = Level(pid)
        /\ (LevelQuantum[mlq'.level] > 0 => r > 0) /\ RingsHold(mlq', Alive)
    BY <1>0, MlqAnswers
  <2>2. mlq' \in MlqStates
    BY <2>1 DEF RingsHold
  <2>3. r \in Nat
    BY <2>2 DEF MlqStates
  <2> QED
    BY <1>0, <2>1, <2>3
<1>2. /\ IsFiniteSet(T) /\ T \in SUBSET (0..tick) /\ e \in Nat
      /\ T = {u \in Decided : timeline[u] = pid}
      /\ e = trace[pid].burst - remaining[pid]
  BY <1>1, SlicesCounted
<1>3. WholeSlices(e + r, q)
  <2>1. RestIn(mlq', pid) = RestIn(mlq, pid)
    BY <1>0, <1>1, SlicesPicked
  <2>2. RestIn(mlq', pid) = r
    BY <1>1 DEF RestIn
  <2>3. Charged(pid) = e
    BY <1>0, <1>2 DEF Charged, Executed
  <2> QED
    BY <1>1, <2>1, <2>2, <2>3 DEF SlicesInv
<1> HIDE DEF T, e, q, r
<1>4. e > 0 /\ e - 1 \in Nat /\ (e - 1) \div q = e \div q
  <2>1. r < q
    BY DEF r, q
  <2>2. e \in Nat /\ q \in Nat \ {0} /\ r \in Nat /\ 0 < r /\ WholeSlices(e + r, q)
    BY <1>0, <1>1, <1>2, <1>3 DEF q, r
  <2> QED
    BY <2>1, <2>2, SliceNotOver
<1>5. T # {}
  <2>1. Cardinality({}) = 0
    BY FS_EmptySet
  <2>2. Cardinality(T) # 0
    BY <1>4 DEF e
  <2> QED
    BY <2>1, <2>2, Zenon
<1>6. PICK t \in T : \A u \in T : u <= t
  BY <1>0, <1>2, <1>5, LastOne
<1>7. {u \in Decided : u < t /\ timeline[u] = pid} = T \ {t}
  <2>1. \A u \in T : u \in Int
    BY <1>0, <1>2
  <2> QED
    BY <1>2, <1>6, <2>1
<1>8. Cardinality(T \ {t}) = e - 1
  BY <1>2, FS_RemoveElement DEF e
<1>9. SliceAt(pid, t) = (e - 1) \div q
  BY <1>7, <1>8 DEF SliceAt, q
<1> QED
  BY <1>4, <1>6, <1>9 DEF T, e, q

LEMMA OneSliceEachStep ==
    ASSUME MlqIInv, SlicesInv, TurnsInv, OneSliceEach, [MlqNext]_MlqVars
    PROVE  OneSliceEach'
<1>0. /\ [WCNext]_vars /\ trace' = trace /\ Procs' = Procs /\ MetricsInv /\ TypeInv
      /\ \A i : Level(i)' = Level(i)
  BY MlqNextIsWCNext, WCNextIsNext, TraceStep DEF Procs, MlqIInv, MetricsInv, Level
<1>1. CASE LoopTest \/ (\E i \in Procs : Admit(i)) \/ Execute \/ EndTick \/ UNCHANGED vars
  <2>1. timeline' = timeline /\ Decided' = Decided /\ \A i \in Procs : Wanting(i)' = Wanting(i)
    BY <1>0, <1>1, DecisionKept
  <2>2. \A i, t : SliceAt(i, t)' = SliceAt(i, t)
    BY <1>0, <2>1 DEF SliceAt
  <2> QED
    BY <1>0, <2>1, <2>2 DEF OneSliceEach
<1>2. ASSUME NEW pid \in Answers, mlq_pick_next(pid), Pick(pid) PROVE OneSliceEach'
  <2>1. pid \in AllowedAnswers /\ phase = "admit" /\ AllAdmitted
    BY <1>2, MlqAnswers DEF Pick
  <2>2. /\ Decided' = Decided \cup {tick} /\ tick \notin Decided
        /\ timeline'[tick] = pid /\ \A u \in Decided : timeline'[u] = timeline[u]
        /\ \A i \in Procs : Wanting(i)' = Wanting(i) \cup {t \in {tick} : i \in Alive}
    BY <1>0, <1>2, <2>1, DecisionMade
  <2>3. /\ tick \in Nat /\ Decided = 0..(tick - 1)
        /\ \A i \in Procs : Wanting(i) \subseteq Decided
    BY <1>0, <2>1, EngineAssumption DEF TypeInv, TypeOK, Decided, Wanting
  <2> SUFFICES ASSUME NEW i \in Procs, Level(i) \in RoundRobinLevels,
                      NEW s \in Decided', NEW t \in Decided',
                      timeline'[s] = i, timeline'[t] = i,
                      SliceAt(i, s)' < SliceAt(i, t)',
                      NEW j \in Procs \ {i}, Level(j) = Level(i),
                      s..t \subseteq Wanting(j)'
               PROVE  \E u \in s..t : timeline'[u] = j
    BY <1>0 DEF OneSliceEach
  <2>4. /\ \A v \in Decided : SliceAt(i, v)' = SliceAt(i, v)
        /\ \A v : v = tick =>
               SliceAt(i, v)' = Cardinality(TicksOf(i)) \div LevelQuantum[Level(i)]
        /\ TicksOf(i) = {u \in Decided : timeline[u] = i}
        /\ IsFiniteSet(TicksOf(i)) /\ Cardinality(TicksOf(i)) \in Nat
    BY <1>2, <2>1, SlicesCounted
  \* What was so before holds of the ticks decided before.
  <2>5. ASSUME NEW v \in Decided, s \in Decided, timeline[v] = i,
               SliceAt(i, s)' < SliceAt(i, v), v <= t
        PROVE  \E u \in s..t : timeline'[u] = j
    <3>1. timeline[s] = i /\ SliceAt(i, s) < SliceAt(i, v)
      BY <2>2, <2>4, <2>5
    <3>2. s..v \subseteq Decided /\ s..v \subseteq s..t
      BY <2>2, <2>3, <2>5
    <3>3. s..v \subseteq Wanting(j)
      BY <2>2, <3>2
    <3>4. \E u \in s..v : timeline[u] = j
      <4>1. s \in {u \in Decided : timeline[u] = i} /\ v \in {u \in Decided : timeline[u] = i}
        BY <2>5, <3>1
      <4>2. \A x, y \in {u \in Decided : timeline[u] = i} :
                SliceAt(i, x) < SliceAt(i, y) =>
                    \A k \in Procs \ {i} :
                        Level(k) = Level(i) /\ (x..y) \subseteq Wanting(k)
                            => \E u \in x..y : timeline[u] = k
        BY Zenon DEF OneSliceEach
      <4>3. \A k \in Procs \ {i} :
                Level(k) = Level(i) /\ (s..v) \subseteq Wanting(k)
                    => \E u \in s..v : timeline[u] = k
        BY <3>1, <4>1, <4>2, Zenon
      <4> QED
        BY <3>3, <4>3, Zenon
    <3> QED
      BY <2>2, <3>2, <3>4
  <2>6. CASE s \in Decided /\ t \in Decided
    <3>1. timeline[t] = i /\ SliceAt(i, t)' = SliceAt(i, t) /\ t <= t
      BY <2>2, <2>3, <2>4, <2>6
    <3> QED
      BY <2>5, <2>6, <3>1
  <2>7. s # tick
    <3> SUFFICES ASSUME s = tick PROVE FALSE
      OBVIOUS
    <3>1. /\ SliceAt(i, s)' \in Nat
          /\ \A v \in Decided : SliceAt(i, v) \in Nat /\ SliceAt(i, v) <= SliceAt(i, s)'
      <4>1. LevelQuantum[Level(i)] \in Nat \ {0}
        BY RoundRobinQuanta
      <4>2. SliceAt(i, s)' \in Nat
        BY <2>4, <4>1, Quotient
      <4>3. ASSUME NEW v \in Decided
            PROVE  SliceAt(i, v) \in Nat /\ SliceAt(i, v) <= SliceAt(i, s)'
        <5> DEFINE H == {u \in Decided : u < v /\ timeline[u] = i}
        <5>1. H \in SUBSET TicksOf(i)
          BY <2>4
        <5>2. Cardinality(H) \in Nat /\ Cardinality(H) <= Cardinality(TicksOf(i))
          BY <2>4, <5>1, FS_Subset, FS_CardinalityType
        <5>3. SliceAt(i, v) = Cardinality(H) \div LevelQuantum[Level(i)]
          BY DEF SliceAt
        <5>4. SliceAt(i, s)' = Cardinality(TicksOf(i)) \div LevelQuantum[Level(i)]
          BY <2>4
        <5> HIDE DEF H
        <5> QED
          BY <2>4, <4>1, <5>2, <5>3, <5>4, QuotientGrows
      <4> QED
        BY <4>2, <4>3
    <3>2. t = s => SliceAt(i, t)' = SliceAt(i, s)'
      OBVIOUS
    <3>3. t # s => SliceAt(i, t)' <= SliceAt(i, s)' /\ SliceAt(i, t)' \in Nat
      BY <2>2, <2>4, <3>1
    <3> QED
      BY <3>1, <3>2, <3>3
  <2>8. CASE s \in Decided /\ t = tick
    <3>1. i = pid /\ pid # IDLE /\ pid \in Procs /\ timeline[s] = pid /\ s \in 0..(tick - 1)
      BY <1>0, <2>2, <2>3, <2>8, LevelTypes
    <3>2. /\ \A lv \in RoundRobinLevels :
                 InTurn(timeline', tick + 1, At(Alive, lv),
                        Contents(mlq'.queue[lv]), mlq'.saved[lv])
          /\ pid # IDLE /\ Level(pid) \in RoundRobinLevels =>
                 \/ mlq'.left < LevelQuantum[Level(pid)]
                 \/ \A v \in 0..(tick - 1) : timeline[v] = pid =>
                        \A k \in At(Alive, Level(pid)) \ {pid} : trace[k].arrival <= v =>
                            \E u \in v..(tick - 1) : timeline[u] = k
      BY <1>2, <2>1, TurnsPicked
    <3>3. CASE mlq'.left < LevelQuantum[Level(pid)]
      <4>1. PICK v \in TicksOf(pid) :
                SliceAt(pid, v) = Cardinality(TicksOf(pid)) \div LevelQuantum[Level(pid)]
        BY <1>2, <2>1, <3>1, <3>3, SliceGoesOn
      <4>2. v \in Decided /\ timeline[v] = i /\ v <= t
        BY <2>3, <2>4, <2>8, <3>1, <4>1
      <4>3. SliceAt(i, s)' < SliceAt(i, v)
        BY <2>4, <2>8, <3>1, <4>1
      <4> QED
        BY <2>5, <2>8, <4>2, <4>3
    <3>4. CASE \A v \in 0..(tick - 1) : timeline[v] = pid =>
                   \A k \in At(Alive, Level(pid)) \ {pid} : trace[k].arrival <= v =>
                       \E u \in v..(tick - 1) : timeline[u] = k
      <4>1. s \in s..t /\ tick \in s..t /\ \A u \in s..(tick - 1) : u \in s..t /\ u \in Decided
        BY <2>3, <2>8, <3>1
      <4>2. j \in Alive /\ s \in Wanting(j)
        BY <2>2, <2>3, <2>8, <4>1
      <4>3. j \in At(Alive, Level(pid)) \ {pid} /\ trace[j].arrival <= s
        <5>1. trace[j].arrival \in Nat
          BY <1>0, RowTypes DEF TypeInv, TypeOK, Procs
        <5> QED
          BY <3>1, <4>2, <5>1 DEF At, Wanting
      <4>4. \E u \in s..(tick - 1) : timeline[u] = j
        BY <3>1, <3>4, <4>3
      <4> QED
        BY <2>2, <4>1, <4>4
    <3> QED
      BY <3>1, <3>2, <3>3, <3>4
  <2> QED
    BY <2>2, <2>6, <2>7, <2>8
<1> QED
  BY <1>1, <1>2 DEF MlqNext, MlqVars, Halt

\* mlq.c: within a round-robin level nobody begins another slice before
\* everyone who has wanted the CPU all along has run, displacements, saved
\* slices and arrivals notwithstanding.
THEOREM OneSliceEachCorrect == MlqSpec => []OneSliceEach
<1> DEFINE I == MlqIInv /\ SlicesInv /\ TurnsInv /\ OneSliceEach
<1>1. MlqInit => I
  <2> SUFFICES ASSUME MlqInit PROVE I
    OBVIOUS
  <2>1. MlqIInv
    BY MlqInvInit
  <2>2. Decided = {} /\ Alive = {} /\ Decisions = 0
    <3>1. Init /\ TypeInv
      BY <2>1 DEF MlqInit, MlqIInv, MetricsInv
    <3>2. tick = 0 /\ phase = "test" /\ \A i \in Procs : trace[i].arrival \in Nat
      BY <3>1, RowTypes DEF Init, TypeInv, TypeOK, Procs
    <3> QED
      BY <3>2 DEF Decided, Decisions, Alive, Admitted
  <2>3. /\ mlq.running = IDLE
        /\ \A lv \in Levels : mlq.saved[lv] = 0 /\ Contents(mlq.queue[lv]) = <<>>
    BY ProcessTableAssumption DEF MlqInit, mlq_init, EmptyRings, Contents
  <2>4. SlicesInv
    <3>1. \A lv \in RoundRobinLevels : ~ (mlq.saved[lv] > 0)
      BY <2>3 DEF RoundRobinLevels
    <3> QED
      BY <2>2, <2>3, <3>1 DEF SlicesInv, SavedOk
  <2>5. TurnsInv
    <3>1. \A lv \in RoundRobinLevels : DOMAIN Queued(lv) = {}
      BY <2>3 DEF RoundRobinLevels, Queued
    <3> QED
      BY <3>1 DEF TurnsInv, InTurn
  <2>6. OneSliceEach
    BY <2>2 DEF OneSliceEach
  <2> QED
    BY <2>1, <2>4, <2>5, <2>6
<1>2. I /\ [MlqNext]_MlqVars => I'
  BY MlqInvStep, SlicesStep, TurnsStep, OneSliceEachStep
<1>3. I => OneSliceEach
  OBVIOUS
<1> QED
  BY <1>1, <1>2, <1>3, PTL DEF MlqSpec

\* The engine under the abstract specification is the same engine.
LEMMA SameEngine ==
    /\ Abstract!Init <=> Init
    /\ Abstract!Procs = Procs /\ Abstract!Answers = Answers
    /\ Abstract!LoopTest <=> LoopTest
    /\ \A i : Abstract!Admit(i) <=> Admit(i)
    /\ \A pid : Abstract!Pick(pid) <=> Pick(pid)
    /\ Abstract!Execute <=> Execute
    /\ Abstract!Finishing <=> Finishing
    /\ Abstract!EndTick <=> EndTick
    /\ Abstract!Halt <=> Halt
    /\ Abstract!vars = vars
<1>1. /\ Abstract!table = table /\ Abstract!result = result /\ Abstract!IDLE = IDLE
      /\ Abstract!Procs = Procs /\ Abstract!NOT_STARTED = NOT_STARTED
      /\ Abstract!Ticks = Ticks /\ Abstract!UnknownPid = UnknownPid
  BY DEF Abstract!table, table, Abstract!result, result, Abstract!IDLE, IDLE,
         Abstract!Procs, Procs, Abstract!NOT_STARTED, NOT_STARTED, Abstract!Ticks, Ticks,
         Abstract!UnknownPid, UnknownPid
<1>2. Abstract!vars = vars /\ Abstract!Answers = Answers
  BY <1>1 DEF Abstract!vars, vars, Abstract!Answers, Answers
<1>3. Abstract!Init <=> Init
  BY <1>1 DEF Abstract!Init, Init
<1>4. Abstract!LoopTest <=> LoopTest
  BY DEF Abstract!LoopTest, LoopTest, Abstract!CapReached, CapReached,
         Abstract!table, table, Abstract!result, result
<1>5. \A i : Abstract!Admit(i) <=> Admit(i)
  BY <1>1 DEF Abstract!Admit, Admit, Abstract!table, table, Abstract!result, result
<1>6. \A pid : Abstract!Pick(pid) <=> Pick(pid)
  <2>1. \A pid : Abstract!IsSwitch(pid) <=> IsSwitch(pid)
    BY <1>1 DEF Abstract!IsSwitch, IsSwitch
  <2>2. Abstract!Ready = Ready /\ Abstract!AllAdmitted = AllAdmitted
    BY <1>1 DEF Abstract!Ready, Ready, Abstract!AllAdmitted, AllAdmitted
  <2> QED
    BY <1>1, <2>1, <2>2 DEF Abstract!Pick, Pick, Abstract!table, table
<1>7. (Abstract!Finishing <=> Finishing) /\ (Abstract!Execute <=> Execute)
  BY <1>1 DEF Abstract!Execute, Execute, Abstract!Finishing, Finishing,
     Abstract!FirstDispatch, FirstDispatch, Abstract!StampOf, StampOf, Abstract!result, result
<1>8. Abstract!EndTick <=> EndTick
  BY DEF Abstract!EndTick, EndTick, Abstract!table, table, Abstract!result, result
<1>9. Abstract!Halt <=> Halt
  BY DEF Abstract!Halt, Halt, Abstract!Returned, Returned, Abstract!vars, vars,
     Abstract!table, table, Abstract!result, result
<1> QED
  BY <1>1, <1>2, <1>3, <1>4, <1>5, <1>6, <1>7, <1>8, <1>9

-----------------------------------------------------------------------------
\* The abstract queues.  A line is what its ring holds, behind the process on
\* the CPU if that is of its level.
Line(s, lv) ==
    IF s.running # IDLE /\ s.level = lv THEN <<s.running>> \o Contents(s.queue[lv])
    ELSE Contents(s.queue[lv])

\* The state of the struct in which exactly the members of A are in a line.
Lined(s, A) ==
    /\ A \subseteq Procs /\ RingsHold(s, A)
    /\ s.running # IDLE => s.running \in A /\ s.level = Level(s.running)

\* Where there are no slices there is nothing to save and nothing left.
Unsliced(s) ==
    \A lv \in Levels \ RoundRobinLevels :
        /\ s.saved[lv] = 0
        /\ s.running # IDLE /\ s.level = lv => s.left = 0

LEMMA LineHolds ==
    ASSUME TypeInv, NEW s, NEW A, Lined(s, A), NEW lv \in Levels
    PROVE  /\ \A i : i \in Range(Line(s, lv)) <=> i \in A /\ Level(i) = lv
           /\ Contents(s.queue[lv]) \in Seq(Leftover \cup Procs)
<1> DEFINE q == Contents(s.queue[lv])
<1>1. /\ q \in Seq(Leftover \cup Procs)
      /\ Holds(q, At(A, lv), s.running)
      /\ IDLE \notin A
  <2>1. q \in Seq(Leftover \cup Procs) /\ Holds(q, At(A, lv), s.running)
    BY RingFacts, Zenon DEF Lined
  <2> QED
    BY <2>1, LevelTypes DEF Lined
<1>2. \A i : i \in Range(q) <=> i \in A /\ Level(i) = lv /\ i # s.running
  BY <1>1 DEF Holds, Range, At
<1> HIDE DEF q
<1>3. CASE s.running # IDLE /\ s.level = lv
  <2>1. /\ Line(s, lv) = <<s.running>> \o q /\ s.running \in A /\ Level(s.running) = lv
    BY <1>3 DEF Line, Lined, q
  <2>2. \A i : i \in Range(<<s.running>> \o q) <=> i = s.running \/ i \in Range(q)
    <3>1. /\ DOMAIN (<<s.running>> \o q) = 1..(Len(q) + 1)
          /\ (<<s.running>> \o q)[1] = s.running
          /\ \A k \in 1..Len(q) : (<<s.running>> \o q)[k + 1] = q[k]
          /\ DOMAIN q = 1..Len(q) /\ Len(q) \in Nat
      BY <1>1
    <3> DEFINE z == <<s.running>> \o q
               n == Len(q)
    <3> HIDE DEF z, n
    <3>2. ASSUME NEW k \in DOMAIN z PROVE z[k] = s.running \/ \E m \in DOMAIN q : q[m] = z[k]
      <4>1. CASE k = 1
        BY <3>1, <4>1 DEF z
      <4>2. CASE k # 1
        <5>1. PICK m \in 1..n : k = m + 1
          <6>1. k \in 1..(n + 1) /\ n \in Nat
            BY <3>1 DEF z, n
          <6>2. k - 1 \in 1..n /\ k = (k - 1) + 1
            BY <4>2, <6>1
          <6> QED
            BY <6>2
        <5> QED
          BY <3>1, <5>1 DEF z, n
      <4> QED
        BY <4>1, <4>2
    <3>3. ASSUME NEW m \in DOMAIN q PROVE \E k \in DOMAIN z : z[k] = q[m]
      <4>1. m + 1 \in DOMAIN z /\ z[m + 1] = q[m]
        BY <3>1 DEF z, n
      <4> QED
        BY <4>1
    <3>4. 1 \in DOMAIN z /\ z[1] = s.running
      BY <3>1 DEF z
    <3> QED
      BY <3>2, <3>3, <3>4 DEF Range, z
  <2> QED
    BY <1>1, <1>2, <2>1, <2>2 DEF q
<1>4. CASE ~ (s.running # IDLE /\ s.level = lv)
  <2>1. Line(s, lv) = q
    BY <1>4 DEF Line, q
  <2>2. \A i : i \in A /\ Level(i) = lv => i # s.running
    BY <1>1, <1>4 DEF Lined
  <2> QED
    BY <1>1, <1>2, <2>1, <2>2 DEF q
<1> QED
  BY <1>3, <1>4

\* What is left of a slice, read off the lines.
LEMMA RestFrom ==
    ASSUME TypeInv, NEW s, NEW A, Lined(s, A), NEW i
    PROVE  LET at == CHOOSE lv \in Levels : i \in Range(Line(s, lv))
               rest == IF i = s.running THEN s.left
                       ELSE IF s.saved[at] > 0 /\ i = Head(Contents(s.queue[at]))
                       THEN s.saved[at] ELSE LevelQuantum[at]
           IN  (IF \E lv \in Levels : i \in Range(Line(s, lv)) THEN rest ELSE 0)
                   = IF i \in A THEN RestIn(s, i) ELSE 0
<1>1. \A lv \in Levels : i \in Range(Line(s, lv)) <=> i \in A /\ Level(i) = lv
  BY LineHolds
<1>2. i \in A => Level(i) \in Levels
  BY LevelTypes DEF Lined
<1>3. CASE i \in A
  <2>1. (CHOOSE lv \in Levels : i \in Range(Line(s, lv))) = Level(i)
    BY <1>1, <1>2, <1>3
  <2>2. \E lv \in Levels : i \in Range(Line(s, lv))
    BY <1>1, <1>2, <1>3
  <2> QED
    BY <1>3, <2>1, <2>2 DEF RestIn
<1>4. CASE i \notin A
  BY <1>1, <1>4
<1> QED
  BY <1>3, <1>4

LEMMA MlqLined == ASSUME MlqIInv PROVE Lined(mlq, Alive)
BY LevelTypes DEF MlqIInv, MlqInv, MetricsInv, Lined

LEMMA WhereIs ==
    ASSUME MlqIInv, NEW i \in Alive
    PROVE  /\ Abstract!LevelOf(i) = Level(i) /\ Level(i) \in Levels
           /\ InOrder(Level(i)) # <<>>
<1> DEFINE L == [lv \in Levels |-> InOrder(lv)]
<1>1. /\ \A lv \in Levels : i \in Range(InOrder(lv)) <=> Level(i) = lv
      /\ Level(i) \in Levels
  <2>1. Lined(mlq, Alive) /\ TypeInv /\ Level(i) \in Levels
    BY MlqLined, LevelTypes DEF MlqIInv, MetricsInv
  <2>2. \A lv \in Levels : InOrder(lv) = Line(mlq, lv)
    BY DEF InOrder, Line, Queued
  <2> QED
    BY <2>1, <2>2, LineHolds
<1>2. \A lv \in Levels : Abstract!Members(lv) = Range(InOrder(lv))
  BY DEF Abstract!Members, Range
<1>3. Abstract!Occupied = {lv \in Levels : InOrder(lv) # <<>>}
  BY DEF Abstract!Occupied
<1>4. InOrder(Level(i)) # <<>>
  <2>1. PICK k \in DOMAIN InOrder(Level(i)) : InOrder(Level(i))[k] = i
    BY <1>1 DEF Range
  <2> QED
    BY <2>1
<1> QED
  BY <1>1, <1>2, <1>3, <1>4 DEF Abstract!LevelOf

-----------------------------------------------------------------------------
\* Displacing and dispatching move nobody in the lines.
LEMMA ReleaseKeepsLines ==
    ASSUME TypeInv, Len(trace) <= MaxProcesses, NEW s, NEW A, Lined(s, A), Displaced(s)
    PROVE  /\ Lined(Release(s), A)
           /\ \A lv \in Levels : Line(Release(s), lv) = Line(s, lv)
<1> DEFINE t == Release(s)
<1>1. /\ RingsHold(t, A) /\ t.running = IDLE
      /\ Contents(t.queue[s.level]) = <<s.running>> \o Contents(s.queue[s.level])
      /\ \A m \in Levels \ {s.level} : t.queue[m] = s.queue[m]
      /\ s.running # IDLE /\ A \subseteq Procs
  BY Released DEF Lined, Displaced
<1> HIDE DEF t
<1>2. Lined(t, A) /\ \A lv \in Levels : Line(t, lv) = Line(s, lv)
  BY <1>1 DEF Lined, Line
<1> QED
  BY <1>2 DEF t

LEMMA DispatchKeepsLines ==
    ASSUME TypeInv, NEW s, NEW A, Lined(s, A), s.running = IDLE
    PROVE  /\ Lined(Dispatch(s), A)
           /\ \A lv \in Levels : Line(Dispatch(s), lv) = Line(s, lv)
<1> DEFINE t == Dispatch(s)
<1>1. A \subseteq Procs /\ RingsHold(s, A) /\ RingsHold(t, A) /\ IDLE \notin A
  BY Dispatched, LevelTypes DEF Lined
<1>2. CASE t.running = IDLE /\ t.queue = s.queue
  <2> HIDE DEF t
  <2>1. Lined(t, A) /\ \A lv \in Levels : Line(t, lv) = Line(s, lv)
    BY <1>1, <1>2 DEF Lined, Line
  <2> QED
    BY <2>1 DEF t
<1>3. CASE /\ t.running \in A /\ t.level = Level(t.running)
           /\ Contents(s.queue[t.level]) # <<>>
           /\ t.running = Head(Contents(s.queue[t.level]))
           /\ Contents(t.queue[t.level]) = Tail(Contents(s.queue[t.level]))
           /\ \A m \in Levels \ {t.level} : t.queue[m] = s.queue[m]
  <2> HIDE DEF t
  <2> DEFINE q == Contents(s.queue[t.level])
  <2>1. t.level \in Levels
    BY <1>1, <1>3, LevelTypes
  <2>2. q \in Seq(Leftover \cup Procs)
    BY <2>1, LineHolds
  <2>3. <<Head(q)>> \o Tail(q) = q
    BY <1>3, <2>2, InFront
  <2>4. Lined(t, A) /\ \A lv \in Levels : Line(t, lv) = Line(s, lv)
    BY <1>1, <1>3, <2>3 DEF Lined, Line
  <2> QED
    BY <2>4 DEF t
<1> QED
  BY <1>2, <1>3, Dispatched DEF Lined

LEMMA PickKeepsLines ==
    ASSUME MlqIInv, NEW pid, mlq_pick_next(pid)
    PROVE  Lined(mlq', Alive) /\ \A lv \in Levels : Line(mlq', lv) = Line(mlq, lv)
<1>1. Lined(mlq, Alive) /\ TypeInv /\ Len(trace) <= MaxProcesses
  BY MlqLined DEF MlqIInv, MlqInv, MetricsInv
<1>2. CASE Continues(mlq)
  <2>1. mlq' = mlq
    BY <1>2 DEF mlq_pick_next
  <2> QED
    BY <1>1, <2>1
<1>3. CASE ~ Continues(mlq)
  <2> DEFINE R == Release(mlq)
  <2>1. Lined(R, Alive) /\ R.running = IDLE /\ \A lv \in Levels : Line(R, lv) = Line(mlq, lv)
    <3>1. CASE Displaced(mlq)
      <4>1. R.running = IDLE
        BY <1>1, <3>1, Released DEF Lined, Displaced
      <4> QED
        BY <1>1, <3>1, <4>1, ReleaseKeepsLines
    <3>2. CASE ~ Displaced(mlq)
      BY <1>1, <1>3, <3>2, NobodyReleased
    <3> QED
      BY <3>1, <3>2
  <2>2. mlq' = Dispatch(R)
    BY <1>3 DEF mlq_pick_next
  <2> HIDE DEF R
  <2> QED
    BY <1>1, <2>1, <2>2, DispatchKeepsLines
<1> QED
  BY <1>2, <1>3

LEMMA FrontIs ==
    ASSUME TypeInv, NEW s, NEW A, Lined(s, A), NEW Q, Q = [lv \in Levels |-> Line(s, lv)],
           s.running = IDLE => A = {},
           s.running # IDLE => \A j \in A : s.level <= Level(j)
    PROVE  Abstract!FrontOf(Q) = s.running
<1> DEFINE O == {lv \in DOMAIN Q : Q[lv] # <<>>}
<1>1. /\ \A lv \in Levels : Line(s, lv) # <<>> => \E j \in A : Level(j) = lv
      /\ \A lv \in Levels : Contents(s.queue[lv]) \in Seq(Leftover \cup Procs)
  <2> SUFFICES ASSUME NEW lv \in Levels
               PROVE  /\ Line(s, lv) # <<>> => \E j \in A : Level(j) = lv
                      /\ Contents(s.queue[lv]) \in Seq(Leftover \cup Procs)
    OBVIOUS
  <2>1. /\ \A i : i \in Range(Line(s, lv)) <=> i \in A /\ Level(i) = lv
        /\ Contents(s.queue[lv]) \in Seq(Leftover \cup Procs)
    BY LineHolds
  <2>2. Line(s, lv) # <<>> => 1 \in DOMAIN Line(s, lv)
    <3>1. CASE Line(s, lv) = <<s.running>> \o Contents(s.queue[lv])
      BY <2>1, <3>1
    <3>2. CASE Line(s, lv) = Contents(s.queue[lv])
      BY <2>1, <3>2
    <3> QED
      BY <3>1, <3>2 DEF Line
  <2> QED
    BY <2>1, <2>2 DEF Range
<1>2. O = {lv \in Levels : Line(s, lv) # <<>>}
  OBVIOUS
<1>3. CASE s.running = IDLE
  <2>1. O = {}
    BY <1>1, <1>2, <1>3
  <2> QED
    BY <1>3, <2>1 DEF Abstract!FrontOf, Abstract!IDLE, IDLE
<1>4. CASE s.running # IDLE
  <2>1. s.level \in Levels
    BY <1>4, LevelTypes DEF Lined
  <2>2. Line(s, s.level) = <<s.running>> \o Contents(s.queue[s.level])
    BY <1>4 DEF Line
  <2>3. Line(s, s.level) # <<>> /\ Head(Line(s, s.level)) = s.running
    BY <1>1, <2>1, <2>2, InFront
  <2>4. s.level \in O /\ \A lv \in O : s.level <= lv
    BY <1>1, <1>2, <1>4, <2>1, <2>3
  <2>5. \A lv \in O : lv \in Int
    BY <1>2 DEF Levels
  <2> HIDE DEF O
  <2>6. Abstract!Min(O) = s.level
    BY <2>4, <2>5 DEF Abstract!Min
  <2> QED
    BY <2>1, <2>3, <2>4, <2>6 DEF Abstract!FrontOf, O
<1> QED
  BY <1>3, <1>4

-----------------------------------------------------------------------------
LEMMA LinedNext ==
    ASSUME MlqIInv', trace' = trace, TypeInv
    PROVE  Lined(mlq', Alive')
<1>1. Procs' = Procs /\ (\A i : Level(i)' = Level(i)) /\ MlqStates' = MlqStates
  BY DEF Procs, Level, MlqStates
<1>2. Alive' \subseteq Procs
  BY <1>1 DEF Alive, Admitted
<1>3. \A lv : At(Alive, lv)' = At(Alive', lv)
  BY <1>1 DEF At
<1>4. RingsHold(mlq', Alive')
  BY <1>1, <1>3 DEF MlqIInv, MlqInv, RingsHold
<1>5. mlq'.running # IDLE => mlq'.running \in Alive' /\ mlq'.level = Level(mlq'.running)
  BY <1>1 DEF MlqIInv, MlqInv
<1> QED
  BY <1>2, <1>4, <1>5 DEF Lined

\* The rest of each row, before and after a step.
LEMMA RestsAre ==
    ASSUME MlqIInv, [MlqNext]_MlqVars
    PROVE  /\ \A i : RestOf(i) = IF i \in Alive THEN RestIn(mlq, i) ELSE 0
           /\ \A i : (RestOf(i))' = IF i \in Alive' THEN RestIn(mlq', i) ELSE 0
<1>1. TypeInv /\ trace' = trace /\ MlqIInv'
  BY MlqNextIsWCNext, WCNextIsNext, TraceStep, MlqInvStep DEF MlqIInv, MetricsInv
<1>2. Lined(mlq, Alive) /\ Lined(mlq', Alive')
  BY <1>1, MlqLined, LinedNext
<1>3. /\ \A lv : InOrder(lv) = Line(mlq, lv)
      /\ \A lv : InOrder(lv)' = Line(mlq', lv)
  BY DEF InOrder, Line, Queued
<1>4. ASSUME NEW i PROVE RestOf(i) = IF i \in Alive THEN RestIn(mlq, i) ELSE 0
  <2>1. RestOf(i) = LET at == CHOOSE lv \in Levels : i \in Range(Line(mlq, lv))
                        rest == IF i = mlq.running THEN mlq.left
                                ELSE IF mlq.saved[at] > 0 /\ i = Head(Contents(mlq.queue[at]))
                                THEN mlq.saved[at] ELSE LevelQuantum[at]
                    IN  IF \E lv \in Levels : i \in Range(Line(mlq, lv)) THEN rest ELSE 0
    BY <1>3 DEF RestOf, RestAt, Queued
  <2> QED
    BY <1>1, <1>2, <2>1, RestFrom
<1>5. ASSUME NEW i PROVE (RestOf(i))' = IF i \in Alive' THEN RestIn(mlq', i) ELSE 0
  <2>1. (RestOf(i))'
            = LET at == CHOOSE lv \in Levels : i \in Range(Line(mlq', lv))
                  rest == IF i = mlq'.running THEN mlq'.left
                          ELSE IF mlq'.saved[at] > 0 /\ i = Head(Contents(mlq'.queue[at]))
                          THEN mlq'.saved[at] ELSE LevelQuantum[at]
              IN  IF \E lv \in Levels : i \in Range(Line(mlq', lv)) THEN rest ELSE 0
    BY <1>3 DEF RestOf, RestAt, Queued
  <2> QED
    BY <1>1, <1>2, <2>1, RestFrom
<1> QED
  BY <1>4, <1>5

LEMMA NoSliceNoRest ==
    ASSUME TypeInv, NEW s, NEW A, Lined(s, A), Unsliced(s),
           NEW j \in A, Level(j) \notin RoundRobinLevels
    PROVE  RestIn(s, j) = 0
<1>1. Level(j) \in Levels /\ LevelQuantum[Level(j)] \in Nat
  BY LevelTypes DEF Lined
<1>2. LevelQuantum[Level(j)] = 0
  BY <1>1 DEF RoundRobinLevels
<1>3. IDLE \notin A
  BY LevelTypes DEF Lined
<1> QED
  BY <1>1, <1>2, <1>3 DEF RestIn, Unsliced, Lined

LEMMA UnslicedStep ==
    ASSUME MlqIInv, Unsliced(mlq), [MlqNext]_MlqVars
    PROVE  Unsliced(mlq')
<1>0. /\ Lined(mlq, Alive) /\ TypeInv /\ Len(trace) <= MaxProcesses /\ mlq \in MlqStates
      /\ \A lv \in Levels \ RoundRobinLevels : LevelQuantum[lv] = 0
  <2>1. \A lv \in Levels \ RoundRobinLevels : LevelQuantum[lv] = 0
    BY MlqAssumption DEF RoundRobinLevels
  <2> QED
    BY <2>1, MlqLined DEF MlqIInv, MlqInv, MetricsInv, RingsHold
<1>1. ASSUME NEW i \in Procs, Admit(i), mlq_on_arrival(i) PROVE Unsliced(mlq')
  <2>1. mlq'.running = mlq.running /\ mlq'.level = mlq.level /\ mlq'.left = mlq.left
        /\ mlq'.saved = mlq.saved
    BY <1>1, ArrivalIs
  <2> QED
    BY <2>1 DEF Unsliced
<1>2. ASSUME NEW pid \in Answers, mlq_pick_next(pid), Pick(pid) PROVE Unsliced(mlq')
  <2>1. CASE Continues(mlq)
    BY <1>2, <2>1 DEF mlq_pick_next
  <2>2. CASE ~ Continues(mlq)
    <3> DEFINE R == Release(mlq)
    <3>1. /\ Lined(R, Alive) /\ R.running = IDLE
          /\ \A lv \in Levels \ RoundRobinLevels : R.saved[lv] = 0
      <4>1. CASE Displaced(mlq)
        <5>1. R.running = IDLE /\ R.saved = [mlq.saved EXCEPT ![mlq.level] = mlq.left]
          BY <1>0, <4>1, Released DEF Lined, Displaced
        <5>2. mlq.saved \in [Levels -> Nat] /\ mlq.running # IDLE
          BY <1>0, <4>1 DEF MlqStates, Displaced
        <5> QED
          BY <1>0, <4>1, <5>1, <5>2, ReleaseKeepsLines DEF Unsliced
      <4>2. CASE ~ Displaced(mlq)
        BY <1>0, <2>2, <4>2, NobodyReleased DEF Unsliced
      <4> QED
        BY <4>1, <4>2
    <3>2. mlq' = Dispatch(R)
      BY <1>2, <2>2 DEF mlq_pick_next
    <3> HIDE DEF R
    <3>3. \/ mlq'.running = IDLE /\ mlq'.saved = R.saved
          \/ /\ mlq'.saved = [R.saved EXCEPT ![mlq'.level] = 0]
             /\ mlq'.left = IF R.saved[mlq'.level] > 0 THEN R.saved[mlq'.level]
                            ELSE LevelQuantum[mlq'.level]
      BY <1>0, <3>1, <3>2, Dispatched DEF Lined
    <3>4. R.saved \in [Levels -> Nat]
      BY <3>1 DEF Lined, RingsHold, MlqStates
    <3> QED
      BY <1>0, <3>1, <3>3, <3>4 DEF Unsliced
  <2> QED
    BY <2>1, <2>2
<1>3. CASE mlq_on_complete
  <2>1. mlq'.running = IDLE /\ mlq'.saved = mlq.saved
    BY <1>0, <1>3 DEF mlq_on_complete, MlqStates
  <2> QED
    BY <2>1 DEF Unsliced
<1>4. CASE EndTick /\ mlq_on_tick_end
  <2>1. CASE ~ HasSlice
    BY <1>4, <2>1 DEF mlq_on_tick_end
  <2>2. CASE HasSlice /\ mlq.left > 1
    <3>1. /\ mlq' = [mlq EXCEPT !.left = mlq.left - 1] /\ mlq.left - 1 \in Nat
          /\ LevelQuantum[mlq.level] > 0
      BY <1>0, <1>4, <2>2 DEF mlq_on_tick_end, HasSlice, MlqStates
    <3>2. mlq'.running = mlq.running /\ mlq'.level = mlq.level /\ mlq'.saved = mlq.saved
      BY <1>0, <3>1 DEF MlqStates
    <3> QED
      BY <3>1, <3>2 DEF Unsliced, RoundRobinLevels
  <2>3. CASE HasSlice /\ ~ (mlq.left > 1)
    <3>1. mlq'.running = IDLE /\ mlq'.saved = mlq.saved
      BY <1>4, <2>3, RequeueIs
    <3> QED
      BY <3>1 DEF Unsliced
  <2> QED
    BY <2>1, <2>2, <2>3
<1>5. CASE UNCHANGED mlq
  BY <1>5
<1> QED
  BY <1>1, <1>2, <1>3, <1>4, <1>5 DEF MlqNext, MlqVars

LEMMA AllRests ==
    ASSUME TypeInv, NEW s, NEW A, Lined(s, A), Unsliced(s),
           NEW t, NEW B, Lined(t, B), Unsliced(t), NEW j, j \in A, j \in B,
           Level(j) \in RoundRobinLevels => RestIn(t, j) = RestIn(s, j)
    PROVE  RestIn(t, j) = RestIn(s, j)
BY NoSliceNoRest

LEMMA MlqStepIsQueueStep ==
    ASSUME MlqIInv, SlicesInv, Unsliced(mlq), MlqNext
    PROVE  Abstract!QueueNext
<1> DEFINE L == [lv \in Levels |-> InOrder(lv)]
<1>0. /\ TypeInv /\ trace' = trace /\ Procs' = Procs /\ SavedOk(mlq) /\ mlq \in MlqStates
      /\ Lined(mlq, Alive) /\ Lined(mlq', Alive') /\ Unsliced(mlq')
      /\ Alive \subseteq Procs /\ IDLE \notin Procs /\ RingsHold(mlq, Alive)
      /\ \A i \in Procs : Level(i) \in Levels
      /\ LevelQuantum \in [Levels -> Nat]
  <2>1. TypeInv /\ trace' = trace /\ Procs' = Procs /\ MlqIInv'
    BY MlqNextIsWCNext, WCNextIsNext, TraceStep, MlqInvStep DEF MlqIInv, MetricsInv, Procs
  <2> QED
    BY <2>1, MlqLined, LinedNext, LevelTypes, UnslicedStep
       DEF SlicesInv, MlqIInv, MlqInv, RingsHold
<1>1. /\ \A i \in Procs : Admit(i) => i \notin Alive /\ Alive' = Alive \cup {i}
      /\ Execute => /\ next \in Alive
                    /\ Alive' = IF remaining[next] = 1 THEN Alive \ {next} ELSE Alive
      /\ Execute \/ (\E i \in Procs : Admit(i)) \/ Alive' = Alive
  BY MlqNextIsWCNext, AliveStep DEF MlqIInv
<1>2. /\ \A i : RestOf(i) = IF i \in Alive THEN RestIn(mlq, i) ELSE 0
      /\ \A i : (RestOf(i))' = IF i \in Alive' THEN RestIn(mlq', i) ELSE 0
      /\ \A lv \in Levels : InOrder(lv) = Line(mlq, lv) /\ InOrder(lv)' = Line(mlq', lv)
  BY RestsAre DEF InOrder, Line, Queued
<1>3. ASSUME mlq' = mlq, Alive' = Alive PROVE UNCHANGED Abstract!lines
  <2>1. (\A lv \in Levels : InOrder(lv)' = InOrder(lv)) /\ \A i \in Procs : (RestOf(i))' = RestOf(i)
    BY <1>2, <1>3
  <2> QED
    BY <1>0, <2>1 DEF Abstract!lines
<1>4. CASE (LoopTest \/ Halt) /\ UNCHANGED mlq
  <2>1. Alive' = Alive
    BY <1>1, <1>4 DEF LoopTest, Halt, Returned, Admit, Execute
  <2> QED
    BY <1>3, <1>4, <2>1, SameEngine DEF Abstract!QueueNext
<1>5. ASSUME NEW i \in Procs, Admit(i), mlq_on_arrival(i) PROVE Abstract!QueueNext
  <2> DEFINE lv == Level(i)
  <2>1. /\ i \notin Alive /\ Alive' = Alive \cup {i} /\ i # mlq.running
        /\ lv \in Levels /\ RingsHold(mlq', Alive \cup {i})
        /\ mlq'.running = mlq.running /\ mlq'.level = mlq.level /\ mlq'.left = mlq.left
        /\ mlq'.saved = mlq.saved
        /\ Contents(mlq'.queue[lv]) = Append(Contents(mlq.queue[lv]), i)
        /\ \A m \in Levels \ {lv} : mlq'.queue[m] = mlq.queue[m]
    BY <1>5, ArrivalIs
  <2>2. /\ \A j \in Alive \ {i} : Level(j) \in RoundRobinLevels => RestIn(mlq', j) = RestIn(mlq, j)
        /\ lv \in RoundRobinLevels => RestIn(mlq', i) = LevelQuantum[lv]
    <3> DEFINE s == mlq
               t == mlq'
               B == Alive \cup {i}
    <3>1. Len(Contents(t.queue[lv])) = t.queue[lv].count
      <4>1. RingsHold(t, B) /\ B \subseteq Procs /\ lv \in Levels /\ TypeInv
        BY <1>0, <2>1
      <4> HIDE DEF t, B, lv
      <4> QED
        BY <4>1, RingFacts
    <3>2. TypeInv /\ PushedAtTail(s, t, Alive, i, lv)
      BY <1>0, <2>1, <3>1 DEF PushedAtTail
    <3> HIDE DEF s, t, B, lv
    <3>3. /\ \A j \in Alive \ {i} : Level(j) \in RoundRobinLevels => RestIn(t, j) = RestIn(s, j)
          /\ lv \in RoundRobinLevels => RestIn(t, i) = LevelQuantum[lv]
      BY <3>2, TailRests
    <3> QED
      BY <3>3 DEF s, t, lv
  <2>3. ASSUME NEW j \in Procs PROVE (RestOf(j))' = IF j = i THEN LevelQuantum[lv] ELSE RestOf(j)
    <3>1. CASE j = i /\ lv \in RoundRobinLevels
      BY <1>2, <2>1, <2>2, <3>1
    <3>2. CASE j = i /\ lv \notin RoundRobinLevels
      <4>1. RestIn(mlq', i) = 0
        BY <1>0, <2>1, <3>2, NoSliceNoRest
      <4>2. LevelQuantum[lv] = 0
        BY <1>0, <2>1, <3>2 DEF RoundRobinLevels
      <4> QED
        BY <1>2, <2>1, <3>2, <4>1, <4>2
    <3>3. CASE j # i /\ j \in Alive
      <4>1. RestIn(mlq', j) = RestIn(mlq, j)
        <5>1. Level(j) \in RoundRobinLevels => RestIn(mlq', j) = RestIn(mlq, j)
          BY <2>2, <3>3
        <5> QED
          BY <1>0, <2>1, <3>3, <5>1, AllRests
      <4> QED
        BY <1>2, <2>1, <3>3, <4>1
    <3>4. CASE j # i /\ j \notin Alive
      BY <1>2, <2>1, <3>4
    <3> QED
      BY <3>1, <3>2, <3>3, <3>4
  <2>4. Line(mlq', lv) = Append(Line(mlq, lv), i)
        /\ \A m \in Levels \ {lv} : Line(mlq', m) = Line(mlq, m)
    <3>1. Contents(mlq.queue[lv]) \in Seq(Leftover \cup Procs)
      BY <1>0, <2>1, LineHolds
    <3> QED
      BY <2>1, <3>1, InFront DEF Line
  <2>5. /\ [m \in Levels |-> InOrder(m)]' = [L EXCEPT ![lv] = Append(@, i)]
        /\ [j \in Procs |-> RestOf(j)]' = [[j \in Procs |-> RestOf(j)] EXCEPT ![i] = LevelQuantum[lv]]
    BY <1>0, <1>2, <2>1, <2>3, <2>4
  <2>6. Abstract!Arrive(i)
    BY <2>5 DEF Abstract!Arrive, AssignedLevel, Level
  <2> QED
    BY <1>5, <2>6, SameEngine DEF Abstract!QueueNext
<1>6. ASSUME NEW pid \in Answers, mlq_pick_next(pid), Pick(pid) PROVE Abstract!QueueNext
  <2>1. phase = "admit" /\ AllAdmitted /\ Alive' = Alive
    BY <1>1, <1>6 DEF Pick, Admit, Execute
  <2>2. Lined(mlq', Alive) /\ \A lv \in Levels : Line(mlq', lv) = Line(mlq, lv)
    BY <1>6, PickKeepsLines
  <2>3. \A i \in Procs : (RestOf(i))' = RestOf(i)
    <3>1. \A i \in Alive : Level(i) \in RoundRobinLevels => RestIn(mlq', i) = RestIn(mlq, i)
      BY <1>6, <2>1, SlicesPicked
    <3>2. \A i \in Alive : RestIn(mlq', i) = RestIn(mlq, i)
      BY <1>0, <2>1, <3>1, AllRests
    <3> QED
      BY <1>2, <2>1, <3>2
  <2>4. UNCHANGED Abstract!lines
    <3>1. \A lv \in Levels : InOrder(lv)' = InOrder(lv)
      BY <1>2, <2>2
    <3> QED
      BY <1>0, <2>3, <3>1 DEF Abstract!lines
  <2>5. \A Q : Q = [lv \in Levels |-> InOrder(lv)'] => pid = Abstract!FrontOf(Q)
    <3>1. /\ mlq'.running = pid
          /\ pid = IDLE => Alive = {}
          /\ pid # IDLE => mlq'.level = Level(pid) /\ \A j \in Alive : Level(pid) <= Level(j)
      <4>1. /\ pid \in AllowedAnswers /\ mlq'.running = pid
            /\ pid # IDLE => mlq'.level = Level(pid) /\ \A j \in Alive : Level(pid) <= Level(j)
        BY <1>6, <2>1, MlqAnswers
      <4>2. Alive = Ready
        BY <2>1, AliveIsReady DEF MlqIInv, MetricsInv
      <4> QED
        BY <1>0, <4>1, <4>2 DEF AllowedAnswers
    <3>2. ASSUME NEW Q, Q = [lv \in Levels |-> InOrder(lv)'] PROVE pid = Abstract!FrontOf(Q)
      <4>1. Q = [lv \in Levels |-> Line(mlq', lv)]
        BY <1>2, <3>2
      <4> QED
        BY <1>0, <2>2, <3>1, <4>1, FrontIs
    <3> QED
      BY <3>2
  <2>6. Abstract!Choose(pid)
    BY <2>4, <2>5 DEF Abstract!Choose, Abstract!BoostDue
  <2> QED
    BY <1>6, <2>6, SameEngine DEF Abstract!QueueNext
<1>7. ASSUME Execute, IF Finishing THEN mlq_on_complete ELSE UNCHANGED mlq
      PROVE  Abstract!QueueNext
  <2>1. /\ mlq.running = next /\ next # IDLE /\ next \in Alive
        /\ Alive' = IF remaining[next] = 1 THEN Alive \ {next} ELSE Alive
    BY <1>0, <1>1, <1>7 DEF Execute, MlqIInv, MlqInv
  <2>2. CASE ~ Finishing
    BY <1>3, <1>7, <2>1, <2>2, SameEngine DEF Abstract!QueueNext, Finishing
  <2>3. CASE Finishing
    <3> DEFINE lv == Level(next)
    <3>1. /\ mlq'.running = IDLE /\ mlq'.queue = mlq.queue /\ mlq'.saved = mlq.saved
          /\ Alive' = Alive \ {next}
      BY <1>0, <1>7, <2>1, <2>3 DEF mlq_on_complete, Finishing, MlqStates
    <3>2. /\ Abstract!LevelOf(next) = lv /\ lv \in Levels /\ mlq.level = lv
          /\ Line(mlq, lv) = <<next>> \o Contents(mlq.queue[lv])
          /\ Contents(mlq.queue[lv]) \in Seq(Leftover \cup Procs)
      BY <1>0, <2>1, WhereIs, LineHolds DEF Lined, Line
    <3>3. /\ Line(mlq', lv) = Tail(Line(mlq, lv))
          /\ \A m \in Levels \ {lv} : Line(mlq', m) = Line(mlq, m)
      BY <2>1, <3>1, <3>2, InFront DEF Line
    <3>4. ASSUME NEW j \in Procs PROVE (RestOf(j))' = IF j = next THEN 0 ELSE RestOf(j)
      <4>1. j # IDLE /\ (j # next => RestIn(mlq', j) = RestIn(mlq, j))
        BY <1>0, <2>1, <3>1, RestKept
      <4> QED
        BY <1>2, <3>1, <4>1
    <3>5. /\ [m \in Levels |-> InOrder(m)]' = [L EXCEPT ![lv] = Tail(@)]
          /\ [j \in Procs |-> RestOf(j)]' = [[j \in Procs |-> RestOf(j)] EXCEPT ![next] = 0]
      BY <1>0, <1>2, <2>1, <3>2, <3>3, <3>4
    <3>6. Abstract!Leave
      BY <3>2, <3>5 DEF Abstract!Leave
    <3> QED
      BY <1>7, <2>3, <3>6, SameEngine DEF Abstract!QueueNext
  <2> QED
    BY <2>2, <2>3
<1>8. ASSUME EndTick, mlq_on_tick_end PROVE Abstract!QueueNext
  <2>1. /\ Alive' = Alive /\ phase = "tick_end"
        /\ mlq.running = IF next # IDLE /\ remaining[next] > 0 THEN next ELSE IDLE
        /\ next # IDLE => next \in Procs /\ remaining[next] \in Nat
    <3>1. next # IDLE => next \in Procs /\ remaining[next] \in Nat
      BY <1>0, <1>8 DEF EndTick, TypeInv, TypeOK, PhaseInv
    <3> QED
      BY <1>1, <1>8, <3>1 DEF EndTick, Admit, Execute, MlqIInv, MlqInv
  <2>2. ASSUME mlq.running # IDLE
        PROVE  /\ mlq.running = next /\ next # IDLE /\ next \in Alive /\ next \in Procs
               /\ remaining[next] # 0 /\ mlq.level = Level(next) /\ Level(next) \in Levels
               /\ Abstract!LevelOf(next) = Level(next)
               /\ Line(mlq, Level(next)) = <<next>> \o Contents(mlq.queue[Level(next)])
               /\ Contents(mlq.queue[Level(next)]) \in Seq(Leftover \cup Procs)
    <3>1. mlq.running = next /\ next # IDLE /\ next \in Alive /\ remaining[next] # 0
          /\ mlq.level = Level(next)
      BY <1>0, <2>1, <2>2 DEF Lined
    <3> QED
      BY <1>0, <2>2, <3>1, WhereIs, LineHolds DEF Line
  <2>3. CASE ~ HasSlice
    <3>1. UNCHANGED Abstract!lines
      BY <1>3, <1>8, <2>1, <2>3 DEF mlq_on_tick_end
    <3>2. CASE mlq.running = IDLE
      <4>1. next = IDLE \/ remaining[next] = 0
        BY <2>1, <3>2
      <4> QED
        BY <1>8, <3>1, <4>1, SameEngine DEF Abstract!QueueNext, Abstract!Spend, Abstract!IDLE, IDLE
    <3>3. CASE mlq.running # IDLE
      <4>1. LevelQuantum[Abstract!LevelOf(next)] = 0
        BY <1>0, <2>2, <2>3, <3>3 DEF HasSlice
      <4> QED
        BY <1>8, <3>1, <4>1, SameEngine DEF Abstract!QueueNext, Abstract!Spend
    <3> QED
      BY <3>2, <3>3
  <2>4. CASE HasSlice
    <3> DEFINE lv == Level(next)
    <3>1. mlq.running # IDLE /\ next # IDLE /\ LevelQuantum[lv] # 0 /\ lv \in RoundRobinLevels
      BY <1>0, <2>2, <2>4 DEF HasSlice, RoundRobinLevels
    <3>2. RestOf(next) = mlq.left /\ mlq.left \in Nat
      BY <1>0, <1>2, <2>2, <3>1 DEF RestIn, MlqStates
    <3>3. CASE mlq.left > 1
      <4>1. /\ mlq'.queue = mlq.queue /\ mlq'.running = mlq.running
            /\ mlq'.level = mlq.level /\ mlq'.left = mlq.left - 1 /\ mlq'.saved = mlq.saved
        <5>1. mlq' = [mlq EXCEPT !.left = mlq.left - 1] /\ mlq.left - 1 \in Nat
          BY <1>8, <2>4, <3>2, <3>3 DEF mlq_on_tick_end
        <5> QED
          BY <1>0, <5>1 DEF MlqStates
      <4>2. \A m \in Levels : Line(mlq', m) = Line(mlq, m)
        BY <4>1 DEF Line
      <4>3. ASSUME NEW j \in Procs PROVE (RestOf(j))' = IF j = next THEN RestOf(j) - 1 ELSE RestOf(j)
        <5>1. CASE j = next
          BY <1>2, <2>1, <2>2, <3>1, <3>2, <4>1, <5>1 DEF RestIn
        <5>2. CASE j # next
          <6>1. RestIn(mlq', j) = RestIn(mlq, j)
            BY <2>2, <3>1, <4>1, <5>2, RestKept
          <6> QED
            BY <1>2, <2>1, <5>2, <6>1
        <5> QED
          BY <5>1, <5>2
      <4>4. /\ [m \in Levels |-> InOrder(m)]' = L
            /\ [j \in Procs |-> RestOf(j)]' = [[j \in Procs |-> RestOf(j)] EXCEPT ![next] = @ - 1]
        BY <1>0, <1>2, <2>2, <3>1, <4>2, <4>3
      <4>5. [j \in Procs |-> RestOf(j)][next] > 1
        BY <2>2, <3>1, <3>2, <3>3
      <4>6. Abstract!Spend
        BY <2>2, <3>1, <4>4, <4>5 DEF Abstract!Spend, Abstract!IDLE, IDLE
      <4> QED
        BY <1>8, <4>6, SameEngine DEF Abstract!QueueNext
    <3>4. CASE ~ (mlq.left > 1)
      <4>1. /\ next \in Alive /\ mlq.running = next /\ mlq.level = lv /\ lv \in Levels
            /\ mlq.left = 1 /\ mlq'.running = IDLE /\ mlq'.level = mlq.level
            /\ mlq'.saved = mlq.saved /\ RingsHold(mlq', Alive)
            /\ Contents(mlq'.queue[lv]) = Append(Contents(mlq.queue[lv]), next)
            /\ \A m \in Levels \ {lv} : mlq'.queue[m] = mlq.queue[m]
        BY <1>8, <2>2, <2>4, <3>1, <3>4, RequeueIs
      <4>2. /\ \A j \in Alive \ {next} : Level(j) \in RoundRobinLevels
                   => RestIn(mlq', j) = RestIn(mlq, j)
            /\ RestIn(mlq', next) = LevelQuantum[lv]
        <5> DEFINE s == mlq
                   t == mlq'
                   r == next
        <5>1. Len(Contents(t.queue[lv])) = t.queue[lv].count
          <6>1. RingsHold(t, Alive) /\ lv \in Levels /\ TypeInv /\ Alive \subseteq Procs
            BY <1>0, <4>1
          <6> HIDE DEF t, lv
          <6> QED
            BY <6>1, RingFacts
        <5>2. TypeInv /\ PushedAtTail(s, t, Alive, r, lv)
          BY <1>0, <4>1, <5>1 DEF PushedAtTail
        <5>3. /\ \A j \in Alive \ {r} : Level(j) \in RoundRobinLevels => RestIn(t, j) = RestIn(s, j)
              /\ lv \in RoundRobinLevels => RestIn(t, r) = LevelQuantum[lv]
          <6> HIDE DEF s, t, r, lv
          <6> QED
            BY <5>2, TailRests
        <5> QED
          BY <3>1, <5>3
      <4>3. /\ Line(mlq', lv) = Append(Tail(Line(mlq, lv)), next)
            /\ \A m \in Levels \ {lv} : Line(mlq', m) = Line(mlq, m)
        BY <2>2, <3>1, <4>1, InFront DEF Line
      <4>4. ASSUME NEW j \in Procs
            PROVE  (RestOf(j))' = IF j = next THEN LevelQuantum[lv] ELSE RestOf(j)
        <5>1. CASE j = next
          BY <1>2, <2>1, <4>1, <4>2, <5>1
        <5>2. CASE j # next /\ j \in Alive
          <6>1. Level(j) \in RoundRobinLevels => RestIn(mlq', j) = RestIn(mlq, j)
            BY <4>2, <5>2
          <6>2. RestIn(mlq', j) = RestIn(mlq, j)
            BY <1>0, <2>1, <5>2, <6>1, AllRests
          <6> QED
            BY <1>2, <2>1, <5>2, <6>2
        <5>3. CASE j # next /\ j \notin Alive
          BY <1>2, <2>1, <5>3
        <5> QED
          BY <5>1, <5>2, <5>3
      <4>5. /\ [m \in Levels |-> InOrder(m)]'
                   = [[L EXCEPT ![lv] = Tail(@)] EXCEPT ![lv] = Append(@, next)]
            /\ [j \in Procs |-> RestOf(j)]'
                   = [[j \in Procs |-> RestOf(j)] EXCEPT ![next] = LevelQuantum[lv]]
        BY <1>0, <1>2, <2>2, <3>1, <4>3, <4>4
      <4>6. ~ ([j \in Procs |-> RestOf(j)][next] > 1)
        BY <2>2, <3>1, <3>2, <3>4
      <4>7. Abstract!Spend
        BY <2>2, <3>1, <4>5, <4>6 DEF Abstract!Spend, Abstract!IDLE, IDLE, SameLevel
      <4> QED
        BY <1>8, <4>7, SameEngine DEF Abstract!QueueNext
    <3> QED
      BY <3>3, <3>4
  <2> QED
    BY <2>3, <2>4
<1> QED
  BY <1>4, <1>5, <1>6, <1>7, <1>8 DEF MlqNext

\* All of it holds at the start.
LEMMA QueuesFrom ==
    ASSUME MlqInit
    PROVE  MlqIInv /\ SlicesInv /\ Unsliced(mlq) /\ Abstract!QueueInit
<1>1. MlqIInv
  BY MlqInvInit
<1>2. Alive = {}
  <2>1. Init /\ TypeInv
    BY <1>1 DEF MlqInit, MlqIInv, MetricsInv
  <2> QED
    BY <2>1, RowTypes DEF Init, TypeInv, TypeOK, Procs, Alive, Admitted
<1>3. /\ mlq.running = IDLE
      /\ \A lv \in Levels : mlq.saved[lv] = 0 /\ Contents(mlq.queue[lv]) = <<>>
  BY ProcessTableAssumption DEF MlqInit, mlq_init, EmptyRings, Contents
<1>4. MlqIInv /\ SlicesInv /\ Unsliced(mlq)
  <2>1. \A lv \in RoundRobinLevels : ~ (mlq.saved[lv] > 0)
    BY <1>3 DEF RoundRobinLevels
  <2> QED
    BY <1>1, <1>2, <1>3, <2>1 DEF SlicesInv, SavedOk, Unsliced
<1>5. \A lv \in Levels : InOrder(lv) = <<>>
  BY <1>3 DEF InOrder, Queued
<1>6. \A i : RestOf(i) = 0
  BY <1>5 DEF RestOf, Range
<1>7. DOMAIN LevelQuantum = Levels
  BY MlqAssumption
<1> QED
  BY <1>4, <1>5, <1>6, <1>7, SameEngine DEF MlqInit, Abstract!QueueInit

\* mlq.c implements the abstract queues, fairness apart: three rings and one
\* saved slice for each are lines in which every process has a slice of its
\* own, through any number of displacements, arrivals and completions.
THEOREM MlqImplementsQueues == MlqSpec => Abstract!QueueSafety
<1> DEFINE I == MlqIInv /\ SlicesInv /\ Unsliced(mlq)
<1>1. MlqInit => Abstract!QueueInit /\ I
  BY QueuesFrom
<1>2. I /\ [MlqNext]_MlqVars => I' /\ [Abstract!QueueNext]_(Abstract!QueueVars)
  <2>1. UNCHANGED MlqVars => UNCHANGED Abstract!QueueVars
    BY DEF MlqVars, vars, table, Procs, InOrder, Queued, RestOf, RestAt, Abstract!QueueVars,
       Abstract!vars, Abstract!table, Abstract!result, result, Abstract!lines
  <2>2. ASSUME I, [MlqNext]_MlqVars PROVE Unsliced(mlq)'
    <3>1. Unsliced(mlq')
      BY <2>2, UnslicedStep
    <3> QED
      BY <3>1 DEF Unsliced
  <2> QED
    BY <2>1, <2>2, MlqInvStep, SlicesStep, MlqStepIsQueueStep
<1> QED
  BY <1>1, <1>2, PTL DEF MlqSpec, Abstract!QueueSafety

-----------------------------------------------------------------------------
\* The same of the engine under the one line of a queue that has everyone.
LEMMA AloneEngine ==
    /\ Alone!Init <=> Init
    /\ Alone!Procs = Procs /\ Alone!Answers = Answers
    /\ Alone!LoopTest <=> LoopTest
    /\ \A i : Alone!Admit(i) <=> Admit(i)
    /\ \A pid : Alone!Pick(pid) <=> Pick(pid)
    /\ Alone!Execute <=> Execute
    /\ Alone!Finishing <=> Finishing
    /\ Alone!EndTick <=> EndTick
    /\ Alone!Halt <=> Halt
    /\ Alone!vars = vars
<1>1. /\ Alone!table = table /\ Alone!result = result /\ Alone!IDLE = IDLE
      /\ Alone!Procs = Procs /\ Alone!NOT_STARTED = NOT_STARTED
      /\ Alone!Ticks = Ticks /\ Alone!UnknownPid = UnknownPid
  BY DEF Alone!table, table, Alone!result, result, Alone!IDLE, IDLE,
         Alone!Procs, Procs, Alone!NOT_STARTED, NOT_STARTED, Alone!Ticks, Ticks,
         Alone!UnknownPid, UnknownPid
<1>2. Alone!vars = vars /\ Alone!Answers = Answers
  BY <1>1 DEF Alone!vars, vars, Alone!Answers, Answers
<1>3. Alone!Init <=> Init
  BY <1>1 DEF Alone!Init, Init
<1>4. Alone!LoopTest <=> LoopTest
  BY DEF Alone!LoopTest, LoopTest, Alone!CapReached, CapReached,
         Alone!table, table, Alone!result, result
<1>5. \A i : Alone!Admit(i) <=> Admit(i)
  BY <1>1 DEF Alone!Admit, Admit, Alone!table, table, Alone!result, result
<1>6. \A pid : Alone!Pick(pid) <=> Pick(pid)
  <2>1. \A pid : Alone!IsSwitch(pid) <=> IsSwitch(pid)
    BY <1>1 DEF Alone!IsSwitch, IsSwitch
  <2>2. Alone!Ready = Ready /\ Alone!AllAdmitted = AllAdmitted
    BY <1>1 DEF Alone!Ready, Ready, Alone!AllAdmitted, AllAdmitted
  <2> QED
    BY <1>1, <2>1, <2>2 DEF Alone!Pick, Pick, Alone!table, table
<1>7. (Alone!Finishing <=> Finishing) /\ (Alone!Execute <=> Execute)
  BY <1>1 DEF Alone!Execute, Execute, Alone!Finishing, Finishing,
     Alone!FirstDispatch, FirstDispatch, Alone!StampOf, StampOf, Alone!result, result
<1>8. Alone!EndTick <=> EndTick
  BY DEF Alone!EndTick, EndTick, Alone!table, table, Alone!result, result
<1>9. Alone!Halt <=> Halt
  BY DEF Alone!Halt, Halt, Alone!Returned, Returned, Alone!vars, vars,
     Alone!table, table, Alone!result, result
<1> QED
  BY <1>1, <1>2, <1>3, <1>4, <1>5, <1>6, <1>7, <1>8, <1>9

\* With everyone in one queue the lines of the others stay empty.
LEMMA OthersEmpty ==
    ASSUME TypeInv, OneQueue, NEW s, NEW A, Lined(s, A),
           NEW lv \in Levels, lv # trace[1].queue
    PROVE  Line(s, lv) = <<>>
<1> DEFINE c == Contents(s.queue[lv])
<1>1. \A i \in A : Level(i) # lv
  BY DEF OneQueue, Level, Lined
<1>2. /\ \A i : i \notin Range(Line(s, lv))
      /\ c \in Seq(Leftover \cup Procs)
  BY <1>1, LineHolds
<1>3. ~ (s.running # IDLE /\ s.level = lv)
  BY <1>1 DEF Lined
<1>4. Line(s, lv) = c /\ DOMAIN c = {}
  <2>1. Line(s, lv) = c
    BY <1>3 DEF Line
  <2> QED
    BY <1>2, <2>1 DEF Range
<1> HIDE DEF c
<1>5. c = <<>>
  BY <1>2, <1>4
<1> QED
  BY <1>4, <1>5

\* Each unfinished process is at the level of its line, in both readings.
LEMMA AloneLevel ==
    ASSUME MlqIInv, OneQueue, NEW i \in Alive
    PROVE  Alone!LevelOf(i) = 0 /\ Abstract!LevelOf(i) = trace[1].queue
<1> DEFINE q == trace[1].queue
<1>1. Level(i) = q /\ q \in Levels /\ Lined(mlq, Alive) /\ TypeInv
  <2>1. Lined(mlq, Alive) /\ TypeInv /\ Level(i) \in Levels
    BY MlqLined, LevelTypes DEF MlqIInv, MetricsInv, Lined
  <2> QED
    BY <2>1 DEF OneQueue, Level, Lined
<1>2. i \in Range(InOrder(q))
  <2>1. InOrder(q) = Line(mlq, q)
    BY DEF InOrder, Line, Queued
  <2> QED
    BY <1>1, <2>1, LineHolds
<1>3. PICK k \in DOMAIN InOrder(q) : InOrder(q)[k] = i
  BY <1>2 DEF Range
<1>4. Alone!Occupied = {0}
  <2>1. InOrder(q) # <<>>
    BY <1>3
  <2> QED
    BY <2>1 DEF Alone!Occupied
<1>5. i \in Alone!Members(0)
  BY <1>3 DEF Alone!Members
<1> QED
  BY <1>1, <1>4, <1>5, WhereIs DEF Alone!LevelOf

\* A trace has a first row, and its queue is a level.
LEMMA FirstQueue == ASSUME TypeInv PROVE trace[1].queue \in Levels
<1>1. trace \in Seq(Row) /\ trace # <<>>
  BY EngineAssumption DEF TypeInv, TypeOK, IsTable
<1>2. trace[1] \in Row
  BY <1>1
<1> QED
  BY <1>2 DEF Row, Levels

\* A step of the three lines is a step of the one.
LEMMA AloneStep ==
    ASSUME MlqIInv, OneQueue, MlqNext, Abstract!QueueNext
    PROVE  Alone!QueueNext
<1> DEFINE q == trace[1].queue
           R == [i \in Procs |-> RestOf(i)]
           L == [lv \in Levels |-> InOrder(lv)]
<1>0. /\ TypeInv /\ trace' = trace /\ Procs' = Procs
      /\ Lined(mlq, Alive) /\ Lined(mlq', Alive')
      /\ q \in Levels /\ q' = q /\ \A i \in Procs : Level(i) = q
      /\ Alive \subseteq Procs /\ IDLE \notin Procs
      /\ Execute => next \in Alive
      /\ LevelQuantum \in [Levels -> Nat]
  <2>1. /\ TypeInv /\ trace' = trace /\ Procs' = Procs /\ MlqIInv'
        /\ Execute => next \in Alive
    BY MlqNextIsWCNext, WCNextIsNext, TraceStep, MlqInvStep, AliveStep
       DEF MlqIInv, MetricsInv, Procs
  <2>2. q \in Levels
    BY <2>1, FirstQueue
  <2> QED
    BY <2>1, <2>2, MlqLined, LinedNext, LevelTypes DEF MlqIInv, MlqInv, OneQueue, Level, Lined
<1>1. \A lv \in Levels : InOrder(lv) = Line(mlq, lv) /\ InOrder(lv)' = Line(mlq', lv)
  BY DEF InOrder, Line, Queued
<1>2. \A lv \in Levels : lv # q => InOrder(lv)' = <<>>
  BY <1>0, <1>1, OthersEmpty
<1>3. ASSUME UNCHANGED Abstract!lines PROVE UNCHANGED Alone!lines
  <2>1. L' = L /\ R' = R
    BY <1>3 DEF Abstract!lines
  <2>2. InOrder(q)' = InOrder(q)
    BY <1>0, <2>1
  <2> QED
    BY <1>0, <2>1, <2>2 DEF Alone!lines
<1>4. CASE (LoopTest \/ Halt) /\ UNCHANGED Abstract!lines
  <2> QED
    BY <1>3, <1>4, AloneEngine DEF Alone!QueueNext
<1>5. ASSUME NEW i \in Procs, Admit(i), Abstract!Arrive(i) PROVE Alone!QueueNext
  <2>1. /\ L' = [L EXCEPT ![q] = Append(@, i)]
        /\ R' = [R EXCEPT ![i] = LevelQuantum[q]]
    BY <1>0, <1>5 DEF Abstract!Arrive, AssignedLevel, Level
  <2>2. InOrder(q)' = Append(InOrder(q), i)
    BY <1>0, <2>1
  <2>3. Alone!Arrive(i)
    BY <1>0, <2>1, <2>2 DEF Alone!Arrive, TopLevel
  <2> QED
    BY <1>5, <2>3, AloneEngine DEF Alone!QueueNext
<1>6. ASSUME NEW pid \in Answers, Abstract!Choose(pid), Pick(pid) PROVE Alone!QueueNext
  <2>1. UNCHANGED Abstract!lines /\ pid = Abstract!FrontOf(L')
    BY <1>6 DEF Abstract!Choose, Abstract!BoostDue
  <2>2. UNCHANGED Alone!lines
    BY <1>3, <2>1
  <2> DEFINE O == {lv \in DOMAIN L' : L'[lv] # <<>>}
             L0 == [lv \in {0} |-> InOrder(q)]
             O0 == {lv \in DOMAIN L0' : L0'[lv] # <<>>}
  <2>3. pid = Alone!FrontOf(L0')
    <3>1. CASE InOrder(q)' = <<>>
      <4>1. O = {} /\ O0 = {}
        BY <1>0, <1>2, <3>1
      <4> QED
        BY <2>1, <4>1 DEF Abstract!FrontOf, Alone!FrontOf, Abstract!IDLE, Alone!IDLE
    <3>2. CASE InOrder(q)' # <<>>
      <4>1. O = {q} /\ O0 = {0}
        BY <1>0, <1>2, <3>2
      <4>2. Abstract!Min({q}) = q /\ Alone!Min({0}) = 0
        BY <1>0 DEF Abstract!Min, Alone!Min, Levels
      <4>3. L'[q] = InOrder(q)' /\ L0'[0] = InOrder(q)'
        BY <1>0
      <4> QED
        BY <2>1, <4>1, <4>2, <4>3 DEF Abstract!FrontOf, Alone!FrontOf
    <3> QED
      BY <3>1, <3>2
  <2>4. Alone!Choose(pid)
    BY <2>2, <2>3 DEF Alone!Choose, Alone!BoostDue
  <2> QED
    BY <1>6, <2>4, AloneEngine DEF Alone!QueueNext
<1>7. ASSUME Execute, IF Finishing THEN Abstract!Leave ELSE UNCHANGED Abstract!lines
      PROVE  Alone!QueueNext
  <2>1. CASE ~ Finishing
    BY <1>3, <1>7, <2>1, AloneEngine DEF Alone!QueueNext
  <2>2. CASE Finishing
    <3>1. Alone!LevelOf(next) = 0 /\ Abstract!LevelOf(next) = q
      BY <1>0, <1>7, AloneLevel
    <3>2. L' = [L EXCEPT ![q] = Tail(@)] /\ R' = [R EXCEPT ![next] = 0]
      BY <1>7, <2>2, <3>1 DEF Abstract!Leave
    <3>3. InOrder(q)' = Tail(InOrder(q))
      BY <1>0, <3>2
    <3>4. Alone!Leave
      BY <1>0, <3>1, <3>2, <3>3 DEF Alone!Leave
    <3> QED
      BY <1>7, <2>2, <3>4, AloneEngine DEF Alone!QueueNext
  <2> QED
    BY <2>1, <2>2
<1>8. ASSUME EndTick, Abstract!Spend PROVE Alone!QueueNext
  <2>1. CASE next = IDLE \/ remaining[next] = 0
    <3>1. UNCHANGED Abstract!lines
      BY <1>8, <2>1 DEF Abstract!Spend, Abstract!IDLE, IDLE
    <3>2. Alone!Spend
      BY <1>3, <2>1, <3>1 DEF Alone!Spend, Alone!IDLE, IDLE
    <3> QED
      BY <1>8, <3>2, AloneEngine DEF Alone!QueueNext
  <2>2. CASE next # IDLE /\ remaining[next] # 0
    <3>1. next \in Alive
      <4>1. next \in Procs /\ remaining[next] \in Nat /\ phase = "tick_end"
        BY <1>0, <1>8, <2>2 DEF EndTick, TypeInv, TypeOK, PhaseInv
      <4>2. mlq.running = next
        BY <2>2, <4>1 DEF MlqIInv, MlqInv
      <4> QED
        BY <1>0, <2>2, <4>2 DEF Lined
    <3>2. Alone!LevelOf(next) = 0 /\ Abstract!LevelOf(next) = q
      BY <3>1, AloneLevel
    <3>3. CASE LevelQuantum[q] = 0
      <4>1. UNCHANGED Abstract!lines
        BY <1>8, <3>2, <3>3 DEF Abstract!Spend
      <4>2. Alone!Spend
        BY <1>3, <3>2, <3>3, <4>1 DEF Alone!Spend
      <4> QED
        BY <1>8, <4>2, AloneEngine DEF Alone!QueueNext
    <3>4. CASE LevelQuantum[q] # 0 /\ R[next] > 1
      <4>1. L' = L /\ R' = [R EXCEPT ![next] = @ - 1]
        BY <1>8, <2>2, <3>2, <3>4 DEF Abstract!Spend, Abstract!IDLE, IDLE
      <4>2. InOrder(q)' = InOrder(q)
        BY <1>0, <4>1
      <4>3. Alone!Spend
        BY <1>0, <2>2, <3>2, <3>4, <4>1, <4>2 DEF Alone!Spend, Alone!IDLE, IDLE
      <4> QED
        BY <1>8, <4>3, AloneEngine DEF Alone!QueueNext
    <3>5. CASE LevelQuantum[q] # 0 /\ ~ (R[next] > 1)
      <4>1. /\ L' = [[L EXCEPT ![q] = Tail(@)] EXCEPT ![q] = Append(@, next)]
            /\ R' = [R EXCEPT ![next] = LevelQuantum[q]]
        BY <1>8, <2>2, <3>2, <3>5 DEF Abstract!Spend, Abstract!IDLE, IDLE, SameLevel
      <4>2. InOrder(q)' = Append(Tail(InOrder(q)), next)
        BY <1>0, <4>1
      <4>3. Alone!Spend
        BY <1>0, <2>2, <3>2, <3>5, <4>1, <4>2 DEF Alone!Spend, Alone!IDLE, IDLE, SameLevel
      <4> QED
        BY <1>8, <4>3, AloneEngine DEF Alone!QueueNext
    <3> QED
      BY <3>3, <3>4, <3>5
  <2> QED
    BY <2>1, <2>2
<1> QED
  BY <1>4, <1>5, <1>6, <1>7, <1>8, SameEngine DEF Abstract!QueueNext

\* MLQ with every process in one queue is that queue's own policy, step by
\* step, for every trace and every choice of quanta: its steps on the three
\* lines move only the one that has everybody.
THEOREM OneQueueIsItsPolicyCorrect == MlqSpec => OneQueueIsItsPolicy
<1> DEFINE I == MlqIInv /\ SlicesInv /\ Unsliced(mlq)
<1>1. MlqInit => I /\ (OneQueue => Alone!QueueInit)
  <2> SUFFICES ASSUME MlqInit PROVE I /\ Alone!QueueInit
    OBVIOUS
  <2>1. I /\ Abstract!QueueInit
    BY QueuesFrom
  <2>2. TypeInv /\ trace[1].queue \in Levels
    BY <2>1, FirstQueue DEF MlqIInv, MetricsInv
  <2>3. InOrder(trace[1].queue) = <<>> /\ [i \in Procs |-> RestOf(i)] = [i \in Procs |-> 0]
    <3>1. /\ [lv \in Levels |-> InOrder(lv)] = [lv \in DOMAIN LevelQuantum |-> <<>>]
          /\ [i \in Procs |-> RestOf(i)] = [i \in Abstract!Procs |-> 0]
      BY <2>1 DEF Abstract!QueueInit
    <3>2. DOMAIN LevelQuantum = Levels
      BY MlqAssumption
    <3> QED
      BY <2>2, <3>1, <3>2, SameEngine
  <2> QED
    BY <2>1, <2>2, <2>3, AloneEngine DEF MlqInit, Alone!QueueInit
<1>2. I /\ [MlqNext]_MlqVars => I' /\ [OneQueue => Alone!QueueNext]_MlqVars
  <2> SUFFICES ASSUME I, [MlqNext]_MlqVars
               PROVE  I' /\ [OneQueue => Alone!QueueNext]_MlqVars
    OBVIOUS
  <2>1. MlqIInv' /\ SlicesInv'
    BY MlqInvStep, SlicesStep
  <2>2. Unsliced(mlq)'
    <3>1. Unsliced(mlq')
      BY UnslicedStep
    <3> QED
      BY <3>1 DEF Unsliced
  <2> QED
    BY <2>1, <2>2, MlqStepIsQueueStep, AloneStep
<1> QED
  BY <1>1, <1>2, PTL DEF MlqSpec, OneQueueIsItsPolicy

=============================================================================
