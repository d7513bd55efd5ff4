----------------------------- MODULE MlfqProofs -----------------------------
(***************************************************************************)
(* MLFQ implements the contract and the abstract queues, no boost loses or *)
(* doubles a process, the level and the slice of a process are a function  *)
(* of what it executed since the last boost, the highest level that wants  *)
(* the CPU runs at every tick, and a boost feeds everyone: for every set   *)
(* of tables, all quanta of the levels and every boost interval.           *)
(***************************************************************************)
EXTENDS Mlfq, EngineProofs

MlfqStates ==
    [queue : [Levels -> Rings(Leftover \cup Procs)], saved : [Levels -> Nat],
     level_of : [Procs -> Levels],
     running : Procs \cup {IDLE}, level : Levels \cup {NO_LEVEL}, left : Nat]

\* Those of A that wait at level lv.
At(s, A, lv) == {i \in A : i # s.running /\ s.level_of[i] = lv}

\* The rings hold the members of A but for the running process, each of them
\* once and at its own level.
RingsHold(s, A) ==
    /\ s \in MlfqStates
    /\ \A lv \in Levels : Holds(Contents(s.queue[lv]), At(s, A, lv), IDLE)

\* Who is on the CPU is one of A and has some of its slice left.
RunsWithRest(s, A) ==
    s.running # IDLE => /\ s.running \in A
                        /\ s.level = s.level_of[s.running]
                        /\ s.left > 0

\* A saved slice is that of the head of its level, and the process that runs
\* at a level leaves none saved there.
SavedOk(s) ==
    \A lv \in Levels : s.saved[lv] > 0 =>
        s.queue[lv].count > 0 /\ (s.running # IDLE => s.level # lv)

InPlace(s, A) == RingsHold(s, A) /\ RunsWithRest(s, A) /\ SavedOk(s)

\* What is left of the slice of a process: of the one that runs in left, of
\* the head of a ring in saved; the others have whole ones before them.
RestIn(s, i) ==
    IF i = s.running THEN s.left
    ELSE IF s.saved[s.level_of[i]] > 0 /\ i = Head(Contents(s.queue[s.level_of[i]]))
    THEN s.saved[s.level_of[i]] ELSE LevelQuantum[s.level_of[i]]

\* Level and slice of all of A are in t what they were in s.
StandingKept(s, t, A) ==
    \A j \in A : t.level_of[j] = s.level_of[j] /\ RestIn(t, j) = RestIn(s, j)

\* A line: what the ring of a level holds, behind the process on the CPU if
\* that is of the level.
Line(s, lv) ==
    IF s.running # IDLE /\ s.level = lv THEN <<s.running>> \o Contents(s.queue[lv])
    ELSE Contents(s.queue[lv])

LinesKept(s, t) == \A lv \in Levels : Line(t, lv) = Line(s, lv)

Increasing(q) == \A a, b \in DOMAIN q : a < b => q[a] < q[b]

\* The lines of t are those of s after a boost.
Boosts(s, t) ==
    /\ \A lv \in Levels \ {0} : Line(t, lv) = <<>>
    /\ \E others \in Seq(Leftover \cup Procs) :
           /\ Increasing(others)
           /\ Range(others) = Alive \ {s.running}
           /\ Line(t, 0) = IF s.running = IDLE THEN others ELSE <<s.running>> \o others

\* Every process that is alive is in one place, on the CPU or in a ring.
MlfqInv ==
    /\ InPlace(mlfq, Alive)
    /\ Len(trace) <= MaxProcesses
    /\ phase \in {"test", "admit"} /\ mlfq.running # IDLE => mlfq.running = current
    /\ phase = "execute" => mlfq.running = next
    /\ phase = "tick_end" =>
           mlfq.running = IF next # IDLE /\ remaining[next] > 0 THEN next ELSE IDLE

MlfqIInv == MetricsInv /\ MlfqInv

LEMMA TableTypes ==
    ASSUME TypeInv
    PROVE  /\ Alive \subseteq Procs /\ IDLE \notin Procs
           /\ Len(trace) \in Nat /\ Procs = 1..Len(trace)
<1>1. trace \in Traces
  BY DEF TypeInv, TypeOK
<1>2. Len(trace) \in Nat /\ Procs = 1..Len(trace)
  BY <1>1, RowTypes DEF Procs
<1> QED
  BY <1>1, <1>2, ProcsArePositive DEF Alive, Admitted

LEMMA QuantaArePositive ==
    ASSUME NEW lv \in Levels
    PROVE  LevelQuantum[lv] \in Nat /\ LevelQuantum[lv] > 0
BY MlfqAssumption

LEMMA RingFacts ==
    ASSUME TypeInv, NEW s, NEW A, A \subseteq Procs, RingsHold(s, A), NEW lv \in Levels
    PROVE  LET q == Contents(s.queue[lv])
           IN  /\ s \in MlfqStates /\ s.saved \in [Levels -> Nat] /\ s.left \in Nat
               /\ s.level_of \in [Procs -> Levels] /\ s.running \in Procs \cup {IDLE}
               /\ s.queue[lv] \in Rings(Leftover \cup Procs)
               /\ q \in Seq(Leftover \cup Procs) /\ Len(q) = s.queue[lv].count
               /\ DOMAIN q = 1..Len(q) /\ Len(q) \in Nat
               /\ Holds(q, At(s, A, lv), IDLE)
               /\ IDLE \notin At(s, A, lv)
               /\ \A k \in DOMAIN q : /\ q[k] \in A /\ q[k] # s.running
                                      /\ s.level_of[q[k]] = lv
               /\ q # <<>> => Head(q) = q[1] /\ 1 \in DOMAIN q
<1> DEFINE q == Contents(s.queue[lv])
           S == Leftover \cup Procs
<1>1. /\ s \in MlfqStates /\ s.queue[lv] \in Rings(S) /\ Holds(q, At(s, A, lv), IDLE)
      /\ s.saved \in [Levels -> Nat] /\ s.left \in Nat
      /\ s.level_of \in [Procs -> Levels] /\ s.running \in Procs \cup {IDLE}
  BY DEF RingsHold, MlfqStates
<1>2. q \in Seq(S) /\ Len(q) = s.queue[lv].count
  <2> HIDE DEF S
  <2> QED
    BY <1>1, ContentsType
<1>3. DOMAIN q = 1..Len(q) /\ Len(q) \in Nat /\ (q # <<>> => Head(q) = q[1] /\ 1 \in DOMAIN q)
  <2> HIDE DEF q, S
  <2> QED
    BY <1>2
<1>4. IDLE \notin At(s, A, lv)
  BY TableTypes DEF At
<1> QED
  BY <1>1, <1>2, <1>3, <1>4 DEF Holds, At

\* A ring that is to take a process it does not hold has a slot for it.
LEMMA LevelHasRoom ==
    ASSUME TypeInv, Len(trace) <= MaxProcesses, NEW s, NEW A, A \subseteq Procs, RingsHold(s, A),
           NEW i \in Procs, i \notin A \/ i = s.running, NEW lv \in Levels
    PROVE  s.queue[lv].count < MaxProcesses
<1> DEFINE q == Contents(s.queue[lv])
<1>1. /\ q \in Seq(Leftover \cup Procs) /\ Len(q) = s.queue[lv].count
      /\ Holds(q, At(s, A, lv), IDLE)
  BY RingFacts
<1>2. At(s, A, lv) \ {IDLE} \subseteq (1..Len(trace)) \ {i}
  BY TableTypes DEF At
<1> HIDE DEF q
<1>3. Len(q) <= Len(trace) - 1
  BY <1>1, <1>2, TableTypes, RoomForOneMore
<1> QED
  BY <1>1, <1>3, TableTypes, ProcessTableAssumption

\* highest finds the first level with anything queued.
LEMMA HighestIsFirst ==
    ASSUME NEW s \in MlfqStates
    PROVE  \/ /\ highest(s) = NO_LEVEL
              /\ \A lv \in Levels : s.queue[lv].count = 0
           \/ /\ highest(s) \in Levels /\ s.queue[highest(s)].count > 0
              /\ \A lv \in Levels : s.queue[lv].count > 0 => highest(s) <= lv
<1> DEFINE O == {lv \in Levels : s.queue[lv].count > 0}
<1>1. \A lv \in Levels : s.queue[lv].count \in Nat
  BY ProcessTableAssumption DEF MlfqStates, Rings
<1>2. CASE O = {}
  BY <1>1, <1>2 DEF highest
<1>3. CASE O # {}
  <2>1. \E lv \in O : \A m \in O : lv <= m
    BY <1>3 DEF Levels
  <2>2. Min(O) \in O /\ \A m \in O : Min(O) <= m
    BY <2>1 DEF Min
  <2>3. highest(s) = Min(O)
    BY <1>3 DEF highest
  <2> QED
    BY <2>2, <2>3
<1> QED
  BY <1>2, <1>3

-----------------------------------------------------------------------------
\* t is s after i, a new member of A or the one that ran, has been put at the
\* tail or in front of line lv.
Placed(s, t, A, i, lv) ==
    /\ A \subseteq Procs /\ RingsHold(s, A)
    /\ i \in Procs /\ lv \in Levels /\ (i \notin A \/ i = s.running)
    /\ t \in MlfqStates
    /\ t.level_of = [s.level_of EXCEPT ![i] = lv]
    /\ t.running = IF i = s.running THEN IDLE ELSE s.running
    /\ \A m \in Levels \ {lv} : t.queue[m] = s.queue[m]
    /\ \/ Contents(t.queue[lv]) = Append(Contents(s.queue[lv]), i)
       \/ Contents(t.queue[lv]) = <<i>> \o Contents(s.queue[lv])

PlacedAtTail(s, t, A, i, lv) ==
    /\ Placed(s, t, A, i, lv)
    /\ Contents(t.queue[lv]) = Append(Contents(s.queue[lv]), i)
    /\ t.saved = s.saved /\ t.level = s.level
    /\ i = s.running \/ t.left = s.left

LEMMA PlacedInRing ==
    ASSUME TypeInv, NEW s, NEW t, NEW A, NEW i, NEW lv, Placed(s, t, A, i, lv)
    PROVE  RingsHold(t, A \cup {i})
<1> DEFINE S == Leftover \cup Procs
           B == At(s, A, lv)
<1>0. /\ A \subseteq Procs /\ RingsHold(s, A) /\ IDLE \notin Procs
      /\ i \in Procs /\ lv \in Levels /\ (i \notin A \/ i = s.running)
      /\ t \in MlfqStates
      /\ t.running = IF i = s.running THEN IDLE ELSE s.running
      /\ \A m \in Levels \ {lv} : t.queue[m] = s.queue[m]
      /\ \/ Contents(t.queue[lv]) = Append(Contents(s.queue[lv]), i)
         \/ Contents(t.queue[lv]) = <<i>> \o Contents(s.queue[lv])
  BY TableTypes DEF Placed
<1>1. t.level_of[i] = lv /\ \A j \in Procs \ {i} : t.level_of[j] = s.level_of[j]
  BY <1>0 DEF RingsHold, MlfqStates, Placed
<1>2. At(t, A \cup {i}, lv) = B \cup {i}
  BY <1>0, <1>1 DEF At
<1>3. \A m \in Levels \ {lv} : At(t, A \cup {i}, m) = At(s, A, m)
  BY <1>0, <1>1 DEF At
<1>4. i \notin B /\ i # IDLE
  BY <1>0 DEF At
<1>5. /\ Contents(s.queue[lv]) \in Seq(S) /\ Holds(Contents(s.queue[lv]), B, IDLE)
      /\ IDLE \notin B
  BY <1>0, RingFacts
<1> HIDE DEF S, B
<1>6. Holds(Append(Contents(s.queue[lv]), i), B \cup {i}, IDLE)
  BY <1>4, <1>5, HoldsArrival
<1>7. Holds(<<i>> \o Contents(s.queue[lv]), B \cup {i}, IDLE)
  <2>1. Holds(Contents(s.queue[lv]), B \cup {i}, i)
    BY <1>4, <1>5 DEF Holds
  <2>2. i \in B \cup {i} /\ IDLE \notin B \cup {i}
    BY <1>4, <1>5
  <2> QED
    BY <1>5, <2>1, <2>2, HoldsFront
<1>8. ASSUME NEW m \in Levels
      PROVE  Holds(Contents(t.queue[m]), At(t, A \cup {i}, m), IDLE)
  <2>1. CASE m = lv
    BY <1>0, <1>2, <1>6, <1>7, <2>1
  <2>2. CASE m # lv
    <3>1. t.queue[m] = s.queue[m] /\ At(t, A \cup {i}, m) = At(s, A, m)
      BY <1>0, <1>3, <2>2
    <3> QED
      BY <1>0, <3>1 DEF RingsHold
  <2> QED
    BY <2>1, <2>2
<1> QED
  BY <1>0, <1>8 DEF RingsHold

\* A push at the tail of a level, of someone who is not on the CPU, and what
\* the end of a slice makes of the one who is.
Requeued(s, lv, i) == [push_tail(s, lv, i) EXCEPT !.left = s.left - 1, !.running = IDLE]

LEMMA PushedAtTail ==
    ASSUME TypeInv, Len(trace) <= MaxProcesses, NEW s, NEW A, A \subseteq Procs,
           RingsHold(s, A), NEW i \in Procs, i \notin A \/ i = s.running, NEW lv \in Levels
    PROVE  /\ i # s.running => PlacedAtTail(s, push_tail(s, lv, i), A, i, lv)
           /\ i = s.running /\ s.left > 0 => PlacedAtTail(s, Requeued(s, lv, i), A, i, lv)
<1> DEFINE S == Leftover \cup Procs
           r == PushTail(s.queue[lv], i)
<1>1. s.queue[lv] \in Rings(S) /\ i \in S /\ s.queue[lv].count < MaxProcesses
  BY LevelHasRoom, RingFacts
<1>2. r \in Rings(S) /\ Contents(r) = Append(Contents(s.queue[lv]), i)
  <2> HIDE DEF S
  <2> QED
    BY <1>1, PushTailAppends
<1>3. /\ s.queue \in [Levels -> Rings(S)] /\ s.level_of \in [Procs -> Levels]
      /\ s \in MlfqStates /\ s.left \in Nat
  BY DEF RingsHold, MlfqStates
<1> HIDE DEF r
<1>4. [s.queue EXCEPT ![lv] = r] \in [Levels -> Rings(S)]
  BY <1>2, <1>3
<1>5. [s.level_of EXCEPT ![i] = lv] \in [Procs -> Levels]
  BY <1>3
<1>6. ASSUME i # s.running
      PROVE  PlacedAtTail(s, push_tail(s, lv, i), A, i, lv)
  <2> DEFINE t == push_tail(s, lv, i)
  <2>1. /\ t.queue = [s.queue EXCEPT ![lv] = r]
        /\ t.level_of = [s.level_of EXCEPT ![i] = lv]
        /\ t.running = s.running /\ t.saved = s.saved /\ t.level = s.level /\ t.left = s.left
        /\ t \in MlfqStates
    BY <1>3, <1>4, <1>5 DEF push_tail, MlfqStates, r
  <2> HIDE DEF t
  <2>2. t.queue[lv] = r /\ \A m \in Levels \ {lv} : t.queue[m] = s.queue[m]
    BY <1>3, <2>1
  <2> QED
    BY <1>2, <1>6, <2>1, <2>2 DEF PlacedAtTail, Placed, t
<1>7. ASSUME i = s.running, s.left > 0
      PROVE  PlacedAtTail(s, Requeued(s, lv, i), A, i, lv)
  <2> DEFINE t == Requeued(s, lv, i)
  <2>0. s.left - 1 \in Nat
    BY <1>3, <1>7
  <2>1. /\ t.queue = [s.queue EXCEPT ![lv] = r]
        /\ t.level_of = [s.level_of EXCEPT ![i] = lv]
        /\ t.running = IDLE /\ t.saved = s.saved /\ t.level = s.level
        /\ t \in MlfqStates
    BY <1>3, <1>4, <1>5, <2>0 DEF push_tail, Requeued, MlfqStates, r
  <2> HIDE DEF t
  <2>2. t.queue[lv] = r /\ \A m \in Levels \ {lv} : t.queue[m] = s.queue[m]
    BY <1>3, <2>1
  <2> QED
    BY <1>2, <1>7, <2>1, <2>2 DEF PlacedAtTail, Placed, t
<1> QED
  BY <1>6, <1>7

LEMMA RestKept ==
    ASSUME NEW s, NEW t, NEW j, NEW lv, s.level_of[j] = lv, t.level_of[j] = lv,
           j # s.running, j # t.running, t.saved[lv] = s.saved[lv],
           \/ ~ (s.saved[lv] > 0)
           \/ Head(Contents(t.queue[lv])) = Head(Contents(s.queue[lv]))
    PROVE  RestIn(t, j) = RestIn(s, j)
BY DEF RestIn

LEMMA WholeRest ==
    ASSUME NEW s, NEW j, NEW lv, s.level_of[j] = lv, j # s.running,
           ~ (s.saved[lv] > 0) \/ j # Head(Contents(s.queue[lv]))
    PROVE  RestIn(s, j) = LevelQuantum[lv]
BY DEF RestIn

FreshAtTail(s, t, A, i, lv) ==
    /\ SavedOk(t)
    /\ StandingKept(s, t, A \ {i})
    /\ t.level_of[i] = lv /\ RestIn(t, i) = LevelQuantum[lv]

\* A push at the tail leaves the heads alone, and the pushed process has a
\* whole slice before it.
LEMMA TailRests ==
    ASSUME TypeInv, NEW s, NEW t, NEW A, NEW i, NEW lv, PlacedAtTail(s, t, A, i, lv), SavedOk(s)
    PROVE  FreshAtTail(s, t, A, i, lv)
<1> DEFINE q == Contents(s.queue[lv])
           r == Contents(t.queue[lv])
<1>0. /\ A \subseteq Procs /\ RingsHold(s, A) /\ IDLE \notin Procs
      /\ i \in Procs /\ lv \in Levels /\ (i \notin A \/ i = s.running)
      /\ t.running = IF i = s.running THEN IDLE ELSE s.running
      /\ \A m \in Levels \ {lv} : t.queue[m] = s.queue[m]
      /\ t \in MlfqStates
      /\ Contents(t.queue[lv]) = Append(Contents(s.queue[lv]), i)
      /\ t.saved = s.saved /\ t.level = s.level
      /\ i = s.running \/ t.left = s.left
  BY TableTypes DEF PlacedAtTail, Placed
<1>1. t.level_of[i] = lv /\ \A j \in Procs \ {i} : t.level_of[j] = s.level_of[j]
  BY <1>0 DEF RingsHold, MlfqStates, PlacedAtTail, Placed
<1>2. /\ q \in Seq(Leftover \cup Procs) /\ Len(q) = s.queue[lv].count /\ Len(q) \in Nat
      /\ q # <<>> => Head(q) \in A /\ Head(q) # s.running
      /\ s.level_of \in [Procs -> Levels]
  <2>1. /\ q \in Seq(Leftover \cup Procs) /\ Len(q) = s.queue[lv].count /\ Len(q) \in Nat
        /\ s.level_of \in [Procs -> Levels]
        /\ q # <<>> => Head(q) = q[1] /\ 1 \in DOMAIN q
    BY <1>0, RingFacts
  <2>2. \A k \in DOMAIN q : q[k] \in A /\ q[k] # s.running
    BY <1>0 DEF RingsHold, Holds, At
  <2> HIDE DEF q
  <2> QED
    BY <2>1, <2>2
<1>3. /\ r = Append(q, i) /\ Len(r) = Len(q) + 1 /\ Len(r) = t.queue[lv].count
      /\ Len(q) > 0 => q # <<>> /\ Head(r) = Head(q)
  <2>1. t.queue[lv] \in Rings(Leftover \cup Procs)
    BY <1>0 DEF MlfqStates
  <2>2. Len(r) = t.queue[lv].count /\ r = Append(q, i)
    BY <1>0, <2>1, ContentsType
  <2> HIDE DEF q
  <2> QED
    BY <1>2, <2>2
<1> HIDE DEF q, r
<1>4. s.saved[lv] > 0 => q # <<>> /\ Head(r) = Head(q) /\ Head(q) # i
  BY <1>0, <1>2, <1>3 DEF SavedOk
<1>5. SavedOk(t)
  <2> SUFFICES ASSUME NEW m \in Levels, t.saved[m] > 0
               PROVE  t.queue[m].count > 0 /\ (t.running # IDLE => t.level # m)
    BY DEF SavedOk
  <2>1. s.queue[m].count > 0 /\ (s.running # IDLE => s.level # m)
    BY <1>0 DEF SavedOk
  <2>2. t.queue[m].count > 0
    <3>1. CASE m = lv
      BY <1>2, <1>3, <3>1
    <3>2. CASE m # lv
      BY <1>0, <2>1, <3>2
    <3> QED
      BY <3>1, <3>2
  <2> QED
    BY <1>0, <2>1, <2>2
<1>6. ASSUME NEW j \in A \ {i}
      PROVE  t.level_of[j] = s.level_of[j] /\ RestIn(t, j) = RestIn(s, j)
  <2>0. j \in Procs \ {i} /\ t.level_of[j] = s.level_of[j] /\ s.level_of[j] \in Levels
        /\ j # IDLE
    BY <1>0, <1>1, <1>2
  <2>1. CASE j = s.running
    BY <1>0, <2>0, <2>1 DEF RestIn
  <2>2. CASE j # s.running
    <3>1. j # t.running
      BY <1>0, <2>0, <2>2
    <3>2. \/ ~ (s.saved[s.level_of[j]] > 0)
          \/ Head(Contents(t.queue[s.level_of[j]])) = Head(Contents(s.queue[s.level_of[j]]))
      BY <1>0, <1>4, <2>0 DEF q, r
    <3> QED
      BY <1>0, <2>0, <2>2, <3>1, <3>2, RestKept
  <2> QED
    BY <2>0, <2>1, <2>2
<1>7. RestIn(t, i) = LevelQuantum[lv]
  BY <1>0, <1>1, <1>4 DEF RestIn, r
<1> QED
  BY <1>1, <1>5, <1>6, <1>7 DEF StandingKept, FreshAtTail

-----------------------------------------------------------------------------
\* A displaced process goes to the front of its own level, its rest is saved,
\* and nobody's is lost for it.
LEMMA Released ==
    ASSUME TypeInv, Len(trace) <= MaxProcesses,
           NEW s, NEW A, A \subseteq Procs, InPlace(s, A), Displaced(s)
    PROVE  /\ InPlace(Release(s), A) /\ Release(s).running = IDLE
           /\ StandingKept(s, Release(s), A) /\ LinesKept(s, Release(s))
<1> DEFINE S == Leftover \cup Procs
           t == Release(s)
           lv == s.level
           i == s.running
           p == PushHead(s.queue[lv], i)
<1>0. /\ RingsHold(s, A) /\ s \in MlfqStates /\ SavedOk(s) /\ i # IDLE /\ IDLE \notin A
      /\ i \in A /\ i \in Procs /\ s.left > 0 /\ s.left \in Nat
      /\ lv \in Levels /\ lv = s.level_of[i]
      /\ s.queue \in [Levels -> Rings(S)] /\ s.level_of \in [Procs -> Levels]
      /\ s.saved \in [Levels -> Nat]
  BY TableTypes DEF InPlace, RunsWithRest, RingsHold, MlfqStates, Displaced
<1>1. p \in Rings(S) /\ Contents(p) = <<i>> \o Contents(s.queue[lv])
  <2>1. s.queue[lv].count < MaxProcesses /\ s.queue[lv] \in Rings(S) /\ i \in S
    BY <1>0, LevelHasRoom
  <2> HIDE DEF S
  <2> QED
    BY <2>1, PushHeadPrepends
<1>2. /\ t.queue = [s.queue EXCEPT ![lv] = p] /\ t.running = IDLE
      /\ t.saved = [s.saved EXCEPT ![lv] = s.left]
      /\ t.level_of = [s.level_of EXCEPT ![i] = lv] /\ t \in MlfqStates
  <2> HIDE DEF p
  <2>1. [s.queue EXCEPT ![lv] = p] \in [Levels -> Rings(S)]
    BY <1>0, <1>1
  <2>2. [s.saved EXCEPT ![lv] = s.left] \in [Levels -> Nat]
    BY <1>0
  <2> QED
    BY <1>0, <2>1, <2>2 DEF Release, push_head, MlfqStates, p
<1> HIDE DEF t, p
<1>3. /\ t.queue[lv] = p /\ \A m \in Levels \ {lv} : t.queue[m] = s.queue[m]
      /\ t.saved[lv] = s.left /\ \A m \in Levels \ {lv} : t.saved[m] = s.saved[m]
      /\ \A j \in Procs : t.level_of[j] = s.level_of[j]
  BY <1>0, <1>2
<1>4. RingsHold(t, A)
  <2>1. Placed(s, t, A, i, lv)
    BY <1>0, <1>1, <1>2, <1>3 DEF Placed
  <2>2. A \cup {i} = A
    BY <1>0
  <2> QED
    BY <2>1, <2>2, PlacedInRing
<1>5. /\ Contents(s.queue[lv]) \in Seq(S) /\ Contents(t.queue[lv]) = <<i>> \o Contents(s.queue[lv])
      /\ Len(Contents(t.queue[lv])) = t.queue[lv].count
  <2>1. Len(Contents(t.queue[lv])) = t.queue[lv].count
    BY <1>0, <1>4, RingFacts
  <2>2. Contents(s.queue[lv]) \in Seq(S)
    BY <1>0, RingFacts
  <2> QED
    BY <1>1, <1>3, <2>1, <2>2
<1>6. t.queue[lv].count > 0 /\ Head(Contents(t.queue[lv])) = i
  <2> HIDE DEF S, i
  <2> QED
    BY <1>5
<1>7. SavedOk(t)
  BY <1>0, <1>2, <1>3, <1>6 DEF SavedOk
<1>8. ASSUME NEW j \in A PROVE t.level_of[j] = s.level_of[j] /\ RestIn(t, j) = RestIn(s, j)
  <2>0. j \in Procs /\ j # IDLE /\ s.level_of[j] \in Levels /\ t.level_of[j] = s.level_of[j]
    BY <1>0, <1>3
  <2>1. CASE j = i
    BY <1>0, <1>2, <1>3, <1>6, <2>0, <2>1 DEF RestIn
  <2>2. CASE j # i /\ s.level_of[j] = lv
    <3>1. ~ (s.saved[lv] > 0)
      BY <1>0 DEF SavedOk
    <3>2. RestIn(s, j) = LevelQuantum[lv]
      BY <2>2, <3>1, WholeRest
    <3>3. RestIn(t, j) = LevelQuantum[lv]
      <4>1. t.level_of[j] = lv /\ j # t.running /\ j # Head(Contents(t.queue[lv]))
        BY <1>2, <1>6, <2>0, <2>2
      <4> QED
        BY <4>1, WholeRest
    <3> QED
      BY <2>0, <3>2, <3>3
  <2>3. CASE j # i /\ s.level_of[j] # lv
    <3>1. s.level_of[j] \in Levels \ {lv} /\ j # t.running
      BY <1>2, <2>0, <2>3
    <3>2. /\ t.saved[s.level_of[j]] = s.saved[s.level_of[j]]
          /\ t.queue[s.level_of[j]] = s.queue[s.level_of[j]]
      BY <1>3, <3>1
    <3> QED
      BY <2>0, <2>3, <3>1, <3>2, RestKept
  <2> QED
    BY <2>1, <2>2, <2>3
<1>9. LinesKept(s, t)
  BY <1>0, <1>2, <1>3, <1>5 DEF LinesKept, Line
<1> QED
  BY <1>2, <1>4, <1>7, <1>8, <1>9 DEF InPlace, RunsWithRest, StandingKept, t

\* A dispatch takes the first process of the first level that has one, with
\* the rest of its slice or a whole one, and answers IDLE if no level has any.
LEMMA Dispatched ==
    ASSUME TypeInv, NEW s, NEW A, A \subseteq Procs, InPlace(s, A), s.running = IDLE
    PROVE  LET t == Dispatch(s)
           IN  /\ InPlace(t, A) /\ StandingKept(s, t, A) /\ LinesKept(s, t)
               /\ \/ t.running = IDLE /\ A = {}
                  \/ t.running \in A /\ \A j \in A : t.level <= t.level_of[j]
<1> DEFINE S == Leftover \cup Procs
           t == Dispatch(s)
           h == highest(s)
<1>0. /\ RingsHold(s, A) /\ s \in MlfqStates /\ SavedOk(s) /\ IDLE \notin A
      /\ s.queue \in [Levels -> Rings(S)] /\ s.level_of \in [Procs -> Levels]
      /\ s.saved \in [Levels -> Nat]
      /\ \A lv \in Levels : LevelQuantum[lv] \in Nat /\ LevelQuantum[lv] > 0
  BY TableTypes, QuantaArePositive DEF InPlace, RingsHold, MlfqStates
<1>1. \A m \in Levels : /\ s.queue[m] \in Rings(S)
                        /\ Holds(Contents(s.queue[m]), At(s, A, m), IDLE)
                        /\ IDLE \notin At(s, A, m)
                        /\ Len(Contents(s.queue[m])) = s.queue[m].count
                        /\ Contents(s.queue[m]) \in Seq(S)
  <2> SUFFICES ASSUME NEW m \in Levels
               PROVE  /\ s.queue[m] \in Rings(S)
                      /\ Holds(Contents(s.queue[m]), At(s, A, m), IDLE)
                      /\ IDLE \notin At(s, A, m)
                      /\ Len(Contents(s.queue[m])) = s.queue[m].count
                      /\ Contents(s.queue[m]) \in Seq(S)
    OBVIOUS
  <2>1. /\ s.queue[m] \in Rings(S) /\ Holds(Contents(s.queue[m]), At(s, A, m), IDLE)
        /\ IDLE \notin At(s, A, m)
    BY <1>0 DEF RingsHold, At
  <2> HIDE DEF S
  <2> QED
    BY <2>1, ContentsType
<1>2. \A j \in A : s.level_of[j] \in Levels /\ s.queue[s.level_of[j]].count > 0
  <2> SUFFICES ASSUME NEW j \in A
               PROVE  s.level_of[j] \in Levels /\ s.queue[s.level_of[j]].count > 0
    OBVIOUS
  <2> DEFINE m == s.level_of[j]
  <2>1. m \in Levels /\ j \in At(s, A, m) /\ j # IDLE
    BY <1>0 DEF At
  <2>2. PICK k \in DOMAIN Contents(s.queue[m]) : Contents(s.queue[m])[k] = j
    BY <1>1, <2>1 DEF Holds
  <2> QED
    BY <1>1, <2>1, <2>2
<1>3. CASE h = NO_LEVEL
  <2>1. t = [s EXCEPT !.running = IDLE, !.level = NO_LEVEL]
    BY <1>3 DEF Dispatch
  <2>2. /\ t \in MlfqStates /\ t.running = IDLE /\ t.queue = s.queue /\ t.saved = s.saved
        /\ t.level_of = s.level_of
    BY <1>0, <2>1 DEF MlfqStates
  <2>3. \A lv \in Levels : s.queue[lv].count = 0
    BY <1>0, <1>3, HighestIsFirst DEF NO_LEVEL, Levels
  <2>4. A = {}
    BY <1>2, <2>3
  <2>5. RingsHold(t, A)
    BY <1>0, <2>2 DEF RingsHold, At
  <2> HIDE DEF t
  <2> QED
    BY <1>0, <2>2, <2>4, <2>5
       DEF InPlace, RunsWithRest, SavedOk, StandingKept, LinesKept, Line, t
<1>4. CASE h # NO_LEVEL
  <2> DEFINE q == Contents(s.queue[h])
             p == PopHead(s.queue[h])
             i == Head(q)
  <2>1. /\ h \in Levels /\ s.queue[h].count > 0
        /\ \A lv \in Levels : s.queue[lv].count > 0 => h <= lv
    BY <1>0, <1>4, HighestIsFirst
  <2> HIDE DEF h, S
  <2>2. /\ p \in Rings(S) /\ q # <<>> /\ AtFront(s.queue[h]) = i /\ Contents(p) = Tail(q)
    BY <1>1, <2>1, PopHeadIsTail
  <2>3. i \in At(s, A, h) /\ Holds(Tail(q), At(s, A, h), i)
    BY <1>1, <2>1, <2>2, HoldsDispatch
  <2>4. i \in A /\ s.level_of[i] = h /\ i \in Procs /\ i # IDLE
    BY <1>0, <2>3 DEF At
  <2> HIDE DEF p, q
  <2>5. /\ t.queue = [s.queue EXCEPT ![h] = p]
        /\ t.saved = [s.saved EXCEPT ![h] = 0]
        /\ t.running = i /\ t.level = h
        /\ t.left = (IF s.saved[h] > 0 THEN s.saved[h] ELSE LevelQuantum[h])
        /\ t.level_of = s.level_of
        /\ t \in MlfqStates
    <3>1. [s.queue EXCEPT ![h] = p] \in [Levels -> Rings(S)]
      BY <1>0, <2>1, <2>2
    <3>2. [s.saved EXCEPT ![h] = 0] \in [Levels -> Nat]
      BY <1>0
    <3>3. t = pop_head(s, h)
      BY <1>4 DEF Dispatch, h
    <3>4. t = [s EXCEPT !.queue = [s.queue EXCEPT ![h] = p],
                        !.saved = [s.saved EXCEPT ![h] = 0],
                        !.running = i, !.level = h,
                        !.left = IF s.saved[h] > 0 THEN s.saved[h] ELSE LevelQuantum[h]]
      BY <1>0, <2>1, <2>2, <3>3 DEF pop_head, MlfqStates, p
    <3> HIDE DEF t
    <3> QED
      BY <1>0, <2>1, <2>4, <3>1, <3>2, <3>4 DEF MlfqStates, S
  <2> HIDE DEF t
  <2>6. /\ t.queue[h] = p /\ \A m \in Levels \ {h} : t.queue[m] = s.queue[m]
        /\ t.saved[h] = 0 /\ \A m \in Levels \ {h} : t.saved[m] = s.saved[m]
        /\ t.left > 0
    BY <1>0, <2>1, <2>5
  <2>7. RingsHold(t, A)
    <3>1. ASSUME NEW m \in Levels PROVE Holds(Contents(t.queue[m]), At(t, A, m), IDLE)
      <4>1. CASE m = h
        <5>1. At(t, A, m) = At(s, A, h) \ {i}
          BY <1>0, <2>5, <4>1 DEF At
        <5>2. Holds(Tail(q), At(s, A, h) \ {i}, IDLE)
          BY <1>1, <2>1, <2>3 DEF Holds
        <5> QED
          BY <2>2, <2>6, <4>1, <5>1, <5>2
      <4>2. CASE m # h
        <5>1. t.queue[m] = s.queue[m] /\ At(t, A, m) = At(s, A, m)
          BY <1>0, <2>4, <2>5, <2>6, <4>2 DEF At
        <5> QED
          BY <1>1, <5>1
      <4> QED
        BY <4>1, <4>2
    <3> QED
      BY <2>5, <3>1 DEF RingsHold
  <2>8. SavedOk(t)
    BY <1>0, <2>5, <2>6 DEF SavedOk
  <2>9. ASSUME NEW j \in A PROVE t.level_of[j] = s.level_of[j] /\ RestIn(t, j) = RestIn(s, j)
    <3>0. j # s.running /\ s.level_of[j] \in Levels
      BY <1>0, <1>2
    <3>1. CASE j = i
      BY <2>4, <2>5, <3>0, <3>1 DEF RestIn, q
    <3>2. CASE j # i /\ s.level_of[j] = h
      <4>1. RestIn(s, j) = LevelQuantum[h]
        BY <3>0, <3>2, WholeRest DEF q
      <4>2. RestIn(t, j) = LevelQuantum[h]
        <5>1. t.level_of[j] = h /\ j # t.running /\ ~ (t.saved[h] > 0)
          BY <2>5, <2>6, <3>2
        <5> QED
          BY <5>1, WholeRest
      <4> QED
        BY <2>5, <4>1, <4>2
    <3>3. CASE j # i /\ s.level_of[j] # h
      <4>1. /\ t.saved[s.level_of[j]] = s.saved[s.level_of[j]]
            /\ t.queue[s.level_of[j]] = s.queue[s.level_of[j]]
        BY <2>6, <3>0, <3>3
      <4>2. t.level_of[j] = s.level_of[j] /\ j # t.running
        BY <2>5, <3>3
      <4>3. RestIn(t, j) = RestIn(s, j)
        BY <3>0, <4>1, <4>2, RestKept
      <4> QED
        BY <4>2, <4>3
    <3> QED
      BY <3>1, <3>2, <3>3
  <2>10. \A j \in A : t.level <= t.level_of[j]
    BY <1>2, <2>1, <2>5
  <2>11. LinesKept(s, t)
    <3>1. <<i>> \o Tail(q) = q
      BY <1>1, <2>1, <2>2, InFront DEF q
    <3> QED
      BY <2>2, <2>4, <2>5, <2>6, <3>1 DEF LinesKept, Line, q
  <2> QED
    BY <2>4, <2>5, <2>6, <2>7, <2>8, <2>9, <2>10, <2>11
       DEF InPlace, RunsWithRest, StandingKept, t
<1> QED
  BY <1>3, <1>4

-----------------------------------------------------------------------------
\* The boost empties the rings and fills the top one from the process table.
LEMMA ClearedRing ==
    ASSUME NEW S, NEW r \in Rings(S)
    PROVE  LET c == [r EXCEPT !.head = 0, !.count = 0] IN c \in Rings(S) /\ c.count = 0
<1> DEFINE P == [Slots -> S]
           N == 0..MaxProcesses
<1>1. r \in [slot : P, head : Slots, count : N]
  BY DEF Rings
<1>2. 0 \in Slots /\ 0 \in N
  BY ProcessTableAssumption DEF Slots
<1> HIDE DEF P, N
<1>3. LET c == [r EXCEPT !.head = 0, !.count = 0]
      IN  c \in [slot : P, head : Slots, count : N] /\ c.count = 0
  BY <1>1, <1>2
<1> QED
  BY <1>3 DEF Rings, P, N

LEMMA Emptied ==
    ASSUME NEW s \in MlfqStates
    PROVE  LET e == EmptyQueues(s)
           IN  /\ RingsHold(e, {}) /\ e.running = s.running /\ e.level = s.level
               /\ e.left = s.left /\ \A lv \in Levels : e.saved[lv] = 0
               /\ DOMAIN Contents(e.queue[0]) = {}
<1> DEFINE S == Leftover \cup Procs
           e == EmptyQueues(s)
           Cleared(lv) == [s.queue[lv] EXCEPT !.head = 0, !.count = 0]
           c == [lv \in Levels |-> Cleared(lv)]
           z == [lv \in Levels |-> 0]
<1>1. s.queue \in [Levels -> Rings(S)]
  BY DEF MlfqStates
<1>2. \A lv \in Levels : Cleared(lv) \in Rings(S) /\ Cleared(lv).count = 0
  <2> HIDE DEF S
  <2> QED
    BY <1>1, ClearedRing
<1>3. e = [s EXCEPT !.queue = c, !.saved = z]
  BY DEF EmptyQueues
<1> HIDE DEF Cleared, e
<1>4. c \in [Levels -> Rings(S)] /\ z \in [Levels -> Nat]
  <2> HIDE DEF S
  <2> QED
    BY <1>2
<1>5. /\ e.queue = c /\ e.saved = z /\ e \in MlfqStates
      /\ e.running = s.running /\ e.level = s.level /\ e.left = s.left
  <2> HIDE DEF c, z
  <2> QED
    BY <1>3, <1>4 DEF MlfqStates
<1>6. ASSUME NEW lv \in Levels
      PROVE  /\ Holds(Contents(e.queue[lv]), At(e, {}, lv), IDLE)
             /\ DOMAIN Contents(e.queue[lv]) = {}
  <2>1. e.queue[lv] \in Rings(S) /\ e.queue[lv].count = 0
    BY <1>2, <1>5
  <2> HIDE DEF S
  <2>2. Contents(e.queue[lv]) \in Seq(S) /\ Len(Contents(e.queue[lv])) = 0
    BY <2>1, ContentsType
  <2>3. DOMAIN Contents(e.queue[lv]) = {}
    BY <2>2
  <2> QED
    BY <2>3 DEF Holds, At
<1>7. 0 \in Levels
  BY DEF Levels
<1> QED
  BY <1>5, <1>6, <1>7 DEF RingsHold, e

\* The rows that wait among the first k of the table.
WaitingRows(s, k) == {i \in 1..k : Waits(s, i)}

\* What the loop has made of the state after row k.
GatheredTo(s, t, k) ==
    /\ RingsHold(t, WaitingRows(s, k))
    /\ t.running = s.running /\ t.level = s.level /\ t.left = s.left
    /\ \A lv \in Levels : t.saved[lv] = 0
    /\ \A i \in WaitingRows(s, k) : t.level_of[i] = 0
    /\ Increasing(Contents(t.queue[0]))

LEMMA OneMoreRow ==
    ASSUME NEW S, NEW q \in Seq(S), Increasing(q), NEW k, \A a \in DOMAIN q : q[a] < k
    PROVE  Increasing(Append(q, k))
<1>1. /\ DOMAIN q = 1..Len(q) /\ Len(q) \in Nat
      /\ DOMAIN Append(q, k) = 1..(Len(q) + 1)
      /\ Append(q, k)[Len(q) + 1] = k
      /\ \A a \in 1..Len(q) : Append(q, k)[a] = q[a]
  OBVIOUS
<1> QED
  BY <1>1 DEF Increasing

LEMMA GatherStep ==
    ASSUME TypeInv, Len(trace) <= MaxProcesses, NEW s \in MlfqStates,
           NEW k \in 1..Len(trace), NEW t, GatheredTo(s, t, k - 1)
    PROVE  GatheredTo(s, IF Waits(s, k) THEN push_tail(t, 0, k) ELSE t, k)
<1> DEFINE A == WaitingRows(s, k - 1)
<1>0. /\ RingsHold(t, A) /\ t.running = s.running /\ t.level = s.level /\ t.left = s.left
      /\ \A lv \in Levels : t.saved[lv] = 0
      /\ \A i \in A : t.level_of[i] = 0
      /\ Increasing(Contents(t.queue[0]))
  BY DEF GatheredTo
<1>1. /\ k \in Procs /\ k \notin A /\ A \subseteq Procs /\ 0 \in Levels
      /\ WaitingRows(s, k) = IF Waits(s, k) THEN A \cup {k} ELSE A
  <2>1. Len(trace) \in Nat /\ Procs = 1..Len(trace)
    BY TableTypes
  <2>2. 1..k = (1..(k - 1)) \cup {k} /\ 1..(k - 1) \subseteq 1..Len(trace)
        /\ k \notin 1..(k - 1)
    BY <2>1
  <2>3. WaitingRows(s, k) = {i \in (1..(k - 1)) \cup {k} : Waits(s, i)}
    BY <2>2 DEF WaitingRows
  <2> QED
    BY <2>1, <2>2, <2>3 DEF WaitingRows, Levels
<1>2. CASE ~ Waits(s, k)
  BY <1>0, <1>1, <1>2 DEF GatheredTo
<1>3. CASE Waits(s, k)
  <2> DEFINE u == push_tail(t, 0, k)
  <2>1. k # t.running
    BY <1>0, <1>3 DEF Waits
  <2>2. /\ Placed(t, u, A, k, 0) /\ u.saved = t.saved /\ u.level = t.level
        /\ u.left = t.left /\ Contents(u.queue[0]) = Append(Contents(t.queue[0]), k)
    BY <1>0, <1>1, <2>1, PushedAtTail DEF PlacedAtTail
  <2> HIDE DEF u
  <2>3. RingsHold(u, A \cup {k})
    BY <2>2, PlacedInRing
  <2>4. /\ u.running = t.running /\ u.level_of = [t.level_of EXCEPT ![k] = 0]
        /\ t.level_of \in [Procs -> Levels]
    BY <1>0, <2>1, <2>2 DEF Placed, RingsHold, MlfqStates
  <2>5. \A i \in A \cup {k} : u.level_of[i] = 0
    BY <1>0, <1>1, <2>4
  <2>6. Increasing(Contents(u.queue[0]))
    <3>1. /\ Contents(t.queue[0]) \in Seq(Leftover \cup Procs)
          /\ \A a \in DOMAIN Contents(t.queue[0]) : Contents(t.queue[0])[a] \in A
      BY <1>0, <1>1, RingFacts
    <3>2. \A i \in A : i < k
      BY DEF WaitingRows
    <3> QED
      BY <1>0, <2>2, <3>1, <3>2, OneMoreRow
  <2> HIDE DEF A
  <2> QED
    BY <1>0, <1>1, <1>3, <2>2, <2>3, <2>4, <2>5, <2>6 DEF GatheredTo, u
<1> QED
  BY <1>2, <1>3

LEMMA GatheredDef ==
    ASSUME NEW s, Len(trace) \in Nat
    PROVE  \E after : /\ Gathered(s) = after[Len(trace)]
                      /\ after[0] = EmptyQueues(s)
                      /\ \A k \in 1..Len(trace) :
                             after[k] = IF Waits(s, k) THEN push_tail(after[k - 1], 0, k)
                                        ELSE after[k - 1]
<1> DEFINE Def(g, k) == IF k = 0 THEN EmptyQueues(s)
                        ELSE IF Waits(s, k) THEN push_tail(g[k - 1], 0, k) ELSE g[k - 1]
           Solves(g, m) == g = [k \in 0..m |-> Def(g, k)]
           Bad == {m \in Nat : ~ \E g : Solves(g, m)}
<1>1. Bad = {}
  <2> SUFFICES ASSUME Bad # {} PROVE FALSE
    OBVIOUS
  <2>1. PICK m \in Bad : \A y \in Bad : m <= y
    <3>1. Bad \in SUBSET Nat
      OBVIOUS
    <3> HIDE DEF Bad
    <3> QED
      BY <3>1, LeastNat
  <2>2. m \in Nat /\ ~ \E g : Solves(g, m)
    OBVIOUS
  <2>3. m # 0
    <3>1. Solves([k \in 0..0 |-> EmptyQueues(s)], 0)
      OBVIOUS
    <3> HIDE DEF Solves
    <3> QED
      BY <2>2, <3>1
  <2>4. PICK g : Solves(g, m - 1)
    <3>1. m - 1 \in Nat /\ ~ (m <= m - 1)
      BY <2>2, <2>3
    <3>2. m - 1 \notin Bad
      <4> HIDE DEF Bad
      <4> QED
        BY <2>1, <3>1
    <3> HIDE DEF Solves
    <3> QED
      BY <3>1, <3>2
  <2>5. \A k \in 0..(m - 1) : g[k] = Def(g, k)
    BY <2>4, Zenon
  <2> DEFINE h == [k \in 0..m |-> IF k < m THEN g[k] ELSE Def(g, k)]
  <2>6. ASSUME NEW k \in 0..m PROVE h[k] = Def(h, k)
    <3>1. m \in Nat /\ k \in Nat /\ k <= m /\ k - 1 < m
      BY <2>2
    <3>2. h[k] = Def(g, k)
      <4>1. CASE k < m
        <5>1. k \in 0..(m - 1) /\ h[k] = g[k]
          BY <3>1, <4>1
        <5> HIDE DEF h, Def
        <5> QED
          BY <2>5, <5>1
      <4>2. CASE k = m
        <5> HIDE DEF Def
        <5> QED
          BY <3>1, <4>2
      <4> QED
        BY <3>1, <4>1, <4>2
    <3>3. k # 0 => h[k - 1] = g[k - 1]
      <4> HIDE DEF Def
      <4> QED
        BY <3>1
    <3> HIDE DEF h
    <3>4. Def(h, k) = Def(g, k)
      <4>1. CASE k = 0
        BY <4>1
      <4>2. CASE k # 0
        BY <3>3, <4>2, Zenon
      <4> QED
        BY <4>1, <4>2
    <3> HIDE DEF Def
    <3> QED
      BY <3>2, <3>4
  <2>7. h = [k \in 0..m |-> Def(h, k)]
    <3>1. h = [k \in 0..m |-> h[k]]
      <4> HIDE DEF Def
      <4> QED
        OBVIOUS
    <3> HIDE DEF h, Def
    <3> QED
      BY <2>6, <3>1
  <2>8. Solves(h, m)
    BY <2>7, Zenon
  <2> HIDE DEF Solves, h
  <2> QED
    BY <2>2, <2>8
<1> DEFINE n == Len(trace)
           after == CHOOSE g : Solves(g, n)
<1>2. Solves(after, n)
  <2>1. \E g : Solves(g, n)
    <3> HIDE DEF Solves
    <3> QED
      BY <1>1
  <2> HIDE DEF Solves
  <2> QED
    BY <2>1
<1>3. Gathered(s) = after[n]
  BY DEF Gathered
<1>4. \A k \in 0..n : after[k] = Def(after, k)
  <2> HIDE DEF after
  <2> QED
    BY <1>2, Zenon
<1>5. 0 \in 0..n /\ \A k \in 1..n : k \in 0..n /\ k # 0
  OBVIOUS
<1> HIDE DEF after
<1> QED
  BY <1>3, <1>4, <1>5, Zenon

LEMMA GatheredAll ==
    ASSUME TypeInv, Len(trace) <= MaxProcesses, NEW s \in MlfqStates
    PROVE  GatheredTo(s, Gathered(s), Len(trace))
<1> DEFINE n == Len(trace)
<1>0. n \in Nat
  BY TableTypes
<1>1. PICK after : /\ Gathered(s) = after[n]
                   /\ after[0] = EmptyQueues(s)
                   /\ \A k \in 1..n : after[k] = IF Waits(s, k) THEN push_tail(after[k - 1], 0, k)
                                                 ELSE after[k - 1]
  BY <1>0, GatheredDef
<1> DEFINE Bad == {k \in 0..n : ~ GatheredTo(s, after[k], k)}
<1>2. 0 \notin Bad
  <2>1. WaitingRows(s, 0) = {}
    BY DEF WaitingRows
  <2> QED
    BY <1>1, <2>1, Emptied DEF GatheredTo, Increasing
<1>3. ASSUME NEW k \in 1..n, k - 1 \notin Bad PROVE k \notin Bad
  <2>1. k - 1 \in 0..n
    BY <1>0
  <2>2. GatheredTo(s, after[k - 1], k - 1)
    BY <1>3, <2>1
  <2>3. GatheredTo(s, IF Waits(s, k) THEN push_tail(after[k - 1], 0, k) ELSE after[k - 1], k)
    BY <2>2, GatherStep
  <2> QED
    BY <1>1, <2>3
<1>4. Bad = {}
  <2> SUFFICES ASSUME Bad # {} PROVE FALSE
    OBVIOUS
  <2>1. Bad \in SUBSET Nat /\ Bad \subseteq 0..n
    BY <1>0
  <2> HIDE DEF Bad
  <2>2. PICK k \in Bad : \A y \in Bad : k <= y
    BY <2>1, LeastNat
  <2>3. k \in 1..n /\ ~ (k <= k - 1)
    BY <1>0, <1>2, <2>1, <2>2
  <2>4. k - 1 \notin Bad
    BY <2>2, <2>3
  <2> QED
    BY <1>3, <2>2, <2>3, <2>4
<1>5. n \in 0..n /\ n \notin Bad
  BY <1>0, <1>4
<1> QED
  BY <1>1, <1>5

LEMMA RingRange ==
    ASSUME TypeInv, NEW s, NEW A, A \subseteq Procs, RingsHold(s, A), NEW lv \in Levels
    PROVE  /\ Range(Contents(s.queue[lv])) = At(s, A, lv)
           /\ At(s, A, lv) = {} => Contents(s.queue[lv]) = <<>>
<1> DEFINE q == Contents(s.queue[lv])
<1>1. /\ q \in Seq(Leftover \cup Procs) /\ Holds(q, At(s, A, lv), IDLE)
      /\ IDLE \notin At(s, A, lv)
  BY RingFacts
<1>2. Range(q) = At(s, A, lv)
  BY <1>1 DEF Holds, Range
<1>3. At(s, A, lv) = {} => q = <<>>
  <2>1. Range(q) = {} => DOMAIN q = {}
    BY DEF Range
  <2> HIDE DEF q
  <2> QED
    BY <1>1, <1>2, <2>1
<1> QED
  BY <1>2, <1>3

\* A boost loses nobody and doubles nobody, and afterwards everyone who is
\* alive is at the top with a whole slice, the one that ran in front and the
\* others in table order.
LEMMA Boosted ==
    ASSUME TypeInv, Len(trace) <= MaxProcesses, phase = "admit", AllAdmitted,
           NEW s, InPlace(s, Alive)
    PROVE  LET t == boost(s)
           IN  /\ InPlace(t, Alive) /\ t.running = IDLE
               /\ \A i \in Alive : t.level_of[i] = 0 /\ RestIn(t, i) = LevelQuantum[0]
               /\ Boosts(s, t)
<1> DEFINE g == Gathered(s)
           t == boost(s)
           A == WaitingRows(s, Len(trace))
           i == s.running
           S == Leftover \cup Procs
<1>0. /\ s \in MlfqStates /\ i \in Procs \cup {IDLE} /\ (i # IDLE => i \in Alive)
      /\ Alive \subseteq Procs /\ IDLE \notin Procs /\ 0 \in Levels
      /\ LevelQuantum[0] \in Nat /\ LevelQuantum[0] > 0
  BY TableTypes, QuantaArePositive DEF InPlace, RingsHold, RunsWithRest, MlfqStates, Levels
<1>1. /\ RingsHold(g, A) /\ g.running = i
      /\ \A lv \in Levels : g.saved[lv] = 0
      /\ \A j \in A : g.level_of[j] = 0
      /\ Increasing(Contents(g.queue[0]))
  BY <1>0, GatheredAll DEF GatheredTo
<1>2. A = Alive \ {i}
  <2>1. \A j \in Procs : /\ trace[j].arrival \in Nat /\ remaining[j] \in Nat
    BY RowTypes DEF TypeInv, TypeOK, Procs
  <2>2. Alive = Ready /\ tick \in Nat
    BY AliveIsReady, EngineAssumption DEF TypeInv, TypeOK
  <2>3. A = {j \in Procs : Waits(s, j)}
    BY TableTypes DEF WaitingRows
  <2> QED
    BY <2>1, <2>2, <2>3 DEF Ready, Waits
<1> HIDE DEF A, g
<1>inring. /\ Contents(g.queue[0]) \in Seq(S)
       /\ Range(Contents(g.queue[0])) = A
       /\ \A lv \in Levels \ {0} : Contents(g.queue[lv]) = <<>>
  <2>1. At(g, A, 0) = A /\ \A lv \in Levels \ {0} : At(g, A, lv) = {}
    BY <1>1, <1>2 DEF At
  <2>2. A \subseteq Procs
    BY <1>0, <1>2
  <2> QED
    BY <1>0, <1>1, <2>1, <2>2, RingRange, RingFacts
<1>3. CASE i = IDLE
  <2>1. t = g /\ A = Alive
    BY <1>0, <1>2, <1>3 DEF boost, g
  <2> HIDE DEF t
  <2>2. SavedOk(t) /\ RunsWithRest(t, Alive) /\ RingsHold(t, Alive)
    BY <1>1, <1>3, <2>1 DEF SavedOk, RunsWithRest
  <2>3. \A j \in Alive : t.level_of[j] = 0 /\ RestIn(t, j) = LevelQuantum[0]
    BY <1>0, <1>1, <1>3, <2>1 DEF RestIn
  <2>4. Boosts(s, t)
    <3>1. Line(t, 0) = Contents(g.queue[0]) /\ \A lv \in Levels \ {0} : Line(t, lv) = <<>>
      BY <1>1, <1>3, <1>inring, <2>1 DEF Line
    <3> QED
      BY <1>1, <1>2, <1>3, <1>inring, <3>1 DEF Boosts
  <2> QED
    BY <1>1, <1>3, <2>1, <2>2, <2>3, <2>4 DEF InPlace, t
<1>4. CASE i # IDLE
  <2> DEFINE p == PushHead(g.queue[0], i)
  <2>0. /\ i \in Procs /\ i \in S /\ g \in MlfqStates /\ g.queue \in [Levels -> Rings(S)]
        /\ g.level_of \in [Procs -> Levels] /\ g.saved \in [Levels -> Nat]
        /\ A \subseteq Procs /\ i \notin A /\ A \cup {i} = Alive
        /\ g.queue[0].count < MaxProcesses
    <3>1. /\ i \in Procs /\ A \subseteq Procs /\ i \notin A /\ A \cup {i} = Alive
      BY <1>0, <1>2, <1>4
    <3>2. g.queue[0].count < MaxProcesses
      BY <1>0, <1>1, <3>1, LevelHasRoom
    <3> QED
      BY <1>1, <3>1, <3>2 DEF RingsHold, MlfqStates
  <2>1. p \in Rings(S) /\ Contents(p) = <<i>> \o Contents(g.queue[0])
    <3> HIDE DEF S
    <3> QED
      BY <1>0, <2>0, PushHeadPrepends
  <2>2. /\ t.queue = [g.queue EXCEPT ![0] = p] /\ t.running = IDLE
        /\ t.saved = [g.saved EXCEPT ![0] = LevelQuantum[0]]
        /\ t.level_of = [g.level_of EXCEPT ![i] = 0] /\ t \in MlfqStates
    <3>1. t = [push_head(g, 0, i, LevelQuantum[0])
                  EXCEPT !.running = IDLE, !.level = NO_LEVEL, !.left = 0]
      BY <1>4 DEF boost, g
    <3> HIDE DEF p, t
    <3>2. [g.queue EXCEPT ![0] = p] \in [Levels -> Rings(S)]
      BY <2>0, <2>1
    <3>3. [g.saved EXCEPT ![0] = LevelQuantum[0]] \in [Levels -> Nat]
      BY <1>0, <2>0
    <3>4. [g.level_of EXCEPT ![i] = 0] \in [Procs -> Levels]
      BY <1>0, <2>0
    <3> QED
      BY <2>0, <3>1, <3>2, <3>3, <3>4 DEF push_head, MlfqStates, p
  <2> HIDE DEF t, p
  <2>3. /\ t.queue[0] = p /\ \A m \in Levels \ {0} : t.queue[m] = g.queue[m]
        /\ \A m \in Levels \ {0} : t.saved[m] = 0
        /\ t.level_of[i] = 0 /\ \A j \in A : t.level_of[j] = 0
    BY <1>0, <1>1, <2>0, <2>2
  <2>4. RingsHold(t, Alive)
    <3>1. Placed(g, t, A, i, 0)
      BY <1>0, <1>1, <2>0, <2>1, <2>2, <2>3 DEF Placed
    <3> QED
      BY <2>0, <3>1, PlacedInRing
  <2>5. t.queue[0].count > 0
    <3>1. Contents(g.queue[0]) \in Seq(S) /\ Len(Contents(t.queue[0])) = t.queue[0].count
      BY <1>0, <1>1, <2>0, <2>4, RingFacts
    <3> HIDE DEF S, i
    <3> QED
      BY <2>1, <2>3, <3>1
  <2>6. SavedOk(t)
    BY <1>0, <2>2, <2>3, <2>5 DEF SavedOk
  <2>7. ASSUME NEW j \in Alive PROVE t.level_of[j] = 0 /\ RestIn(t, j) = LevelQuantum[0]
    <3>1. t.level_of[j] = 0 /\ j # t.running
      BY <1>0, <2>0, <2>2, <2>3, <2>7
    <3>2. t.saved[0] = LevelQuantum[0]
      BY <1>0, <2>0, <2>2
    <3> QED
      BY <3>1, <3>2 DEF RestIn
  <2>8. Boosts(s, t)
    <3>1. Line(t, 0) = <<i>> \o Contents(g.queue[0])
          /\ \A lv \in Levels \ {0} : Line(t, lv) = <<>>
      BY <1>inring, <2>1, <2>2, <2>3 DEF Line
    <3> QED
      BY <1>1, <1>2, <1>4, <1>inring, <3>1 DEF Boosts
  <2> QED
    BY <2>2, <2>4, <2>6, <2>7, <2>8 DEF InPlace, RunsWithRest, t
<1> QED
  BY <1>3, <1>4

-----------------------------------------------------------------------------
\* Whoever goes on or is dispatched is of the first level that has anyone.
LEMMA Picked ==
    ASSUME TypeInv, Len(trace) <= MaxProcesses, phase = "admit", AllAdmitted,
           NEW s, InPlace(s, Alive)
    PROVE  LET t == IF Continues(s) THEN s ELSE Dispatch(Release(s))
           IN  /\ InPlace(t, Alive) /\ StandingKept(s, t, Alive) /\ LinesKept(s, t)
               /\ t.running \in AllowedAnswers
               /\ t.running # IDLE => \A j \in Alive : t.level_of[t.running] <= t.level_of[j]
<1>0. /\ Alive \subseteq Procs /\ Alive = Ready /\ IDLE \notin Procs
      /\ RingsHold(s, Alive) /\ s \in MlfqStates
      /\ s.level_of \in [Procs -> Levels]
  BY AliveIsReady, TableTypes DEF InPlace, RingsHold, MlfqStates
<1>1. CASE Continues(s)
  <2>1. s.running # IDLE /\ ~ Displaced(s) /\ s.running \in Alive /\ s.running \in Procs
        /\ s.level = s.level_of[s.running] /\ s.level \in Levels
    BY <1>0, <1>1 DEF Continues, InPlace, RunsWithRest
  <2>2. ASSUME NEW j \in Alive PROVE s.level_of[s.running] <= s.level_of[j]
    <3>1. CASE j = s.running
      BY <2>1, <3>1 DEF Levels
    <3>2. CASE j # s.running
      <4> DEFINE m == s.level_of[j]
      <4>1. m \in Levels /\ j \in At(s, Alive, m) /\ j # IDLE
        BY <1>0, <3>2 DEF At
      <4>2. PICK k \in DOMAIN Contents(s.queue[m]) : Contents(s.queue[m])[k] = j
        BY <1>0, <4>1 DEF RingsHold, Holds
      <4>3. s.queue[m] \in Rings(Leftover \cup Procs)
        BY <1>0, <4>1 DEF MlfqStates
      <4>4. s.queue[m].count > 0
        BY <4>2, <4>3, ContentsType
      <4>5. highest(s) \in Levels /\ highest(s) <= m
        BY <1>0, <4>1, <4>4, HighestIsFirst
      <4>6. ~ (highest(s) < s.level)
        BY <2>1, <4>5 DEF Displaced, NO_LEVEL, Levels
      <4> QED
        BY <2>1, <4>1, <4>5, <4>6 DEF Levels
    <3> QED
      BY <3>1, <3>2
  <2> QED
    BY <1>0, <1>1, <2>1, <2>2 DEF StandingKept, LinesKept, AllowedAnswers
<1>2. CASE ~ Continues(s)
  <2> DEFINE R == Release(s)
             t == Dispatch(R)
  <2>1. InPlace(R, Alive) /\ R.running = IDLE /\ StandingKept(s, R, Alive) /\ LinesKept(s, R)
    <3>1. CASE Displaced(s)
      BY <1>0, <3>1, Released
    <3>2. CASE ~ Displaced(s)
      <4>1. R = s /\ s.running = IDLE
        BY <1>2, <3>2 DEF Release, Continues, InPlace, RunsWithRest
      <4> QED
        BY <4>1 DEF StandingKept, LinesKept
    <3> QED
      BY <3>1, <3>2
  <2> HIDE DEF R
  <2>2. /\ InPlace(t, Alive) /\ StandingKept(R, t, Alive) /\ LinesKept(R, t)
        /\ \/ t.running = IDLE /\ Alive = {}
           \/ t.running \in Alive /\ \A j \in Alive : t.level <= t.level_of[j]
    BY <1>0, <2>1, Dispatched
  <2> HIDE DEF t
  <2>3. StandingKept(s, t, Alive) /\ LinesKept(s, t)
    BY <2>1, <2>2 DEF StandingKept, LinesKept
  <2>4. t.running \in Alive => t.level = t.level_of[t.running]
    BY <1>0, <2>2 DEF InPlace, RunsWithRest
  <2>5. t = IF Continues(s) THEN s ELSE Dispatch(Release(s))
    BY <1>2 DEF t, R
  <2> QED
    BY <1>0, <2>2, <2>3, <2>4, <2>5 DEF AllowedAnswers
<1> QED
  BY <1>1, <1>2

\* The answer of mlfq_pick_next keeps the contract, nobody of a higher level
\* is passed over, and only a boost changes levels and slices.
LEMMA MlfqAnswers ==
    ASSUME MlfqIInv, NEW pid, mlfq_pick_next(pid), phase = "admit", AllAdmitted
    PROVE  /\ pid \in AllowedAnswers /\ mlfq'.running = pid /\ InPlace(mlfq', Alive)
           /\ pid # IDLE => \A j \in Alive : mlfq'.level_of[pid] <= mlfq'.level_of[j]
           /\ ~ IsBoost(tick) => StandingKept(mlfq, mlfq', Alive) /\ LinesKept(mlfq, mlfq')
           /\ IsBoost(tick) => /\ \A i \in Alive : /\ mlfq'.level_of[i] = 0
                                                   /\ RestIn(mlfq', i) = LevelQuantum[0]
                               /\ Boosts(mlfq, mlfq')
<1> DEFINE s == IF IsBoost(tick) THEN boost(mlfq) ELSE mlfq
           t == IF Continues(s) THEN s ELSE Dispatch(Release(s))
<1>0. TypeInv /\ Len(trace) <= MaxProcesses /\ InPlace(mlfq, Alive)
  BY DEF MlfqIInv, MlfqInv, MetricsInv
<1>1. /\ InPlace(s, Alive)
      /\ IsBoost(tick) => /\ \A i \in Alive : /\ s.level_of[i] = 0
                                              /\ RestIn(s, i) = LevelQuantum[0]
                          /\ Boosts(mlfq, s)
      /\ ~ IsBoost(tick) => s = mlfq
  <2>1. CASE IsBoost(tick)
    BY <1>0, <2>1, Boosted
  <2>2. CASE ~ IsBoost(tick)
    BY <1>0, <2>2
  <2> QED
    BY <2>1, <2>2
<1>2. mlfq' = t /\ pid = mlfq'.running
  BY DEF mlfq_pick_next
<1> HIDE DEF s
<1>3. /\ InPlace(t, Alive) /\ StandingKept(s, t, Alive) /\ LinesKept(s, t)
      /\ t.running \in AllowedAnswers
      /\ t.running # IDLE => \A j \in Alive : t.level_of[t.running] <= t.level_of[j]
  BY <1>0, <1>1, Picked
<1> HIDE DEF t
<1>4. Boosts(mlfq, s) => Boosts(mlfq, t)
  <2>1. 0 \in Levels
    BY DEF Levels
  <2> QED
    BY <1>3, <2>1 DEF LinesKept, Boosts
<1> QED
  BY <1>1, <1>2, <1>3, <1>4 DEF StandingKept

-----------------------------------------------------------------------------
LEMMA MlfqNextIsWCNext ==
    ASSUME MlfqIInv, [MlfqNext]_MlfqVars
    PROVE  [WCNext]_vars
<1>1. ASSUME NEW pid \in Answers, mlfq_pick_next(pid), Pick(pid)
      PROVE  WCNext
  BY <1>1, MlfqAnswers DEF WCNext, Pick
<1> QED
  BY <1>1 DEF MlfqNext, MlfqVars, WCNext

LEMMA MlfqInvInit == ASSUME MlfqInit PROVE MlfqIInv
<1> DEFINE S == Leftover \cup Procs
<1>1. MetricsInv /\ TypeInv
  BY TypeInvInit, AccountingInit, WindowInit, WorkInit DEF MlfqInit, MetricsInv
<1>2. Alive = {}
  <2>1. \A i \in Procs : trace[i].arrival \in Nat
    BY RowTypes DEF MlfqInit, Init, Procs
  <2> QED
    BY <2>1 DEF MlfqInit, Init, Alive, Admitted
<1>3. /\ mlfq.queue \in [Levels -> EmptyRings(Leftover)] /\ mlfq.saved \in [Levels -> {0}]
      /\ mlfq.level_of \in [Procs -> {0}]
      /\ mlfq.running = IDLE /\ mlfq.level = NO_LEVEL /\ mlfq.left = 0
      /\ mlfq = [queue |-> mlfq.queue, saved |-> mlfq.saved, level_of |-> mlfq.level_of,
                 running |-> mlfq.running, level |-> mlfq.level, left |-> mlfq.left]
  BY DEF MlfqInit, mlfq_init
<1>4. \A lv \in Levels : /\ mlfq.queue[lv] \in Rings(S)
                         /\ Contents(mlfq.queue[lv]) = <<>>
  <2>1. \A lv \in Levels : mlfq.queue[lv] \in EmptyRings(Leftover)
    BY <1>3
  <2> QED
    BY <2>1, EmptyContents, RingsGrow
<1>5. mlfq \in MlfqStates
  <2>1. mlfq.saved \in [Levels -> Nat] /\ mlfq.level_of \in [Procs -> Levels]
    BY <1>3 DEF Levels
  <2> DEFINE R == Rings(S)
  <2>2. mlfq.queue \in [Levels -> R]
    <3>1. mlfq.queue = [lv \in Levels |-> mlfq.queue[lv]]
      BY <1>3
    <3> QED
      BY <1>4, <3>1, Zenon
  <2> HIDE DEF R
  <2>3. mlfq \in [queue : [Levels -> R], saved : [Levels -> Nat],
                  level_of : [Procs -> Levels],
                  running : Procs \cup {IDLE}, level : Levels \cup {NO_LEVEL}, left : Nat]
    BY <1>3, <2>1, <2>2
  <2> QED
    BY <2>3 DEF MlfqStates, R
<1>6. InPlace(mlfq, Alive)
  <2>1. RingsHold(mlfq, Alive)
    BY <1>2, <1>4, <1>5 DEF RingsHold, Holds, At
  <2> QED
    BY <1>3, <2>1 DEF InPlace, RunsWithRest, SavedOk
<1>7. Len(trace) <= MaxProcesses
  BY MlfqAssumption DEF MlfqInit, Init
<1> QED
  BY <1>1, <1>3, <1>6, <1>7 DEF MlfqIInv, MlfqInv, MlfqInit, Init

\* Arrival and the end of a tick, in terms of places, levels and rests.
LEMMA ArrivalIs ==
    ASSUME MlfqIInv, NEW i \in Procs, Admit(i), mlfq_on_arrival(i)
    PROVE  /\ i \notin Alive /\ Alive' = Alive \cup {i}
           /\ mlfq'.running = mlfq.running
           /\ Line(mlfq', 0) = Append(Line(mlfq, 0), i)
           /\ \A m \in Levels \ {0} : Line(mlfq', m) = Line(mlfq, m)
           /\ InPlace(mlfq', Alive \cup {i})
           /\ StandingKept(mlfq, mlfq', Alive)
           /\ mlfq'.level_of[i] = 0 /\ RestIn(mlfq', i) = LevelQuantum[0]
<1> DEFINE s == mlfq
           t == mlfq'
<1>1. /\ TypeInv /\ Alive \subseteq Procs /\ IDLE \notin Procs /\ Len(trace) <= MaxProcesses
      /\ InPlace(s, Alive) /\ RingsHold(s, Alive) /\ SavedOk(s) /\ RunsWithRest(s, Alive)
      /\ 0 \in Levels
  BY TableTypes DEF MlfqIInv, MlfqInv, MetricsInv, InPlace, Levels
<1>2. i \notin Alive /\ Alive' = Alive \cup {i}
  <2>1. [WCNext]_vars
    BY DEF WCNext
  <2> QED
    BY <2>1, AliveStep DEF MlfqIInv
<1>3. i # s.running /\ t = push_tail(s, 0, i)
  BY <1>1, <1>2 DEF RunsWithRest, mlfq_on_arrival
<1> HIDE DEF s, t
<1>4. PlacedAtTail(s, t, Alive, i, 0)
  BY <1>1, <1>2, <1>3, PushedAtTail
<1>5. RingsHold(t, Alive \cup {i})
  BY <1>1, <1>4, PlacedInRing DEF PlacedAtTail
<1>6. /\ SavedOk(t) /\ StandingKept(s, t, Alive \ {i})
      /\ t.level_of[i] = 0 /\ RestIn(t, i) = LevelQuantum[0]
  BY <1>1, <1>4, TailRests DEF FreshAtTail
<1>7. StandingKept(s, t, Alive)
  BY <1>2, <1>6 DEF StandingKept
<1>8. t.running = s.running /\ t.level = s.level /\ t.left = s.left
  BY <1>3, <1>4 DEF PlacedAtTail, Placed
<1>10. Line(t, 0) = Append(Line(s, 0), i) /\ \A m \in Levels \ {0} : Line(t, m) = Line(s, m)
  <2>1. /\ Contents(t.queue[0]) = Append(Contents(s.queue[0]), i)
        /\ \A m \in Levels \ {0} : t.queue[m] = s.queue[m]
    BY <1>4 DEF PlacedAtTail, Placed
  <2>2. Contents(s.queue[0]) \in Seq(Leftover \cup Procs)
    BY <1>1, RingFacts
  <2> QED
    BY <1>8, <2>1, <2>2, InFront DEF Line
<1>9. RunsWithRest(t, Alive \cup {i})
  BY <1>1, <1>7, <1>8 DEF RunsWithRest, StandingKept
<1> QED
  BY <1>2, <1>5, <1>6, <1>7, <1>8, <1>9, <1>10 DEF InPlace, s, t

\* The front of line lv has been sent to the tail of line to.
Sent(s, t, i, lv, to) ==
    /\ Line(s, lv) = <<i>> \o Contents(s.queue[lv])
    /\ \A m \in Levels :
           LET rest == IF m = lv THEN Contents(s.queue[lv]) ELSE Line(s, m)
           IN  Line(t, m) = IF m = to THEN Append(rest, i) ELSE rest

LEMMA TickEndIs ==
    ASSUME MlfqIInv, EndTick, mlfq_on_tick_end, mlfq.running # IDLE
    PROVE  LET i == mlfq.running
           IN  /\ i \in Alive /\ mlfq.level = mlfq.level_of[i] /\ mlfq.level \in Levels
               /\ mlfq.left \in Nat /\ mlfq.left > 0
               /\ InPlace(mlfq', Alive)
               /\ StandingKept(mlfq, mlfq', Alive \ {i})
               /\ mlfq.left > 1 => /\ mlfq'.level_of[i] = mlfq.level
                                   /\ RestIn(mlfq', i) = mlfq.left - 1
                                   /\ mlfq'.running = i
                                   /\ LinesKept(mlfq, mlfq')
               /\ mlfq.left = 1 => /\ mlfq'.level_of[i] = Below(mlfq.level)
                                   /\ RestIn(mlfq', i) = LevelQuantum[Below(mlfq.level)]
                                   /\ mlfq'.running = IDLE
                                   /\ Sent(mlfq, mlfq', i, mlfq.level, Below(mlfq.level))
<1> DEFINE s == mlfq
           t == mlfq'
           i == s.running
<1>1. /\ TypeInv /\ Alive \subseteq Procs /\ IDLE \notin Procs /\ Len(trace) <= MaxProcesses
      /\ RingsHold(s, Alive) /\ SavedOk(s) /\ s \in MlfqStates
      /\ i # IDLE /\ i \in Alive /\ i \in Procs /\ s.level = s.level_of[i] /\ s.level \in Levels
      /\ s.left \in Nat /\ s.left > 0
      /\ next # IDLE /\ i = s.running
  <2>1. phase = "tick_end"
    BY DEF EndTick
  <2>2. InPlace(mlfq, Alive) /\ next # IDLE
    BY <2>1 DEF MlfqIInv, MlfqInv
  <2> QED
    BY <2>2, TableTypes DEF MlfqIInv, MlfqInv, MetricsInv, InPlace, RunsWithRest, RingsHold,
                            MlfqStates
<1>2. /\ s.left > 1 => t = [s EXCEPT !.left = s.left - 1]
      /\ s.left = 1 => t = [push_tail(s, Below(s.level), i)
                                EXCEPT !.left = push_tail(s, Below(s.level), i).left - 1,
                                       !.running = IDLE]
  BY <1>1 DEF mlfq_on_tick_end
<1>3. Below(s.level) \in Levels
  BY <1>1 DEF Below
<1> HIDE DEF s, t, i
<1>4. CASE s.left > 1
  <2>1. /\ t \in MlfqStates /\ t.queue = s.queue /\ t.saved = s.saved
        /\ t.level_of = s.level_of /\ t.running = i /\ t.level = s.level
        /\ t.left = s.left - 1
    <3>1. s.left - 1 \in Nat
      BY <1>1, <1>4
    <3> QED
      BY <1>1, <1>2, <1>4, <3>1 DEF MlfqStates
  <2>2. InPlace(t, Alive)
    <3>1. \A lv \in Levels : At(t, Alive, lv) = At(s, Alive, lv)
      BY <1>1, <2>1 DEF At
    <3>2. RingsHold(t, Alive)
      BY <1>1, <2>1, <3>1 DEF RingsHold
    <3>3. t.left > 0
      BY <1>1, <1>4, <2>1
    <3>4. RunsWithRest(t, Alive) /\ SavedOk(t)
      BY <1>1, <2>1, <3>3 DEF RunsWithRest, SavedOk
    <3> QED
      BY <3>2, <3>4 DEF InPlace
  <2>3. StandingKept(s, t, Alive \ {i}) /\ LinesKept(s, t)
    BY <1>1, <2>1 DEF StandingKept, RestIn, LinesKept, Line
  <2> QED
    BY <1>1, <1>4, <2>1, <2>2, <2>3 DEF RestIn, s, t, i
<1>5. CASE s.left = 1
  <2> DEFINE lv == Below(s.level)
  <2>1. t = Requeued(s, lv, i)
    <3>1. push_tail(s, lv, i).left = s.left
      BY <1>1 DEF push_tail, MlfqStates
    <3> QED
      BY <1>2, <1>5, <3>1 DEF Requeued
  <2> HIDE DEF lv
  <2>2. PlacedAtTail(s, t, Alive, i, lv)
    BY <1>1, <1>3, <2>1, PushedAtTail DEF lv
  <2>3. RingsHold(t, Alive)
    <3>1. Alive \cup {i} = Alive
      BY <1>1
    <3> QED
      BY <1>1, <2>2, <3>1, PlacedInRing DEF PlacedAtTail
  <2>4. /\ SavedOk(t) /\ StandingKept(s, t, Alive \ {i})
        /\ t.level_of[i] = lv /\ RestIn(t, i) = LevelQuantum[lv]
    <3>1. TypeInv /\ SavedOk(s)
      BY <1>1
    <3>2. FreshAtTail(s, t, Alive, i, lv)
      BY <2>2, <3>1, TailRests
    <3> QED
      BY <3>2 DEF FreshAtTail
  <2>5. t.running = IDLE
    BY <1>1, <2>2 DEF PlacedAtTail, Placed
  <2>6. Sent(s, t, i, s.level, lv)
    <3>1. /\ Contents(t.queue[lv]) = Append(Contents(s.queue[lv]), i)
          /\ \A m \in Levels \ {lv} : t.queue[m] = s.queue[m]
      BY <2>2 DEF PlacedAtTail, Placed
    <3> QED
      BY <1>1, <2>5, <3>1 DEF Sent, Line
  <2> QED
    BY <1>1, <1>5, <2>3, <2>4, <2>5, <2>6 DEF InPlace, RunsWithRest, s, t, lv, i
<1>6. s.left > 1 \/ s.left = 1
  BY <1>1
<1> QED
  BY <1>4, <1>5, <1>6

LEMMA MlfqInvStep == MlfqIInv /\ [MlfqNext]_MlfqVars => MlfqIInv'
<1> SUFFICES ASSUME MlfqIInv, [MlfqNext]_MlfqVars PROVE MlfqIInv'
  OBVIOUS
<1>0. [WCNext]_vars /\ [Next]_vars /\ trace' = trace /\ Procs' = Procs
  <2>1. [WCNext]_vars
    BY MlfqNextIsWCNext
  <2>2. [Next]_vars
    BY <2>1, WCNextIsNext DEF MlfqIInv, MetricsInv
  <2> QED
    BY <2>1, <2>2, TraceStep DEF Procs
<1>1. MetricsInv'
  BY <1>0, TypeInvStep, AccountingStep, WindowStep, WorkStep DEF MlfqIInv, MetricsInv
<1>2. /\ TypeInv /\ Alive \subseteq Procs /\ IDLE \notin Procs /\ Len(trace) <= MaxProcesses
      /\ InPlace(mlfq, Alive) /\ mlfq \in MlfqStates
      /\ mlfq.running # IDLE => mlfq.running \in Alive
  BY <1>0, TableTypes DEF MlfqIInv, MlfqInv, MetricsInv, InPlace, RunsWithRest, RingsHold
<1>3. /\ \A i \in Procs : Admit(i) => i \notin Alive /\ Alive' = Alive \cup {i}
      /\ Execute => /\ next \in Alive
                    /\ Alive' = IF remaining[next] = 1 THEN Alive \ {next} ELSE Alive
      /\ Execute \/ (\E i \in Procs : Admit(i)) \/ Alive' = Alive
  BY <1>0, AliveStep DEF MlfqIInv
<1>4. ASSUME InPlace(mlfq', Alive') PROVE InPlace(mlfq, Alive)'
  <2>1. MlfqStates' = MlfqStates
    BY <1>0 DEF MlfqStates
  <2> QED
    BY <1>4, <2>1 DEF InPlace, RingsHold, RunsWithRest, SavedOk, At
<1>5. ASSUME NEW i \in Procs, Admit(i), mlfq_on_arrival(i) PROVE MlfqInv'
  <2>1. /\ InPlace(mlfq', Alive') /\ mlfq'.running = mlfq.running
    BY <1>5, ArrivalIs
  <2>2. InPlace(mlfq, Alive)'
    BY <1>4, <2>1
  <2> QED
    BY <1>0, <1>2, <1>5, <2>1, <2>2 DEF MlfqIInv, MlfqInv, Admit
<1>6. ASSUME NEW pid \in Answers, mlfq_pick_next(pid), Pick(pid) PROVE MlfqInv'
  <2>1. /\ phase = "admit" /\ AllAdmitted /\ next' = pid /\ remaining' = remaining
        /\ phase' = IF pid = IDLE THEN "tick_end"
                    ELSE IF pid \in Ready THEN "execute" ELSE "error"
        /\ \A i \in Alive : remaining[i] > 0
    BY <1>6 DEF Pick, table, Alive
  <2>2. Alive' = Alive
    BY <1>3, <2>1, <1>6 DEF Pick, Admit, Execute
  <2>3. pid \in AllowedAnswers /\ mlfq'.running = pid /\ InPlace(mlfq', Alive)
    BY <1>6, <2>1, MlfqAnswers
  <2>4. InPlace(mlfq, Alive)'
    BY <1>4, <2>2, <2>3
  <2>5. phase' \in {"execute", "tick_end"} /\ (pid = IDLE <=> phase' = "tick_end")
    BY <1>2, <2>1, <2>3 DEF AllowedAnswers, Ready
  <2> QED
    BY <1>0, <1>2, <2>1, <2>2, <2>3, <2>4, <2>5 DEF MlfqInv
<1>7. ASSUME Execute, IF Finishing THEN mlfq_on_complete ELSE UNCHANGED mlfq
      PROVE  MlfqInv'
  <2>1. /\ phase = "execute" /\ phase' = "tick_end" /\ next' = next /\ mlfq.running = next
        /\ next \in Procs /\ remaining[next] \in Nat /\ remaining[next] > 0
        /\ remaining' = [remaining EXCEPT ![next] = @ - 1]
        /\ remaining \in [Procs -> Nat]
    BY <1>7, <1>2 DEF Execute, MlfqIInv, MlfqInv, TypeInv, TypeOK, PhaseInv, Ready
  <2>2. remaining'[next] = remaining[next] - 1 /\ next # IDLE
    BY <1>2, <2>1
  <2>3. CASE Finishing
    <3>1. /\ mlfq' = [mlfq EXCEPT !.running = IDLE, !.level = NO_LEVEL, !.left = 0]
          /\ Alive' = Alive \ {next} /\ remaining'[next] = 0
      BY <1>3, <1>7, <2>1, <2>2, <2>3 DEF mlfq_on_complete, Finishing
    <3>2. /\ mlfq'.running = IDLE /\ mlfq'.queue = mlfq.queue /\ mlfq'.saved = mlfq.saved
          /\ mlfq'.level_of = mlfq.level_of /\ mlfq' \in MlfqStates
      BY <1>2, <3>1 DEF MlfqStates
    <3>3. \A lv \in Levels : At(mlfq', Alive', lv) = At(mlfq, Alive, lv)
      BY <1>2, <2>1, <3>1, <3>2 DEF At
    <3>4. RingsHold(mlfq', Alive')
      BY <1>2, <3>2, <3>3 DEF InPlace, RingsHold
    <3>5. InPlace(mlfq, Alive)'
      <4>1. InPlace(mlfq', Alive')
        BY <1>2, <3>2, <3>4 DEF InPlace, SavedOk, RunsWithRest
      <4> QED
        BY <1>4, <4>1
    <3> QED
      BY <1>0, <1>2, <2>1, <2>2, <3>1, <3>2, <3>5 DEF MlfqInv
  <2>4. CASE ~ Finishing
    <3>1. UNCHANGED mlfq /\ Alive' = Alive /\ remaining'[next] > 0
      BY <1>3, <1>7, <2>1, <2>2, <2>4 DEF Finishing
    <3>2. InPlace(mlfq, Alive)'
      BY <1>2, <1>4, <3>1
    <3> QED
      BY <1>0, <1>2, <2>1, <2>2, <3>1, <3>2 DEF MlfqIInv, MlfqInv
  <2> QED
    BY <2>3, <2>4
<1>8. ASSUME EndTick, mlfq_on_tick_end PROVE MlfqInv'
  <2>1. /\ phase = "tick_end" /\ phase' = "test" /\ remaining' = remaining
        /\ current' = next /\ Alive' = Alive
    BY <1>3, <1>8 DEF EndTick, table, Admit, Execute
  <2>2. mlfq.running # IDLE => mlfq.running = next
    BY <2>1 DEF MlfqIInv, MlfqInv
  <2>3. CASE mlfq.running = IDLE
    <3>1. mlfq' = mlfq
      BY <1>8, <2>3 DEF mlfq_on_tick_end
    <3>2. InPlace(mlfq, Alive)'
      BY <1>2, <1>4, <2>1, <3>1
    <3> QED
      BY <1>0, <1>2, <2>1, <2>3, <3>1, <3>2 DEF MlfqIInv, MlfqInv
  <2>4. CASE mlfq.running # IDLE
    <3>1. /\ InPlace(mlfq', Alive) /\ mlfq'.running \in {mlfq.running, IDLE}
      <4>1. /\ mlfq.left \in Nat /\ mlfq.left > 0
            /\ InPlace(mlfq', Alive)
            /\ mlfq.left > 1 => mlfq'.running = mlfq.running
            /\ mlfq.left = 1 => mlfq'.running = IDLE
        BY <1>8, <2>4, TickEndIs
      <4>2. mlfq.left > 1 \/ mlfq.left = 1
        BY <4>1
      <4> QED
        BY <4>1, <4>2
    <3>2. InPlace(mlfq, Alive)'
      BY <1>4, <2>1, <3>1
    <3> QED
      BY <1>0, <1>2, <2>1, <2>2, <3>1, <3>2 DEF MlfqInv
  <2> QED
    BY <2>3, <2>4
<1>9. CASE \/ (LoopTest \/ Halt) /\ UNCHANGED mlfq
           \/ UNCHANGED MlfqVars
  <2>1. /\ UNCHANGED mlfq /\ UNCHANGED <<remaining, current, next>>
        /\ \/ phase = "test" /\ phase' \in {"ok", "error", "admit"}
           \/ phase' = phase
    BY <1>9 DEF LoopTest, Halt, vars, table, MlfqVars
  <2>2. Alive' = Alive
    <3>1. CASE LoopTest \/ Returned
      BY <1>3, <3>1 DEF LoopTest, Admit, Execute, Returned
    <3>2. CASE UNCHANGED vars
      BY <3>2 DEF vars, table, Alive, Admitted, Procs
    <3> QED
      BY <1>9, <3>1, <3>2 DEF Halt, MlfqVars
  <2>3. InPlace(mlfq, Alive)'
    BY <1>2, <1>4, <2>1, <2>2
  <2>4. MlfqInv'
    BY <1>0, <1>2, <2>1, <2>3 DEF MlfqIInv, MlfqInv
  <2> QED
    BY <1>1, <2>4 DEF MlfqIInv
<1> QED
  BY <1>1, <1>5, <1>6, <1>7, <1>8, <1>9 DEF MlfqNext, MlfqIInv

THEOREM MlfqIInvAlways == MlfqSpec => []MlfqIInv
<1>1. MlfqInit => MlfqIInv
  BY MlfqInvInit
<1> QED
  BY <1>1, MlfqInvStep, PTL DEF MlfqSpec

\* mlfq.c keeps the contract of sched.h, fairness apart: a boost that meets a
\* process in mid-slice, displaced, demoted or just arrived loses nobody,
\* doubles nobody, and never leaves the CPU idle with work queued.
THEOREM MlfqImplementsContract == MlfqSpec => WCSafety
<1>1. MlfqInit => Init
  BY DEF MlfqInit
<1>2. MlfqIInv /\ [MlfqNext]_MlfqVars => [WCNext]_vars
  BY MlfqNextIsWCNext
<1> QED
  BY <1>1, <1>2, MlfqIInvAlways, PTL DEF MlfqSpec, WCSafety

-----------------------------------------------------------------------------
\* A bounded set of numbers has a greatest one, and Max finds it.
LEMMA GreatestIs ==
    ASSUME NEW n \in Nat, NEW S \in SUBSET (0..n), S # {}
    PROVE  Max(S) \in S /\ \A y \in S : y <= Max(S)
<1> DEFINE R == {n - y : y \in S}
<1>1. R \in SUBSET Nat /\ R # {}
  <2>1. \A y \in 0..n : n - y \in Nat
    OBVIOUS
  <2> QED
    BY <2>1
<1>2. PICK r \in R : \A y \in R : r <= y
  BY <1>1, LeastNat
<1>3. PICK x \in S : r = n - x
  BY <1>2
<1>4. ASSUME NEW y \in S PROVE x >= y /\ x \in Int /\ y \in Int
  <2>1. n - y \in R /\ x \in 0..n /\ y \in 0..n
    OBVIOUS
  <2> QED
    BY <1>2, <1>3, <2>1
<1>5. Max(S) \in S /\ \A y \in S : Max(S) >= y
  <2>1. \E z \in S : \A y \in S : z >= y
    BY <1>4
  <2> QED
    BY <2>1 DEF Max
<1>6. S \subseteq Int
  OBVIOUS
<1> QED
  BY <1>5, <1>6

\* A number that is in a set and above the rest of it is its greatest one.
LEMMA GreatestIsThis ==
    ASSUME NEW S, NEW x \in S, S \subseteq Int, \A y \in S : y <= x
    PROVE  Max(S) = x
<1>1. \A y \in S : x >= y
  OBVIOUS
<1>2. Max(S) \in S /\ \A y \in S : Max(S) >= y
  BY <1>1 DEF Max
<1>3. Max(S) >= x /\ Max(S) <= x /\ Max(S) \in Int /\ x \in Int
  BY <1>2
<1> QED
  BY <1>3

-----------------------------------------------------------------------------
\* One more tick of a slice, and the first one of the next slice.
LEMMA RemainderIs ==
    ASSUME NEW n \in Nat, NEW q \in Nat \ {0}
    PROVE  /\ n % q \in 0..(q - 1)
           /\ n % q < q - 1 => (n + 1) % q = (n % q) + 1
           /\ n % q = q - 1 => (n + 1) % q = 0
<1> DEFINE d == n \div q
           r == n % q
<1>1. d \in Nat /\ r \in 0..(q - 1) /\ n = q * d + r
  OBVIOUS
<1> HIDE DEF d, r
<1>2. CASE r < q - 1
  <2>1. n + 1 = q * d + (r + 1) /\ r + 1 \in 0..(q - 1)
    BY <1>1, <1>2
  <2>2. (n + 1) % q = r + 1
    BY <1>1, <2>1
  <2> QED
    BY <1>1, <1>2, <2>2 DEF r
<1>3. CASE r = q - 1
  <2>1. n + 1 = q * (d + 1) /\ d + 1 \in Nat
    BY <1>1, <1>3
  <2>2. (n + 1) % q = 0
    BY <1>1, <2>1
  <2> QED
    BY <1>1, <1>3, <2>2 DEF r
<1> QED
  BY <1>1, <1>2, <1>3 DEF r

\* What is left of a slice, as a function of what was executed, and what the
\* next tick makes of it.
RestAfter(e) == LevelQuantum[LevelAfter(e)] - SpentAfter(e)

LEMMA SliceTakesTurns ==
    ASSUME NEW e \in Nat
    PROVE  /\ LevelAfter(e) \in Levels
           /\ RestAfter(e) > 1 => /\ LevelAfter(e + 1) = LevelAfter(e)
                                  /\ RestAfter(e + 1) = RestAfter(e) - 1
           /\ RestAfter(e) = 1 => /\ LevelAfter(e + 1) = Below(LevelAfter(e))
                                  /\ RestAfter(e + 1) = LevelQuantum[Below(LevelAfter(e))]
           /\ LevelAfter(0) = 0 /\ RestAfter(0) = LevelQuantum[0]
<1>1. LevelQuantum[0] \in Nat \ {0} /\ LevelQuantum[1] \in Nat \ {0} /\ LevelQuantum[2] \in Nat \ {0}
  BY MlfqAssumption DEF Levels
<1>2. PICK a \in Nat \ {0}, b \in Nat \ {0}, c \in Nat \ {0} :
          LevelQuantum[0] = a /\ LevelQuantum[1] = b /\ LevelQuantum[2] = c
  BY <1>1
<1>3. \A x \in Nat : x < a => LevelAfter(x) = 0 /\ RestAfter(x) = a - x
  BY <1>2 DEF LevelAfter, RestAfter, SpentAfter
<1>4. \A x \in Nat : ~ (x < a) /\ x < a + b =>
          LevelAfter(x) = 1 /\ RestAfter(x) = b - (x - a)
  BY <1>2 DEF LevelAfter, RestAfter, SpentAfter
<1>5. \A x \in Nat : ~ (x < a) /\ ~ (x < a + b) =>
          LevelAfter(x) = 2 /\ RestAfter(x) = c - ((x - a - b) % c)
  <2> TAKE x \in Nat
  <2> HAVE ~ (x < a) /\ ~ (x < a + b)
  <2>1. LevelAfter(x) = 2
    BY <1>2 DEF LevelAfter
  <2>2. SpentAfter(x) = (x - a - b) % c
    BY <1>2, <2>1 DEF SpentAfter
  <2> QED
    BY <1>2, <2>1, <2>2 DEF RestAfter
<1>6. Below(0) = 1 /\ Below(1) = 2 /\ Below(2) = 2
  BY DEF Below, Levels
<1>7. e + 1 \in Nat /\ 0 % c = 0
  OBVIOUS
<1>8. LevelAfter(0) = 0 /\ RestAfter(0) = a
  BY <1>3
<1>9. CASE e < a
  <2>1. LevelAfter(e) = 0 /\ RestAfter(e) = a - e
    BY <1>3, <1>9
  <2>2. CASE e + 1 < a
    BY <1>2, <1>3, <1>7, <1>8, <2>1, <2>2 DEF Levels
  <2>3. CASE ~ (e + 1 < a)
    <3>1. RestAfter(e) = 1 /\ e + 1 < a + b /\ b - (e + 1 - a) = b
      BY <1>9, <2>1, <2>3
    <3>2. LevelAfter(e + 1) = 1 /\ RestAfter(e + 1) = b
      BY <1>4, <1>7, <2>3, <3>1
    <3> QED
      BY <1>2, <1>6, <1>8, <2>1, <3>1, <3>2 DEF Levels
  <2> QED
    BY <2>2, <2>3
<1>10. CASE ~ (e < a) /\ e < a + b
  <2>1. LevelAfter(e) = 1 /\ RestAfter(e) = b - (e - a)
    BY <1>4, <1>10
  <2>2. CASE e + 1 < a + b
    BY <1>2, <1>4, <1>7, <1>8, <1>10, <2>1, <2>2 DEF Levels
  <2>3. CASE ~ (e + 1 < a + b)
    <3>1. RestAfter(e) = 1 /\ e + 1 - a - b = 0 /\ ~ (e + 1 < a)
      BY <1>10, <2>1, <2>3
    <3>2. LevelAfter(e + 1) = 2 /\ RestAfter(e + 1) = c - (0 % c)
      BY <1>5, <1>7, <2>3, <3>1
    <3>3. RestAfter(e + 1) = c
      BY <1>7, <3>2
    <3> QED
      BY <1>2, <1>6, <1>8, <2>1, <3>1, <3>2, <3>3 DEF Levels
  <2> QED
    BY <2>2, <2>3
<1>11. CASE ~ (e < a) /\ ~ (e < a + b)
  <2>1. PICK n \in Nat : n = e - a - b
    BY <1>11
  <2>2. LevelAfter(e) = 2 /\ RestAfter(e) = c - (n % c)
    BY <1>5, <1>11, <2>1
  <2>3. e + 1 - a - b = n + 1 /\ ~ (e + 1 < a) /\ ~ (e + 1 < a + b)
    BY <1>11, <2>1
  <2>4. LevelAfter(e + 1) = 2 /\ RestAfter(e + 1) = c - ((n + 1) % c)
    BY <1>5, <1>7, <2>3
  <2>5. /\ n % c \in 0..(c - 1)
        /\ n % c < c - 1 => (n + 1) % c = (n % c) + 1
        /\ n % c = c - 1 => (n + 1) % c = 0
    BY RemainderIs
  <2>6. PICK r \in 0..(c - 1) : n % c = r
    BY <2>5
  <2>7. RestAfter(e) = c - r
    BY <2>2, <2>6
  <2>8. r < c - 1 => RestAfter(e + 1) = c - (r + 1)
    BY <2>4, <2>5, <2>6
  <2>9. r = c - 1 => RestAfter(e + 1) = c
    BY <2>4, <2>5, <2>6
  <2> HIDE <2>1, <2>5, <2>6
  <2> QED
    BY <1>2, <1>6, <1>8, <2>2, <2>4, <2>7, <2>8, <2>9 DEF Levels
<1> QED
  BY <1>9, <1>10, <1>11

-----------------------------------------------------------------------------
\* The last boost: when it moves, and that it is not after the tick at hand.
LEMMA LastBoostIs ==
    ASSUME MetricsInv
    PROVE  LastBoost \in Nat /\ LastBoost <= tick
<1>1. tick \in Nat
  BY EngineAssumption DEF MetricsInv, TypeInv, TypeOK
<1>2. {0} \cup {t \in Decided : IsBoost(t)} \in SUBSET (0..tick)
  BY <1>1 DEF Decided
<1>3. LastBoost \in 0..tick
  BY <1>1, <1>2, GreatestIs DEF LastBoost
<1> QED
  BY <1>1, <1>3

LEMMA LastBoostMoves ==
    ASSUME MetricsInv, NEW pid \in AllowedAnswers, Pick(pid)
    PROVE  LastBoost' = IF IsBoost(tick) THEN tick ELSE LastBoost
<1> DEFINE S == {0} \cup {t \in Decided : IsBoost(t)}
           T == {0} \cup {t \in Decided \cup {tick} : IsBoost(t)}
<1>1. /\ tick \in Nat /\ Decided' = Decided \cup {tick} /\ Decided \subseteq 0..tick
  BY DecisionMade, EngineAssumption DEF MetricsInv, TypeInv, TypeOK, Decided
<1>2. LastBoost = Max(S) /\ LastBoost' = Max(T)
  BY <1>1 DEF LastBoost, IsBoost
<1>3. CASE ~ IsBoost(tick)
  <2>1. T = S
    BY <1>3
  <2> QED
    BY <1>2, <1>3, <2>1
<1>4. CASE IsBoost(tick)
  <2>1. tick \in T /\ T \subseteq Int /\ \A y \in T : y <= tick
    <3>1. \A y \in T : y \in 0..tick
      BY <1>1
    <3>2. tick \in T
      BY <1>4
    <3> HIDE DEF T
    <3> QED
      BY <1>1, <3>1, <3>2
  <2> HIDE DEF T
  <2>2. Max(T) = tick
    BY <2>1, GreatestIsThis
  <2> QED
    BY <1>2, <1>4, <2>2
<1> QED
  BY <1>3, <1>4

\* What a process has executed since the last boost grows with every tick it
\* executes, is forgotten by a boost, and is nothing at its arrival.
LEMMA SinceBoostIs ==
    ASSUME MetricsInv, NEW i \in Procs
    PROVE  /\ SinceBoost(i) \in Nat
           /\ phase = "tick_end" /\ next = i => SinceBoost(i) > 0
           /\ Admit(i) => SinceBoost(i) = 0
<1> DEFINE S == {t \in TicksOf(i) : t >= LastBoost}
<1>1. IsFiniteSet(TicksOf(i)) /\ IsFiniteSet(S) /\ SinceBoost(i) = Cardinality(S)
  <2>1. IsFiniteSet(TicksOf(i)) /\ S \in SUBSET TicksOf(i)
    BY TicksOfFinite DEF MetricsInv
  <2>2. IsFiniteSet(S)
    BY <2>1, FS_Subset
  <2> QED
    BY <2>1, <2>2 DEF SinceBoost
<1>2. Cardinality(S) \in Nat /\ (Cardinality(S) = 0 <=> S = {})
  BY <1>1, FS_CardinalityType, FS_EmptySet
<1>3. ASSUME phase = "tick_end", next = i PROVE tick \in S
  <2>1. tick \in TicksOf(i)
    BY <1>3, EngineAssumption DEF MetricsInv, TypeInv, TypeOK, PhaseInv, TicksOf, Elapsed
  <2>2. tick >= LastBoost
    BY LastBoostIs, EngineAssumption DEF MetricsInv, TypeInv, TypeOK
  <2> QED
    BY <2>1, <2>2
<1>4. ASSUME Admit(i) PROVE S = {}
  <2>1. TicksOf(i) = {}
    BY <1>4, ArrivesWhole DEF MetricsInv, Window
  <2> QED
    BY <2>1
<1> QED
  BY <1>1, <1>2, <1>3, <1>4

LEMMA SinceBoostStep ==
    ASSUME MetricsInv, [WCNext]_vars, NEW i \in Procs
    PROVE  /\ Execute /\ next = i => SinceBoost(i)' = SinceBoost(i) + 1
           /\ \A pid \in AllowedAnswers : Pick(pid) =>
                  SinceBoost(i)' = IF IsBoost(tick) THEN 0 ELSE SinceBoost(i)
           /\ Execute /\ next # i => SinceBoost(i)' = SinceBoost(i)
           /\ LoopTest \/ (\E j \in Procs : Admit(j)) \/ EndTick \/ UNCHANGED vars =>
                  SinceBoost(i)' = SinceBoost(i)
<1> DEFINE S == {t \in TicksOf(i) : t >= LastBoost}
<1>1. [Next]_vars /\ TypeInv /\ tick \in Nat
  BY WCNextIsNext, EngineAssumption DEF MetricsInv, TypeInv, TypeOK
<1>2. IF Execute /\ next = i
      THEN TicksOf(i)' = TicksOf(i) \cup {tick} /\ tick \notin TicksOf(i)
      ELSE TicksOf(i)' = TicksOf(i)
  BY <1>1, TicksOfStep
<1>3. IsFiniteSet(S) /\ SinceBoost(i) = Cardinality(S)
  <2>1. IsFiniteSet(TicksOf(i)) /\ S \in SUBSET TicksOf(i)
    BY <1>1, TicksOfFinite
  <2>2. IsFiniteSet(S)
    BY <2>1, FS_Subset
  <2> QED
    BY <2>2 DEF SinceBoost
<1>4. LastBoost \in Nat /\ LastBoost <= tick
  BY LastBoostIs
<1>5. ASSUME LoopTest \/ (\E j \in Procs : Admit(j)) \/ Execute \/ EndTick \/ UNCHANGED vars
      PROVE  LastBoost' = LastBoost
  BY <1>5, DecisionKept DEF LastBoost, IsBoost
<1>6. ASSUME Execute, next = i PROVE SinceBoost(i)' = SinceBoost(i) + 1
  <2>1. {t \in TicksOf(i) \cup {tick} : t >= LastBoost} = S \cup {tick} /\ tick \notin S
    BY <1>1, <1>2, <1>4, <1>6
  <2>2. SinceBoost(i)' = Cardinality(S \cup {tick})
    BY <1>2, <1>5, <1>6, <2>1 DEF SinceBoost
  <2> HIDE DEF S
  <2>3. Cardinality(S \cup {tick}) = Cardinality(S) + 1
    BY <1>3, <2>1, FS_AddElement
  <2> QED
    BY <1>3, <2>2, <2>3
<1>7. ASSUME NEW pid \in AllowedAnswers, Pick(pid)
      PROVE  SinceBoost(i)' = IF IsBoost(tick) THEN 0 ELSE SinceBoost(i)
  <2>1. TicksOf(i)' = TicksOf(i) /\ \A t \in TicksOf(i) : t \in Nat /\ t < tick
    BY <1>1, <1>2, <1>7 DEF Pick, Execute, TicksOf, Elapsed
  <2>2. LastBoost' = IF IsBoost(tick) THEN tick ELSE LastBoost
    BY <1>7, LastBoostMoves
  <2>3. CASE IsBoost(tick)
    <3>1. {t \in TicksOf(i) : t >= tick} = {}
      BY <1>1, <2>1
    <3>2. SinceBoost(i)' = Cardinality({t \in TicksOf(i) : t >= tick})
      BY <2>1, <2>2, <2>3 DEF SinceBoost
    <3> QED
      BY <2>3, <3>1, <3>2, FS_EmptySet
  <2>4. CASE ~ IsBoost(tick)
    BY <2>1, <2>2, <2>4 DEF SinceBoost
  <2> QED
    BY <2>3, <2>4
<1>8. ASSUME \/ Execute /\ next # i
             \/ LoopTest \/ (\E j \in Procs : Admit(j)) \/ EndTick \/ UNCHANGED vars
      PROVE  SinceBoost(i)' = SinceBoost(i)
  <2>1. LastBoost' = LastBoost
    BY <1>5, <1>8
  <2>2. TicksOf(i)' = TicksOf(i)
    <3>1. CASE Execute /\ next # i
      BY <1>2, <3>1
    <3>2. CASE LoopTest \/ (\E j \in Procs : Admit(j)) \/ EndTick
      BY <1>2, <3>2 DEF LoopTest, Admit, EndTick, Execute
    <3>3. CASE UNCHANGED vars
      BY <3>3 DEF vars, result, TicksOf, Elapsed
    <3> QED
      BY <1>8, <3>1, <3>2, <3>3
  <2> QED
    BY <2>1, <2>2 DEF SinceBoost
<1> QED
  BY <1>6, <1>7, <1>8

-----------------------------------------------------------------------------
\* The ticks i has executed since the last boost, the one that is about to be
\* taken off its slice apart.
Charged(i) == SinceBoost(i) - (IF phase = "tick_end" /\ i = mlfq.running THEN 1 ELSE 0)

Earned(s, i, e) == s.level_of[i] = LevelAfter(e) /\ RestIn(s, i) = RestAfter(e)

\* Level and slice are a function of them.
EarnedInv == \A i \in Alive : Earned(mlfq, i, Charged(i))

LEMMA ChargedIs ==
    ASSUME MlfqIInv, NEW i \in Alive
    PROVE  /\ Charged(i) \in Nat
           /\ i # mlfq.running => Charged(i) = SinceBoost(i)
           /\ phase # "tick_end" => Charged(i) = SinceBoost(i)
           /\ phase = "tick_end" /\ i = mlfq.running => SinceBoost(i) = Charged(i) + 1
<1>1. MetricsInv /\ i \in Procs /\ IDLE \notin Procs
  BY TableTypes DEF MlfqIInv, MetricsInv
<1>2. SinceBoost(i) \in Nat /\ (phase = "tick_end" /\ next = i => SinceBoost(i) > 0)
  BY <1>1, SinceBoostIs
<1>3. phase = "tick_end" /\ i = mlfq.running => next = i
  BY <1>1 DEF MlfqIInv, MlfqInv
<1> QED
  BY <1>2, <1>3 DEF Charged

LEMMA ChargedNext ==
    ASSUME NEW i
    PROVE  Charged(i)' = SinceBoost(i)' - (IF phase' = "tick_end" /\ i = mlfq'.running THEN 1 ELSE 0)
BY DEF Charged

LEMMA EarnedInvInit == MlfqInit => EarnedInv
<1>1. MlfqInit => MetricsInv /\ tick = 0 /\ phase = "test"
  BY MlfqInvInit DEF MlfqIInv, MlfqInit, Init
<1>2. MetricsInv /\ tick = 0 /\ phase = "test" => Alive = {}
  <2>1. MetricsInv => \A i \in Procs : trace[i].arrival \in Nat
    BY RowTypes DEF MetricsInv, TypeInv, TypeOK, Procs
  <2> QED
    BY <2>1 DEF Alive, Admitted
<1> QED
  BY <1>1, <1>2 DEF EarnedInv

LEMMA EarnedStep == MlfqIInv /\ EarnedInv /\ [MlfqNext]_MlfqVars => EarnedInv'
<1> SUFFICES ASSUME MlfqIInv, EarnedInv, [MlfqNext]_MlfqVars PROVE EarnedInv'
  OBVIOUS
<1>0. /\ [WCNext]_vars /\ Procs' = Procs /\ MetricsInv /\ TypeInv
      /\ Alive \subseteq Procs /\ IDLE \notin Procs /\ MlfqIInv'
  BY MlfqNextIsWCNext, MlfqInvStep, WCNextIsNext, TraceStep, TableTypes
     DEF Procs, MlfqIInv, MetricsInv
<1>1. /\ \A i \in Procs : Admit(i) => i \notin Alive /\ Alive' = Alive \cup {i}
      /\ Execute => /\ next \in Alive
                    /\ Alive' = IF remaining[next] = 1 THEN Alive \ {next} ELSE Alive
      /\ Execute \/ (\E i \in Procs : Admit(i)) \/ Alive' = Alive
  BY <1>0, AliveStep
<1>2. \A i \in Alive : /\ Charged(i) \in Nat
                       /\ i # mlfq.running => Charged(i) = SinceBoost(i)
                       /\ phase # "tick_end" => Charged(i) = SinceBoost(i)
                       /\ phase = "tick_end" /\ i = mlfq.running =>
                              SinceBoost(i) = Charged(i) + 1
  BY ChargedIs
<1>3. \A i \in Procs :
          Charged(i)' = SinceBoost(i)' - (IF phase' = "tick_end" /\ i = mlfq'.running THEN 1 ELSE 0)
  BY ChargedNext
<1>4. \A i \in Alive' : Earned(mlfq', i, Charged(i)') => Earned(mlfq, i, Charged(i))'
  BY DEF Earned, RestIn, LevelAfter, RestAfter, SpentAfter
<1>5. \A i \in Alive : /\ mlfq.level_of[i] = LevelAfter(Charged(i))
                       /\ RestIn(mlfq, i) = RestAfter(Charged(i))
  BY DEF EarnedInv, Earned
<1>6. SUFFICES ASSUME NEW i \in Alive' PROVE Earned(mlfq', i, Charged(i)')
  BY <1>4 DEF EarnedInv
<1>7. LevelAfter(0) = 0 /\ RestAfter(0) = LevelQuantum[0]
  BY SliceTakesTurns
<1>8. i \in Procs /\ i # IDLE
  BY <1>0, <1>1
<1>9. ASSUME NEW j \in Procs, Admit(j), mlfq_on_arrival(j)
      PROVE  Earned(mlfq', i, Charged(i)')
  <2>1. /\ Alive' = Alive \cup {j} /\ mlfq'.running = mlfq.running /\ j \notin Alive
        /\ StandingKept(mlfq, mlfq', Alive)
        /\ mlfq'.level_of[j] = 0 /\ RestIn(mlfq', j) = LevelQuantum[0]
    BY <1>9, ArrivalIs
  <2>2. SinceBoost(i)' = SinceBoost(i) /\ phase = "admit" /\ phase' = "admit"
    BY <1>0, <1>8, <1>9, SinceBoostStep DEF Admit
  <2>3. SinceBoost(i) \in Nat /\ (Admit(i) => SinceBoost(i) = 0)
    BY <1>0, <1>8, SinceBoostIs
  <2>4. Charged(i)' = SinceBoost(i)
    BY <1>3, <1>8, <2>2, <2>3
  <2>5. CASE i = j
    BY <1>7, <1>9, <2>1, <2>3, <2>4, <2>5 DEF Earned
  <2>6. CASE i # j
    BY <1>2, <1>5, <2>1, <2>2, <2>4, <2>6 DEF Earned, StandingKept
  <2> QED
    BY <2>5, <2>6
<1>10. ASSUME NEW pid \in Answers, mlfq_pick_next(pid), Pick(pid)
       PROVE  Earned(mlfq', i, Charged(i)')
  <2>1. /\ pid \in AllowedAnswers /\ mlfq'.running = pid
        /\ ~ IsBoost(tick) => StandingKept(mlfq, mlfq', Alive)
        /\ IsBoost(tick) => \A j \in Alive : /\ mlfq'.level_of[j] = 0
                                             /\ RestIn(mlfq', j) = LevelQuantum[0]
    BY <1>10, MlfqAnswers DEF Pick
  <2>2. /\ phase = "admit" /\ (phase' = "tick_end" => pid = IDLE) /\ Alive' = Alive
    BY <1>1, <1>10 DEF Pick, Admit, Execute
  <2>3. /\ SinceBoost(i)' = IF IsBoost(tick) THEN 0 ELSE SinceBoost(i)
        /\ SinceBoost(i) \in Nat
    BY <1>0, <1>8, <1>10, <2>1, SinceBoostStep, SinceBoostIs
  <2>4. Charged(i)' = SinceBoost(i)'
    BY <1>3, <1>8, <2>1, <2>2, <2>3
  <2>5. CASE IsBoost(tick)
    BY <1>7, <2>1, <2>2, <2>3, <2>4, <2>5 DEF Earned
  <2>6. CASE ~ IsBoost(tick)
    BY <1>2, <1>5, <2>1, <2>2, <2>3, <2>4, <2>6 DEF Earned, StandingKept
  <2> QED
    BY <2>5, <2>6
<1>11. ASSUME Execute, IF Finishing THEN mlfq_on_complete ELSE UNCHANGED mlfq
       PROVE  Earned(mlfq', i, Charged(i)')
  <2>1. /\ phase = "execute" /\ phase' = "tick_end" /\ mlfq.running = next
        /\ next \in Alive /\ mlfq \in MlfqStates
    BY <1>1, <1>11 DEF Execute, MlfqIInv, MlfqInv, InPlace, RingsHold
  <2>2. /\ next = i => SinceBoost(i)' = SinceBoost(i) + 1
        /\ next # i => SinceBoost(i)' = SinceBoost(i)
        /\ SinceBoost(i) \in Nat
    BY <1>0, <1>8, <1>11, SinceBoostStep, SinceBoostIs
  <2>3. CASE Finishing
    <3>1. /\ mlfq' = [mlfq EXCEPT !.running = IDLE, !.level = NO_LEVEL, !.left = 0]
          /\ Alive' = Alive \ {next}
      BY <1>1, <1>11, <2>3 DEF mlfq_on_complete, Finishing
    <3>2. /\ mlfq'.running = IDLE /\ mlfq'.queue = mlfq.queue /\ mlfq'.saved = mlfq.saved
          /\ mlfq'.level_of = mlfq.level_of
      BY <2>1, <3>1 DEF MlfqStates
    <3>3. i # next /\ i \in Alive
      BY <3>1
    <3>4. Charged(i)' = Charged(i)
      BY <1>2, <1>3, <1>8, <2>1, <2>2, <3>2, <3>3
    <3>5. RestIn(mlfq', i) = RestIn(mlfq, i)
      BY <1>8, <2>1, <3>2, <3>3 DEF RestIn
    <3> QED
      BY <1>5, <3>2, <3>3, <3>4, <3>5 DEF Earned
  <2>4. CASE ~ Finishing
    <3>1. mlfq' = mlfq /\ i \in Alive
      BY <1>1, <1>11, <2>4 DEF Finishing
    <3>2. Charged(i)' = Charged(i)
      BY <1>2, <1>3, <1>8, <2>1, <2>2, <3>1
    <3> QED
      BY <1>5, <3>1, <3>2 DEF Earned
  <2> QED
    BY <2>3, <2>4
<1>12. ASSUME EndTick, mlfq_on_tick_end PROVE Earned(mlfq', i, Charged(i)')
  <2>1. phase = "tick_end" /\ phase' = "test" /\ Alive' = Alive
    BY <1>1, <1>12 DEF EndTick, Admit, Execute
  <2>2. SinceBoost(i)' = SinceBoost(i) /\ SinceBoost(i) \in Nat
    BY <1>0, <1>8, <1>12, SinceBoostStep, SinceBoostIs
  <2>3. Charged(i)' = SinceBoost(i)
    BY <1>3, <1>8, <2>1, <2>2
  <2>4. CASE mlfq.running = IDLE
    <3>1. mlfq' = mlfq
      BY <1>12, <2>4 DEF mlfq_on_tick_end
    <3> QED
      BY <1>2, <1>5, <1>8, <2>1, <2>3, <2>4, <3>1 DEF Earned
  <2>5. CASE mlfq.running # IDLE /\ i # mlfq.running
    <3>1. StandingKept(mlfq, mlfq', Alive \ {mlfq.running})
      BY <1>12, <2>5, TickEndIs
    <3> QED
      BY <1>2, <1>5, <2>1, <2>3, <2>5, <3>1 DEF Earned, StandingKept
  <2>6. CASE mlfq.running # IDLE /\ i = mlfq.running
    <3>1. /\ mlfq.level = mlfq.level_of[i] /\ mlfq.left \in Nat /\ mlfq.left > 0
          /\ mlfq.left > 1 => /\ mlfq'.level_of[i] = mlfq.level
                              /\ RestIn(mlfq', i) = mlfq.left - 1
          /\ mlfq.left = 1 => /\ mlfq'.level_of[i] = Below(mlfq.level)
                              /\ RestIn(mlfq', i) = LevelQuantum[Below(mlfq.level)]
      BY <1>12, <2>6, TickEndIs
    <3> DEFINE e == Charged(i)
    <3>2. e \in Nat /\ Charged(i)' = e + 1
      BY <1>2, <2>1, <2>3, <2>6
    <3>3. mlfq.level = LevelAfter(e) /\ mlfq.left = RestAfter(e)
      BY <1>5, <2>1, <2>6, <3>1 DEF RestIn
    <3> HIDE DEF e
    <3>4. /\ RestAfter(e) > 1 => /\ LevelAfter(e + 1) = LevelAfter(e)
                                 /\ RestAfter(e + 1) = RestAfter(e) - 1
          /\ RestAfter(e) = 1 => /\ LevelAfter(e + 1) = Below(LevelAfter(e))
                                 /\ RestAfter(e + 1) = LevelQuantum[Below(LevelAfter(e))]
      BY <3>2, SliceTakesTurns
    <3>5. mlfq.left > 1 \/ mlfq.left = 1
      BY <3>1
    <3> QED
      BY <3>1, <3>2, <3>3, <3>4, <3>5 DEF Earned
  <2> QED
    BY <2>4, <2>5, <2>6
<1>13. CASE \/ (LoopTest \/ Halt) /\ UNCHANGED mlfq
            \/ UNCHANGED MlfqVars
  <2>1. /\ mlfq' = mlfq
        /\ \/ phase' # "tick_end" /\ phase # "tick_end"
           \/ phase' = phase
        /\ LoopTest \/ UNCHANGED vars
    BY <1>13 DEF LoopTest, Halt, vars, MlfqVars
  <2>2. i \in Alive
    <3>1. CASE LoopTest
      BY <1>1, <3>1 DEF LoopTest, Admit, Execute
    <3>2. CASE UNCHANGED vars
      BY <3>2 DEF vars, table, Alive, Admitted, Procs
    <3> QED
      BY <2>1, <3>1, <3>2
  <2>3. SinceBoost(i)' = SinceBoost(i) /\ SinceBoost(i) \in Nat
    BY <1>0, <1>8, <2>1, SinceBoostStep, SinceBoostIs
  <2>4. Charged(i)' = Charged(i)
    BY <1>3, <1>8, <2>1, <2>3 DEF Charged
  <2> QED
    BY <1>5, <2>1, <2>2, <2>4 DEF Earned
<1> QED
  BY <1>9, <1>10, <1>11, <1>12, <1>13 DEF MlfqNext

\* The invariant, said of the rings and of the process on the CPU.
LEMMA EarnedInRings == MlfqIInv /\ EarnedInv => LevelIsEarned
<1> SUFFICES ASSUME MlfqIInv, EarnedInv PROVE LevelIsEarned
  OBVIOUS
<1>1. /\ TypeInv /\ Alive \subseteq Procs /\ IDLE \notin Procs
      /\ RingsHold(mlfq, Alive) /\ RunsWithRest(mlfq, Alive) /\ SavedOk(mlfq)
      /\ mlfq \in MlfqStates
  BY TableTypes DEF MlfqIInv, MlfqInv, MetricsInv, InPlace, RingsHold
<1>2. ASSUME NEW i \in Alive
      PROVE  /\ mlfq.level_of[i] = LevelAfter(Charged(i))
             /\ RestIn(mlfq, i) = LevelQuantum[mlfq.level_of[i]] - SpentAfter(Charged(i))
  BY <1>2 DEF EarnedInv, Earned, RestAfter
<1>3. ASSUME NEW lv \in Levels, NEW k \in DOMAIN Queued(lv)
      PROVE  LET e == SinceBoost(Queued(lv)[k])
                 saved == IF k = 1 THEN mlfq.saved[lv] ELSE 0
             IN  /\ lv = LevelAfter(e)
                 /\ mlfq.level_of[Queued(lv)[k]] = lv
                 /\ SpentAfter(e) = IF saved > 0 THEN LevelQuantum[lv] - saved ELSE 0
  <2> DEFINE q == Queued(lv)
             i == q[k]
             e == SinceBoost(i)
  <2>1. q = Contents(mlfq.queue[lv])
    BY DEF Queued
  <2>2. /\ i \in Alive /\ i # mlfq.running /\ mlfq.level_of[i] = lv
        /\ q # <<>> => Head(q) = q[1] /\ 1 \in DOMAIN q
        /\ Holds(q, At(mlfq, Alive, lv), IDLE) /\ mlfq.saved \in [Levels -> Nat]
        /\ DOMAIN q = 1..Len(q)
    <3> HIDE DEF q
    <3> DEFINE s == mlfq
               A == Alive
    <3>0. TypeInv /\ A \subseteq Procs /\ RingsHold(s, A) /\ q = Contents(s.queue[lv])
      BY <1>1, <2>1
    <3>1. /\ Holds(q, At(mlfq, Alive, lv), IDLE) /\ mlfq.saved \in [Levels -> Nat]
          /\ DOMAIN q = 1..Len(q)
          /\ q # <<>> => Head(q) = q[1] /\ 1 \in DOMAIN q
          /\ \A n \in DOMAIN q : /\ q[n] \in Alive /\ q[n] # mlfq.running
                                 /\ mlfq.level_of[q[n]] = lv
      <4> HIDE DEF s, A
      <4>1. /\ Holds(q, At(s, A, lv), IDLE) /\ s.saved \in [Levels -> Nat]
            /\ DOMAIN q = 1..Len(q)
            /\ q # <<>> => Head(q) = q[1] /\ 1 \in DOMAIN q
        BY <3>0, RingFacts
      <4>2. \A n \in DOMAIN q : q[n] \in A /\ q[n] # s.running /\ s.level_of[q[n]] = lv
        BY <4>1 DEF Holds, At
      <4> QED
        BY <4>1, <4>2 DEF s, A
    <3>2. k \in DOMAIN q
      BY <1>3 DEF q
    <3> QED
      BY <3>1, <3>2
  <2>3. Charged(i) = SinceBoost(i) /\ e \in Nat
    BY <2>2, ChargedIs
  <2>4. lv = LevelAfter(e) /\ RestIn(mlfq, i) = LevelQuantum[lv] - SpentAfter(e)
    BY <1>2, <2>2, <2>3
  <2>5. i = Head(q) <=> k = 1
    <3>1. Head(q) = q[1] /\ 1 \in DOMAIN q
      BY <1>3, <2>2
    <3> QED
      BY <1>3, <2>2, <3>1 DEF Holds
  <2>6. RestIn(mlfq, i) = IF mlfq.saved[lv] > 0 /\ k = 1 THEN mlfq.saved[lv] ELSE LevelQuantum[lv]
    BY <2>1, <2>2, <2>5 DEF RestIn
  <2>7. LevelQuantum[lv] \in Nat /\ SpentAfter(e) \in Int /\ mlfq.saved[lv] \in Nat
    <3>1. SpentAfter(e) \in Int
      <4>1. LevelQuantum[0] \in Nat /\ LevelQuantum[1] \in Nat /\ LevelQuantum[2] \in Nat \ {0}
        BY MlfqAssumption DEF Levels
      <4>2. PICK a \in Nat, b \in Nat, c \in Nat \ {0} :
                LevelQuantum[0] = a /\ LevelQuantum[1] = b /\ LevelQuantum[2] = c
        BY <4>1
      <4>3. (e - a - b) % c \in Int
        BY <2>3
      <4> QED
        BY <2>3, <4>2, <4>3 DEF SpentAfter, LevelAfter
    <3> QED
      BY <2>2, <3>1, QuantaArePositive
  <2> HIDE DEF e, i, q
  <2>8. SpentAfter(e) = LevelQuantum[lv] - RestIn(mlfq, i)
    BY <2>4, <2>6, <2>7
  <2>9. SpentAfter(e) = IF (IF k = 1 THEN mlfq.saved[lv] ELSE 0) > 0
                        THEN LevelQuantum[lv] - (IF k = 1 THEN mlfq.saved[lv] ELSE 0) ELSE 0
    <3>1. PICK m \in Nat, z \in Nat : mlfq.saved[lv] = m /\ LevelQuantum[lv] = z
      BY <2>7
    <3>2. CASE k = 1 /\ m > 0
      BY <2>6, <2>8, <3>1, <3>2
    <3>3. CASE k = 1 /\ ~ (m > 0)
      BY <2>6, <2>8, <3>1, <3>3
    <3>4. CASE k # 1
      BY <2>6, <2>8, <3>1, <3>4
    <3> QED
      BY <3>2, <3>3, <3>4
  <2> QED
    BY <2>2, <2>4, <2>9 DEF e, i, q
<1>4. ASSUME mlfq.running # IDLE
      PROVE  LET e == SinceBoost(mlfq.running) - (IF phase = "tick_end" THEN 1 ELSE 0)
             IN  /\ mlfq.level = LevelAfter(e)
                 /\ mlfq.left = LevelQuantum[mlfq.level] - SpentAfter(e)
  <2>1. mlfq.running \in Alive /\ mlfq.level = mlfq.level_of[mlfq.running]
    BY <1>1, <1>4 DEF RunsWithRest
  <2>2. RestIn(mlfq, mlfq.running) = mlfq.left
    BY DEF RestIn
  <2> QED
    BY <1>2, <2>1, <2>2 DEF Charged
<1> QED
  BY <1>3, <1>4 DEF LevelIsEarned

THEOREM EarnedInvAlways == MlfqSpec => [](MlfqIInv /\ EarnedInv)
<1>1. MlfqInit => EarnedInv
  BY EarnedInvInit
<1> QED
  BY <1>1, EarnedStep, MlfqIInvAlways, PTL DEF MlfqSpec

\* mlfq.c: what a process executed since the last boost alone decides its
\* level and the rest of its slice, through any sequence of displacements,
\* arrivals, completions and idle ticks.
THEOREM LevelIsEarnedCorrect == MlfqSpec => []LevelIsEarned
BY EarnedInRings, EarnedInvAlways, PTL

-----------------------------------------------------------------------------
\* The last boost before the end of tick t, and the ticks x was given between
\* it and t.
BoostBefore(t) == Max({0} \cup {u \in Decided : u <= t /\ IsBoost(u)})
RunsBetween(x, from, t) == {u \in Decided : from <= u /\ u < t /\ timeline[u] = x}

LEMMA LevelAtIs ==
    ASSUME NEW i, NEW t
    PROVE  LevelAt(i, t) = LevelAfter(Cardinality(RunsBetween(i, BoostBefore(t), t)))
BY DEF LevelAt, BoostBefore, RunsBetween

LEMMA DecidedNow ==
    ASSUME MetricsInv, NEW pid \in AllowedAnswers, Pick(pid)
    PROVE  /\ Decided' = Decided \cup {tick} /\ tick \notin Decided
           /\ \A u \in Decided : timeline'[u] = timeline[u]
           /\ \A u \in Decided : u \in Nat /\ u < tick
           /\ tick \in Nat /\ tick' = tick /\ Decided = 0..(tick - 1) /\ phase = "admit"
<1>1. tick \in Nat /\ tick' = tick /\ phase = "admit"
  BY EngineAssumption DEF MetricsInv, TypeInv, TypeOK, Pick
<1>2. Decided = 0..(tick - 1)
  BY <1>1 DEF Decided
<1> QED
  BY <1>1, <1>2, DecisionMade

\* A decision changes nothing in the levels read off at earlier ticks, and at
\* its own tick they are those of the state.
LEMMA LevelsSoFar ==
    ASSUME MetricsInv, NEW pid \in AllowedAnswers, Pick(pid), NEW i \in Procs, NEW t \in Decided
    PROVE  LevelAt(i, t)' = LevelAt(i, t)
<1>1. /\ Decided' = Decided \cup {tick} /\ \A u \in Decided : timeline'[u] = timeline[u]
      /\ tick \in Nat /\ \A u \in Decided : u \in Nat /\ u < tick
  BY DecidedNow
<1>2. {u \in Decided \cup {tick} : u <= t /\ IsBoost(u)} = {u \in Decided : u <= t /\ IsBoost(u)}
  BY <1>1
<1>3. ASSUME NEW from
      PROVE  {u \in Decided \cup {tick} : from <= u /\ u < t /\ timeline'[u] = i}
                 = {u \in Decided : from <= u /\ u < t /\ timeline[u] = i}
  BY <1>1
<1> QED
  BY <1>1, <1>2, <1>3 DEF LevelAt, IsBoost, LevelAfter

LEMMA LevelNow ==
    ASSUME MetricsInv, NEW pid \in AllowedAnswers, Pick(pid), NEW i \in Procs
    PROVE  LevelAt(i, tick)' = LevelAfter(SinceBoost(i)')
<1>1. /\ Decided' = Decided \cup {tick} /\ tick \notin Decided
      /\ \A u \in Decided : timeline'[u] = timeline[u]
      /\ tick \in Nat /\ tick' = tick /\ Decided = 0..(tick - 1) /\ phase = "admit"
  BY DecidedNow
<1>2. {u \in Decided \cup {tick} : u <= tick /\ IsBoost(u)}
          = {u \in Decided \cup {tick} : IsBoost(u)}
  BY <1>1
<1>3. LastBoost' = Max({0} \cup {u \in Decided \cup {tick} : u <= tick /\ IsBoost(u)})
  BY <1>1, <1>2 DEF LastBoost, IsBoost
<1>4. TicksOf(i)' = {u \in Decided : timeline[u] = i}
  <2>1. TicksOf(i)' = TicksOf(i)
    BY WCNextIsNext, TicksOfStep DEF MetricsInv, WCNext, Pick, Execute
  <2>2. Elapsed = Decided
    BY <1>1 DEF Elapsed
  <2> QED
    BY <2>1, <2>2 DEF TicksOf
<1>5. {u \in Decided \cup {tick} : LastBoost' <= u /\ u < tick /\ timeline'[u] = i}
          = {u \in TicksOf(i)' : u >= LastBoost'}
  <2>1. LastBoost' \in Int
    BY <1>1, LastBoostMoves, LastBoostIs
  <2> QED
    BY <1>1, <1>4, <2>1
<1>6. LevelAt(i, tick)'
          = LevelAfter(Cardinality({u \in Decided \cup {tick} :
                LastBoost' <= u /\ u < tick /\ timeline'[u] = i}))
  BY <1>1, <1>3 DEF LevelAt, IsBoost, LevelAfter
<1> QED
  BY <1>5, <1>6 DEF SinceBoost

\* A tick that someone wants goes to a process.
SomeoneRuns == \A t \in Decided : \A i \in Procs : t \in Wanting(i) => timeline[t] \in Procs

LEMMA HigherFirstStep ==
    /\ MlfqIInv /\ EarnedInv /\ HigherLevelsFirst /\ SomeoneRuns
    /\ [MlfqNext]_MlfqVars
    => HigherLevelsFirst' /\ SomeoneRuns'
<1> SUFFICES ASSUME MlfqIInv, EarnedInv, HigherLevelsFirst, SomeoneRuns, [MlfqNext]_MlfqVars
             PROVE  HigherLevelsFirst' /\ SomeoneRuns'
  OBVIOUS
<1>1. /\ [WCNext]_vars /\ trace' = trace /\ Procs' = Procs /\ MetricsInv /\ EarnedInv'
      /\ IDLE \notin Procs /\ Alive \subseteq Procs
  BY MlfqNextIsWCNext, WCNextIsNext, TraceStep, EarnedStep, TableTypes
     DEF Procs, MlfqIInv, MetricsInv
<1>2. ASSUME NEW pid \in Answers, mlfq_pick_next(pid), Pick(pid)
      PROVE  HigherLevelsFirst' /\ SomeoneRuns'
  <2>1. /\ pid \in AllowedAnswers /\ mlfq'.running = pid
        /\ pid # IDLE => \A j \in Alive : mlfq'.level_of[pid] <= mlfq'.level_of[j]
    BY <1>2, MlfqAnswers DEF Pick
  <2>2. /\ Decided' = Decided \cup {tick}
        /\ timeline'[tick] = pid /\ \A u \in Decided : timeline'[u] = timeline[u]
        /\ tick \notin Decided /\ Alive = Ready
        /\ \A i \in Procs : Wanting(i)' = Wanting(i) \cup {t \in {tick} : i \in Alive}
    BY <1>1, <1>2, <2>1, DecisionMade
  <2>3. \A i \in Procs : Wanting(i) \subseteq Decided
    BY DEF Wanting
  <2>4. Alive' = Alive /\ (phase' = "tick_end" => pid = IDLE)
    <3>1. Alive' = Alive
      BY <1>1, <1>2, AliveStep DEF Pick, Admit, Execute
    <3> QED
      BY <1>2, <3>1 DEF Pick
  <2>5. ASSUME NEW j \in Alive PROVE LevelAt(j, tick)' = mlfq'.level_of[j]
    <3>1. j \in Procs /\ j \in Alive'
      BY <1>1, <2>4
    <3>2. LevelAt(j, tick)' = LevelAfter(SinceBoost(j)')
      BY <1>1, <1>2, <2>1, <3>1, LevelNow
    <3>3. mlfq'.level_of[j] = LevelAfter(Charged(j)')
      BY <1>1, <3>1 DEF EarnedInv, Earned, LevelAfter
    <3>4. SinceBoost(j)' \in Int
      BY <1>1, <1>2, <2>1, <3>1, SinceBoostStep, SinceBoostIs
    <3>5. Charged(j)' = SinceBoost(j)'
      BY <1>1, <2>1, <2>4, <3>1, <3>4, ChargedNext
    <3> QED
      BY <3>2, <3>3, <3>5
  <2>6. ASSUME NEW t \in Decided', NEW i \in Procs, NEW j \in Procs,
               timeline'[t] = i, t \in Wanting(j)'
        PROVE  LevelAt(i, t)' <= LevelAt(j, t)'
    <3>1. CASE t = tick
      <4>1. j \in Alive /\ i = pid /\ i # IDLE /\ i \in Alive
        BY <1>1, <2>1, <2>2, <2>3, <2>6, <3>1 DEF AllowedAnswers
      <4>2. /\ LevelAt(i, t)' = mlfq'.level_of[i]
            /\ LevelAt(j, t)' = mlfq'.level_of[j]
        <5>1. tick' = tick
          BY <1>2 DEF Pick
        <5> QED
          BY <2>5, <3>1, <4>1, <5>1 DEF LevelAt, IsBoost, LevelAfter
      <4> QED
        BY <2>1, <4>1, <4>2
    <3>2. CASE t # tick
      <4>1. t \in Decided /\ timeline[t] = i /\ t \in Wanting(j)
        BY <2>2, <2>6, <3>2
      <4>2. LevelAt(i, t)' = LevelAt(i, t) /\ LevelAt(j, t)' = LevelAt(j, t)
        BY <1>1, <1>2, <2>1, <4>1, LevelsSoFar
      <4> QED
        BY <4>1, <4>2 DEF HigherLevelsFirst
    <3> QED
      BY <3>1, <3>2
  <2>7. ASSUME NEW t \in Decided', NEW i \in Procs, t \in Wanting(i)' PROVE timeline'[t] \in Procs
    <3>1. CASE t = tick
      BY <1>1, <2>1, <2>2, <2>3, <2>7, <3>1 DEF AllowedAnswers
    <3>2. CASE t # tick
      BY <2>2, <2>7, <3>2 DEF SomeoneRuns
    <3> QED
      BY <3>1, <3>2
  <2> QED
    BY <1>1, <2>6, <2>7 DEF HigherLevelsFirst, SomeoneRuns
<1>3. CASE LoopTest \/ (\E i \in Procs : Admit(i)) \/ Execute \/ EndTick \/ UNCHANGED vars
  <2>1. timeline' = timeline /\ Decided' = Decided /\ \A i \in Procs : Wanting(i)' = Wanting(i)
    BY <1>1, <1>3, DecisionKept
  <2>2. \A i \in Procs : \A t \in Decided : LevelAt(i, t)' = LevelAt(i, t)
    BY <2>1 DEF LevelAt, IsBoost, LevelAfter
  <2> QED
    BY <1>1, <2>1, <2>2 DEF HigherLevelsFirst, SomeoneRuns
<1> QED
  BY <1>2, <1>3 DEF MlfqNext, MlfqVars, Halt

THEOREM HigherFirstAlways ==
    MlfqSpec => [](MlfqIInv /\ EarnedInv /\ HigherLevelsFirst /\ SomeoneRuns)
<1>1. MlfqInit => HigherLevelsFirst /\ SomeoneRuns
  <2>1. Init => Decided = {}
    BY DEF Init, Decided
  <2> QED
    BY <2>1 DEF MlfqInit, HigherLevelsFirst, SomeoneRuns
<1> QED
  BY <1>1, HigherFirstStep, EarnedInvAlways, PTL DEF MlfqSpec

\* mlfq.c: at every tick of every run the highest level that wants the CPU has
\* it, and the level of everyone then can be read off the timeline.
THEOREM HigherLevelsFirstCorrect == MlfqSpec => []HigherLevelsFirst
BY HigherFirstAlways, PTL

-----------------------------------------------------------------------------
LEMMA Division ==
    ASSUME NEW n \in Nat, NEW q \in Nat \ {0}
    PROVE  \E d \in Nat : n = q * d + (n % q)
<1> DEFINE d == n \div q
           r == n % q
<1>1. d \in Nat /\ r \in 0..(q - 1) /\ n = q * d + r
  OBVIOUS
<1> HIDE DEF d
<1> QED
  BY <1>1

\* A multiple and less than the modulus.
LEMMA MultipleAndMore ==
    ASSUME NEW n \in Nat, NEW q \in Nat \ {0}, n % q = 0, NEW r \in 1..(q - 1)
    PROVE  (n + r) % q = r
<1>1. PICK d \in Nat : n = q * d
  <2>1. PICK d \in Nat : n = q * d + (n % q)
    BY Division
  <2> QED
    BY <2>1
<1>2. n + r = q * d + r /\ r \in 0..(q - 1)
  BY <1>1
<1> QED
  BY <1>1, <1>2

\* Between a boost and the next one there is none.
LEMMA NoBoostBetween ==
    ASSUME NEW t \in Nat, NEW u \in Nat, IsBoost(t), t < u, u < t + BoostInterval
    PROVE  ~ IsBoost(u)
<1>1. PICK b \in Nat \ {0} : BoostInterval = b
  BY MlfqAssumption
<1>2. PICK r \in 1..(b - 1) : u = t + r
  <2>1. u - t \in 1..(b - 1) /\ u = t + (u - t)
    BY <1>1
  <2> QED
    BY <2>1
<1>3. t % b = 0
  BY <1>1 DEF IsBoost
<1>4. u % b = r
  BY <1>2, <1>3, MultipleAndMore
<1> QED
  BY <1>1, <1>2, <1>4 DEF IsBoost

LEMMA BoostBeforeIs ==
    ASSUME MetricsInv, NEW t \in Decided, IsBoost(t),
           NEW u \in Nat, t <= u, u < t + BoostInterval
    PROVE  BoostBefore(u) = t
<1> DEFINE S == {0} \cup {v \in Decided : v <= u /\ IsBoost(v)}
<1>1. Decided \subseteq Nat /\ t \in Nat
  BY EngineAssumption DEF Decided, MetricsInv, TypeInv, TypeOK
<1>2. t \in S /\ S \subseteq Int
  <2>1. \A y \in S : y \in Nat
    BY <1>1
  <2>2. t \in S
    BY <1>1
  <2> HIDE DEF S
  <2> QED
    BY <2>1, <2>2
<1>3. \A v \in Nat : t < v /\ v <= u => ~ IsBoost(v)
  <2>1. BoostInterval \in Nat
    BY MlfqAssumption
  <2> QED
    BY <1>1, <2>1, NoBoostBetween
<1>4. \A y \in S : y <= t
  BY <1>1, <1>3
<1> HIDE DEF S
<1>5. Max(S) = t
  BY <1>2, <1>4, GreatestIsThis
<1> QED
  BY <1>5 DEF BoostBefore, S

\* A process that is at the top is still in its first slice.
LEMMA AtTheTop ==
    ASSUME NEW e \in Nat, NEW lv \in Int, lv = 0, LevelAfter(e) <= lv
    PROVE  e < LevelQuantum[0]
<1>1. LevelQuantum[0] \in Nat
  BY MlfqAssumption DEF Levels
<1> QED
  BY <1>1 DEF LevelAfter

\* Each tick of W goes to one of n, as one of q ticks that are told apart.
Shares(W, n, q, who, nth) ==
    /\ who \in [W -> 1..n] /\ nth \in [W -> 0..(q - 1)]
    /\ \A u, w \in W : who[u] = who[w] /\ nth[u] = nth[w] => u = w

\* Then n - 1 of them have not enough for all of it.
LEMMA WindowIsNotFull ==
    ASSUME NEW n \in Nat, NEW q \in Nat \ {0}, NEW i \in 1..n, NEW W, IsFiniteSet(W),
           n * q <= Cardinality(W), NEW who, NEW nth, Shares(W, n, q, who, nth)
    PROVE  \E u \in W : who[u] = i
<1> SUFFICES ASSUME \A u \in W : who[u] # i PROVE FALSE
  OBVIOUS
<1> USE DEF Shares
<1> DEFINE T == ((1..n) \ {i}) \X (0..(q - 1))
           f == [u \in W |-> <<who[u], nth[u]>>]
<1>1. IsFiniteSet((1..n) \ {i}) /\ Cardinality((1..n) \ {i}) = n - 1
  <2> DEFINE S == 1..n
  <2>1. IsFiniteSet(S) /\ Cardinality(S) = n /\ i \in S
    BY FS_Interval
  <2> HIDE DEF S
  <2>2. IsFiniteSet(S \ {i}) /\ Cardinality(S \ {i}) = n - 1
    BY <2>1, FS_RemoveElement
  <2> QED
    BY <2>2 DEF S
<1>2. IsFiniteSet(0..(q - 1)) /\ Cardinality(0..(q - 1)) = q
  <2>1. /\ IsFiniteSet(0..(q - 1))
        /\ Cardinality(0..(q - 1)) = IF 0 > q - 1 THEN 0 ELSE (q - 1) - 0 + 1
    BY FS_Interval
  <2> QED
    BY <2>1
<1>3. IsFiniteSet(T) /\ Cardinality(T) = (n - 1) * q
  <2> DEFINE others == (1..n) \ {i}
             turns == 0..(q - 1)
  <2>1. /\ IsFiniteSet(others) /\ IsFiniteSet(turns)
        /\ Cardinality(others) = n - 1 /\ Cardinality(turns) = q
    BY <1>1, <1>2
  <2>2. T = others \X turns
    OBVIOUS
  <2> HIDE DEF others, turns, T
  <2>3. /\ IsFiniteSet(others \X turns)
        /\ Cardinality(others \X turns) = Cardinality(others) * Cardinality(turns)
    BY <2>1, FS_Product
  <2> QED
    BY <2>1, <2>2, <2>3
<1>4. (n - 1) * q = n * q - q
  OBVIOUS
<1>5. Cardinality(T) < Cardinality(W)
  <2>1. n * q \in Int /\ Cardinality(W) \in Int
    BY FS_CardinalityType
  <2> QED
    BY <1>3, <1>4, <2>1
<1>6. f \in [W -> T]
  OBVIOUS
<1> HIDE DEF T
<1>7. PICK u \in W, w \in W : u # w /\ f[u] = f[w]
  <2> HIDE DEF f
  <2> QED
    BY <1>3, <1>5, <1>6, FS_PigeonHole
<1> QED
  BY <1>7

LEMMA BoostFeeds ==
    ASSUME MetricsInv, HigherLevelsFirst, SomeoneRuns
    PROVE  BoostFeedsEveryone
<1> SUFFICES ASSUME NEW i \in Procs, NEW t \in Decided, IsBoost(t),
                    Len(trace) * LevelQuantum[0] <= BoostInterval,
                    t..(t + BoostInterval - 1) \subseteq Wanting(i)
             PROVE  \E u \in t..(t + BoostInterval - 1) : timeline[u] = i
  BY DEF BoostFeedsEveryone
<1> DEFINE q == LevelQuantum[0]
           b == BoostInterval
           n == Len(trace)
           W == t..(t + b - 1)
           C(x, u) == RunsBetween(x, t, u)
<1>1. /\ q \in Nat \ {0} /\ b \in Nat \ {0} /\ n \in Nat /\ Procs = 1..n /\ t \in Nat
      /\ Decided \subseteq Nat
  <2>1. Decided \subseteq Nat
    BY EngineAssumption DEF Decided, MetricsInv, TypeInv, TypeOK
  <2> QED
    BY <2>1, MlfqAssumption, TableTypes DEF Levels, MetricsInv
<1>2. W \subseteq Decided /\ W \subseteq Wanting(i)
  BY DEF Wanting
<1>3. SUFFICES ASSUME \A u \in W : timeline[u] # i PROVE FALSE
  OBVIOUS
<1>4. ASSUME NEW u \in W PROVE BoostBefore(u) = t
  <2>1. u \in Nat /\ t <= u /\ u < t + b
    BY <1>1, <1>4
  <2> QED
    BY <2>1, BoostBeforeIs
<1>5. ASSUME NEW u \in W, NEW x \in Procs
      PROVE  IsFiniteSet(C(x, u)) /\ Cardinality(C(x, u)) \in Nat /\ u \in Nat /\ u \notin C(x, u)
  <2>1. u \in Nat
    BY <1>1, <1>5
  <2>2. C(x, u) \in SUBSET (0..u)
    <3>1. \A v \in C(x, u) : v \in Decided /\ v < u
      BY DEF RunsBetween
    <3>2. \A v \in Nat : v < u => v \in 0..u
      BY <2>1
    <3> HIDE DEF C
    <3> QED
      BY <1>1, <3>1, <3>2
  <2>3. IsFiniteSet(0..u)
    BY <2>1, FS_Interval
  <2>4. IsFiniteSet(C(x, u))
    BY <2>2, <2>3, FS_Subset
  <2>5. Cardinality(C(x, u)) \in Nat
    BY <2>4, FS_CardinalityType
  <2> QED
    BY <2>1, <2>4, <2>5 DEF RunsBetween
<1>6. ASSUME NEW u \in W
      PROVE  timeline[u] \in 1..n /\ Cardinality(C(timeline[u], u)) \in 0..(q - 1)
  <2>1. u \in Wanting(i) /\ u \in Decided
    BY <1>2
  <2>2. timeline[u] \in Procs
    BY <2>1 DEF SomeoneRuns
  <2>3. LevelAt(i, u) = 0
    <3>1. \A v \in C(i, u) : v \in W
      BY <1>1, <1>5, <1>6 DEF RunsBetween
    <3>2. C(i, u) = {}
      BY <1>3, <3>1 DEF RunsBetween
    <3>3. LevelAt(i, u) = LevelAfter(Cardinality(C(i, u)))
      BY <1>4, LevelAtIs
    <3> QED
      BY <3>2, <3>3, FS_EmptySet, SliceTakesTurns
  <2>4. LevelAt(timeline[u], u) <= LevelAt(i, u)
    BY <2>1, <2>2 DEF HigherLevelsFirst
  <2>5. LevelAt(timeline[u], u) = LevelAfter(Cardinality(C(timeline[u], u)))
    BY <1>4, LevelAtIs
  <2>6. Cardinality(C(timeline[u], u)) \in Nat
    BY <1>5, <2>2
  <2> HIDE DEF C
  <2>7. Cardinality(C(timeline[u], u)) < q
    BY <2>3, <2>4, <2>5, <2>6, AtTheTop
  <2> QED
    BY <1>1, <2>2, <2>6, <2>7
<1>7. ASSUME NEW u \in W, NEW w \in W, timeline[u] = timeline[w], u < w
      PROVE  Cardinality(C(timeline[u], u)) < Cardinality(C(timeline[w], w))
  <2> DEFINE x == timeline[u]
  <2>1. /\ IsFiniteSet(C(x, u)) /\ IsFiniteSet(C(x, w)) /\ u \notin C(x, u)
        /\ Cardinality(C(x, u)) \in Nat /\ Cardinality(C(x, w)) \in Nat
        /\ u \in Nat /\ w \in Nat
    BY <1>1, <1>5, <1>6
  <2>2. C(x, u) \cup {u} \in SUBSET C(x, w)
    <3>1. \A v \in C(x, u) : v < w
      BY <1>1, <1>7, <2>1 DEF RunsBetween
    <3>2. u \in C(x, w)
      BY <1>1, <1>2, <1>7 DEF RunsBetween
    <3> QED
      BY <3>1, <3>2 DEF RunsBetween
  <2> HIDE DEF C, x
  <2>3. Cardinality(C(x, u) \cup {u}) = Cardinality(C(x, u)) + 1
    BY <2>1, FS_AddElement
  <2>4. Cardinality(C(x, u) \cup {u}) <= Cardinality(C(x, w))
    BY <2>1, <2>2, FS_Subset
  <2>5. Cardinality(C(x, u)) < Cardinality(C(x, w))
    BY <2>1, <2>3, <2>4
  <2> QED
    BY <1>7, <2>5 DEF x
<1> DEFINE who == [u \in W |-> timeline[u]]
           nth == [u \in W |-> Cardinality(C(timeline[u], u))]
<1>8. who \in [W -> 1..n] /\ nth \in [W -> 0..(q - 1)]
  BY <1>6
<1>9. \A u, w \in W : who[u] = who[w] /\ nth[u] = nth[w] => u = w
  <2> SUFFICES ASSUME NEW u \in W, NEW w \in W, timeline[u] = timeline[w],
                      Cardinality(C(timeline[u], u)) = Cardinality(C(timeline[w], w))
               PROVE  u = w
    OBVIOUS
  <2>1. u \in Nat /\ w \in Nat /\ Cardinality(C(timeline[u], u)) \in Int
    BY <1>1, <1>6
  <2>2. ~ (u < w)
    BY <1>7, <2>1
  <2>3. ~ (w < u)
    BY <1>7, <2>1
  <2> QED
    BY <2>1, <2>2, <2>3
<1>10. IsFiniteSet(W) /\ Cardinality(W) = b
  <2>1. t \in Int /\ t + b - 1 \in Int /\ ~ (t > t + b - 1) /\ (t + b - 1) - t + 1 = b
    BY <1>1
  <2> QED
    BY <2>1, FS_Interval
<1>11. n * q <= b /\ i \in 1..n
  BY <1>1
<1>13. Shares(W, n, q, who, nth) /\ n \in Nat /\ q \in Nat \ {0} /\ n * q <= Cardinality(W)
  BY <1>1, <1>8, <1>9, <1>10, <1>11 DEF Shares
<1> HIDE DEF who, nth, W, n, q, b
<1>12. \E u \in W : who[u] = i
  BY <1>10, <1>11, <1>13, WindowIsNotFull
<1> QED
  BY <1>3, <1>12 DEF who

\* mlfq.c: with room for one top-level slice each in an interval, every boost
\* brings everyone who waits through the interval onto the CPU.
THEOREM BoostFeedsEveryoneCorrect == MlfqSpec => []BoostFeedsEveryone
<1>1. MlfqIInv /\ HigherLevelsFirst /\ SomeoneRuns => BoostFeedsEveryone
  BY BoostFeeds DEF MlfqIInv
<1> QED
  BY <1>1, HigherFirstAlways, PTL

-----------------------------------------------------------------------------
\* The abstract queues.  Between two ticks the one on the CPU is the one that
\* ran last and is in the middle of its slice; nobody has more than a slice.
BegunInv ==
    /\ \A i \in Alive : RestIn(mlfq, i) <= LevelQuantum[mlfq.level_of[i]]
    /\ phase \in {"test", "admit"} /\ current \in Alive =>
           (mlfq.running = IDLE <=> RestIn(mlfq, current) = LevelQuantum[mlfq.level_of[current]])

LEMMA BegunInvInit == MlfqInit => BegunInv
<1>1. MlfqInit => MetricsInv /\ tick = 0 /\ phase = "test"
  BY MlfqInvInit DEF MlfqIInv, MlfqInit, Init
<1>2. MetricsInv /\ tick = 0 /\ phase = "test" => Alive = {}
  <2>1. MetricsInv => \A i \in Procs : trace[i].arrival \in Nat
    BY RowTypes DEF MetricsInv, TypeInv, TypeOK, Procs
  <2> QED
    BY <2>1 DEF Alive, Admitted
<1> QED
  BY <1>1, <1>2 DEF BegunInv

LEMMA BegunStep == MlfqIInv /\ BegunInv /\ [MlfqNext]_MlfqVars => BegunInv'
<1> SUFFICES ASSUME MlfqIInv, BegunInv, [MlfqNext]_MlfqVars PROVE BegunInv'
  OBVIOUS
<1> DEFINE Q(s, i) == LevelQuantum[s.level_of[i]]
<1>0. /\ Alive \subseteq Procs /\ IDLE \notin Procs /\ mlfq \in MlfqStates
      /\ mlfq.running # IDLE => mlfq.running \in Alive
      /\ \A i \in Procs : mlfq.level_of[i] \in Levels
      /\ LevelQuantum \in [Levels -> Nat] /\ 0 \in Levels
  BY TableTypes, MlfqAssumption
     DEF MlfqIInv, MlfqInv, MetricsInv, InPlace, RingsHold, RunsWithRest, MlfqStates, Levels
<1>1. /\ \A i \in Procs : Admit(i) => i \notin Alive /\ Alive' = Alive \cup {i}
      /\ Execute => /\ next \in Alive
                    /\ Alive' = IF remaining[next] = 1 THEN Alive \ {next} ELSE Alive
      /\ Execute \/ (\E i \in Procs : Admit(i)) \/ Alive' = Alive
  BY MlfqNextIsWCNext, AliveStep DEF MlfqIInv
<1>2. /\ \A i \in Alive : RestIn(mlfq, i) <= Q(mlfq, i)
      /\ phase \in {"test", "admit"} /\ current \in Alive =>
             (mlfq.running = IDLE <=> RestIn(mlfq, current) = Q(mlfq, current))
      /\ phase \in {"test", "admit"} /\ mlfq.running # IDLE => mlfq.running = current
  BY DEF BegunInv, MlfqIInv, MlfqInv
<1>3. SUFFICES /\ \A i \in Alive' : RestIn(mlfq', i) <= Q(mlfq', i)
               /\ phase' \in {"test", "admit"} /\ current' \in Alive' =>
                      (mlfq'.running = IDLE <=> RestIn(mlfq', current') = Q(mlfq', current'))
  BY DEF BegunInv, RestIn
<1>4. ASSUME NEW j \in Procs, Admit(j), mlfq_on_arrival(j)
      PROVE  /\ \A i \in Alive' : RestIn(mlfq', i) <= Q(mlfq', i)
             /\ phase' \in {"test", "admit"} /\ current' \in Alive' =>
                    (mlfq'.running = IDLE <=> RestIn(mlfq', current') = Q(mlfq', current'))
  <2>1. /\ Alive' = Alive \cup {j} /\ mlfq'.running = mlfq.running /\ j \notin Alive
        /\ StandingKept(mlfq, mlfq', Alive)
        /\ RestIn(mlfq', j) = Q(mlfq', j) /\ Q(mlfq', j) = LevelQuantum[0]
    BY <1>4, ArrivalIs
  <2>2. current' = current /\ phase = "admit"
    BY <1>4 DEF Admit
  <2>3. \A i \in Alive' : RestIn(mlfq', i) <= Q(mlfq', i)
    BY <1>0, <1>2, <2>1 DEF StandingKept
  <2> QED
    BY <1>0, <1>2, <2>1, <2>2, <2>3 DEF StandingKept
<1>5. ASSUME NEW pid \in Answers, mlfq_pick_next(pid), Pick(pid)
      PROVE  phase' \notin {"test", "admit"} /\ \A i \in Alive' : RestIn(mlfq', i) <= Q(mlfq', i)
  <2>1. /\ ~ IsBoost(tick) => StandingKept(mlfq, mlfq', Alive)
        /\ IsBoost(tick) => \A j \in Alive : /\ mlfq'.level_of[j] = 0
                                             /\ RestIn(mlfq', j) = LevelQuantum[0]
    BY <1>5, MlfqAnswers DEF Pick
  <2>2. phase' \notin {"test", "admit"} /\ Alive' = Alive
    BY <1>1, <1>5 DEF Pick, Admit, Execute
  <2>3. LevelQuantum[0] <= LevelQuantum[0]
    BY <1>0
  <2> QED
    BY <1>2, <2>1, <2>2, <2>3 DEF StandingKept
<1>6. ASSUME Execute, IF Finishing THEN mlfq_on_complete ELSE UNCHANGED mlfq
      PROVE  phase' \notin {"test", "admit"} /\ \A i \in Alive' : RestIn(mlfq', i) <= Q(mlfq', i)
  <2>1. phase' = "tick_end" /\ mlfq.running = next
    BY <1>6 DEF Execute, MlfqIInv, MlfqInv
  <2>2. CASE Finishing
    <3>1. /\ mlfq'.running = IDLE /\ mlfq'.queue = mlfq.queue /\ mlfq'.saved = mlfq.saved
          /\ mlfq'.level_of = mlfq.level_of /\ Alive' = Alive \ {next}
      BY <1>0, <1>1, <1>6, <2>2 DEF mlfq_on_complete, Finishing, MlfqStates
    <3>2. \A i \in Alive' : i \in Alive /\ RestIn(mlfq', i) = RestIn(mlfq, i)
      BY <1>0, <2>1, <3>1 DEF RestIn
    <3> QED
      BY <1>2, <2>1, <3>1, <3>2
  <2>3. CASE ~ Finishing
    BY <1>1, <1>2, <1>6, <2>1, <2>3 DEF Finishing
  <2> QED
    BY <2>2, <2>3
<1>7. ASSUME EndTick, mlfq_on_tick_end
      PROVE  /\ \A i \in Alive' : RestIn(mlfq', i) <= Q(mlfq', i)
             /\ current' \in Alive' =>
                    (mlfq'.running = IDLE <=> RestIn(mlfq', current') = Q(mlfq', current'))
  <2>1. /\ current' = next /\ Alive' = Alive
        /\ mlfq.running = IF next # IDLE /\ remaining[next] > 0 THEN next ELSE IDLE
    BY <1>1, <1>7 DEF EndTick, Admit, Execute, MlfqIInv, MlfqInv
  <2>2. CASE mlfq.running = IDLE
    <3>1. mlfq' = mlfq
      BY <1>7, <2>2 DEF mlfq_on_tick_end
    <3>2. next \notin Alive
      BY <1>0, <2>1, <2>2 DEF Alive
    <3> QED
      BY <1>2, <2>1, <3>1, <3>2
  <2>3. CASE mlfq.running # IDLE
    <3> DEFINE i == mlfq.running
    <3>1. /\ i = next /\ i \in Alive /\ mlfq.level = mlfq.level_of[i]
          /\ mlfq.left \in Nat /\ (mlfq.left > 1 \/ mlfq.left = 1)
          /\ StandingKept(mlfq, mlfq', Alive \ {i})
          /\ mlfq.left > 1 => /\ mlfq'.level_of[i] = mlfq.level
                              /\ RestIn(mlfq', i) = mlfq.left - 1
                              /\ mlfq'.running = i
          /\ mlfq.left = 1 => /\ mlfq'.level_of[i] = Below(mlfq.level)
                              /\ RestIn(mlfq', i) = LevelQuantum[Below(mlfq.level)]
                              /\ mlfq'.running = IDLE
      BY <1>7, <2>1, <2>3, TickEndIs
    <3>2. RestIn(mlfq, i) = mlfq.left /\ Q(mlfq, i) \in Nat
      BY <1>0, <3>1 DEF RestIn
    <3>3. mlfq.left > 1 => RestIn(mlfq', i) < Q(mlfq', i)
      BY <1>2, <3>1, <3>2
    <3>4. LevelQuantum[Below(mlfq.level)] \in Nat
      BY <1>0, <3>1 DEF Below
    <3>5. RestIn(mlfq', i) <= Q(mlfq', i) /\ (mlfq'.running = IDLE <=> RestIn(mlfq', i) = Q(mlfq', i))
      BY <2>3, <3>1, <3>2, <3>3, <3>4
    <3> QED
      BY <1>2, <2>1, <3>1, <3>5 DEF StandingKept
  <2> QED
    BY <2>2, <2>3
<1>8. CASE \/ (LoopTest \/ Halt) /\ UNCHANGED mlfq
           \/ UNCHANGED MlfqVars
  <2>1. /\ mlfq' = mlfq /\ current' = current
        /\ phase' \in {"test", "admit"} => phase \in {"test", "admit"}
    BY <1>8 DEF LoopTest, Halt, Returned, vars, MlfqVars
  <2>2. Alive' = Alive
    <3>1. CASE LoopTest \/ Returned
      BY <1>1, <3>1 DEF LoopTest, Returned, Admit, Execute
    <3>2. CASE UNCHANGED vars
      BY <3>2 DEF vars, table, Alive, Admitted, Procs
    <3> QED
      BY <1>8, <3>1, <3>2 DEF Halt, MlfqVars
  <2> QED
    BY <1>2, <2>1, <2>2
<1> QED
  BY <1>4, <1>5, <1>6, <1>7, <1>8 DEF MlfqNext

\* The engine under the abstract specification is the same engine.
LEMMA SameEngine ==
    /\ Abstract!Init <=> Init
    /\ Abstract!Procs = Procs /\ Abstract!Answers = Answers
    /\ Abstract!LoopTest <=> LoopTest
    /\ \A i : Abstract!Admit(i) <=> Admit(i)
    /\ \A pid : Abstract!Pick(pid) <=> Pick(pid)
    /\ Abstract!Execute <=> Execute
    /\ Abstract!Finishing <=> Finishing
    /\ Abstract!EndTick <=> EndTick
    /\ Abstract!Halt <=> Halt
    /\ Abstract!vars = vars
<1>1. /\ Abstract!table = table /\ Abstract!result = result /\ Abstract!IDLE = IDLE
      /\ Abstract!Procs = Procs /\ Abstract!NOT_STARTED = NOT_STARTED
      /\ Abstract!Ticks = Ticks /\ Abstract!UnknownPid = UnknownPid
  BY DEF Abstract!table, table, Abstract!result, result, Abstract!IDLE, IDLE,
         Abstract!Procs, Procs, Abstract!NOT_STARTED, NOT_STARTED, Abstract!Ticks, Ticks,
         Abstract!UnknownPid, UnknownPid
<1>2. Abstract!vars = vars /\ Abstract!Answers = Answers
  BY <1>1 DEF Abstract!vars, vars, Abstract!Answers, Answers
<1>3. Abstract!Init <=> Init
  BY <1>1 DEF Abstract!Init, Init
<1>4. Abstract!LoopTest <=> LoopTest
  BY DEF Abstract!LoopTest, LoopTest, Abstract!CapReached, CapReached,
         Abstract!table, table, Abstract!result, result
<1>5. \A i : Abstract!Admit(i) <=> Admit(i)
  BY <1>1 DEF Abstract!Admit, Admit, Abstract!table, table, Abstract!result, result
<1>6. \A pid : Abstract!Pick(pid) <=> Pick(pid)
  <2>1. \A pid : Abstract!IsSwitch(pid) <=> IsSwitch(pid)
    BY <1>1 DEF Abstract!IsSwitch, IsSwitch
  <2>2. Abstract!Ready = Ready /\ Abstract!AllAdmitted = AllAdmitted
    BY <1>1 DEF Abstract!Ready, Ready, Abstract!AllAdmitted, AllAdmitted
  <2> QED
    BY <1>1, <2>1, <2>2 DEF Abstract!Pick, Pick, Abstract!table, table
<1>7. (Abstract!Finishing <=> Finishing) /\ (Abstract!Execute <=> Execute)
  BY <1>1 DEF Abstract!Execute, Execute, Abstract!Finishing, Finishing,
     Abstract!FirstDispatch, FirstDispatch, Abstract!StampOf, StampOf, Abstract!result, result
<1>8. Abstract!EndTick <=> EndTick
  BY DEF Abstract!EndTick, EndTick, Abstract!table, table, Abstract!result, result
<1>9. Abstract!Halt <=> Halt
  BY DEF Abstract!Halt, Halt, Abstract!Returned, Returned, Abstract!vars, vars,
     Abstract!table, table, Abstract!result, result
<1> QED
  BY <1>1, <1>2, <1>3, <1>4, <1>5, <1>6, <1>7, <1>8, <1>9

LEMMA LineHolds ==
    ASSUME TypeInv, NEW s, NEW A, A \subseteq Procs, InPlace(s, A), NEW lv \in Levels
    PROVE  /\ \A i : i \in Range(Line(s, lv)) <=> i \in A /\ s.level_of[i] = lv
           /\ Contents(s.queue[lv]) \in Seq(Leftover \cup Procs)
<1> DEFINE q == Contents(s.queue[lv])
<1>1. /\ q \in Seq(Leftover \cup Procs) /\ Range(q) = At(s, A, lv)
      /\ s.running # IDLE => s.running \in A /\ s.level = s.level_of[s.running]
      /\ IDLE \notin A
  BY RingFacts, RingRange, TableTypes DEF InPlace, RunsWithRest
<1> HIDE DEF q
<1>2. CASE s.running # IDLE /\ s.level = lv
  <2>1. Range(Line(s, lv)) = {s.running} \cup Range(q)
    BY <1>1, <1>2, FrontMembers DEF Line, Range, q
  <2> QED
    BY <1>1, <1>2, <2>1 DEF At, q
<1>3. CASE ~ (s.running # IDLE /\ s.level = lv)
  <2>1. Line(s, lv) = q
    BY <1>3 DEF Line, q
  <2> QED
    BY <1>1, <1>3, <2>1 DEF At, q
<1> QED
  BY <1>2, <1>3

\* What is left of a slice, read off the lines.
LEMMA RestFrom ==
    ASSUME TypeInv, NEW s, NEW A, A \subseteq Procs, InPlace(s, A), NEW i
    PROVE  LET at == CHOOSE lv \in Levels : i \in Range(Line(s, lv))
               rest == IF i = s.running THEN s.left
                       ELSE IF s.saved[at] > 0 /\ i = Head(Contents(s.queue[at]))
                       THEN s.saved[at] ELSE LevelQuantum[at]
           IN  (IF \E lv \in Levels : i \in Range(Line(s, lv)) THEN rest ELSE 0)
                   = IF i \in A THEN RestIn(s, i) ELSE 0
<1>1. \A lv \in Levels : i \in Range(Line(s, lv)) <=> i \in A /\ s.level_of[i] = lv
  BY LineHolds
<1>2. i \in A => s.level_of[i] \in Levels
  BY DEF InPlace, RingsHold, MlfqStates
<1>3. CASE i \in A
  <2>1. (CHOOSE lv \in Levels : i \in Range(Line(s, lv))) = s.level_of[i]
    BY <1>1, <1>2, <1>3
  <2>2. \E lv \in Levels : i \in Range(Line(s, lv))
    BY <1>1, <1>2, <1>3
  <2> QED
    BY <1>3, <2>1, <2>2 DEF RestIn
<1>4. CASE i \notin A
  BY <1>1, <1>4
<1> QED
  BY <1>3, <1>4

LEMMA PlaceNext ==
    ASSUME MlfqIInv', trace' = trace
    PROVE  InPlace(mlfq', Alive') /\ Alive' \subseteq Procs
<1>1. Procs' = Procs /\ MlfqStates' = MlfqStates
  BY DEF Procs, MlfqStates
<1>2. Alive' \subseteq Procs
  BY <1>1 DEF Alive, Admitted
<1>3. \A lv : At(mlfq, Alive, lv)' = At(mlfq', Alive', lv)
  BY DEF At
<1>4. RingsHold(mlfq', Alive')
  BY <1>1, <1>3 DEF MlfqIInv, MlfqInv, InPlace, RingsHold
<1>5. RunsWithRest(mlfq', Alive') /\ SavedOk(mlfq')
  BY DEF MlfqIInv, MlfqInv, InPlace, RunsWithRest, SavedOk
<1> QED
  BY <1>2, <1>4, <1>5 DEF InPlace

\* The rest of each row, before and after a step.
LEMMA RestsAre ==
    ASSUME MlfqIInv, [MlfqNext]_MlfqVars
    PROVE  /\ \A i : RestOf(i) = IF i \in Alive THEN RestIn(mlfq, i) ELSE 0
           /\ \A i : (RestOf(i))' = IF i \in Alive' THEN RestIn(mlfq', i) ELSE 0
<1>1. TypeInv /\ trace' = trace /\ MlfqIInv'
  BY MlfqNextIsWCNext, WCNextIsNext, TraceStep, MlfqInvStep DEF MlfqIInv, MetricsInv
<1>2. /\ InPlace(mlfq, Alive) /\ InPlace(mlfq', Alive')
      /\ Alive \subseteq Procs /\ Alive' \subseteq Procs
  BY <1>1, PlaceNext, TableTypes DEF MlfqIInv, MlfqInv
<1>3. /\ \A lv : InOrder(lv) = Line(mlfq, lv)
      /\ \A lv : InOrder(lv)' = Line(mlfq', lv)
  BY DEF InOrder, Line, Queued
<1>4. ASSUME NEW i PROVE RestOf(i) = IF i \in Alive THEN RestIn(mlfq, i) ELSE 0
  <2>1. RestOf(i) = LET at == CHOOSE lv \in Levels : i \in Range(Line(mlfq, lv))
                        rest == IF i = mlfq.running THEN mlfq.left
                                ELSE IF mlfq.saved[at] > 0 /\ i = Head(Contents(mlfq.queue[at]))
                                THEN mlfq.saved[at] ELSE LevelQuantum[at]
                    IN  IF \E lv \in Levels : i \in Range(Line(mlfq, lv)) THEN rest ELSE 0
    BY <1>3 DEF RestOf, RestAt, Queued
  <2> QED
    BY <1>1, <1>2, <2>1, RestFrom
<1>5. ASSUME NEW i PROVE (RestOf(i))' = IF i \in Alive' THEN RestIn(mlfq', i) ELSE 0
  <2>1. (RestOf(i))'
            = LET at == CHOOSE lv \in Levels : i \in Range(Line(mlfq', lv))
                  rest == IF i = mlfq'.running THEN mlfq'.left
                          ELSE IF mlfq'.saved[at] > 0 /\ i = Head(Contents(mlfq'.queue[at]))
                          THEN mlfq'.saved[at] ELSE LevelQuantum[at]
              IN  IF \E lv \in Levels : i \in Range(Line(mlfq', lv)) THEN rest ELSE 0
    BY <1>3 DEF RestOf, RestAt, Queued
  <2> QED
    BY <1>1, <1>2, <2>1, RestFrom
<1> QED
  BY <1>4, <1>5

\* The line a process is in is that of its level.
LEMMA WhereIs ==
    ASSUME MlfqIInv
    PROVE  /\ Abstract!InLine = Alive
           /\ \A i \in Alive : Abstract!LevelOf(i) = mlfq.level_of[i]
<1>1. /\ \A lv \in Levels : \A i : i \in Range(InOrder(lv)) <=> i \in Alive /\ mlfq.level_of[i] = lv
      /\ \A i \in Alive : mlfq.level_of[i] \in Levels
  <2>1. InPlace(mlfq, Alive) /\ TypeInv /\ Alive \subseteq Procs
    BY TableTypes DEF MlfqIInv, MlfqInv, MetricsInv
  <2>2. \A lv \in Levels : InOrder(lv) = Line(mlfq, lv)
    BY DEF InOrder, Line, Queued
  <2> QED
    BY <2>1, <2>2, LineHolds DEF InPlace, RingsHold, MlfqStates
<1>2. \A lv \in Levels : Abstract!Members(lv) = Range(InOrder(lv))
  BY DEF Abstract!Members, Range
<1>3. Abstract!InLine = Alive
  BY <1>1, <1>2 DEF Abstract!InLine
<1>4. ASSUME NEW i \in Alive PROVE Abstract!LevelOf(i) = mlfq.level_of[i]
  <2> DEFINE at == mlfq.level_of[i]
  <2>1. Abstract!Occupied = {lv \in Levels : InOrder(lv) # <<>>}
    BY DEF Abstract!Occupied
  <2>2. at \in Levels /\ InOrder(at) # <<>>
    <3>1. PICK k \in DOMAIN InOrder(at) : InOrder(at)[k] = i
      BY <1>1 DEF Range
    <3> QED
      BY <1>1, <3>1
  <2>3. \A lv \in Levels : i \in Abstract!Members(lv) <=> lv = at
    BY <1>1, <1>2
  <2> HIDE DEF at
  <2>4. Abstract!LevelOf(i) = at
    BY <2>1, <2>2, <2>3 DEF Abstract!LevelOf
  <2> QED
    BY <2>4 DEF at
<1> QED
  BY <1>3, <1>4

\* Who runs is the front of the first line that is not empty.
LEMMA FrontIs ==
    ASSUME TypeInv, NEW s, NEW A, A \subseteq Procs, InPlace(s, A),
           NEW Q, Q = [lv \in Levels |-> Line(s, lv)],
           s.running = IDLE => A = {},
           s.running # IDLE => \A j \in A : s.level_of[s.running] <= s.level_of[j]
    PROVE  Abstract!FrontOf(Q) = s.running
<1> DEFINE O == {lv \in DOMAIN Q : Q[lv] # <<>>}
<1>1. /\ \A lv \in Levels : Line(s, lv) # <<>> => \E j \in A : s.level_of[j] = lv
      /\ \A lv \in Levels : Contents(s.queue[lv]) \in Seq(Leftover \cup Procs)
  <2> SUFFICES ASSUME NEW lv \in Levels
               PROVE  /\ Line(s, lv) # <<>> => \E j \in A : s.level_of[j] = lv
                      /\ Contents(s.queue[lv]) \in Seq(Leftover \cup Procs)
    OBVIOUS
  <2>1. /\ \A i : i \in Range(Line(s, lv)) <=> i \in A /\ s.level_of[i] = lv
        /\ Contents(s.queue[lv]) \in Seq(Leftover \cup Procs)
    BY LineHolds
  <2>2. Line(s, lv) # <<>> => 1 \in DOMAIN Line(s, lv)
    <3>1. CASE Line(s, lv) = <<s.running>> \o Contents(s.queue[lv])
      BY <2>1, <3>1
    <3>2. CASE Line(s, lv) = Contents(s.queue[lv])
      BY <2>1, <3>2
    <3> QED
      BY <3>1, <3>2 DEF Line
  <2> QED
    BY <2>1, <2>2 DEF Range
<1>2. O = {lv \in Levels : Line(s, lv) # <<>>}
  OBVIOUS
<1>3. CASE s.running = IDLE
  <2>1. O = {}
    BY <1>1, <1>2, <1>3
  <2> QED
    BY <1>3, <2>1 DEF Abstract!FrontOf, Abstract!IDLE, IDLE
<1>4. CASE s.running # IDLE
  <2>1. s.level \in Levels /\ s.level = s.level_of[s.running]
    BY <1>4 DEF InPlace, RunsWithRest, RingsHold, MlfqStates
  <2>2. Line(s, s.level) = <<s.running>> \o Contents(s.queue[s.level])
    BY <1>4 DEF Line
  <2>3. Line(s, s.level) # <<>> /\ Head(Line(s, s.level)) = s.running
    BY <1>1, <2>1, <2>2, InFront
  <2>4. s.level \in O /\ \A lv \in O : s.level <= lv
    BY <1>1, <1>2, <1>4, <2>1, <2>3
  <2>5. \A lv \in O : lv \in Int
    BY <1>2 DEF Levels
  <2> HIDE DEF O
  <2>6. Abstract!Min(O) = s.level
    BY <2>4, <2>5 DEF Abstract!Min
  <2> QED
    BY <2>1, <2>3, <2>4, <2>6 DEF Abstract!FrontOf, O
<1> QED
  BY <1>3, <1>4

\* Rows in table order are not more than the table has.
LEMMA OrderedFits ==
    ASSUME NEW S, NEW q \in Seq(S), Increasing(q), NEW n \in Nat,
           \A k \in DOMAIN q : q[k] \in 1..n
    PROVE  q \in [1..Len(q) -> 1..n] /\ Len(q) \in 0..n
<1> DEFINE A == Range(q)
           m == n + 1
<1>1. Len(q) \in Nat /\ DOMAIN q = 1..Len(q) /\ q \in [1..Len(q) -> S]
  OBVIOUS
<1>2. ASSUME NEW j \in DOMAIN q, NEW k \in DOMAIN q, j < k PROVE q[j] # q[k]
  <2>1. q[j] < q[k] /\ q[j] \in 1..n /\ q[k] \in 1..n
    BY <1>2 DEF Increasing
  <2> QED
    BY <2>1
<1>3. \A j, k \in DOMAIN q : q[j] = q[k] => j = k
  <2> SUFFICES ASSUME NEW j \in DOMAIN q, NEW k \in DOMAIN q, j # k PROVE q[j] # q[k]
    OBVIOUS
  <2>1. j < k \/ k < j
    BY <1>1
  <2> QED
    BY <1>2, <2>1
<1>4. IDLE \notin 1..n
  BY DEF IDLE
<1>5. Holds(q, A, IDLE) /\ A \subseteq 1..n
  BY <1>3, <1>4 DEF Holds, Range
<1>6. m \in Nat /\ m \in 1..m /\ A \ {IDLE} \subseteq (1..m) \ {m}
  BY <1>5
<1> HIDE DEF A, m
<1>7. Len(q) <= m - 1
  BY <1>5, <1>6, RoomForOneMore
<1>8. Len(q) \in 0..n
  BY <1>1, <1>7 DEF m
<1> QED
  BY <1>1, <1>8

\* A boost of the program is a boost of the lines.
LEMMA BoostIsBoost ==
    ASSUME MlfqIInv, BegunInv, [MlfqNext]_MlfqVars, phase = "admit", Alive' = Alive,
           trace' = trace, Boosts(mlfq, mlfq'),
           \A i \in Alive : RestIn(mlfq', i) = LevelQuantum[0]
    PROVE  Abstract!Boost
<1> DEFINE first == IF Abstract!Holding THEN <<current>> ELSE <<>>
<1>0. /\ Alive \subseteq Procs /\ IDLE \notin Procs /\ TypeInv /\ 0 \in Levels
      /\ Procs = 1..Len(trace) /\ Len(trace) \in Nat
      /\ mlfq.running # IDLE => mlfq.running = current /\ current \in Alive
      /\ \A i \in Alive : RestIn(mlfq, i) \in Nat /\ LevelQuantum[mlfq.level_of[i]] \in Nat
  <2>1. /\ TypeInv /\ mlfq \in MlfqStates
        /\ mlfq.running # IDLE => mlfq.running = current /\ current \in Alive
    BY DEF MlfqIInv, MlfqInv, MetricsInv, InPlace, RingsHold, RunsWithRest
  <2>2. \A i \in Procs : LevelQuantum[mlfq.level_of[i]] \in Nat /\ RestIn(mlfq, i) \in Nat
    <3>1. \A lv \in Levels : LevelQuantum[lv] \in Nat /\ mlfq.saved[lv] \in Nat
      BY <2>1, QuantaArePositive DEF MlfqStates
    <3> QED
      BY <2>1, <3>1 DEF MlfqStates, RestIn
  <2> QED
    BY <2>1, <2>2, TableTypes DEF Levels
<1>1. /\ \A i \in Procs : RestOf(i) = IF i \in Alive THEN RestIn(mlfq, i) ELSE 0
      /\ \A i \in Procs : (RestOf(i))' = IF i \in Alive THEN LevelQuantum[0] ELSE RestOf(i)
  BY RestsAre
<1>2. /\ Abstract!InLine = Alive
      /\ \A i \in Alive : Abstract!LevelOf(i) = mlfq.level_of[i]
  BY WhereIs
<1>3. Abstract!Holding <=> mlfq.running # IDLE
  <2>1. Abstract!Holding
           <=> current \in Alive /\ RestIn(mlfq, current) < LevelQuantum[mlfq.level_of[current]]
    BY <1>0, <1>1, <1>2 DEF Abstract!Holding
  <2>2. current \in Alive =>
            /\ RestIn(mlfq, current) <= LevelQuantum[mlfq.level_of[current]]
            /\ mlfq.running = IDLE
                   <=> RestIn(mlfq, current) = LevelQuantum[mlfq.level_of[current]]
    BY DEF BegunInv
  <2> DEFINE r == RestIn(mlfq, current)
             q == LevelQuantum[mlfq.level_of[current]]
  <2>3. CASE current \in Alive
    <3>1. r \in Nat /\ q \in Nat
      BY <1>0, <2>3
    <3> HIDE DEF r, q
    <3>2. r < q <=> r # q
      BY <2>2, <2>3, <3>1 DEF r, q
    <3> QED
      BY <2>1, <2>2, <2>3, <3>2 DEF r, q
  <2> QED
    BY <1>0, <2>1, <2>3
<1>4. PICK others \in Seq(Leftover \cup Procs) :
          /\ Increasing(others) /\ Range(others) = Alive \ {mlfq.running}
          /\ Line(mlfq', 0) = IF mlfq.running = IDLE THEN others ELSE <<mlfq.running>> \o others
  BY DEF Boosts
<1>5. /\ first = IF mlfq.running # IDLE THEN <<mlfq.running>> ELSE <<>>
      /\ {first[k] : k \in DOMAIN first} = IF mlfq.running # IDLE THEN {mlfq.running} ELSE {}
      /\ first \o others = Line(mlfq', 0)
  BY <1>0, <1>3, <1>4
<1> HIDE DEF first
<1>6. {others[k] : k \in DOMAIN others} = Alive \ {first[k] : k \in DOMAIN first}
  BY <1>0, <1>4, <1>5 DEF Range
<1>7. others \in Abstract!TableOrdered
  <2>1. \A k \in DOMAIN others : others[k] \in Procs
    BY <1>0, <1>6
  <2>2. others \in [1..Len(others) -> Procs] /\ Len(others) \in 0..Len(trace)
    BY <1>0, <1>4, <2>1, OrderedFits
  <2> QED
    BY <1>4, <2>2, SameEngine DEF Abstract!TableOrdered, Increasing
<1>8. [lv \in Levels |-> InOrder(lv)]'
          = [lv \in Levels |-> IF lv = 0 THEN first \o others ELSE <<>>]
  <2>1. \A lv \in Levels : InOrder(lv)' = Line(mlfq', lv)
    BY DEF InOrder, Line, Queued
  <2>2. \A lv \in Levels : Line(mlfq', lv) = IF lv = 0 THEN first \o others ELSE <<>>
    BY <1>5 DEF Boosts
  <2> QED
    BY <2>1, <2>2
<1>9. [i \in Procs |-> RestOf(i)]'
          = [i \in Procs |-> IF i \in Alive THEN LevelQuantum[0] ELSE [j \in Procs |-> RestOf(j)][i]]
  <2>1. Procs' = Procs
    BY DEF Procs
  <2> QED
    BY <1>1, <2>1
<1> QED
  BY <1>2, <1>6, <1>7, <1>8, <1>9, SameEngine DEF Abstract!Boost, first

LEMMA MlfqStepIsQueueStep ==
    ASSUME MlfqIInv, BegunInv, MlfqNext PROVE Abstract!QueueNext
<1> DEFINE L == [lv \in Levels |-> InOrder(lv)]
           R == [i \in Procs |-> RestOf(i)]
<1>0. /\ TypeInv /\ InPlace(mlfq, Alive) /\ mlfq \in MlfqStates /\ mlfq.left \in Nat
      /\ Alive \subseteq Procs /\ IDLE \notin Procs
      /\ Procs' = Procs /\ trace' = trace /\ 0 \in Levels
      /\ mlfq.running # IDLE => /\ mlfq.running \in Alive /\ mlfq.left > 0
                                /\ mlfq.level = mlfq.level_of[mlfq.running]
      /\ \A i \in Procs : mlfq.level_of[i] \in Levels
      /\ MlfqIInv'
  <2>1. /\ TypeInv /\ InPlace(mlfq, Alive) /\ mlfq \in MlfqStates
        /\ mlfq.running # IDLE => /\ mlfq.running \in Alive /\ mlfq.left > 0
                                  /\ mlfq.level = mlfq.level_of[mlfq.running]
    BY DEF MlfqIInv, MlfqInv, MetricsInv, InPlace, RingsHold, RunsWithRest
  <2>2. trace' = trace /\ MlfqIInv'
    BY MlfqNextIsWCNext, WCNextIsNext, TraceStep, MlfqInvStep DEF MlfqIInv, MetricsInv
  <2> QED
    BY <2>1, <2>2, TableTypes DEF Procs, MlfqStates, Levels
<1>1. /\ \A i \in Procs : Admit(i) => i \notin Alive /\ Alive' = Alive \cup {i}
      /\ Execute => /\ next \in Alive
                    /\ Alive' = IF remaining[next] = 1 THEN Alive \ {next} ELSE Alive
      /\ Execute \/ (\E i \in Procs : Admit(i)) \/ Alive' = Alive
  BY MlfqNextIsWCNext, AliveStep DEF MlfqIInv
<1>2. /\ \A i : RestOf(i) = IF i \in Alive THEN RestIn(mlfq, i) ELSE 0
      /\ \A i : (RestOf(i))' = IF i \in Alive' THEN RestIn(mlfq', i) ELSE 0
      /\ \A lv : InOrder(lv) = Line(mlfq, lv) /\ InOrder(lv)' = Line(mlfq', lv)
  BY RestsAre DEF InOrder, Line, Queued
<1>3. ASSUME LinesKept(mlfq, mlfq'), Alive' = Alive,
             \A j \in Alive : RestIn(mlfq', j) = RestIn(mlfq, j)
      PROVE  UNCHANGED Abstract!lines
  <2>1. /\ \A lv \in Levels : InOrder(lv)' = InOrder(lv)
        /\ \A i \in Procs : (RestOf(i))' = RestOf(i)
    BY <1>2, <1>3 DEF LinesKept
  <2> QED
    BY <1>0, <2>1 DEF Abstract!lines
<1>4. CASE (LoopTest \/ Halt) /\ UNCHANGED mlfq
  <2>1. Alive' = Alive
    BY <1>1, <1>4 DEF LoopTest, Halt, Returned, Admit, Execute
  <2>2. UNCHANGED Abstract!lines
    BY <1>3, <1>4, <2>1 DEF LinesKept
  <2> QED
    BY <1>4, <2>2, SameEngine DEF Abstract!QueueNext
<1>5. ASSUME NEW i \in Procs, Admit(i), mlfq_on_arrival(i) PROVE Abstract!QueueNext
  <2>1. /\ i \notin Alive /\ Alive' = Alive \cup {i}
        /\ Line(mlfq', 0) = Append(Line(mlfq, 0), i)
        /\ \A m \in Levels \ {0} : Line(mlfq', m) = Line(mlfq, m)
        /\ StandingKept(mlfq, mlfq', Alive)
        /\ RestIn(mlfq', i) = LevelQuantum[0]
    BY <1>5, ArrivalIs
  <2>2. ASSUME NEW j \in Procs PROVE (RestOf(j))' = IF j = i THEN LevelQuantum[0] ELSE RestOf(j)
    BY <1>2, <2>1 DEF StandingKept
  <2>3. L' = [L EXCEPT ![0] = Append(@, i)] /\ R' = [R EXCEPT ![i] = LevelQuantum[0]]
    BY <1>0, <1>2, <2>1, <2>2
  <2>4. Abstract!Arrive(i)
    BY <2>3 DEF Abstract!Arrive, TopLevel
  <2> QED
    BY <1>5, <2>4, SameEngine DEF Abstract!QueueNext
<1>6. ASSUME NEW pid \in Answers, mlfq_pick_next(pid), Pick(pid) PROVE Abstract!QueueNext
  <2>1. phase = "admit" /\ AllAdmitted /\ Alive' = Alive
    BY <1>1, <1>6 DEF Pick, Admit, Execute
  <2>2. /\ pid \in AllowedAnswers /\ mlfq'.running = pid /\ InPlace(mlfq', Alive)
        /\ pid # IDLE => \A j \in Alive : mlfq'.level_of[pid] <= mlfq'.level_of[j]
        /\ ~ IsBoost(tick) => StandingKept(mlfq, mlfq', Alive) /\ LinesKept(mlfq, mlfq')
        /\ IsBoost(tick) => /\ \A i \in Alive : RestIn(mlfq', i) = LevelQuantum[0]
                            /\ Boosts(mlfq, mlfq')
    BY <1>6, <2>1, MlfqAnswers
  <2>3. Abstract!BoostDue <=> IsBoost(tick)
    BY MlfqAssumption DEF Abstract!BoostDue, IsBoost
  <2>4. IF Abstract!BoostDue THEN Abstract!Boost ELSE UNCHANGED Abstract!lines
    <3>1. CASE IsBoost(tick)
      BY <1>0, <2>1, <2>2, <2>3, <3>1, BoostIsBoost
    <3>2. CASE ~ IsBoost(tick)
      BY <1>3, <2>1, <2>2, <2>3, <3>2 DEF StandingKept
    <3> QED
      BY <3>1, <3>2
  <2>5. pid = IDLE => Alive = {}
    <3>1. Alive = Ready
      BY <1>0, <2>1, AliveIsReady
    <3> QED
      BY <1>0, <2>2, <3>1 DEF AllowedAnswers
  <2>6. \A Q : Q = L' => pid = Abstract!FrontOf(Q)
    <3>1. ASSUME NEW Q, Q = L' PROVE pid = Abstract!FrontOf(Q)
      <4>1. Q = [lv \in Levels |-> Line(mlfq', lv)]
        BY <1>2, <3>1
      <4> QED
        BY <1>0, <2>2, <2>5, <4>1, FrontIs
    <3> QED
      BY <3>1
  <2>7. Abstract!Choose(pid)
    BY <2>4, <2>6 DEF Abstract!Choose
  <2> QED
    BY <1>6, <2>7, SameEngine DEF Abstract!QueueNext
<1>7. ASSUME Execute, IF Finishing THEN mlfq_on_complete ELSE UNCHANGED mlfq
      PROVE  Abstract!QueueNext
  <2>1. /\ mlfq.running = next /\ next # IDLE /\ next \in Alive
        /\ Alive' = IF remaining[next] = 1 THEN Alive \ {next} ELSE Alive
    BY <1>0, <1>1, <1>7 DEF Execute, MlfqIInv, MlfqInv
  <2>2. CASE ~ Finishing
    <3>1. UNCHANGED Abstract!lines
      BY <1>3, <1>7, <2>1, <2>2 DEF Finishing, LinesKept
    <3> QED
      BY <1>7, <2>2, <3>1, SameEngine DEF Abstract!QueueNext
  <2>3. CASE Finishing
    <3> DEFINE lv == mlfq.level
    <3>1. /\ mlfq'.running = IDLE /\ mlfq'.queue = mlfq.queue /\ mlfq'.saved = mlfq.saved
          /\ mlfq'.level_of = mlfq.level_of /\ Alive' = Alive \ {next}
      BY <1>0, <1>7, <2>1, <2>3 DEF mlfq_on_complete, Finishing, MlfqStates
    <3>2. /\ Abstract!LevelOf(next) = lv /\ lv \in Levels
          /\ Line(mlfq, lv) = <<next>> \o Contents(mlfq.queue[lv])
          /\ Contents(mlfq.queue[lv]) \in Seq(Leftover \cup Procs)
      BY <1>0, <2>1, WhereIs, LineHolds DEF Line
    <3>3. /\ Line(mlfq', lv) = Tail(Line(mlfq, lv))
          /\ \A m \in Levels \ {lv} : Line(mlfq', m) = Line(mlfq, m)
      BY <2>1, <3>1, <3>2, InFront DEF Line
    <3>4. ASSUME NEW j \in Procs PROVE (RestOf(j))' = IF j = next THEN 0 ELSE RestOf(j)
      <4>1. j # IDLE /\ (j # next => RestIn(mlfq', j) = RestIn(mlfq, j))
        BY <1>0, <2>1, <3>1 DEF RestIn
      <4> QED
        BY <1>2, <3>1, <4>1
    <3>5. L' = [L EXCEPT ![lv] = Tail(@)] /\ R' = [R EXCEPT ![next] = 0]
      BY <1>0, <1>2, <2>1, <3>2, <3>3, <3>4
    <3>6. Abstract!Leave
      BY <3>2, <3>5 DEF Abstract!Leave
    <3> QED
      BY <1>7, <2>3, <3>6, SameEngine DEF Abstract!QueueNext
  <2> QED
    BY <2>2, <2>3
<1>8. ASSUME EndTick, mlfq_on_tick_end PROVE Abstract!QueueNext
  <2>1. /\ Alive' = Alive
        /\ mlfq.running = IF next # IDLE /\ remaining[next] > 0 THEN next ELSE IDLE
        /\ next # IDLE => next \in Procs /\ remaining[next] \in Nat
    <3>1. next # IDLE => next \in Procs /\ remaining[next] \in Nat
      BY <1>0, <1>8 DEF EndTick, TypeInv, TypeOK, PhaseInv
    <3> QED
      BY <1>1, <1>8, <3>1 DEF EndTick, Admit, Execute, MlfqIInv, MlfqInv
  <2>2. CASE mlfq.running = IDLE
    <3>1. next = IDLE \/ remaining[next] = 0
      BY <2>1, <2>2
    <3>2. mlfq' = mlfq
      BY <1>8, <2>2 DEF mlfq_on_tick_end
    <3>3. UNCHANGED Abstract!lines
      BY <1>3, <2>1, <3>2 DEF LinesKept
    <3> QED
      BY <1>8, <3>1, <3>3, SameEngine DEF Abstract!QueueNext, Abstract!Spend, Abstract!IDLE, IDLE
  <2>3. CASE mlfq.running # IDLE
    <3> DEFINE lv == mlfq.level
               to == LevelBelow(lv)
    <3>1. /\ mlfq.running = next /\ next # IDLE /\ next \in Alive /\ remaining[next] # 0
          /\ lv \in Levels /\ to \in Levels /\ to = Below(lv)
          /\ Abstract!LevelOf(next) = lv /\ LevelQuantum[lv] # 0
          /\ RestOf(next) = mlfq.left
      <4>1. mlfq.running = next /\ next # IDLE /\ next \in Alive /\ remaining[next] # 0
        BY <1>0, <2>1, <2>3
      <4>2. lv \in Levels /\ Abstract!LevelOf(next) = lv
        BY <1>0, <2>3, <4>1, WhereIs
      <4>3. LevelQuantum[lv] # 0
        BY <4>2, QuantaArePositive
      <4>4. to \in Levels /\ to = Below(lv)
        BY <4>2 DEF LevelBelow, Below, Levels
      <4> QED
        BY <1>2, <4>1, <4>2, <4>3, <4>4 DEF RestIn
    <3>2. /\ StandingKept(mlfq, mlfq', Alive \ {next})
          /\ mlfq.left > 1 => RestIn(mlfq', next) = mlfq.left - 1 /\ LinesKept(mlfq, mlfq')
          /\ mlfq.left = 1 => /\ RestIn(mlfq', next) = LevelQuantum[to]
                              /\ Sent(mlfq, mlfq', next, lv, to)
      BY <1>8, <2>3, <3>1, TickEndIs
    <3> HIDE DEF lv, to
    <3>3. CASE mlfq.left > 1
      <4>1. ASSUME NEW j \in Procs PROVE (RestOf(j))' = IF j = next THEN RestOf(j) - 1 ELSE RestOf(j)
        BY <1>2, <2>1, <3>1, <3>2, <3>3 DEF StandingKept
      <4>2. L' = L /\ R' = [R EXCEPT ![next] = @ - 1] /\ R[next] > 1
        BY <1>0, <1>2, <3>1, <3>2, <3>3, <4>1 DEF LinesKept
      <4>3. Abstract!Spend
        BY <3>1, <4>2 DEF Abstract!Spend, Abstract!IDLE, IDLE
      <4> QED
        BY <1>8, <4>3, SameEngine DEF Abstract!QueueNext
    <3>4. CASE ~ (mlfq.left > 1)
      <4>0. mlfq.left = 1
        BY <1>0, <2>3, <3>4
      <4>1. ASSUME NEW j \in Procs
            PROVE  (RestOf(j))' = IF j = next THEN LevelQuantum[to] ELSE RestOf(j)
        BY <1>2, <2>1, <3>1, <3>2, <4>0 DEF StandingKept
      <4>2. Contents(mlfq.queue[lv]) = Tail(Line(mlfq, lv))
        <5>1. Contents(mlfq.queue[lv]) \in Seq(Leftover \cup Procs)
          BY <1>0, <3>1, LineHolds
        <5> QED
          BY <3>2, <4>0, <5>1, InFront DEF Sent
      <4>3. \A m \in Levels :
                LET kept == IF m = lv THEN Tail(Line(mlfq, lv)) ELSE Line(mlfq, m)
                IN  Line(mlfq', m) = IF m = to THEN Append(kept, next) ELSE kept
        BY <3>2, <4>0, <4>2 DEF Sent
      <4>4. /\ L' = [[L EXCEPT ![lv] = Tail(@)] EXCEPT ![to] = Append(@, next)]
            /\ R' = [R EXCEPT ![next] = LevelQuantum[to]] /\ ~ (R[next] > 1)
        BY <1>0, <1>2, <3>1, <3>4, <4>1, <4>3
      <4>5. Abstract!Spend
        BY <3>1, <4>4 DEF Abstract!Spend, Abstract!IDLE, IDLE, to
      <4> QED
        BY <1>8, <4>5, SameEngine DEF Abstract!QueueNext
    <3> QED
      BY <3>3, <3>4
  <2> QED
    BY <2>2, <2>3
<1> QED
  BY <1>4, <1>5, <1>6, <1>7, <1>8 DEF MlfqNext

\* mlfq.c implements the abstract queues, fairness apart: the boost, which
\* rebuilds the top ring from the process table, gathers the members of the
\* lines, whatever is running, saved, displaced or just demoted at that tick.
THEOREM MlfqImplementsQueues == MlfqSpec => Abstract!QueueSafety
<1> DEFINE I == MlfqIInv /\ BegunInv
<1>1. MlfqInit => Abstract!QueueInit /\ I
  <2> SUFFICES ASSUME MlfqInit PROVE Abstract!QueueInit /\ I
    OBVIOUS
  <2>1. I
    BY MlfqInvInit, BegunInvInit
  <2>2. mlfq.running = IDLE /\ \A lv \in Levels : Contents(mlfq.queue[lv]) = <<>>
    BY ProcessTableAssumption DEF MlfqInit, mlfq_init, EmptyRings, Contents
  <2>3. \A lv \in Levels : InOrder(lv) = <<>>
    BY <2>2 DEF InOrder, Queued
  <2>4. \A i : RestOf(i) = 0
    BY <2>3 DEF RestOf, Range
  <2>5. DOMAIN LevelQuantum = Levels
    BY MlfqAssumption
  <2> QED
    BY <2>1, <2>3, <2>4, <2>5, SameEngine DEF MlfqInit, Abstract!QueueInit
<1>2. I /\ [MlfqNext]_MlfqVars => I' /\ [Abstract!QueueNext]_(Abstract!QueueVars)
  <2>1. UNCHANGED MlfqVars => UNCHANGED Abstract!QueueVars
    BY DEF MlfqVars, vars, table, Procs, InOrder, Queued, RestOf, RestAt, Abstract!QueueVars,
       Abstract!vars, Abstract!table, Abstract!result, result, Abstract!lines
  <2> QED
    BY <2>1, MlfqInvStep, BegunStep, MlfqStepIsQueueStep
<1> QED
  BY <1>1, <1>2, PTL DEF MlfqSpec, Abstract!QueueSafety

-----------------------------------------------------------------------------
\* Two sequences of naturals in increasing order that have the same members
\* are the same sequence.
LEMMA SameMembers ==
    ASSUME NEW S, NEW p \in Seq(S), NEW q \in Seq(S), Increasing(p), Increasing(q),
           Range(p) = Range(q), \A k \in DOMAIN p : p[k] \in Nat
    PROVE  \A k \in DOMAIN p : k \in DOMAIN q /\ p[k] = q[k]
<1> DEFINE Wrong == {k \in DOMAIN p : ~ (k \in DOMAIN q /\ p[k] = q[k])}
<1>0. /\ DOMAIN p = 1..Len(p) /\ DOMAIN q = 1..Len(q) /\ Len(p) \in Nat /\ Len(q) \in Nat
      /\ \A k \in DOMAIN p : \E m \in DOMAIN q : q[m] = p[k]
      /\ \A k \in DOMAIN q : \E m \in DOMAIN p : p[m] = q[k]
      /\ \A k \in DOMAIN q : q[k] \in Nat
  <2>1. /\ \A k \in DOMAIN p : \E m \in DOMAIN q : q[m] = p[k]
        /\ \A k \in DOMAIN q : \E m \in DOMAIN p : p[m] = q[k]
    <3>1. ASSUME NEW k \in DOMAIN p PROVE \E m \in DOMAIN q : q[m] = p[k]
      <4>1. p[k] \in Range(q)
        BY DEF Range
      <4> QED
        BY <4>1 DEF Range
    <3>2. ASSUME NEW k \in DOMAIN q PROVE \E m \in DOMAIN p : p[m] = q[k]
      <4>1. q[k] \in Range(p)
        BY DEF Range
      <4> QED
        BY <4>1 DEF Range
    <3> QED
      BY <3>1, <3>2
  <2>2. \A k \in DOMAIN q : q[k] \in Nat
    BY <2>1
  <2>3. DOMAIN p = 1..Len(p) /\ DOMAIN q = 1..Len(q) /\ Len(p) \in Nat /\ Len(q) \in Nat
    OBVIOUS
  <2> QED
    BY <2>1, <2>2, <2>3
<1>1. SUFFICES ASSUME Wrong # {} PROVE FALSE
  OBVIOUS
<1>2. PICK k \in Wrong : \A j \in Wrong : k <= j
  <2>1. Wrong \in SUBSET Nat
    BY <1>0
  <2> HIDE DEF Wrong
  <2> QED
    BY <1>1, <2>1, LeastNat
<1>3. /\ k \in 1..Len(p) /\ k \in Nat
      /\ \A j \in 1..Len(p) : j < k => j \in 1..Len(q) /\ p[j] = q[j]
  <2>1. k \in 1..Len(p) /\ k \in Nat
    BY <1>0
  <2>2. ASSUME NEW j \in 1..Len(p), j < k PROVE j \in 1..Len(q) /\ p[j] = q[j]
    <3>1. ~ (k <= j)
      BY <2>1, <2>2
    <3> QED
      BY <1>0, <1>2, <3>1
  <2> QED
    BY <2>1, <2>2
<1>4. PICK m \in 1..Len(q) : q[m] = p[k]
  BY <1>0, <1>3
<1>5. m >= k
  <2>1. CASE m < k
    <3>1. m \in 1..Len(p) /\ p[m] = p[k]
      BY <1>0, <1>3, <1>4, <2>1
    <3>2. p[m] < p[k] /\ p[m] \in Nat
      BY <1>0, <1>3, <2>1, <3>1 DEF Increasing
    <3> QED
      BY <3>1, <3>2
  <2> QED
    BY <1>3, <2>1
<1>6. k \in 1..Len(q)
  BY <1>0, <1>3, <1>5
<1>7. PICK l \in 1..Len(p) : p[l] = q[k]
  BY <1>0, <1>6
<1>8. l >= k
  <2>1. CASE l < k
    <3>1. l \in 1..Len(q) /\ q[l] = q[k]
      BY <1>3, <1>7, <2>1
    <3>2. q[l] < q[k] /\ q[l] \in Nat
      BY <1>0, <1>6, <2>1, <3>1 DEF Increasing
    <3> QED
      BY <3>1, <3>2
  <2> QED
    BY <1>3, <2>1
<1>9. p[k] <= p[l] /\ q[k] <= q[m]
  <2>1. k = l \/ k < l
    BY <1>3, <1>8
  <2>2. k = m \/ k < m
    BY <1>3, <1>5
  <2>3. /\ p[k] \in Nat /\ p[l] \in Nat /\ q[k] \in Nat /\ q[m] \in Nat
        /\ k < l => p[k] < p[l]
        /\ k < m => q[k] < q[m]
    BY <1>0, <1>3, <1>6 DEF Increasing
  <2> QED
    BY <2>1, <2>2, <2>3
<1>10. p[k] = q[k]
  <2>1. p[k] \in Nat /\ q[k] \in Nat
    BY <1>0, <1>3, <1>6
  <2> QED
    BY <1>4, <1>7, <1>9, <2>1
<1> QED
  BY <1>0, <1>2, <1>6, <1>10

LEMMA OneOrder ==
    ASSUME NEW S, NEW p \in Seq(S), NEW q \in Seq(S), Increasing(p), Increasing(q),
           Range(p) = Range(q), \A k \in DOMAIN p : p[k] \in Nat
    PROVE  p = q
<1>1. \A k \in DOMAIN q : q[k] \in Nat
  BY DEF Range
<1>2. /\ \A k \in DOMAIN p : k \in DOMAIN q /\ p[k] = q[k]
      /\ \A k \in DOMAIN q : k \in DOMAIN p /\ q[k] = p[k]
  BY <1>1, SameMembers
<1>3. DOMAIN p = 1..Len(p) /\ DOMAIN q = 1..Len(q) /\ Len(p) \in Nat /\ Len(q) \in Nat
  OBVIOUS
<1>4. Len(p) = Len(q)
  <2> DEFINE n == Len(p)
             m == Len(q)
  <2>1. /\ n \in Nat /\ m \in Nat
        /\ \A k \in 1..n : k \in 1..m
        /\ \A k \in 1..m : k \in 1..n
    BY <1>2, <1>3
  <2> HIDE DEF n, m
  <2>2. (n > 0 => n \in 1..n) /\ (m > 0 => m \in 1..m)
    BY <2>1
  <2>3. n = m
    BY <2>1, <2>2
  <2> QED
    BY <2>3 DEF n, m
<1> QED
  BY <1>2, <1>4, SeqEqual

LEMMA WithoutFirst ==
    ASSUME NEW S, NEW q \in Seq(S), NEW r, Increasing(<<r>> \o q)
    PROVE  Increasing(q)
<1> DEFINE a == <<r>> \o q
           n == Len(q)
<1>1. /\ DOMAIN a = 1..(n + 1) /\ \A k \in 1..n : a[k + 1] = q[k]
      /\ DOMAIN q = 1..n /\ n \in Nat
  OBVIOUS
<1>2. Increasing(a)
  OBVIOUS
<1> HIDE DEF a, n
<1>3. ASSUME NEW j \in 1..n, NEW k \in 1..n, j < k PROVE q[j] < q[k]
  <2>1. j + 1 \in 1..(n + 1) /\ k + 1 \in 1..(n + 1) /\ j + 1 < k + 1
    BY <1>1, <1>3
  <2>2. a[j + 1] < a[k + 1]
    BY <1>1, <1>2, <2>1 DEF Increasing
  <2> QED
    BY <1>1, <2>2
<1> QED
  BY <1>1, <1>3 DEF Increasing

-----------------------------------------------------------------------------
\* Short bursts.  Nobody has more work left than slice, so nobody is ever sent
\* down or back, and the top line is in table order: an arrival is the last
\* row of the table so far, and a boost has nothing to rearrange.
Owed(i) == IF phase = "tick_end" /\ i = next THEN remaining[i] + 1 ELSE remaining[i]

ShortInv ==
    /\ Increasing(Line(mlfq, 0))
    /\ \A i \in Alive : mlfq.level_of[i] = 0 /\ Owed(i) <= RestIn(mlfq, i)

LEMMA ShortFacts ==
    ASSUME MlfqIInv, ShortInv
    PROVE  /\ TypeInv /\ InPlace(mlfq, Alive) /\ mlfq \in MlfqStates /\ mlfq.left \in Nat
           /\ Alive \subseteq Procs /\ IDLE \notin Procs /\ 0 \in Levels
           /\ \A i \in Procs : remaining[i] \in Nat /\ i \in Nat
           /\ LevelQuantum[0] \in Nat
           /\ mlfq.running # IDLE => mlfq.running \in Alive /\ mlfq.level = 0
           /\ Contents(mlfq.queue[0]) \in Seq(Leftover \cup Procs)
           /\ Line(mlfq, 0) \in Seq(Leftover \cup Procs)
           /\ Range(Line(mlfq, 0)) = Alive
           /\ Range(Contents(mlfq.queue[0])) = Alive \ {mlfq.running}
<1>1. /\ TypeInv /\ InPlace(mlfq, Alive) /\ mlfq \in MlfqStates /\ mlfq.left \in Nat
      /\ Alive \subseteq Procs /\ IDLE \notin Procs /\ 0 \in Levels
      /\ \A i \in Procs : remaining[i] \in Nat /\ i \in Nat
      /\ LevelQuantum[0] \in Nat
      /\ mlfq.running # IDLE => mlfq.running \in Alive /\ mlfq.level = 0
  <2>1. TypeInv /\ InPlace(mlfq, Alive) /\ mlfq \in MlfqStates
    BY DEF MlfqIInv, MlfqInv, MetricsInv, InPlace, RingsHold
  <2>2. mlfq.running # IDLE => mlfq.running \in Alive /\ mlfq.level = 0
    BY DEF MlfqIInv, MlfqInv, InPlace, RunsWithRest, ShortInv
  <2>3. 0 \in Levels
    BY DEF Levels
  <2>4. Alive \subseteq Procs /\ IDLE \notin Procs /\ \A i \in Procs : i \in Nat
    BY <2>1, TableTypes
  <2>5. \A i \in Procs : remaining[i] \in Nat
    BY <2>1 DEF TypeInv, TypeOK
  <2> QED
    BY <2>1, <2>2, <2>3, <2>4, <2>5, QuantaArePositive DEF MlfqStates
<1>2. /\ \A i : i \in Range(Line(mlfq, 0)) <=> i \in Alive
      /\ Contents(mlfq.queue[0]) \in Seq(Leftover \cup Procs)
  BY <1>1, LineHolds DEF ShortInv
<1>3. Range(Contents(mlfq.queue[0])) = Alive \ {mlfq.running}
  <2>1. Range(Contents(mlfq.queue[0])) = At(mlfq, Alive, 0)
    BY <1>1, RingRange DEF InPlace
  <2> QED
    BY <2>1 DEF At, ShortInv
<1>4. Line(mlfq, 0) \in Seq(Leftover \cup Procs)
  <2>1. CASE mlfq.running # IDLE
    <3>1. <<mlfq.running>> \in Seq(Leftover \cup Procs)
      BY <1>1, <2>1
    <3>2. Line(mlfq, 0) = <<mlfq.running>> \o Contents(mlfq.queue[0])
      BY <1>1, <2>1 DEF Line
    <3> QED
      BY <1>2, <3>1, <3>2
  <2>2. CASE mlfq.running = IDLE
    BY <1>2, <2>2 DEF Line
  <2> QED
    BY <2>1, <2>2
<1> QED
  BY <1>1, <1>2, <1>3, <1>4

\* A pick, with a boost or without, leaves the top line as it is.
LEMMA ShortPick ==
    ASSUME MlfqIInv, ShortInv, NEW pid, mlfq_pick_next(pid), phase = "admit", AllAdmitted,
           \A i \in Alive : remaining[i] <= LevelQuantum[0]
    PROVE  /\ Line(mlfq', 0) = Line(mlfq, 0)
           /\ \A i \in Alive : mlfq'.level_of[i] = 0 /\ remaining[i] <= RestIn(mlfq', i)
<1> DEFINE q == Contents(mlfq.queue[0])
           S == Leftover \cup Procs
<1>0. \A i \in Alive : mlfq.level_of[i] = 0 /\ remaining[i] <= RestIn(mlfq, i)
  BY DEF ShortInv, Owed
<1>1. CASE ~ IsBoost(tick)
  <2>1. StandingKept(mlfq, mlfq', Alive) /\ LinesKept(mlfq, mlfq')
    BY <1>1, MlfqAnswers
  <2> QED
    BY <1>0, <2>1, ShortFacts DEF StandingKept, LinesKept
<1>2. CASE IsBoost(tick)
  <2>1. /\ \A i \in Alive : mlfq'.level_of[i] = 0 /\ RestIn(mlfq', i) = LevelQuantum[0]
        /\ Boosts(mlfq, mlfq')
    BY <1>2, MlfqAnswers
  <2>2. PICK others \in Seq(S) :
            /\ Increasing(others) /\ Range(others) = Alive \ {mlfq.running}
            /\ Line(mlfq', 0) = IF mlfq.running = IDLE THEN others
                                ELSE <<mlfq.running>> \o others
    BY <2>1 DEF Boosts
  <2>3. q \in Seq(S) /\ Range(q) = Alive \ {mlfq.running}
    BY ShortFacts
  <2>4. /\ Line(mlfq, 0) = IF mlfq.running = IDLE THEN q ELSE <<mlfq.running>> \o q
        /\ Increasing(Line(mlfq, 0))
    BY ShortFacts DEF Line, ShortInv
  <2>5. Increasing(q)
    <3> HIDE DEF q, S
    <3> QED
      BY <2>3, <2>4, WithoutFirst
  <2>6. \A k \in DOMAIN q : q[k] \in Nat
    <3>1. \A k \in DOMAIN q : q[k] \in Range(q)
      BY DEF Range
    <3> QED
      BY <2>3, <3>1, ShortFacts
  <2>7. q = others
    <3> HIDE DEF q, S
    <3> QED
      BY <2>2, <2>3, <2>5, <2>6, OneOrder
  <2>8. Line(mlfq', 0) = Line(mlfq, 0)
    <3> HIDE DEF q, S
    <3> QED
      BY <2>2, <2>4, <2>7
  <2>9. \A i \in Alive : mlfq'.level_of[i] = 0 /\ remaining[i] <= RestIn(mlfq', i)
    BY <2>1
  <2> QED
    BY <2>8, <2>9
<1> QED
  BY <1>1, <1>2

\* A slice never runs out.
LEMMA ShortTickEnd ==
    ASSUME MlfqIInv, ShortInv, EndTick, mlfq_on_tick_end
    PROVE  /\ Line(mlfq', 0) = Line(mlfq, 0)
           /\ \A i \in Alive : mlfq'.level_of[i] = 0 /\ remaining[i] <= RestIn(mlfq', i)
<1>0. /\ \A i \in Alive : /\ mlfq.level_of[i] = 0 /\ Owed(i) <= RestIn(mlfq, i)
                          /\ i \in Procs /\ i # IDLE /\ remaining[i] \in Nat \ {0}
      /\ mlfq.running = IF next # IDLE /\ remaining[next] > 0 THEN next ELSE IDLE
      /\ phase = "tick_end" /\ mlfq \in MlfqStates
  BY ShortFacts DEF ShortInv, EndTick, MlfqIInv, MlfqInv, Alive
<1>1. CASE mlfq.running = IDLE
  <2>1. mlfq' = mlfq
    BY <1>1 DEF mlfq_on_tick_end
  <2>2. \A i \in Alive : i # next
    BY <1>0, <1>1
  <2> QED
    BY <1>0, <2>1, <2>2 DEF Owed
<1>2. CASE mlfq.running # IDLE
  <2> DEFINE i == mlfq.running
  <2>1. /\ i = next /\ i \in Alive /\ mlfq.level = 0
        /\ mlfq.left \in Nat
        /\ StandingKept(mlfq, mlfq', Alive \ {i})
        /\ mlfq.left > 1 => /\ mlfq'.level_of[i] = mlfq.level
                            /\ RestIn(mlfq', i) = mlfq.left - 1
                            /\ LinesKept(mlfq, mlfq')
    BY <1>0, <1>2, TickEndIs, ShortFacts
  <2>2. remaining[i] + 1 <= mlfq.left
    <3>1. Owed(i) = remaining[i] + 1 /\ RestIn(mlfq, i) = mlfq.left
      BY <1>0, <2>1 DEF Owed, RestIn
    <3> QED
      BY <1>0, <2>1, <3>1
  <2>3. mlfq.left > 1 /\ remaining[i] <= mlfq.left - 1
    BY <1>0, <2>1, <2>2
  <2>4. \A j \in Alive \ {i} : Owed(j) = remaining[j]
    BY <2>1 DEF Owed
  <2> QED
    BY <1>0, <2>1, <2>3, <2>4, ShortFacts DEF StandingKept, LinesKept
<1> QED
  BY <1>1, <1>2

LEMMA ShortStep ==
    ASSUME MlfqIInv, ShortBursts, ShortInv, [MlfqNext]_MlfqVars
    PROVE  ShortInv'
<1>0. /\ MetricsInv /\ Procs' = Procs /\ trace' = trace
      /\ \A i \in Procs : Admit(i) => i \notin Alive /\ Alive' = Alive \cup {i}
      /\ Execute => /\ next \in Alive
                    /\ Alive' = IF remaining[next] = 1 THEN Alive \ {next} ELSE Alive
      /\ Execute \/ (\E i \in Procs : Admit(i)) \/ Alive' = Alive
  BY MlfqNextIsWCNext, AliveStep, WCNextIsNext, TraceStep DEF MlfqIInv, MetricsInv, Procs
<1>1. /\ \A i \in Alive : mlfq.level_of[i] = 0 /\ Owed(i) <= RestIn(mlfq, i)
      /\ Increasing(Line(mlfq, 0))
  BY DEF ShortInv
<1>2. \A i \in Procs : remaining[i] <= LevelQuantum[0]
  <2>1. \A i \in Procs : /\ remaining[i] <= trace[i].burst /\ trace[i].burst <= LevelQuantum[0]
                         /\ trace[i].burst \in Nat /\ remaining[i] \in Nat
    BY <1>0, RowTypes, ShortFacts DEF MetricsInv, WorkInv, ShortBursts, TypeInv, TypeOK, Procs
  <2> QED
    BY <2>1, ShortFacts
<1>3. SUFFICES /\ Increasing(Line(mlfq', 0))
               /\ \A i \in Alive' : mlfq'.level_of[i] = 0 /\ Owed(i)' <= RestIn(mlfq', i)
  BY DEF ShortInv, Increasing, Line, RestIn
<1>4. ASSUME NEW i \in Procs, Admit(i), mlfq_on_arrival(i)
      PROVE  /\ Increasing(Line(mlfq', 0))
             /\ \A j \in Alive' : mlfq'.level_of[j] = 0 /\ Owed(j)' <= RestIn(mlfq', j)
  <2>1. /\ i \notin Alive /\ Alive' = Alive \cup {i}
        /\ Line(mlfq', 0) = Append(Line(mlfq, 0), i)
        /\ StandingKept(mlfq, mlfq', Alive)
        /\ mlfq'.level_of[i] = 0 /\ RestIn(mlfq', i) = LevelQuantum[0]
    BY <1>4, ArrivalIs
  <2>2. \A j \in Procs : Owed(j)' = remaining[j] /\ Owed(j) = remaining[j]
    BY <1>4 DEF Admit, Owed, table
  <2>3. Increasing(Append(Line(mlfq, 0), i))
    <3>1. \A j \in Alive : j < i
      BY <1>0, <1>4, ArrivesLast
    <3>2. \A k \in DOMAIN Line(mlfq, 0) : Line(mlfq, 0)[k] < i
      BY <3>1, ShortFacts DEF Range
    <3> QED
      BY <1>1, <3>2, OneMoreRow, ShortFacts
  <2>4. ASSUME NEW j \in Alive' PROVE mlfq'.level_of[j] = 0 /\ Owed(j)' <= RestIn(mlfq', j)
    <3>1. CASE j = i
      BY <1>2, <2>1, <2>2, <3>1
    <3>2. CASE j # i
      <4>1. j \in Alive /\ j \in Procs
        BY <2>1, <3>2, ShortFacts
      <4> QED
        BY <1>1, <2>1, <2>2, <4>1 DEF StandingKept
    <3> QED
      BY <3>1, <3>2
  <2> QED
    BY <2>1, <2>3, <2>4
<1>5. ASSUME NEW pid \in Answers, mlfq_pick_next(pid), Pick(pid)
      PROVE  /\ Increasing(Line(mlfq', 0))
             /\ \A j \in Alive' : mlfq'.level_of[j] = 0 /\ Owed(j)' <= RestIn(mlfq', j)
  <2>1. /\ phase = "admit" /\ AllAdmitted /\ remaining' = remaining /\ next' = pid
        /\ phase' = "tick_end" => pid = IDLE
        /\ Alive' = Alive
    <3>1. /\ phase = "admit" /\ AllAdmitted /\ remaining' = remaining /\ next' = pid
          /\ phase' = "tick_end" => pid = IDLE
      BY <1>5 DEF Pick, table
    <3> QED
      BY <1>0, <3>1 DEF Admit, Execute, AllAdmitted
  <2>2. /\ Line(mlfq', 0) = Line(mlfq, 0)
        /\ \A i \in Alive : mlfq'.level_of[i] = 0 /\ remaining[i] <= RestIn(mlfq', i)
    BY <1>2, <1>5, <2>1, ShortPick, ShortFacts
  <2>3. \A i \in Alive : Owed(i)' = remaining[i]
    BY <2>1, ShortFacts DEF Owed
  <2> QED
    BY <1>1, <2>1, <2>2, <2>3
<1>6. ASSUME Execute, IF Finishing THEN mlfq_on_complete ELSE UNCHANGED mlfq
      PROVE  /\ Increasing(Line(mlfq', 0))
             /\ \A j \in Alive' : mlfq'.level_of[j] = 0 /\ Owed(j)' <= RestIn(mlfq', j)
  <2>1. /\ mlfq.running = next /\ next # IDLE /\ next \in Alive
        /\ Alive' = IF remaining[next] = 1 THEN Alive \ {next} ELSE Alive
    BY <1>0, <1>6, ShortFacts DEF Execute, MlfqIInv, MlfqInv
  <2>2. \A j \in Procs : Owed(j)' = Owed(j)
    <3>1. /\ phase' = "tick_end" /\ phase = "execute" /\ next' = next
          /\ remaining' = [remaining EXCEPT ![next] = @ - 1]
          /\ remaining \in [Procs -> Nat]
      BY <1>0, <1>6 DEF Execute, MetricsInv, TypeInv, TypeOK
    <3>2. \A j \in Procs : remaining'[j] = IF j = next THEN remaining[j] - 1 ELSE remaining[j]
      BY <3>1
    <3> QED
      BY <3>1, <3>2 DEF Owed
  <2>3. CASE ~ Finishing
    BY <1>1, <1>6, <2>1, <2>2, <2>3, ShortFacts DEF Finishing
  <2>4. CASE Finishing
    <3>1. /\ mlfq'.running = IDLE /\ mlfq'.queue = mlfq.queue /\ mlfq'.saved = mlfq.saved
          /\ mlfq'.level_of = mlfq.level_of /\ Alive' = Alive \ {next}
      BY <1>6, <2>1, <2>4, ShortFacts DEF mlfq_on_complete, Finishing, MlfqStates
    <3>2. \A j \in Alive' : RestIn(mlfq', j) = RestIn(mlfq, j)
      BY <2>1, <3>1, ShortFacts DEF RestIn
    <3>3. Increasing(Line(mlfq', 0))
      <4>1. /\ Line(mlfq', 0) = Contents(mlfq.queue[0])
            /\ Line(mlfq, 0) = <<next>> \o Contents(mlfq.queue[0])
        BY <2>1, <3>1, ShortFacts DEF Line
      <4> QED
        BY <1>1, <4>1, WithoutFirst, ShortFacts
    <3> QED
      BY <1>1, <2>2, <3>1, <3>2, <3>3, ShortFacts
  <2> QED
    BY <2>3, <2>4
<1>7. ASSUME EndTick, mlfq_on_tick_end
      PROVE  /\ Increasing(Line(mlfq', 0))
             /\ \A j \in Alive' : mlfq'.level_of[j] = 0 /\ Owed(j)' <= RestIn(mlfq', j)
  <2>1. phase' = "test" /\ remaining' = remaining /\ Alive' = Alive
    BY <1>0, <1>7 DEF EndTick, table, Admit, Execute
  <2>2. /\ Line(mlfq', 0) = Line(mlfq, 0)
        /\ \A i \in Alive : mlfq'.level_of[i] = 0 /\ remaining[i] <= RestIn(mlfq', i)
    BY <1>7, ShortTickEnd
  <2>3. \A i \in Alive : Owed(i)' = remaining[i]
    BY <2>1 DEF Owed
  <2> QED
    BY <1>1, <2>1, <2>2, <2>3
<1>8. CASE \/ (LoopTest \/ Halt) /\ UNCHANGED mlfq
           \/ UNCHANGED MlfqVars
  <2>1. /\ mlfq' = mlfq /\ remaining' = remaining /\ next' = next
        /\ phase' = "tick_end" <=> phase = "tick_end"
    BY <1>8 DEF LoopTest, Halt, Returned, vars, MlfqVars, table, result
  <2>2. Alive' = Alive
    <3>1. CASE LoopTest \/ Returned
      BY <1>0, <3>1 DEF LoopTest, Returned, Admit, Execute
    <3>2. CASE UNCHANGED vars
      BY <3>2 DEF vars, table, Alive, Admitted, Procs
    <3> QED
      BY <1>8, <3>1, <3>2 DEF Halt, MlfqVars
  <2>3. \A i : Owed(i)' = Owed(i)
    BY <2>1 DEF Owed
  <2> QED
    BY <1>1, <2>1, <2>2, <2>3
<1> QED
  BY <1>4, <1>5, <1>6, <1>7, <1>8 DEF MlfqNext

\* The engine under the abstract specification is the same engine.
LEMMA OneLineEngine ==
    /\ OneLine!Init <=> Init
    /\ OneLine!Procs = Procs /\ OneLine!Answers = Answers
    /\ OneLine!LoopTest <=> LoopTest
    /\ \A i : OneLine!Admit(i) <=> Admit(i)
    /\ \A pid : OneLine!Pick(pid) <=> Pick(pid)
    /\ OneLine!Execute <=> Execute
    /\ OneLine!Finishing <=> Finishing
    /\ OneLine!EndTick <=> EndTick
    /\ OneLine!Halt <=> Halt
    /\ OneLine!vars = vars
<1>1. /\ OneLine!table = table /\ OneLine!result = result /\ OneLine!IDLE = IDLE
      /\ OneLine!Procs = Procs /\ OneLine!NOT_STARTED = NOT_STARTED
      /\ OneLine!Ticks = Ticks /\ OneLine!UnknownPid = UnknownPid
  BY DEF OneLine!table, table, OneLine!result, result, OneLine!IDLE, IDLE,
         OneLine!Procs, Procs, OneLine!NOT_STARTED, NOT_STARTED, OneLine!Ticks, Ticks,
         OneLine!UnknownPid, UnknownPid
<1>2. OneLine!vars = vars /\ OneLine!Answers = Answers
  BY <1>1 DEF OneLine!vars, vars, OneLine!Answers, Answers
<1>3. OneLine!Init <=> Init
  BY <1>1 DEF OneLine!Init, Init
<1>4. OneLine!LoopTest <=> LoopTest
  BY DEF OneLine!LoopTest, LoopTest, OneLine!CapReached, CapReached,
         OneLine!table, table, OneLine!result, result
<1>5. \A i : OneLine!Admit(i) <=> Admit(i)
  BY <1>1 DEF OneLine!Admit, Admit, OneLine!table, table, OneLine!result, result
<1>6. \A pid : OneLine!Pick(pid) <=> Pick(pid)
  <2>1. \A pid : OneLine!IsSwitch(pid) <=> IsSwitch(pid)
    BY <1>1 DEF OneLine!IsSwitch, IsSwitch
  <2>2. OneLine!Ready = Ready /\ OneLine!AllAdmitted = AllAdmitted
    BY <1>1 DEF OneLine!Ready, Ready, OneLine!AllAdmitted, AllAdmitted
  <2> QED
    BY <1>1, <2>1, <2>2 DEF OneLine!Pick, Pick, OneLine!table, table
<1>7. (OneLine!Finishing <=> Finishing) /\ (OneLine!Execute <=> Execute)
  BY <1>1 DEF OneLine!Execute, Execute, OneLine!Finishing, Finishing,
     OneLine!FirstDispatch, FirstDispatch, OneLine!StampOf, StampOf, OneLine!result, result
<1>8. OneLine!EndTick <=> EndTick
  BY DEF OneLine!EndTick, EndTick, OneLine!table, table, OneLine!result, result
<1>9. OneLine!Halt <=> Halt
  BY DEF OneLine!Halt, Halt, OneLine!Returned, Returned, OneLine!vars, vars,
     OneLine!table, table, OneLine!result, result
<1> QED
  BY <1>1, <1>2, <1>3, <1>4, <1>5, <1>6, <1>7, <1>8, <1>9

LEMMA OneLineStep ==
    ASSUME MlfqIInv, ShortBursts, ShortInv, MlfqNext
    PROVE  OneLine!QueueNext
<1> DEFINE L == [lv \in {0} |-> InOrder(0)]
<1>0. /\ Procs' = Procs /\ trace' = trace
      /\ \A i \in Procs : Admit(i) => i \notin Alive /\ Alive' = Alive \cup {i}
      /\ Execute => /\ next \in Alive
                    /\ Alive' = IF remaining[next] = 1 THEN Alive \ {next} ELSE Alive
      /\ Execute \/ (\E i \in Procs : Admit(i)) \/ Alive' = Alive
  BY MlfqNextIsWCNext, AliveStep, WCNextIsNext, TraceStep DEF MlfqIInv, MetricsInv, Procs
<1>1. InOrder(0) = Line(mlfq, 0) /\ InOrder(0)' = Line(mlfq', 0)
  BY DEF InOrder, Line, Queued
<1>2. \A i \in Procs : remaining[i] <= LevelQuantum[0]
  <2>1. \A i \in Procs : /\ remaining[i] <= trace[i].burst /\ trace[i].burst <= LevelQuantum[0]
                         /\ trace[i].burst \in Nat /\ remaining[i] \in Nat
    BY RowTypes, ShortFacts DEF MlfqIInv, MetricsInv, WorkInv, ShortBursts, TypeInv, TypeOK, Procs
  <2> QED
    BY <2>1, ShortFacts
<1>3. ASSUME Line(mlfq', 0) = Line(mlfq, 0) PROVE UNCHANGED OneLine!lines
  BY <1>0, <1>1, <1>3 DEF OneLine!lines
<1>4. ASSUME NEW i \in Alive PROVE OneLine!LevelOf(i) = 0
  <2>1. PICK k \in DOMAIN InOrder(0) : InOrder(0)[k] = i
    BY <1>1, ShortFacts DEF Range
  <2>2. OneLine!Occupied = {0}
    BY <2>1 DEF OneLine!Occupied
  <2>3. i \in OneLine!Members(0)
    BY <2>1 DEF OneLine!Members
  <2> QED
    BY <2>2, <2>3 DEF OneLine!LevelOf
<1>5. CASE (LoopTest \/ Halt) /\ UNCHANGED mlfq
  <2>1. UNCHANGED OneLine!lines
    BY <1>3, <1>5
  <2> QED
    BY <1>5, <2>1, OneLineEngine DEF OneLine!QueueNext
<1>6. ASSUME NEW i \in Procs, Admit(i), mlfq_on_arrival(i) PROVE OneLine!QueueNext
  <2>1. Line(mlfq', 0) = Append(Line(mlfq, 0), i)
    BY <1>6, ArrivalIs
  <2>2. OneLine!Arrive(i)
    BY <1>0, <1>1, <2>1 DEF OneLine!Arrive, TopLevel
  <2> QED
    BY <1>6, <2>2, OneLineEngine DEF OneLine!QueueNext
<1>7. ASSUME NEW pid \in Answers, mlfq_pick_next(pid), Pick(pid) PROVE OneLine!QueueNext
  <2>1. phase = "admit" /\ AllAdmitted
    BY <1>7 DEF Pick
  <2>2. /\ pid \in AllowedAnswers /\ mlfq'.running = pid /\ InPlace(mlfq', Alive)
        /\ Line(mlfq', 0) = Line(mlfq, 0)
        /\ \A i \in Alive : mlfq'.level_of[i] = 0
    BY <1>2, <1>7, <2>1, MlfqAnswers, ShortPick, ShortFacts
  <2>3. pid = OneLine!FrontOf(L')
    <3>1. L' = [lv \in {0} |-> Line(mlfq, 0)]
      BY <1>1, <2>2
    <3>2. CASE pid = IDLE
      <4>1. Alive = {}
        BY <2>1, <2>2, <3>2, AliveIsReady, ShortFacts DEF AllowedAnswers
      <4>2. Line(mlfq, 0) = <<>>
        <5>1. DOMAIN Line(mlfq, 0) = {}
          BY <4>1, ShortFacts DEF Range
        <5> QED
          BY <5>1, ShortFacts
      <4>3. {lv \in DOMAIN L' : L'[lv] # <<>>} = {}
        BY <3>1, <4>2
      <4> QED
        BY <3>2, <4>3 DEF OneLine!FrontOf, OneLine!IDLE, IDLE
    <3>3. CASE pid # IDLE
      <4>1. pid \in Alive /\ mlfq'.level = 0
        BY <2>2, <3>3 DEF InPlace, RunsWithRest
      <4>2. Contents(mlfq'.queue[0]) \in Seq(Leftover \cup Procs)
        BY <2>2, LineHolds, ShortFacts
      <4>3. Line(mlfq, 0) # <<>> /\ Head(Line(mlfq, 0)) = pid
        <5>1. Line(mlfq, 0) = <<pid>> \o Contents(mlfq'.queue[0])
          BY <2>2, <3>3, <4>1 DEF Line
        <5> QED
          BY <4>2, <5>1, InFront
      <4>4. {lv \in DOMAIN L' : L'[lv] # <<>>} = {0}
        BY <3>1, <4>3
      <4>5. OneLine!Min({0}) = 0
        BY DEF OneLine!Min
      <4> QED
        BY <3>1, <4>3, <4>4, <4>5 DEF OneLine!FrontOf
    <3> QED
      BY <3>2, <3>3
  <2>4. UNCHANGED OneLine!lines
    BY <1>3, <2>2
  <2>5. OneLine!Choose(pid)
    BY <2>3, <2>4 DEF OneLine!Choose, OneLine!BoostDue
  <2> QED
    BY <1>7, <2>5, OneLineEngine DEF OneLine!QueueNext
<1>8. ASSUME Execute, IF Finishing THEN mlfq_on_complete ELSE UNCHANGED mlfq
      PROVE  OneLine!QueueNext
  <2>1. mlfq.running = next /\ next # IDLE /\ next \in Alive
    BY <1>0, <1>8, ShortFacts DEF Execute, MlfqIInv, MlfqInv
  <2>2. CASE ~ Finishing
    <3>1. UNCHANGED OneLine!lines
      BY <1>3, <1>8, <2>2
    <3> QED
      BY <1>8, <2>2, <3>1, OneLineEngine DEF OneLine!QueueNext
  <2>3. CASE Finishing
    <3>1. mlfq'.running = IDLE /\ mlfq'.queue = mlfq.queue
      BY <1>8, <2>3, ShortFacts DEF mlfq_on_complete, MlfqStates
    <3>2. Line(mlfq', 0) = Tail(Line(mlfq, 0))
      <4>1. /\ Line(mlfq', 0) = Contents(mlfq.queue[0])
            /\ Line(mlfq, 0) = <<next>> \o Contents(mlfq.queue[0])
        BY <2>1, <3>1, ShortFacts DEF Line
      <4> QED
        BY <4>1, InFront, ShortFacts
    <3>3. OneLine!LevelOf(next) = 0
      BY <1>4, <2>1
    <3>4. OneLine!Leave
      BY <1>0, <1>1, <3>2, <3>3 DEF OneLine!Leave
    <3> QED
      BY <1>8, <2>3, <3>4, OneLineEngine DEF OneLine!QueueNext
  <2> QED
    BY <2>2, <2>3
<1>9. ASSUME EndTick, mlfq_on_tick_end PROVE OneLine!QueueNext
  <2>1. UNCHANGED OneLine!lines
    BY <1>3, <1>9, ShortTickEnd
  <2>2. next = IDLE \/ remaining[next] = 0 \/ next \in Alive
    <3>1. next # IDLE => next \in Procs /\ remaining[next] \in Nat
      BY <1>9, ShortFacts DEF EndTick, MlfqIInv, MetricsInv, TypeInv, TypeOK, PhaseInv
    <3>2. next # IDLE /\ remaining[next] > 0 => mlfq.running = next
      BY <1>9, <3>1 DEF EndTick, MlfqIInv, MlfqInv
    <3> QED
      BY <3>1, <3>2, ShortFacts
  <2>3. OneLine!Spend
    BY <1>4, <2>1, <2>2 DEF OneLine!Spend, OneLine!IDLE, IDLE
  <2> QED
    BY <1>9, <2>3, OneLineEngine DEF OneLine!QueueNext
<1> QED
  BY <1>5, <1>6, <1>7, <1>8, <1>9 DEF MlfqNext

\* On a trace where no burst can exhaust a top-level slice MLFQ is one line
\* without a quantum, step by step: the boosts, wherever they fall, find the
\* top line in table order and leave it so.
THEOREM ShortBurstsAreOneLineCorrect == MlfqSpec => ShortBurstsAreOneLine
<1> DEFINE I == MlfqIInv /\ (ShortBursts => ShortInv)
<1>1. MlfqInit => I /\ (ShortBursts => OneLine!QueueInit)
  <2> SUFFICES ASSUME MlfqInit PROVE I /\ OneLine!QueueInit
    OBVIOUS
  <2>1. MlfqIInv /\ Alive = {}
    <3>1. MlfqIInv /\ TypeInv /\ Init
      BY MlfqInvInit DEF MlfqInit, MlfqIInv, MetricsInv
    <3> QED
      BY <3>1, RowTypes DEF Init, TypeInv, TypeOK, Procs, Alive, Admitted
  <2>2. mlfq.running = IDLE /\ \A lv \in Levels : Contents(mlfq.queue[lv]) = <<>>
    BY ProcessTableAssumption DEF MlfqInit, mlfq_init, EmptyRings, Contents
  <2>3. Line(mlfq, 0) = <<>> /\ InOrder(0) = <<>>
    BY <2>2 DEF Line, InOrder, Queued, Levels
  <2>4. ShortInv
    BY <2>1, <2>3 DEF ShortInv, Increasing
  <2> QED
    BY <2>1, <2>3, <2>4, OneLineEngine DEF MlfqInit, OneLine!QueueInit
<1>2. I /\ [MlfqNext]_MlfqVars => I' /\ [ShortBursts => OneLine!QueueNext]_MlfqVars
  <2> SUFFICES ASSUME I, [MlfqNext]_MlfqVars
               PROVE  I' /\ [ShortBursts => OneLine!QueueNext]_MlfqVars
    OBVIOUS
  <2>1. MlfqIInv'
    BY MlfqInvStep
  <2>2. ShortBursts' <=> ShortBursts
    <3>1. trace' = trace
      BY MlfqNextIsWCNext, WCNextIsNext, TraceStep DEF MlfqIInv, MetricsInv
    <3> QED
      BY <3>1 DEF ShortBursts, Procs
  <2>3. ShortBursts' => ShortInv'
    BY <2>2, ShortStep
  <2> QED
    BY <2>1, <2>3, OneLineStep
<1> QED
  BY <1>1, <1>2, PTL DEF MlfqSpec, ShortBurstsAreOneLine

=============================================================================
