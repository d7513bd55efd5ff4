-------------------------------- MODULE Mlfq --------------------------------
(***************************************************************************)
(* src/sched/mlfq.c under the engine: three round-robin levels, everyone   *)
(* enters at the top, an exhausted slice costs a level, and a boost every  *)
(* BoostInterval ticks rebuilds level 0 from the process table.            *)
(*                                                                         *)
(* The variable mlfq is the program's mlfq_state struct, and the helpers   *)
(* are functions from one value of it to the next, as in the source.       *)
(***************************************************************************)
EXTENDS WorkConserving, Ring, Functions

CONSTANTS LevelQuantum,    \* LEVEL_QUANTUM
          BoostInterval,   \* BOOST_INTERVAL
          Leftover         \* what an earlier run may have left in a slot

VARIABLE mlfq

MlfqVars == <<vars, mlfq>>

Levels == 0..2
NO_LEVEL == -1

ASSUME MlfqAssumption ==
    /\ LevelQuantum \in [Levels -> Nat \ {0}]
    /\ BoostInterval \in Nat \ {0}
    /\ \A tr \in Traces : Len(tr) <= MaxProcesses

mlfq_init ==
    mlfq \in [queue : [Levels -> EmptyRings(Leftover)], saved : [Levels -> {0}],
              level_of : [Procs -> {0}],
              running : {IDLE}, level : {NO_LEVEL}, left : {0}]

push_tail(s, lv, i) ==
    [s EXCEPT !.queue[lv] = PushTail(@, i), !.level_of[i] = lv]

push_head(s, lv, i, rest) ==
    [s EXCEPT !.queue[lv] = PushHead(@, i), !.saved[lv] = rest, !.level_of[i] = lv]

\* pop_head and the assignments of its caller: the head takes the CPU.
pop_head(s, lv) ==
    [s EXCEPT !.queue[lv] = PopHead(@),
              !.saved[lv] = 0,
              !.running = AtFront(s.queue[lv]),
              !.level = lv,
              !.left = IF s.saved[lv] > 0 THEN s.saved[lv] ELSE LevelQuantum[lv]]

\* The highest level with anything queued is the one with the lowest number.
highest(s) ==
    LET occupied == {lv \in Levels : s.queue[lv].count > 0}
    IN  IF occupied = {} THEN NO_LEVEL ELSE Min(occupied)

\* Mutated forms: whoever is at the bottom is left there, and those that
\* arrive at the tick of the boost are not gathered.
Waits_NotBottom(s, i) ==
    /\ ~ (trace[i].arrival > tick \/ remaining[i] <= 0)
    /\ i # s.running
    /\ s.level_of[i] # 2

Waits_NotArriving(s, i) ==
    ~ (trace[i].arrival >= tick \/ remaining[i] <= 0) /\ i # s.running

\* An unfinished row that has arrived and is not on the CPU.
Waits(s, i) == ~ (trace[i].arrival > tick \/ remaining[i] <= 0) /\ i # s.running

\* Mutated form: the saved slices survive the boost.
EmptyQueues_KeepsSaved(s) ==
    [s EXCEPT !.queue = [lv \in Levels |-> [@[lv] EXCEPT !.head = 0, !.count = 0]]]

EmptyQueues(s) ==
    [s EXCEPT !.queue = [lv \in Levels |-> [@[lv] EXCEPT !.head = 0, !.count = 0]],
              !.saved = [lv \in Levels |-> 0]]

\* The loop over the table: after row k, those of the first k rows that wait
\* are in queue 0 and nobody else is in any.
Gathered(s) ==
    LET after[k \in 0..Len(trace)] ==
            IF k = 0 THEN EmptyQueues(s)
            ELSE IF Waits(s, k) THEN push_tail(after[k - 1], 0, k) ELSE after[k - 1]
    IN  after[Len(trace)]

\* Mutated form: the process on the CPU is skipped and never queued.
boost_Running_Lost(s) ==
    [Gathered(s) EXCEPT !.running = IDLE, !.level = NO_LEVEL, !.left = 0]

\* Everyone in table order, then the process on the CPU in front of them all.
boost(s) ==
    IF s.running = IDLE THEN Gathered(s)
    ELSE [push_head(Gathered(s), 0, s.running, LevelQuantum[0])
              EXCEPT !.running = IDLE, !.level = NO_LEVEL, !.left = 0]

IsBoost(t) == t > 0 /\ t % BoostInterval = 0

\* Entry is always level 0; the queue column is MLQ's.
mlfq_on_arrival(i) == mlfq' = push_tail(mlfq, 0, i)

\* A strictly higher queue has work.
Displaced(s) == s.running # IDLE /\ highest(s) # NO_LEVEL /\ highest(s) < s.level

Continues(s) == s.running # IDLE /\ ~ Displaced(s) /\ s.left > 0

Release(s) ==
    IF Displaced(s)
    THEN [push_head(s, s.level, s.running, s.left) EXCEPT !.running = IDLE]
    ELSE s

Dispatch(s) ==
    IF highest(s) = NO_LEVEL THEN [s EXCEPT !.running = IDLE, !.level = NO_LEVEL]
    ELSE pop_head(s, highest(s))

mlfq_pick_next(pid) ==
    LET s == IF IsBoost(tick) THEN boost(mlfq) ELSE mlfq
    IN  /\ mlfq' = IF Continues(s) THEN s ELSE Dispatch(Release(s))
        /\ pid = mlfq'.running

\* Mutated form: an exhausted slice never demotes.
Below_Stays(lv) == lv

\* Where an exhausted slice sends a process.
Below(lv) == IF lv + 1 \in Levels THEN lv + 1 ELSE lv

mlfq_on_tick_end ==
    mlfq' = IF next = IDLE \/ mlfq.running = IDLE THEN mlfq
            ELSE IF mlfq.left > 1 THEN [mlfq EXCEPT !.left = @ - 1]
            ELSE [push_tail(mlfq, Below(mlfq.level), mlfq.running)
                      EXCEPT !.left = @ - 1, !.running = IDLE]

mlfq_on_complete ==
    mlfq' = [mlfq EXCEPT !.running = IDLE, !.level = NO_LEVEL, !.left = 0]

MlfqInit == Init /\ mlfq_init

MlfqNext ==
    \/ LoopTest /\ UNCHANGED mlfq
    \/ \E i \in Procs : Admit(i) /\ mlfq_on_arrival(i)
    \/ \E pid \in Answers : mlfq_pick_next(pid) /\ Pick(pid)
    \/ Execute /\ (IF Finishing THEN mlfq_on_complete ELSE UNCHANGED mlfq)
    \/ EndTick /\ mlfq_on_tick_end
    \/ Halt /\ UNCHANGED mlfq

MlfqSpec == MlfqInit /\ [][MlfqNext]_MlfqVars /\ WF_MlfqVars(MlfqNext)

-----------------------------------------------------------------------------
Queued(lv) == Contents(mlfq.queue[lv])

\* The mapping: the running process is in front of what is queued at its
\* level; the saved slice is that of the head, and the others have whole ones.
InOrder(lv) ==
    IF mlfq.running # IDLE /\ mlfq.level = lv THEN <<mlfq.running>> \o Queued(lv) ELSE Queued(lv)
RestAt(lv, i) ==
    IF i = mlfq.running THEN mlfq.left
    ELSE IF mlfq.saved[lv] > 0 /\ i = Head(Queued(lv)) THEN mlfq.saved[lv]
    ELSE LevelQuantum[lv]
RestOf(i) ==
    IF \E lv \in Levels : i \in Range(InOrder(lv))
    THEN RestAt(CHOOSE lv \in Levels : i \in Range(InOrder(lv)), i) ELSE 0

TopLevel(row) == 0
SameLevel(lv) == lv
LevelBelow(lv) == IF lv < 2 THEN lv + 1 ELSE 2

Abstract == INSTANCE QueueDiscipline WITH
    EntryLevel <- TopLevel, NextLevel <- LevelBelow, BoostEvery <- BoostInterval,
    LevelQuanta <- {LevelQuantum},
    line <- [lv \in Levels |-> InOrder(lv)],
    rest <- [i \in Procs |-> RestOf(i)],
    quantum <- LevelQuantum

\* mlfq.c implements three lines with demotion and a boost that gathers the
\* members of the lines: rebuilding the queues from the process table loses and
\* invents nobody, whether the boost meets a process in mid-slice, displaced,
\* just demoted or just arrived, and levels and slices of all agree after it.
QueueSpec == Abstract!QueueSpec

\* No burst can use up a top-level slice, and the one line without a quantum.
ShortBursts == \A i \in Procs : trace[i].burst <= LevelQuantum[0]

OneLine == INSTANCE QueueDiscipline WITH
    EntryLevel <- TopLevel, NextLevel <- SameLevel, BoostEvery <- 0,
    LevelQuanta <- {[lv \in {0} |-> 0]},
    line <- [lv \in {0} |-> InOrder(0)],
    rest <- [i \in Procs |-> 0],
    quantum <- [lv \in {0} |-> 0]

\* SPEC.md cross-check: on a trace where no burst can exhaust a top-level slice
\* MLFQ is Round Robin with that quantum, which is then the one abstract line
\* of fcfs.c: no boost, however it falls, reorders anyone.
ShortBurstsAreOneLine ==
    /\ ShortBursts => OneLine!QueueInit
    /\ [][ShortBursts => OneLine!QueueNext]_MlfqVars

\* The last boost at or before the last decided tick, or 0.
LastBoost == Max({0} \cup {t \in Decided : IsBoost(t)})

\* Ticks i has executed since then.
SinceBoost(i) == Cardinality({t \in TicksOf(i) : t >= LastBoost})

\* The level of a process that has executed e ticks since it last entered
\* level 0, and how much of its slice is gone.
LevelAfter(e) ==
    IF e < LevelQuantum[0] THEN 0
    ELSE IF e < LevelQuantum[0] + LevelQuantum[1] THEN 1 ELSE 2
SpentAfter(e) ==
    CASE LevelAfter(e) = 0 -> e
      [] LevelAfter(e) = 1 -> e - LevelQuantum[0]
      [] LevelAfter(e) = 2 -> (e - LevelQuantum[0] - LevelQuantum[1]) % LevelQuantum[2]

\* SPEC.md invariant 9 and more: what a process executed since the last boost
\* alone decides its level and the rest of its slice.  Displacements, idle
\* ticks, completions of others and arrivals change neither; and in a queue
\* only the head of a level has a partial slice, the one that saved records.
LevelIsEarned ==
    /\ \A lv \in Levels : \A k \in DOMAIN Queued(lv) :
           LET e == SinceBoost(Queued(lv)[k])
               saved == IF k = 1 THEN mlfq.saved[lv] ELSE 0
           IN  /\ lv = LevelAfter(e)
               /\ mlfq.level_of[Queued(lv)[k]] = lv
               /\ SpentAfter(e) = IF saved > 0 THEN LevelQuantum[lv] - saved ELSE 0
    /\ mlfq.running # IDLE =>
           LET e == SinceBoost(mlfq.running) - (IF phase = "tick_end" THEN 1 ELSE 0)
           IN  /\ mlfq.level = LevelAfter(e)
               /\ mlfq.left = LevelQuantum[mlfq.level] - SpentAfter(e)

\* The level i was at when tick t was decided, read off the timeline.
LevelAt(i, t) ==
    LET from == Max({0} \cup {u \in Decided : u <= t /\ IsBoost(u)})
    IN  LevelAfter(Cardinality({u \in Decided : from <= u /\ u < t /\ timeline[u] = i}))

\* The level that runs is at every tick the highest one that wants the CPU.
HigherLevelsFirst ==
    \A t \in Decided : \A i, j \in Procs :
        timeline[t] = i /\ t \in Wanting(j) => LevelAt(i, t) <= LevelAt(j, t)

\* What a boost is for: as long as one interval has room for every process to
\* have a top-level slice, a process that wants the CPU from one boost to the
\* next executes in between, whatever the others do and however many arrive.
BoostFeedsEveryone ==
    \A i \in Procs : \A t \in Decided :
        /\ IsBoost(t)
        /\ Len(trace) * LevelQuantum[0] <= BoostInterval
        /\ t..(t + BoostInterval - 1) \subseteq Wanting(i)
        => \E u \in t..(t + BoostInterval - 1) : timeline[u] = i

\* SPEC.md section 6 (lines 148 to 150): a boost moves every unfinished process
\* to Q0, "including the one currently running.  They enter Q0 in tie-break
\* order", so the first in table order is the one dispatched.
BoostInTableOrder ==
    phase = "execute" /\ IsBoost(tick) => \A i \in Alive : next <= i
=============================================================================
