--------------------------------- MODULE Mlq ---------------------------------
(***************************************************************************)
(* src/sched/mlq.c under the engine: three queues, a process's queue fixed *)
(* by the trace file.  The process on the CPU is in no ring; when a higher *)
(* queue displaces it, it goes to the head of its own ring and the rest of *)
(* its slice to saved.                                                     *)
(*                                                                         *)
(* The variable mlq is the program's mlq_state struct, and the helpers are *)
(* functions from one value of it to the next, as in the source.           *)
(***************************************************************************)
EXTENDS WorkConserving, Ring

CONSTANTS LevelQuantum,   \* LEVEL_QUANTUM, 0 for the FCFS level
          Leftover        \* what an earlier run may have left in a slot

VARIABLE mlq

MlqVars == <<vars, mlq>>

Levels == 0..2
NO_LEVEL == -1

ASSUME MlqAssumption ==
    /\ LevelQuantum \in [Levels -> Nat]
    /\ \A tr \in Traces : Len(tr) <= MaxProcesses

mlq_init ==
    mlq \in [queue : [Levels -> EmptyRings(Leftover)], saved : [Levels -> {0}],
             running : {IDLE}, level : {NO_LEVEL}, left : {0}]

push_tail(s, lv, i) == [s EXCEPT !.queue[lv] = PushTail(@, i)]

\* Mutated form: the displaced process loses its slice.
push_head_Unsaved(s, lv, i, rest) == [s EXCEPT !.queue[lv] = PushHead(@, i)]

push_head(s, lv, i, rest) ==
    [s EXCEPT !.queue[lv] = PushHead(@, i), !.saved[lv] = rest]

\* Mutated form: the saved slice stays behind for the next head.
pop_head_KeepsSaved(s, lv) ==
    [s EXCEPT !.queue[lv] = PopHead(@),
              !.running = AtFront(s.queue[lv]),
              !.level = lv,
              !.left = IF s.saved[lv] > 0 THEN s.saved[lv] ELSE LevelQuantum[lv]]

\* pop_head and the assignments of its caller: the head takes the CPU.
pop_head(s, lv) ==
    [s EXCEPT !.queue[lv] = PopHead(@),
              !.saved[lv] = 0,
              !.running = AtFront(s.queue[lv]),
              !.level = lv,
              !.left = IF s.saved[lv] > 0 THEN s.saved[lv] ELSE LevelQuantum[lv]]

\* The highest level with anything queued is the one with the lowest number.
highest(s) ==
    LET occupied == {lv \in Levels : s.queue[lv].count > 0}
    IN  IF occupied = {} THEN NO_LEVEL ELSE Min(occupied)

mlq_on_arrival(i) == mlq' = push_tail(mlq, trace[i].queue, i)

\* Mutated form: nothing displaces the running process.
Displaced_Never(s) == FALSE

\* A strictly higher queue has work.
Displaced(s) == s.running # IDLE /\ highest(s) # NO_LEVEL /\ highest(s) < s.level

\* Level 2 is FCFS: it needs no slice to go on.
Continues(s) ==
    s.running # IDLE /\ ~ Displaced(s) /\ (LevelQuantum[s.level] = 0 \/ s.left > 0)

Release(s) ==
    IF Displaced(s)
    THEN [push_head(s, s.level, s.running, s.left) EXCEPT !.running = IDLE]
    ELSE s

Dispatch(s) ==
    IF highest(s) = NO_LEVEL THEN [s EXCEPT !.running = IDLE, !.level = NO_LEVEL]
    ELSE pop_head(s, highest(s))

mlq_pick_next(pid) ==
    /\ mlq' = IF Continues(mlq) THEN mlq ELSE Dispatch(Release(mlq))
    /\ pid = mlq'.running

\* Mutated form: the level without a quantum spends slices too.
HasSlice_AnyLevel == next # IDLE /\ mlq.running # IDLE

HasSlice == next # IDLE /\ mlq.running # IDLE /\ LevelQuantum[mlq.level] > 0

mlq_on_tick_end ==
    mlq' = IF ~ HasSlice THEN mlq
           ELSE IF mlq.left > 1 THEN [mlq EXCEPT !.left = @ - 1]
           ELSE [push_tail(mlq, mlq.level, mlq.running)
                     EXCEPT !.left = @ - 1, !.running = IDLE]

mlq_on_complete ==
    mlq' = [mlq EXCEPT !.running = IDLE, !.level = NO_LEVEL, !.left = 0]

MlqInit == Init /\ mlq_init

MlqNext ==
    \/ LoopTest /\ UNCHANGED mlq
    \/ \E i \in Procs : Admit(i) /\ mlq_on_arrival(i)
    \/ \E pid \in Answers : mlq_pick_next(pid) /\ Pick(pid)
    \/ Execute /\ (IF Finishing THEN mlq_on_complete ELSE UNCHANGED mlq)
    \/ EndTick /\ mlq_on_tick_end
    \/ Halt /\ UNCHANGED mlq

MlqSpec == MlqInit /\ [][MlqNext]_MlqVars /\ WF_MlqVars(MlqNext)

-----------------------------------------------------------------------------
RoundRobinLevels == {lv \in Levels : LevelQuantum[lv] > 0}
Level(i) == trace[i].queue
Queued(lv) == Contents(mlq.queue[lv])

\* The mapping: the running process is in front of what is queued at its
\* level; the saved slice is that of the head, and the others have whole ones.
InOrder(lv) ==
    IF mlq.running # IDLE /\ mlq.level = lv THEN <<mlq.running>> \o Queued(lv) ELSE Queued(lv)
RestAt(lv, i) ==
    IF i = mlq.running THEN mlq.left
    ELSE IF mlq.saved[lv] > 0 /\ i = Head(Queued(lv)) THEN mlq.saved[lv]
    ELSE LevelQuantum[lv]
RestOf(i) ==
    IF \E lv \in Levels : i \in Range(InOrder(lv))
    THEN RestAt(CHOOSE lv \in Levels : i \in Range(InOrder(lv)), i) ELSE 0

AssignedLevel(row) == row.queue
SameLevel(lv) == lv

Abstract == INSTANCE QueueDiscipline WITH
    EntryLevel <- AssignedLevel, NextLevel <- SameLevel, BoostEvery <- 0,
    LevelQuanta <- {LevelQuantum},
    line <- [lv \in Levels |-> InOrder(lv)],
    rest <- [i \in Procs |-> RestOf(i)],
    quantum <- LevelQuantum

\* mlq.c: "at most one process per level can be sitting on a partial quantum,
\* and it is always that queue's head.  So one saved value per level is
\* enough": the abstract lines give every process a slice of its own, and
\* three rings with one saved value each implement them, through any number
\* of displacements, arrivals and completions in between.
QueueSpec == Abstract!QueueSpec

\* All processes are in one queue, and these are the abstract queues that
\* have no other.
OneQueue == \A i \in Procs : trace[i].queue = trace[1].queue
TopLevel(row) == 0

Alone == INSTANCE QueueDiscipline WITH
    EntryLevel <- TopLevel, NextLevel <- SameLevel, BoostEvery <- 0,
    LevelQuanta <- {[lv \in {0} |-> LevelQuantum[q]] : q \in Levels},
    line <- [lv \in {0} |-> InOrder(trace[1].queue)],
    rest <- [i \in Procs |-> RestOf(i)],
    quantum <- [lv \in {0} |-> LevelQuantum[trace[1].queue]]

\* SPEC.md cross-check: MLQ with every process in one queue is that queue's
\* own policy, step by step: the same abstract line rr.c implements for the
\* quantum of queues 0 and 1, and fcfs.c for queue 2.
OneQueueIsItsPolicy ==
    /\ OneQueue => Alone!QueueInit
    /\ [][OneQueue => Alone!QueueNext]_MlqVars

\* Higher queues win outright, at every tick: no process runs while one of a
\* higher queue wants the CPU, one that arrived at that tick included.
HigherQueuesFirst ==
    \A t \in Decided : \A i, j \in Procs :
        timeline[t] = i /\ t \in Wanting(j) => Level(i) <= Level(j)

\* Ticks i had executed before tick t, in slices of its level's quantum.
SliceAt(i, t) ==
    Cardinality({u \in Decided : u < t /\ timeline[u] = i}) \div LevelQuantum[Level(i)]

\* Within a round-robin level no process starts another slice before each one
\* that wanted the CPU all along has run.
OneSliceEach ==
    \A i \in Procs : Level(i) \in RoundRobinLevels =>
        \A s, t \in {u \in Decided : timeline[u] = i} :
            SliceAt(i, s) < SliceAt(i, t) =>
                \A j \in Procs \ {i} :
                    Level(j) = Level(i) /\ (s..t) \subseteq Wanting(j)
                        => \E u \in s..t : timeline[u] = j
=============================================================================
