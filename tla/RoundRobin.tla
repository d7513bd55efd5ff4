----------------------------- MODULE RoundRobin -----------------------------
(***************************************************************************)
(* src/sched/rr.c under the engine.  The process on the CPU is not in the  *)
(* ring; it goes to the tail from on_tick_end, after this tick's arrivals. *)
(***************************************************************************)
EXTENDS WorkConserving, Ring, Functions

CONSTANTS Quanta,    \* the values of --quantum the runs cover
          Leftover   \* what an earlier run may have left in a slot

\* rr_init keeps only a positive quantum, and load_trace refuses a table with
\* more rows than the ring has slots.
ASSUME RrAssumption ==
    /\ Quanta \subseteq Nat \ {0}
    /\ \A tr \in Traces : Len(tr) <= MaxProcesses

VARIABLES ring, running, quantum, left

rr_state == <<ring, running, quantum, left>>
RrVars == <<vars, rr_state>>

rr_init ==
    /\ ring \in EmptyRings(Leftover)
    /\ running = IDLE
    /\ quantum \in Quanta
    /\ left = 0

rr_on_arrival(i) ==
    /\ ring' = PushTail(ring, i)
    /\ UNCHANGED <<running, quantum, left>>

\* Mutated forms: what is left of the last slice is kept at a dispatch, and a
\* slice that is one tick too long.
Slice_Kept == IF left > 0 THEN left ELSE quantum - 1
Slice_OneMore == quantum + 1

\* The slice a dispatched process gets.
Slice == quantum

\* Mid-slice, the running process keeps the CPU.
MidSlice == running # IDLE /\ left > 0

rr_pick_next(pid) ==
    \/ /\ MidSlice
       /\ pid = running
       /\ UNCHANGED rr_state
    \/ /\ ~ MidSlice
       /\ ring.count > 0
       /\ pid = AtFront(ring)
       /\ running' = pid
       /\ ring' = PopHead(ring)
       /\ left' = Slice
       /\ UNCHANGED quantum
    \/ /\ ~ MidSlice
       /\ ring.count = 0
       /\ pid = IDLE
       /\ running' = IDLE
       /\ UNCHANGED <<ring, quantum, left>>

\* Mutated form: an expired process goes back to the front.
rr_on_tick_end_ToFront ==
    /\ left' = IF next = IDLE THEN left ELSE left - 1
    /\ IF next # IDLE /\ running # IDLE /\ left - 1 <= 0
       THEN ring' = PushHead(ring, running) /\ running' = IDLE
       ELSE UNCHANGED <<ring, running>>
    /\ UNCHANGED quantum

rr_on_tick_end ==
    /\ left' = IF next = IDLE THEN left ELSE left - 1
    /\ IF next # IDLE /\ running # IDLE /\ left - 1 <= 0
       THEN ring' = PushTail(ring, running) /\ running' = IDLE
       ELSE UNCHANGED <<ring, running>>
    /\ UNCHANGED quantum

rr_on_complete ==
    /\ running' = IDLE
    /\ left' = 0
    /\ UNCHANGED <<ring, quantum>>

RrInit == Init /\ rr_init

RrNext ==
    \/ LoopTest /\ UNCHANGED rr_state
    \/ \E i \in Procs : Admit(i) /\ rr_on_arrival(i)
    \/ \E pid \in Answers : rr_pick_next(pid) /\ Pick(pid)
    \/ Execute /\ (IF Finishing THEN rr_on_complete ELSE UNCHANGED rr_state)
    \/ EndTick /\ rr_on_tick_end
    \/ Halt /\ UNCHANGED rr_state

RrSafety == RrInit /\ [][RrNext]_RrVars
RrSpec == RrSafety /\ WF_RrVars(RrNext)

-----------------------------------------------------------------------------
TopLevel(row) == 0
SameLevel(lv) == lv

\* The mapping: one line, the running process in front of the ring's contents;
\* those in the ring have a whole slice before them.
InOrder == IF running = IDLE THEN Contents(ring) ELSE <<running>> \o Contents(ring)
RestOf(i) == IF i = running THEN left
             ELSE IF i \in Range(Contents(ring)) THEN quantum ELSE 0

Abstract == INSTANCE QueueDiscipline WITH
    EntryLevel <- TopLevel, NextLevel <- SameLevel, BoostEvery <- 0,
    LevelQuanta <- {[lv \in {0} |-> q] : q \in Quanta},
    line <- [lv \in {0} |-> InOrder],
    rest <- [i \in Procs |-> RestOf(i)],
    quantum <- [lv \in {0} |-> quantum]

\* rr.c is one abstract line with a quantum: whatever the indices of the ring
\* do, nobody is lost, queued twice or overtaken, an arrival at the tick a
\* slice expires is in front of the expired process, and a slice is always
\* whole, whether the one before it ended by expiry or by completion.
QueueSpec == Abstract!QueueSpec

\* The ticks strictly between s and t.
Between(s, t) == (s + 1)..(t - 1)

\* One turn each: between two stints of a process every process that wanted
\* the CPU all along runs, a process that arrived at the very tick the slice
\* expired included (SPEC.md section 6), and runs for at most one quantum.
OneTurnEach ==
    \A i \in Procs : \A s, t \in Decided :
        /\ timeline[s] = i /\ timeline[t] = i
        /\ s + 1 < t
        /\ \A u \in Between(s, t) : timeline[u] # i
        => \A j \in Procs \ {i} :
               LET turn == {u \in Between(s, t) : timeline[u] = j}
               IN  /\ (s..t) \subseteq Wanting(j) => turn # {}
                   /\ Cardinality(turn) <= quantum

\* SPEC.md cross-check: "Round Robin with a quantum at least as large as the
\* longest burst gives the same timeline as FCFS".  A row runs for as many
\* ticks as there are between its two stamps, so these give the timeline.
LargeQuantumIsFcfs ==
    (\A i \in Procs : trace[i].burst <= quantum) => InTableOrder

\* A process waits at most a quantum for each of the others, for its first
\* turn and for every later one.
BoundedWait ==
    \A i \in Procs : \A s, t \in Wanting(i) :
        s <= t /\ (\A u \in s..t : timeline[u] # i)
            => t - s < quantum * (Len(trace) - 1)
=============================================================================
