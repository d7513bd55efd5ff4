---------------------------- MODULE CrossChecks ----------------------------
(***************************************************************************)
(* Two calls of run_one over one table: fcfs.c and an algorithm that is    *)
(* any queue discipline, each under an engine of its own, side by side.    *)
(* The discipline stands for fcfs.c, rr.c, mlq.c and mlfq.c, which         *)
(* implement it.                                                           *)
(***************************************************************************)
EXTENDS Fcfs

CONSTANTS EntryLevel(_), NextLevel(_), BoostEvery, LevelQuanta   \* as in QueueDiscipline

ASSUME BoostAssumption == BoostEvery \in Nat

\* A level that a row may enter at, that an exhausted slice or a boost sends a
\* process to, is one of the levels.
ASSUME LevelsAssumption ==
    \A q \in LevelQuanta :
        /\ DOMAIN q \subseteq Nat
        /\ \A tr \in Traces : \A i \in DOMAIN tr : EntryLevel(tr[i]) \in DOMAIN q
        /\ \A lv \in DOMAIN q : NextLevel(lv) \in DOMAIN q
        /\ BoostEvery > 0 => 0 \in DOMAIN q

VARIABLES
    q_remaining, q_start_tick, q_completion, q_timeline, q_context_switches,
    q_tick, q_completed, q_current, q_next, q_cursor, q_phase,
    line, rest, quantum

q_run ==
    <<q_remaining, q_start_tick, q_completion, q_timeline, q_context_switches,
      q_tick, q_completed, q_current, q_next, q_cursor, q_phase,
      line, rest, quantum>>
BothVars == <<FcfsVars, q_run>>

Q == INSTANCE QueueDiscipline WITH
    remaining <- q_remaining, start_tick <- q_start_tick, completion <- q_completion,
    timeline <- q_timeline, context_switches <- q_context_switches, tick <- q_tick,
    completed <- q_completed, current <- q_current, next <- q_next,
    cursor <- q_cursor, phase <- q_phase

BothInit == FcfsInit /\ Q!QueueInit
BothNext == FcfsNext /\ Q!QueueNext
BothSpec == BothInit /\ [][BothNext]_BothVars /\ WF_BothVars(BothNext)

-----------------------------------------------------------------------------
\* The abstract queues keep the contract, whatever the levels at which rows
\* enter, the slices, the demotions and the boosts: a line never loses a
\* process and never keeps a finished one.
QueuesKeepContract == Q!WCSpec

\* ANALYSIS.md: "total elapsed time is identical for every algorithm on a
\* given trace".  It is so because the two leave the CPU idle at the same
\* ticks, however differently they share it in between.
IdleTogether ==
    /\ tick = q_tick
    /\ \A t \in Decided : timeline[t] = IDLE <=> q_timeline[t] = IDLE
=============================================================================
