-------------------------------- MODULE Fcfs --------------------------------
(***************************************************************************)
(* src/sched/fcfs.c under the engine.  The queue is an array filled once   *)
(* from front to back; head and tail are indices into it.                  *)
(***************************************************************************)
EXTENDS WorkConserving

CONSTANT Leftover   \* what an earlier run may have left in a slot

VARIABLES queue, head, tail, running

fcfs_state == <<queue, head, tail, running>>
FcfsVars == <<vars, fcfs_state>>

ASSUME FcfsAssumption == \A tr \in Traces : Len(tr) <= MaxProcesses

\* fcfs_init leaves the slots of the static array as they are.
fcfs_init ==
    /\ queue \in [Slots -> Leftover]
    /\ head = 0
    /\ tail = 0
    /\ running = IDLE

\* Mutated form: the arrival goes in front of the processes already queued.
fcfs_on_arrival_AtHead(i) ==
    /\ queue' = [k \in Slots |-> IF k = head THEN i
                                 ELSE IF k > head THEN queue[k - 1] ELSE queue[k]]
    /\ tail' = tail + 1
    /\ UNCHANGED <<head, running>>

fcfs_on_arrival(i) ==
    /\ queue' = [queue EXCEPT ![tail] = i]
    /\ tail' = tail + 1
    /\ UNCHANGED <<head, running>>

\* Mutated forms: the emptiness test lets a slot be read that holds nothing,
\* and one that takes a queue of one process for empty.
fcfs_pick_next_PastTail(pid) ==
    \/ /\ running # IDLE
       /\ pid = running
       /\ UNCHANGED fcfs_state
    \/ /\ running = IDLE
       /\ head < MaxProcesses
       /\ pid = queue[head]
       /\ running' = pid
       /\ head' = head + 1
       /\ UNCHANGED <<queue, tail>>

fcfs_pick_next_LastWaits(pid) ==
    IF running = IDLE /\ head + 1 < tail
    THEN /\ pid = queue[head]
         /\ running' = pid
         /\ head' = head + 1
         /\ UNCHANGED <<queue, tail>>
    ELSE pid = running /\ UNCHANGED fcfs_state

fcfs_pick_next(pid) ==
    \/ /\ running # IDLE
       /\ pid = running
       /\ UNCHANGED fcfs_state
    \/ /\ running = IDLE
       /\ head < tail
       /\ pid = queue[head]
       /\ running' = pid
       /\ head' = head + 1
       /\ UNCHANGED <<queue, tail>>
    \/ /\ running = IDLE
       /\ head >= tail
       /\ pid = IDLE
       /\ UNCHANGED fcfs_state

fcfs_on_complete ==
    /\ running' = IDLE
    /\ UNCHANGED <<queue, head, tail>>

FcfsInit == Init /\ fcfs_init

FcfsNext ==
    \/ LoopTest /\ UNCHANGED fcfs_state
    \/ \E i \in Procs : Admit(i) /\ fcfs_on_arrival(i)
    \/ \E pid \in Answers : fcfs_pick_next(pid) /\ Pick(pid)
    \/ Execute /\ (IF Finishing THEN fcfs_on_complete ELSE UNCHANGED fcfs_state)
    \/ EndTick /\ UNCHANGED fcfs_state
    \/ Halt /\ UNCHANGED fcfs_state

FcfsSpec == FcfsInit /\ [][FcfsNext]_FcfsVars /\ WF_FcfsVars(FcfsNext)

-----------------------------------------------------------------------------
TopLevel(row) == 0
SameLevel(lv) == lv

\* The mapping: one line without a quantum, the running process in front of
\* the slots from head to tail.
Waiting == [k \in 1..(tail - head) |-> queue[head + k - 1]]

Abstract == INSTANCE QueueDiscipline WITH
    EntryLevel <- TopLevel, NextLevel <- SameLevel, BoostEvery <- 0,
    LevelQuanta <- {[lv \in {0} |-> 0]},
    line <- [lv \in {0} |-> IF running = IDLE THEN Waiting ELSE <<running>> \o Waiting],
    rest <- [i \in Procs |-> 0],
    quantum <- [lv \in {0} |-> 0]

\* fcfs.c is one abstract line in which nobody is ever sent back: the running
\* process, which is in no slot from head on, keeps its place until it is done.
QueueSpec == Abstract!QueueSpec
=============================================================================
