-------------------------- MODULE QueueDiscipline --------------------------
(***************************************************************************)
(* What fcfs.c, rr.c, mlq.c and mlfq.c have in common, as an abstract      *)
(* specification.  There is one line of processes per level, and the       *)
(* process on the CPU stays at the front of its line; at every tick the    *)
(* front of the first line that is not empty runs.  A process leaves the   *)
(* front when it finishes or when its slice is used up.  Nothing else      *)
(* moves: being displaced is only not being the one that is served.        *)
(*                                                                         *)
(* There is no ring, no saved slice and no separate record of who runs.    *)
(* Each of the four schedulers is shown to implement this specification    *)
(* under a mapping of its arrays to lines.                                 *)
(***************************************************************************)
EXTENDS WorkConserving

CONSTANTS EntryLevel(_),   \* the level at which a row of the table enters
          NextLevel(_),    \* the level an exhausted slice sends a process to
          BoostEvery,      \* ticks from one boost to the next, 0 for none
          LevelQuanta      \* the functions from levels to quanta of the runs

VARIABLES line,      \* per level: the waiting rows and the one that runs
          rest,      \* per row: ticks left of its slice, 0 outside the lines
          quantum    \* per level: the length of a slice, 0 for no limit

lines == <<line, rest, quantum>>
QueueVars == <<vars, lines>>

Members(lv) == {line[lv][k] : k \in DOMAIN line[lv]}
Occupied == {lv \in DOMAIN line : line[lv] # <<>>}
LevelOf(i) == CHOOSE lv \in Occupied : i \in Members(lv)

QueueInit ==
    /\ Init
    /\ quantum \in LevelQuanta
    /\ line = [lv \in DOMAIN quantum |-> <<>>]
    /\ rest = [i \in Procs |-> 0]

Arrive(i) ==
    LET lv == EntryLevel(trace[i])
    IN  /\ line' = [line EXCEPT ![lv] = Append(@, i)]
        /\ rest' = [rest EXCEPT ![i] = quantum[lv]]
        /\ UNCHANGED quantum

BoostDue == BoostEvery > 0 /\ tick > 0 /\ tick % BoostEvery = 0

InLine == UNION {Members(lv) : lv \in DOMAIN line}

\* The process that ran at the last tick has not used up its slice.
Holding == current \in InLine /\ rest[current] < quantum[LevelOf(current)]

\* Sequences of rows in table order.
TableOrdered ==
    {q \in UNION {[1..n -> Procs] : n \in 0..Len(trace)} :
        \A a, b \in DOMAIN q : a < b => q[a] < q[b]}

\* Everyone in line 0 with a new slice: who holds the CPU, then table order.
Boost ==
    LET first == IF Holding THEN <<current>> ELSE <<>>
    IN  /\ \E others \in TableOrdered :
               /\ {others[k] : k \in DOMAIN others} = InLine \ {first[k] : k \in DOMAIN first}
               /\ line' = [lv \in DOMAIN line |-> IF lv = 0 THEN first \o others ELSE <<>>]
        /\ rest' = [i \in Procs |-> IF i \in InLine THEN quantum[0] ELSE rest[i]]
        /\ UNCHANGED quantum

\* The front of the first line that is not empty.
FrontOf(q) ==
    LET occupied == {lv \in DOMAIN q : q[lv] # <<>>}
    IN  IF occupied = {} THEN IDLE ELSE Head(q[Min(occupied)])

Choose(pid) ==
    /\ IF BoostDue THEN Boost ELSE UNCHANGED lines
    /\ pid = FrontOf(line')

\* Mutated form: a process that finishes stays in its line.
Leave_Kept == UNCHANGED lines

\* The process that runs finishes; it is at the front of its line.
Leave ==
    /\ line' = [line EXCEPT ![LevelOf(next)] = Tail(@)]
    /\ rest' = [rest EXCEPT ![next] = 0]
    /\ UNCHANGED quantum

\* The end of a tick of a process that is in line, that is, unfinished.
Spend ==
    LET lv == LevelOf(next)
        to == NextLevel(lv)
        without == [line EXCEPT ![lv] = Tail(@)]
    IN  IF next = IDLE \/ remaining[next] = 0 \/ quantum[lv] = 0
        THEN UNCHANGED lines
        ELSE IF rest[next] > 1
        THEN rest' = [rest EXCEPT ![next] = @ - 1] /\ UNCHANGED <<line, quantum>>
        ELSE /\ line' = [without EXCEPT ![to] = Append(@, next)]
             /\ rest' = [rest EXCEPT ![next] = quantum[to]]
             /\ UNCHANGED quantum

QueueNext ==
    \/ LoopTest /\ UNCHANGED lines
    \/ \E i \in Procs : Admit(i) /\ Arrive(i)
    \/ \E pid \in Answers : Choose(pid) /\ Pick(pid)
    \/ Execute /\ (IF Finishing THEN Leave ELSE UNCHANGED lines)
    \/ EndTick /\ Spend
    \/ Halt /\ UNCHANGED lines

\* The safety part, and the whole.
QueueSafety == QueueInit /\ [][QueueNext]_QueueVars
QueueSpec == QueueSafety /\ WF_QueueVars(QueueNext)
=============================================================================
