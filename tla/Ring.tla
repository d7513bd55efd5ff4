-------------------------------- MODULE Ring --------------------------------
(***************************************************************************)
(* The circular queue of rr.c, mlq.c and mlfq.c: an array of MaxProcesses  *)
(* slots, the index of the front and a count.  Nothing checks for a full   *)
(* or an empty ring; the callers must never meet either case.              *)
(***************************************************************************)
EXTENDS ProcessTable

\* The rings whose slots hold values of S.
Rings(S) == [slot : [Slots -> S], head : Slots, count : 0..MaxProcesses]

\* init empties a ring by its indices alone; the slots keep their values.
EmptyRings(Leftover) == [slot : [Slots -> Leftover], head : {0}, count : {0}]

\* Mutated form: the end of the array is not wrapped around.
PushTail_NoWrap(r, p) ==
    [r EXCEPT !.slot = [@ EXCEPT ![r.head + r.count] = p], !.count = @ + 1]

PushTail(r, p) ==
    [r EXCEPT !.slot = [@ EXCEPT ![(r.head + r.count) % MaxProcesses] = p],
              !.count = @ + 1]

PushHead(r, p) ==
    LET front == (r.head + MaxProcesses - 1) % MaxProcesses
    IN  [slot |-> [r.slot EXCEPT ![front] = p], head |-> front, count |-> r.count + 1]

AtFront(r) == r.slot[r.head]

PopHead(r) == [r EXCEPT !.head = (@ + 1) % MaxProcesses, !.count = @ - 1]

\* What a ring stands for: the queued values, the front one first.
Contents(r) == [k \in 1..r.count |-> r.slot[(r.head + k - 1) % MaxProcesses]]
=============================================================================
