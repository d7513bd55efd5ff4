------------------------------- MODULE Metrics -------------------------------
(***************************************************************************)
(* src/metrics.c: what run_one computes from a finished run, and the       *)
(* checks it makes before it writes any file.                              *)
(*                                                                         *)
(* The averages are doubles in the program.  Here they stay exact: the     *)
(* sums they are quotients of, and n times n times the variance, which is  *)
(* an integer.  A sum of ticks is counted as a set of ticks or of units of *)
(* work, so that the same definition serves the model checker and the      *)
(* proofs.                                                                 *)
(***************************************************************************)
EXTENDS Engine, FiniteSetsExt

n_processes == Len(trace)
total_ticks == tick

\* The ticks given to a pid.
BusyTicks == {t \in 0..(tick - 1) : timeline[t] # IDLE}
busy_ticks == Cardinality(BusyTicks)
idle_ticks == total_ticks - busy_ticks

turnaround(i) == completion[i] - trace[i].arrival
waiting(i) == turnaround(i) - trace[i].burst
response(i) == start_tick[i] - trace[i].arrival

\* The sum of f(i) over the rows of the table.
SumOver(f(_)) == MapThenSumSet(f, Procs)

sum_waiting == SumOver(waiting)
sum_response == SumOver(response)
sum_turnaround == SumOver(turnaround)

max_waiting == Max({0} \cup {waiting(i) : i \in Procs})

\* n^2 times the population variance: n times the sum of squared deviations
\* scaled by n, each deviation being n * waiting - sum.
scaled_variance ==
    LET d(i) == n_processes * waiting(i) - sum_waiting
        sq(i) == d(i) * d(i)
    IN  SumOver(sq)

\* The units of work of a table: one per tick of every burst.
WorkOf(tr) == UNION {{i} \X (1..tr[i].burst) : i \in DOMAIN tr}
sum_burst == Cardinality(WorkOf(trace))

\* The seven checks of metrics_check_invariants (6 is the definition of the
\* two metrics it relates, 4 the weaker form the code states).
metrics_check_invariants ==
    /\ busy_ticks = sum_burst
    /\ total_ticks = busy_ticks + idle_ticks
    /\ \A i \in Procs :
         /\ completion[i] # NOT_STARTED /\ start_tick[i] # NOT_STARTED
         /\ start_tick[i] >= trace[i].arrival
         /\ completion[i] >= trace[i].arrival + trace[i].burst
         /\ response(i) >= 0 /\ response(i) <= waiting(i)
    /\ \A t \in BusyTicks : timeline[t] \in Procs
-----------------------------------------------------------------------------
\* A table the engine returned 0 for always passes metrics_check_invariants,
\* whatever scheduler produced it: run_one's "invariant check failed" exit is
\* unreachable, every wrong schedule is stopped by the engine's own checks.
ChecksNeverFail == phase = "ok" => metrics_check_invariants

\* The ticks at which the timeline shows i waiting: arrived, unfinished and
\* not the process that ran.
WaitedTicks(i) == {t \in 0..(tick - 1) : /\ trace[i].arrival <= t /\ t < completion[i]
                                         /\ timeline[t] # i}
waited(i) == Cardinality(WaitedTicks(i))

\* SPEC.md section 5: the waiting times, computed from completion stamps, are
\* the ones the timeline shows, in their sum, in their maximum and in their
\* spread.  The squares of all differences between two processes add up to
\* twice n times the sum of squared deviations.
WaitingIsTimeNotRun ==
    phase = "ok" =>
        LET sq(p) == (waited(p[1]) - waited(p[2])) * (waited(p[1]) - waited(p[2]))
        IN  /\ sum_waiting = SumOver(waited)
            /\ max_waiting = Max({waited(i) : i \in Procs})
            /\ 2 * scaled_variance = n_processes * MapThenSumSet(sq, Procs \X Procs)
=============================================================================
