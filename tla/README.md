# A TLA+ model of the CPU scheduler simulator

The program (`src/`) runs one of nine scheduling algorithms over a trace of
processes, one tick at a time, and reports what happened. It is sequential: the
difficulty is not in threads but in a protocol. Six callbacks are called in a
fixed order within every tick, each algorithm spreads its state over them, and a
mistake in one callback shows many ticks later, as a process that is lost, queued
twice, served out of turn, or charged with the wrong slice. The golden files
cover three traces and six algorithms; the modules here cover every trace of a
small size, all nine algorithms, and, for what is proved, every trace of any size.
Around that core stand a loader that must refuse a bad file and a driver that may
fail at each of its steps; they are modelled as well.

Paths below are relative to the repository, which is `src/` here: `src/engine.c`
is `src/src/engine.c` in `PROJECT.json`.

## 1. Inventory

| Component | State it keeps | Operations | Correct when |
|---|---|---|---|
| Engine, `src/engine.c` | process table (`remaining`, `start_tick`, `completion`), `run_result_t` (timeline, switches), locals `tick`, `completed`, `current` | the tick loop: cap test, admission, pick, checks, execution, end of tick | table, timeline and counters tell the same story; every run returns |
| Metrics, `src/metrics.c` | none of its own | `metrics_compute`, `metrics_check_invariants` | numbers derived from stamps equal what the timeline shows; the checks never reject a good run |
| Contract, `src/sched/sched.h` | - | six callbacks | an answer is an arrived, unfinished process; IDLE only when there is none |
| FCFS, `sched/fcfs.c` | array filled once, `head`, `tail`, `running` | arrival, pick, complete | table order, no stale slot read |
| Round Robin, `sched/rr.c` | ring, `running`, `left`, `quantum` | arrival, pick, tick end, complete | nobody lost or overtaken, whole slices, one turn each, bounded wait |
| SJF, SRTF, Priority (two), `sched/sjf.c`, `srtf.c`, `priority.c` | `running` | scan in pick, complete | preemption only by a better arrival; least total wait; most urgent first |
| MLQ, `sched/mlq.c` | three rings, `saved` per level, `running`, `level`, `left` | arrival, pick (displacement), tick end, complete | higher queue first; slices survive displacement |
| MLFQ, `sched/mlfq.c` | as MLQ, and `level_of` | as MLQ, with demotion and the boost | level and slice earned by execution alone; a boost feeds everyone |
| CFS, `sched/cfs.c` | `vruntime` per process, `running` | arrival placement, scan in pick, charge in tick end | vruntimes stay close; shares inverse to the increments, which are truncated |
| Loader, `src/process.c` | the table being filled, the line number | read a piece of a line; skip, refuse or store it; sort at the end | the table is the file; a refusal comes at the first piece that offends |
| Driver, `src/main.c` | options, `traces` of `run_all`, rows of a sweep | argument loop, `run_one`, `run_all`, `run_sweep` | files appear in the order promised; exit 0 means all of them, for every trace |
| CSV, `src/csv.c` | the files | three files of a run, one of a sweep | a reported success is one |
| Registry, `sched/registry.c` | a constant table | lookup, names | the order of `--all` |
| Tests, plots, build | none that matters here | - | - |

The components interact by calls only. `run_one` loads a table, calls the
algorithm's `init` and then `engine_run`; the engine owns the table and reaches
the algorithm through `on_arrival`, `pick_next`, `on_complete` and `on_tick_end`;
the algorithm reads the table and never writes it. Scheduler state is static, so
with `--all` a run starts with whatever the run before left in the arrays.

What is hard: the order of the calls within a tick (a completion clears `running`
before the end of the tick decrements the slice; arrivals are queued before an
expired process and before a boost); state that is stale by the time it is used
(`running` after a completion, `saved` after a boost, the vruntime of a process
not placed yet, array slots of an earlier run); fixed arrays used to their last
slot; truncating division; progress, which depends on every algorithm's
answers; and, around the core, a failure at any of several steps of which the
earlier ones have already left files behind. `PROJECT.json` lists each of these at its line.

## 2. Modules

| Module | Models | Extends |
|---|---|---|
| `ProcessTable` | a row, what a loaded table is, and how long the arrays are: the interface of loader and engine | |
| `Engine` | `engine.c` under an arbitrary scheduler | `ProcessTable` |
| `Metrics` | `metrics.c` | `Engine` |
| `WorkConserving` | `sched.h`: what an algorithm promises | `Metrics` |
| `QueueDiscipline` | what the algorithms with queues have in common, without their arrays | `WorkConserving` |
| `Fcfs`, `TableScan`, `Cfs` | the algorithms without a ring | `WorkConserving` |
| `Ring` | the circular array of `rr.c`, `mlq.c`, `mlfq.c` | `ProcessTable` |
| `RoundRobin`, `Mlq`, `Mlfq` | the algorithms with rings | `WorkConserving`, `Ring` |
| `EngineProofs` | theorems about the engine, its metrics, the contract and the circular array | `WorkConserving`, `Ring` |
| `TableScanProofs`, `CfsProofs`, `RoundRobinProofs`, `MlqProofs`, `MlfqProofs` | theorems about an algorithm | the module of that name, `EngineProofs` |
| `FcfsProofs` | theorems about FCFS, and about it beside the abstract queues | `CrossChecks`, `EngineProofs` |
| `DriverProofs` | theorems about the loader and the driver | `Driver` |
| `CrossChecks` | FCFS and a queue discipline side by side, each under its own engine | `Fcfs`, an instance of `QueueDiscipline` |
| `Loader` | `process.c` | `ProcessTable` |
| `Registry`, `Csv` | `registry.c`, the files of `csv.c` | |
| `Driver` | `main.c`, with the loader and the files as parts of `run_one` | `Csv`, `Loader` |
| `Tables`, `MC*` | finite sets of traces, files and command lines for TLC | |

**Engine.** A tick is one run through `LoopTest`, `Admit` (once per arriving
process), `Pick`, `Execute` and `EndTick`; `phase` says which comes next, and is
`"ok"` or `"error"` once `engine_run` has returned 0 or -1. A row is named by its
position, 1..n. Pids are unique and the table is sorted by arrival and then pid,
so positions and pids determine each other and "the first found" of a scan is the
smallest position. `UnknownPid` stands for an answer that is in no row. In
`Engine`, `pick_next` may answer anything: what holds there holds for any
algorithm, a wrong one included.

**A scheduler** is a module with the algorithm's struct as variables and one
operator per callback, named as in the source; its next-state relation pairs each
callback with the engine step that calls it, for instance

    \E pid \in Answers : rr_pick_next(pid) /\ Pick(pid)
    Execute /\ (IF Finishing THEN rr_on_complete ELSE UNCHANGED rr_state)

so both halves of the call are one step. MLQ and MLFQ keep their struct as one
record, and the C helpers that update it in sequence are functions from one value
of the record to the next. Static arrays start with arbitrary contents (`Leftover`),
since `init` resets only the indices.

**Abstract and detailed.** There are three layers.

    Fcfs, RoundRobin, Mlq, Mlfq  =>  QueueDiscipline  =>  WorkConserving  =>  Engine
    TableScan, Cfs               =>                       WorkConserving

`WorkConserving` leaves the choice among the ready processes open; the property
`WCSpec` is that whole specification, over the same engine variables. What is shown
of it (progress, the bound on ticks, the elapsed time that does not depend on the
algorithm) then holds of all nine.

`QueueDiscipline` is one line of processes per level. The process that runs stays at
the front of its line, the front of the first non-empty line is served, and each
process has a slice of its own. Its constants say where a row enters, where an
exhausted slice sends a process, and how often a boost gathers everyone. Being
displaced is not an event in it. Each of the four schedulers has a refinement
mapping (`Abstract == INSTANCE QueueDiscipline WITH ...`): the running process, which
the code keeps outside its arrays, goes in front of the contents of its ring, and
the one saved slice of a level becomes that of the head. That the mapping works is
`QueueSpec`: rings, saved values, displacement and the rebuilding of the queues at a
boost amount to lines. Section 7 proves it. `QueuesKeepContract` (run `cross_checks`) is that the lines keep
the contract, for entry, demotion, boost and quanta together, so the four schedulers
need not be checked against it directly. The same abstract specification with other constants
states two of SPEC.md's cross-checks step by step: MLQ with one queue in use is the
line of that queue alone (`OneQueueIsItsPolicy`), and MLFQ with bursts that fit a
top-level slice is a single line without a quantum, boosts included
(`ShortBurstsAreOneLine`).

**Side by side.** `CrossChecks` runs FCFS and a queue discipline over one table in
lockstep, each with a process table, a timeline and a clock of its own. Both keep
the contract, so both are at the same step of the same tick all along, and idle at
the same ticks (`IdleTogether`), which is why the elapsed time does not depend on
the algorithm. SPEC.md's cross-check of Round Robin against FCFS (a large quantum
"gives the same timeline as FCFS") needs no second run: `InTableOrder` gives the
stamps of FCFS in closed form, and `LargeQuantumIsFcfs` says that those of Round
Robin are the same.

**Loader.** A file that can be opened is a sequence of the pieces `fgets` reads it in
(one per line, unless a line is longer than the buffer of 256), and a piece is known
by what the code finds in it: blank, starting with `#`, the integers it starts with,
and whether something follows them. Here pids are values. One action per turn of
the reading loop: `SkipLine`, `RefuseLine`, `StoreLine`; `EndOfFile` sorts. Against the
loop stand definitions that read the file as a whole (`Data`, `IsRow`, `Offending`,
`IsTraceFile`). `LoadsWhatTheFileSays` ends in `IsTable`, which is what the engine
assumes of its traces. `qsort` is modelled by what it promises for rows of which no
two are equal: the one arrangement of them that is in order.

**Driver.** One invocation: `ParseArg` per option, `Decide` for the form of the command,
`ListEntry`, `Listed`, `Sort`, `Pairing` and the returns for the loops of `run_all` and `run_sweep`, and
`Lookup`, `Load`, `Loaded`, `EngineRun`, `Check`, `WriteFile` for the parts of `run_one`.
`Load` is a step of the loader. What the engine and the checks make of a loaded
trace is an input (`verdict`), since the other modules say what those parts do; so
are the order of `readdir`, the files that cannot be opened (`unwritable`), and those that
open and then do not take all that is written to them (`full`). A file is known by
the results it reports and by whether it is `complete`. `pc` is where the program is. Against
the loops stand definitions of the promise, read off the words of the command line and the
traces in the directory (`IsUsage`, `TracesThere`, `AskedOf`, `PromisedOf`). SPEC.md promises
`--all` on every trace; the code has room for MAX_PROCESSES of them. `Selections` are the sets
of traces it may run: the one of all traces when there is room, and otherwise any of that size.

**Abstractions.** Averages are kept as sums, and the standard deviation as n
squared times the variance, so all numbers are exact integers. Error messages are
left out, and with them which of several tests a refused line fails. Widths of integers are left out: every number of a run is bounded by
MAX_TICKS, and vruntime by three times that; that `sscanf` of a number beyond an
int is undefined is left out. Columns an algorithm never reads have
one value in its traces.

## 3. Runs

Each passing run checks every trace in a set, every interleaving being the single
one the program has except where the scheduler is arbitrary.

| Run | Instance | Shows |
|---|---|---|
| `engine` | 1-2 processes, arrivals 0..2, bursts 1..2, and 3 that arrive together; timeline of 6 ticks | for any scheduler: `TypeOK` (with the array bound), `Accounting`, `Window`, `SwitchesMatchTimeline`, `ChecksNeverFail`, `WaitingIsTimeNotRun`, `Returns` |
| `cross_checks` | 1-3 processes, bursts to 3; 2-3 at all entry levels, bursts to 5, demotion, a boost every 4 ticks, last level with and without a quantum; FCFS array of 3 slots that an earlier run has used | of FCFS `InTableOrder`, `QueueSpec`; of the lines `QueuesKeepContract`; of both `IdleTogether` |
| `round_robin` | 1-3 processes, bursts to 4, quanta 1..3; ring of 3 slots that an earlier run has used | `OneTurnEach`, `BoundedWait`, `LargeQuantumIsFcfs`, `QueueSpec` |
| `table_scan` | any scheduler of the contract over 2 processes, arrivals 0..4, bursts 1..3, over 3 with arrivals 0..3, bursts 1..2, and over tables up to 6 ticks too long; the four scanning ones over those, over 3 processes with bursts 1..3, and with priorities 0..2; 12 ticks | of all five `TickBound`, `ElapsedTimeFixed`, `EverythingFinishes`; of the four `WCSpec`, `OnlyArrivalsPreempt`, `LeastWaiting`, `MostUrgentIsServed` |
| `mlq` | 3 processes in all assignments to queues; 4 in two queues | `HigherQueuesFirst`, `OneSliceEach`, `QueueSpec`, `OneQueueIsItsPolicy` |
| `mlfq` | 1-3 processes, bursts to 11, a boost every 5 ticks; 4 of one tick | `LevelIsEarned`, `HigherLevelsFirst`, `BoostFeedsEveryone`, `QueueSpec`, `ShortBurstsAreOneLine` |
| `cfs` | 2-3 processes, nice -5..5; 4 of nice 0 | `VruntimesStayClose`, `ZeroIncrementNeverYields`, `WeightedShares`, `WCSpec` |
| `driver` | all commands of up to 3 options, and some with values that look like options; `--all` over all listings of 4 names; one run of each file of up to 3 lines of 15 kinds and some of 4; each fault, files cut short included | `LoadsWhatTheFileSays`, `RefusesTheFirstOffence`, `FilesAppearInOrder`, `SuccessMeansEverything`, `FailureHasACause` |
| `cfs_arrivals`, `mlfq_boost_order` | as `cfs`, `mlfq` | the first two disagreements of section 6 |
| `large_pids` | one run of each file of `driver` | pids used as indices |
| `documented_success` | `--all`, three traces with room for two, and one file cut short | the last two disagreements of section 6 |

Deadlock is checked in every run: `Halt` (`Exited`) is the only step
after a return, so a deadlock would be a call the model has no answer for.

Properties worth a word:

- `WCSpec` and `QueueSpec` also say that no algorithm loses a process or queues it
  twice: a lost one ends in IDLE with work waiting, a second copy in the answer of a
  finished pid, and neither is a step of the abstract specification.
- `QueueSpec` is in `mlq.c` the argument that one saved value per level is enough, and
  in `mlfq.c` that a boost may rebuild the queues from the process table.
- `WaitingIsTimeNotRun` recomputes sum, maximum and spread of the waiting times from
  the timeline, where the code uses completion stamps.
- `NeverGivesUp` is proved (section 7) and not run: `EverythingFinishes` implies it.
- `ElapsedTimeFixed` is ANALYSIS.md's claim that total time does not depend on the
  algorithm, in closed form; `SwitchesMatchTimeline` relates the counter, kept from
  `current` and `next`, to SPEC.md's definition on the timeline.
- `LeastWaiting` compares SRTF (and SJF when all arrive at 0) with a reference that
  minimises over all schedules of the contract, preemptive ones included: `LeastRest`, a
  recursive function of the tick and the bursts left. SPEC.md's cross-checks (SJF against
  FCFS, SRTF against SJF) are consequences.
- `LevelIsEarned` is stronger than SPEC.md's invariant 9, which `metrics.c` does not
  assert: level and slice are a function of the ticks executed since the last boost.
- `FilesAppearInOrder` holds at every step, so it also says what is left behind
  wherever the program is stopped between two files.
- `FilesAppearInOrder` and `SuccessMeansEverything` hold of a file that was cut short only
  that it was to report the right results, and the latter claims nothing of `--all` when there
  are more traces than there is room for. There the code does not keep the promise;
  `SuccessIsAsDocumented` is the promise without these exceptions, and fails.
- `OnlyArrivalsPreempt`, `LeastWaiting` and `MostUrgentIsServed` are about the scheduler `algo`
  names. In `table_scan` a fifth kind of run (`algo` is `"any"`, in `MCTableScan` alone) has a
  scheduler that keeps the contract and is free otherwise; the properties of the contract
  are checked of it.
- `RefusesTheFirstOffence` covers the limit on both sides: a comment after the last
  row that fits is skipped, a further row is refused. It fixes where the loader stops, not
  which test it reports.
- `WeightedShares` compares ticks times increment. Increments are truncated quotients, so
  nice 0 to 3 have equal shares, and an increment of 0 no bound (`ZeroIncrementNeverYields`).
- `VruntimesStayClose` and `ZeroIncrementNeverYields` are stated for tables in which
  no two processes arrive together after tick 0. Without that they are false, for
  the reason in section 6.

Each property has a mutant: a definition is replaced by a form with a plausible
bug, beside it in the module and marked as such, and the property must then fail.
Looking for mutants of the tie rule taught something: with the incumbent rule of
`srtf_pick_next` and `priority_p_pick_next` removed, all properties still hold. At
a tie the running process is the first of its key in table order anyway: when it
was dispatched it was strictly better than every earlier row, its key has not
grown since, and later arrivals are later rows. In CFS the rule does decide, as
the key of the running process grows.

## 4. Bounds

`MaxTicks` (MAX_TICKS, 8192), `MaxProcesses` (MAX_PROCESSES, 64), `LevelQuantum`
and `BoostInterval` are constants. The instances use small values:

- `MaxTicks` is 6 in `engine`, where runs that reach the cap are part
  of the question, and 12 in `table_scan`, where some tables fit and some do not, so
  both sides of `Fits` occur; in the runs of the other algorithms every table fits.
- `MaxProcesses` equals the largest number of processes, so that rings and the
  FCFS array are full and indices wrap. Three processes are enough for a ring to
  hold two behind the one that runs; four are used in `mlq`, where two displaced
  processes and two displacing ones matter.
- `LevelQuantum` is 2, 3, 0 in MLQ and 1, 2, 3 in MLFQ instead of 2, 4, 0 and 2, 4, 8,
  and `BoostInterval` is 5 instead of 50: all levels, slices cut in the middle,
  several boosts per run and boosts at each level occur within 23 ticks.
  `MlfqAssumption` and `MlqAssumption` say what is assumed of the values.
- Arrivals and bursts leave gaps before and between processes, so the CPU goes
  idle and comes back.

- In `driver` MAX_PROCESSES is 2, for the rows of a table and for the names `run_all`
  lists: every file of three rows is one too many, files of exactly the limit
  followed by anything occur, and so do directories of more traces than there is
  room for. The kinds of lines are chosen so that each test of `check_fields` fails
  alone, and each of `sscanf`'s three outcomes occurs. At fault is one trace, or one
  file or all files, which do not open or are cut short; that suffices, as the program stops at the first fault it meets.

The counters of the model are those of the program, and the tick loop bounds them;
no other bound is imposed. No symmetry is used: row order is the tie-break.

## 5. Fairness

The program is one thread of straight-line code that waits for nothing, so it
never stops between two steps: weak fairness of the next-state relation as a whole
is what it guarantees, and all that is assumed. `Returns` and `EverythingFinishes`
need nothing more.

## 6. Where the code and its documents disagree

- **CFS, arrivals at the same tick** (`cfs_arrivals`). `cfs_on_arrival` takes the
  minimum over all rows with `arrival <= tick`. When two processes arrive at the
  same tick, the first sees the second, which has not been placed and still has
  vruntime 0; so both start at 0 and run until they have caught up with the others.
  The comment above the loop and SPEC.md section 6 rule that out. With arrivals at
  0, 3 and 3 and bursts of a few ticks the program shows it.
- **MLFQ, order of a boost** (`mlfq_boost_order`). SPEC.md and the head of `mlfq.c`
  say that at a boost everyone enters the top queue in tie-break order, the running
  process included; `boost` puts the running process in front, as the comment at
  line 118 explains. With processes 1 and 2 of 60 ticks and 3 of 8, all arriving at
  0, process 2 keeps the CPU at tick 50.
- **Pids as indices** (`large_pids`). The loader accepts every pid from 1 up, as
  SPEC.md says; `cfs.c` and `mlfq.c` index arrays of MAX_PROCESSES + 1 entries by it.
  A trace with pid 70 makes both access their array out of range. In the modules of
  the algorithms rows are named by position, which is right only for pids up to 64.
- **More than 64 traces** (`documented_success`). `run_all` stops listing at the
  array's length, before it sorts: which traces run depends on the file system, and the exit
  status is 0. SPEC.md section 10 and the usage text: `--all` runs every algorithm on every
  trace.
- **A full disk** (`documented_success`). The writers do not look at what
  `fprintf` and `fclose` return, so a file cut short counts as written, and the program exits
  with 0. `csv.h`: "Returns 0 on success, -1 after printing to stderr."
  The counterexample shows both; either alone breaks `SuccessIsAsDocumented` too.

Noted, not run:

- *Long lines.* `load_trace` treats each piece of at most 255 characters as a line: a
  comment longer than that is skipped up to the cut, and a tail of six integers is
  loaded as a process. SPEC.md section 4: one process per line, and a line that
  starts with `#` is a comment. `LoadsWhatTheFileSays` is about pieces.
- *The test script* counts a run that exits with 1 as skipped, not failed.

Also: `engine.h` calls an exhausted timeline "a scheduler bug rather than
a legitimate workload", which holds exactly for the tables that fit it
(`NeverGivesUp`; the loader does not bound arrivals or bursts); ANALYSIS.md says the
MLFQ boost bounds starvation, which needs room for everyone's top-level slice in
one interval (`BoostFeedsEveryone`, 25 processes with the values of the code);
SPEC.md lists invariant 9 among those asserted at the end of every run, and no
code asserts it; SPEC.md section 8 puts the boost before the arrivals of its tick,
and the code after them, which comes to the same since the boost rebuilds the
queue from the table.

## 7. Proofs

`tlapm` checks the following for every set of tables, `MaxTicks`, `MaxProcesses`,
all quanta and leftover contents that the ASSUMEs allow: tables are what the loader
returns (non-empty, sorted, fields in its ranges) and have at most `MaxProcesses` rows,
`MaxTicks` is not 0, a quantum of Round Robin or of a level of MLFQ is at least 1, those
of MLQ are any natural numbers, and boosts are at least one tick apart. Of the
abstract queues, entry, demotion and boost lead to levels there are (`LevelsAssumption`).
Of what the program is started with, the directory lists no name twice, its traces differ
in their tokens, as names without the `.txt`, and what follows `--trace` is a path known to the
instance, readable or not (`NamesAssumption`, `EnvironmentAssumption`).

| Module | Theorem | Says |
|---|---|---|
| `EngineProofs` | `TypeCorrect`, `AccountingCorrect`, `WindowCorrect`, `SwitchesCorrect` | the invariants of `engine`, for any scheduler |
| | `ChecksNeverFailCorrect` | no finished run fails the run-time checks, for any scheduler |
| | `WaitingIsTimeNotRunCorrect` | sum, maximum and variance of the waiting times are those the timeline shows, for any scheduler |
| | `WCImplementsEngine` | the contract restricts the engine, so the above holds of it |
| | `TickBoundCorrect`, `NeverGivesUpCorrect` | the bound of `engine.h`, and that a table that fits never errs |
| | `ElapsedTimeFixedCorrect` | under the contract the elapsed time is that of table order |
| | `PushTailAppends`, `PopHeadIsTail` | what the circular array does to the sequence it stands for |
| `FcfsProofs` | `FcfsInvCorrect` | the array is the table, slot by slot |
| | `FcfsImplementsContract`, `InTableOrderCorrect` | the contract, and the stamps in closed form |
| | `FcfsImplementsQueues` | the array is one line without a quantum |
| | `QueuesImplementContract` | the contract, for the abstract queues with all constants open |
| | `IdleTogetherCorrect` | FCFS and the abstract queues idle at the same ticks |
| `TableScanProofs` | `ScanImplementsContract` | the contract, for SJF, SRTF and both Priority schedulers |
| | `OnlyArrivalsPreemptCorrect`, `MostUrgentIsServedCorrect` | the two properties of `table_scan` about preemption and priority |
| | `LeastWaitingCorrect` | SRTF, and SJF without later arrivals, reach the least sum of completion ticks |
| | `NobodyWaitsLess` | no scheduler of the contract ends below that sum |
| `CfsProofs` | `CfsImplementsContract` | the contract |
| | `VruntimesStayCloseCorrect`, `ZeroIncrementCorrect`, `WeightedSharesCorrect` | the three properties of `cfs`; the shares are inverse to the truncated increments |
| `RoundRobinProofs` | `RrImplementsContract` | the contract; the ring is never full at a push |
| | `RrImplementsQueues` | ring, `running` and `left` are one line with slices |
| | `OneTurnEachCorrect`, `BoundedWaitCorrect`, `LargeQuantumIsFcfsCorrect` | the three properties of `round_robin` |
| `MlqProofs` | `MlqImplementsContract` | the contract; no ring is ever full at a push |
| | `MlqImplementsQueues` | three rings with one saved slice each are three lines |
| | `OneQueueIsItsPolicyCorrect` | with everybody in one queue MLQ is that queue's line |
| | `HigherQueuesFirstCorrect`, `OneSliceEachCorrect` | higher queues win outright; turns within a level |
| `MlfqProofs` | `MlfqImplementsContract` | the contract; a boost loses and doubles nobody |
| | `MlfqImplementsQueues` | demotion and boost included, three rings are three lines |
| | `ShortBurstsAreOneLineCorrect` | with short bursts MLFQ is one line without slices |
| | `LevelIsEarnedCorrect`, `HigherLevelsFirstCorrect`, `BoostFeedsEveryoneCorrect` | the three properties of `mlfq` about levels, slices and the boost |
| `DriverProofs` | `LoadsWhatTheFileSaysCorrect`, `RefusesTheFirstOffenceCorrect` | the two properties of the loader, the sort included; of a refusal, the piece at which it comes |
| | `FilesAppearInOrderCorrect`, `SuccessMeansEverythingCorrect`, `FailureHasACauseCorrect` | the three properties of the driver, for all words, directories, traces and files, with any of them cut short |

So all nine algorithms are proved to keep the contract, and what is proved of the
contract holds of each of them by `WCSafety`, the contract without its fairness.

*Engine.* `TypeOK` is not inductive by itself: `current` is a row or IDLE only
because a pick of an unknown pid leads to `"error"`, and `Execute` keeps
`remaining` in the naturals only because a pick checked it. The invariant adds
what each phase knows of `next` and `timeline[tick]`. `Accounting` counts ticks of
the timeline as a set: `Elapsed` grows by exactly the tick that `Execute` accounts
for, and an entry already decided never changes. `Window` and the switch count go
through in the same way, one lemma per quantity that says how its set changes.

*Metrics.* The busy ticks are the disjoint union of the `TicksOf` sets, and
`WorkOf` that of the bursts. At a return with 0 nothing remains, so the two have
equal cardinality through `Accounting`. Sums over the bursts are therefore
cardinalities of sets of units of work, which grow by one element at a time. The
waiting time of one process is that of its stay less its burst (`WaitingIsWaited`). Sums
of waiting times are folds, which take the elements of a set in an order of their own:
`TotalOf` is the recursive function behind the fold, `TotalDef` says that there is one and
`TotalAdd` that the order does not matter, by `SubsetInduction`. The variance is then
compared with the differences of all pairs through polynomials in the number of
processes, their sum and their sum of squares.

*Contract.* The tick bound is inductive: an idle tick after the last arrival would
mean that nothing is ready and nothing will be, so everything is finished. With
the busy ticks bounded by the total work the clock stays within a timeline the
table fits.

*Elapsed time.* The finish times of table order are a recursive function.
`InOrderFinishTimes` proves its equations, with the least counterexample (`LeastNat`)
where an induction is needed. `BacklogInv` says, for the rows admitted so far, that
the time at which table order would finish them is now plus the units of work left,
or is past if none is left. One arrival unfolds the function once.

*FCFS.* `FcfsInv` is the strengthening that makes the contract provable: slots 0 to
tail - 1 hold rows 1 to tail, which are the admitted ones; rows up to `head` are
finished but for the running one, rows after it are untouched. So the slot read is
a ready row, and an empty queue means that nothing is ready. `InTableOrder` then
needs only that a scheduler starts a row when all rows before it are done, and keeps
it (`TakesFirst`): that step is a lemma about the engine (`EngineProofs`), shared with
Round Robin under a large quantum.

*Table scans.* The pid remembered is that of the process that ran at the last tick, if
it has work left. The scan returns a least key, by the fact that a finite set of
naturals has a first least element. `OnlyArrivalsPreempt` needs the history: what runs
is still least among those that were there when it was dispatched (`StillLeast`), so a
switch that leaves work behind is one to a newcomer (`DisplacedRightly`). The most
urgent process is followed from its arrival, at once with preemption (`RunsAtOnce`)
and after the one that blocks it without (`RunsNext`).

*Least waiting.* `LeastRestDef` says that the recursive function of the reference exists, by
the number of ticks left; the lemmas about its values go backwards from the last tick
(`Backwards`). `Feasible` are the states in which the work left fits before the horizon; a
run starts in one, and running a process or waiting for an arrival keeps it. The exchange
argument has two lemmas. What is left of two rows that have arrived may be exchanged
without changing the best (`LeastRestExchanged`). So it is never worse to run the one with
less left (`ShorterFirst`): if the best that follows the longer one runs the shorter one next,
the two ticks are swapped; if it runs anything else, the lemma holds of the same choice a
tick later. Under any scheduler of the contract, `SumSoFar + Rest`, what the finished
processes cost plus the best that is still within reach, never falls, and stays as it is
when a process with least left runs (`CostStep`). It starts as the least sum and ends as
the sum that was paid, which gives `NobodyWaitsLess` and, with `StillLeast` for SRTF and
`ShortestJobInv` for SJF, `LeastWaitingCorrect`.

*CFS.* `ClosenessInv` adds to closeness that the process on the CPU is one of those
furthest behind: an arrival joins those, and only one of them moves on. It breaks
when two arrivals fall on one tick, the first disagreement of section 6, and the
hypothesis of the property is that they do not.
`CountingInv` says that a vruntime is the ticks executed times the increment, for the
processes that were there from the start.

*Rings.* `Contents` reads a ring as a sequence; every operation of `Ring` is proved to
do to it what its name says, for every front and every length, under the condition
the C code relies on and does not test (a push finds a free slot). `Holds` says that
a sequence has each member of a set, but for the running process, once; it is kept by
arrival, dispatch, return to the tail, return to the front and exit. A sequence that
holds fewer than n processes once each is shorter than n, which is why a push finds room.

*Round Robin.* `RrInv` is `Holds` for the ring and what the phases know of `running` and
`left`. `Patience` bounds what a process at place p has still to wait by the slice left
and p - 1 quanta, so the wait since its request is bounded. `Turns` says for each place
in the ring which processes have run since the one there was sent back; the turn
order of `OneTurnEach` is read off it when that process comes to the front. With a
large quantum nobody is sent back, the ring is in table order (`RowsInOrder`), and
`TakesFirst` gives the closed form of FCFS.

*MLQ.* `RingsHold` is `Holds` for the ring of each level and the processes of that level.
A displaced process goes back in front of the ring it came from and a spent one to
its tail, and `highest` finds the first level with anything in it, so every answer is
ready and of the highest queue that has any. `OneSliceEach` rests on two more invariants.
`SlicesInv`: the ticks a process has had and the rest of its slice, wherever that rest is
kept, make whole slices, and a saved rest is that of a head at a level nobody runs at.
`TurnsInv`: whoever was there when the process at a place of a ring last ran has run since
or is in front of it, except for a head with a saved rest. So a process that gets a whole
slice comes after the others, and one that goes on with a rest was in the same slice at
its last tick, where the property held already.

*MLFQ.* `InPlace` is what the struct must satisfy between any two of the helpers: the rings
hold the unfinished processes but for the running one, each at the level `level_of`
names; who runs has some of its slice left; a saved slice has an owner. It is stated
for a value of the struct, so that release, boost and dispatch, which one call of
`pick_next` makes in sequence, each get a lemma. `Boosted` is the one about the boost:
by the least row at which the loop over the table could go wrong, everyone waiting
is gathered once, and all are at the top with whole slices. `EarnedInv` says that level
and rest (`RestIn`, wherever the rest is kept) are functions of the ticks executed
since the last boost, the tick about to be charged left out; `SliceTakesTurns` is the
arithmetic of one more tick. A decided tick some process wants goes to a process
(`SomeoneRuns`), and with the levels of the invariant read off the timeline
(`LevelNow`) it is one of the highest level. `BoostFeedsEveryone` follows without
another invariant, by counting: until a process has had its top-level slice it is at
level 0, so while somebody at level 0 waits, each of the others gets at most one slice
there, and n - 1 of those do not fill an interval with room for n (`WindowIsNotFull`).

*Queues.* `FcfsImplementsQueues`, `RrImplementsQueues`, `MlqImplementsQueues` and
`MlfqImplementsQueues` are the safety part (`QueueSafety`) of what the runs check as
`QueueSpec`. A line (`Line`) is what its ring holds, behind the process on the CPU. So a
dispatch, which pops the ring and sets `running`, and a displacement, which does the
opposite, change no line and nobody's rest: both are stutters of the lines, and the
answer of the pick is `FrontOf`. Arrivals, exits and spent slices act on one line each.
For that the rest of a process must be a function of the lines. In MLQ this needs
`SlicesInv` (the one saved rest is that of the head) and that levels without a quantum
save nothing (`Unsliced`). In MLFQ it needs `InPlace`, and the boost needs one fact
more: the abstract boost asks whether the process that ran last is in the middle of
its slice, the code whether `running` is set, and `BegunInv` says that it is the same. The
abstract boost puts the others in table order without saying how; that the loop over
the table produces just that sequence is `Boosted`. Since `INSTANCE` makes a second copy
of the engine's definitions, `SameEngine` says once per mapping that the two are the same.

*Side by side.* Both theorems about `CrossChecks` need what FCFS needs and two more
invariants. `LinesInv` is `Holds` for lines: they hold the unfinished processes, each once and at one
level, and the process being served is the front of its line until it is finished. A boost
and a demotion keep it by the lemmas about `Holds` (`BoostHolds`, `LinesLeave`,
`LinesArrive`), so the answer is ready whenever anything is. `LockstepInv` says that the two
engines are at the same place of the same tick and that the rows admitted have equally
many units of work left in both (`Units`), though not the same ones: an arrival adds its
burst to both, a busy tick takes one unit from each. So one has nothing to run exactly
when the other has not, and both loops end at the same test.

*One line.* `OneQueueIsItsPolicyCorrect` goes through the abstract steps: each of them, read on
the one line that is not empty (`OthersEmpty`), is a step of `Alone`. `ShortBurstsAreOneLineCorrect`
needs an invariant of its own, `ShortInv`: while nobody has more work left than a top-level
slice lets it do, everyone is at level 0 and that line is in table order. An arrival is
the last row so far, an exit leaves the order, and a boost puts those behind the running
process in table order: two increasing sequences with the same members are the same
(`OneOrder`), so it moves nobody.

*Loader.* `PrefixInv` is the loop invariant: no piece read so far offends, and the array
holds the rows of the data among them, once each. `qsort`, a CHOOSE of the ordered
arrangement, needs the arrangement to exist: it is built by ranking the rows, which
is possible because no two are equal.

*Driver.* The promise is read off the words as a whole, and the program reads them one at a
time, so the argument is in parts. `ParseInv`: between two rounds of the loop an option is next,
all before it could be read, and the locals hold what the latest option of each kind says; that
an option is next is a parity (`IsOption`), since a value may look like an option. After the
loop the form the code decides for is the form of the usage (`Settled`). `Listing`: `traces` has the
traces among the entries read so far, in whatever order `readdir` gave them. `SortedTo` is the
invariant of the insertion sort, a round of which rearranges the names and puts one more in
order (`InsertedIs`); an arrangement in order is the only one (`OneSort`), so the array ends as
`AllTraces`, the names in order (a CHOOSE) of the traces the listing took, `Chosen`. Those are one of the
`Selections` (`ChosenIsASelection`): all traces, or as many as there is room for. With that `Plan` holds: which run and which file has which number, and
that no file is promised twice, for which the traces of the directory must differ in their
tokens. `Done(n)` says that the first n of the promised files are there, each as it is to be unless
it was cut short (`Filled`), and no others.
`DriverInv` says for each place in the program which run is the current one and for which n
`Done` holds; a file that opens takes n to n + 1 (`WriteMore`), and everything else leaves it.
A failed run needs a `Reason`, and by the loader's theorems a refused load is one.

*Model-checked only*, and why:

- liveness (`Returns`, `EverythingFinishes`) and with it the fairness part of `WCSpec`,
  `QueueSpec` and `QueuesKeepContract`, of which the theorems state the rest: out of the
  prover's reach.

## 8. Reading order

`Engine`, `WorkConserving`, `Fcfs` with `FcfsProofs`; `QueueDiscipline`; `Ring` and `RoundRobin`
with their proofs, then `Mlq` and `Mlfq` with theirs; `Loader` and `Driver` with
`DriverProofs` on their own. Of `EngineProofs` and `DriverProofs` read the definitions of the
invariants and the theorems first.

## 9. What is left

Every safety property of a passing run is stated by a theorem. Liveness, and with it the
fairness part of the implementations, stays with TLC.

### Not modelled

- The columns, number formats and order of rows of the CSV files: layout, computed
  from numbers that `Metrics` covers. `Csv` keeps what the driver's properties need.
- `tests/run_tests.sh`, `tools/plot.py` and the Makefile: they use the program from
  outside and carry none of its logic.
- Characters: what `sscanf` and `strtol` make of a text is data of the instances.
