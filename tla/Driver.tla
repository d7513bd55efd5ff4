------------------------------- MODULE Driver -------------------------------
(***************************************************************************)
(* src/main.c over the loader and the CSV writer: one invocation of the    *)
(* program, from its arguments to its exit status and the files it leaves. *)
(* run_one is a call of the loader, the engine and the checks, each of     *)
(* which may fail, and then of the CSV writer, which may fail at each of   *)
(* its files.                                                              *)
(*                                                                         *)
(* What the engine and the checks make of a loaded trace is given by       *)
(* verdict.  It is the same for every algorithm: by EverythingFinishes the *)
(* engine gives up on the same traces whatever the algorithm.              *)
(***************************************************************************)
EXTENDS Csv, Loader

CONSTANTS Environments,    \* what a run may meet: values of environment
          Names,           \* the entries of traces/ in the order of strcmp
          TraceFiles,      \* those that end in .txt
          NumberOf         \* what strtol makes of the tokens that are numbers

VARIABLES
    argv,         \* the words after the program's name
    directory,    \* the entries of traces/ in the order of readdir
    contents,     \* per trace: the file, one of Files
    verdict,      \* per trace: "good", or the part of run_one that refuses it
    options, arg,                           \* locals of main, and its loop
    traces, seen, algo_at, trace_at,        \* traces, i of its loops, k and i of run_all
    rows,                                   \* rows of run_sweep
    call, written, ret,                     \* the current run_one
    pc, status

environment == <<argv, directory, contents, verdict, unwritable, full>>
loops == <<traces, seen, algo_at, trace_at, rows>>
DriverVars == <<environment, options, arg, loops, call, written, ret, output, LoaderVars, pc, status>>

DEFAULT_QUANTUM == 4
MAX_QUANTUM == 100000
SWEEP_MIN == 1
SWEEP_MAX == 12
Sweep == SWEEP_MIN..SWEEP_MAX
NONE == "none"

\* NONE, the null pointer, is no word.  Paths are the traces an instance knows,
\* and the traces of the directory differ in their tokens, since these are the
\* names without the .txt.  readdir lists no name twice.
Paths == DOMAIN TokenOf
Verdicts == {"good", "endless", "inconsistent"}

ASSUME NamesAssumption ==
    /\ Names \in Seq(STRING) /\ IsInjective(Names)
    /\ TraceFiles \subseteq Range(Names) \cap Paths
    /\ \A s, t \in TraceFiles : TokenOf[s] = TokenOf[t] => s = t

ASSUME EnvironmentAssumption ==
    \A e \in Environments :
        /\ e.argv \in Seq(STRING \ {NONE})
        /\ \A k \in 1..(Len(e.argv) - 1) : e.argv[k] = "--trace" => e.argv[k + 1] \in Paths
        /\ e.directory \in Seq(Range(Names)) /\ IsInjective(e.directory)
        /\ e.contents \in [Paths -> Files]
        /\ e.verdict \in [Paths -> Verdicts]

DriverInit ==
    /\ \E e \in Environments :
           /\ argv = e.argv /\ directory = e.directory /\ contents = e.contents
           /\ verdict = e.verdict /\ unwritable = e.unwritable /\ full = e.full
    /\ options = [algo |-> NONE, trace |-> NONE, quantum |-> DEFAULT_QUANTUM,
                  quantum_given |-> FALSE, want_all |-> FALSE, want_sweep |-> FALSE]
    /\ arg = 1
    /\ traces = <<>>
    /\ seen = 0
    /\ algo_at = 0
    /\ trace_at = 1
    /\ rows = <<>>
    /\ call = [algo |-> NONE, trace |-> NONE, quantum |-> 0, write |-> FALSE]
    /\ written = 0
    /\ ret = 0
    /\ output = [f \in FileNames |-> Before]
    /\ LoaderInit
    /\ pc = "parse"
    /\ status = 0

Exit(code) == pc' = "exited" /\ status' = code
Goto(label) == pc' = label /\ UNCHANGED status

-----------------------------------------------------------------------------
\* The loop over the arguments.
parse_int(s) == s \in DOMAIN NumberOf /\ NumberOf[s] \in 1..MAX_QUANTUM

Value == argv[arg + 1]

\* Mutated form: the last word is not taken for a value.
HasValue_NotLast == arg + 2 <= Len(argv)

HasValue == arg + 1 <= Len(argv)

SetOption(new, width) ==
    /\ options' = new
    /\ arg' = arg + width
    /\ Goto("parse")

ParseArg ==
    /\ pc = "parse"
    /\ arg <= Len(argv)
    /\ \/ /\ argv[arg] = "--algo" /\ HasValue
          /\ SetOption([options EXCEPT !.algo = Value], 2)
       \/ /\ argv[arg] = "--trace" /\ HasValue
          /\ SetOption([options EXCEPT !.trace = Value], 2)
       \/ /\ argv[arg] = "--quantum" /\ HasValue
          /\ IF parse_int(Value)
             THEN SetOption([options EXCEPT !.quantum = NumberOf[Value],
                                            !.quantum_given = TRUE], 2)
             ELSE Exit(1) /\ UNCHANGED <<options, arg>>
       \/ /\ argv[arg] = "--all"
          /\ SetOption([options EXCEPT !.want_all = TRUE], 1)
       \/ /\ argv[arg] = "--sweep"
          /\ SetOption([options EXCEPT !.want_sweep = TRUE], 1)
       \/ /\ argv[arg] \notin {"--all", "--sweep"}
          /\ argv[arg] \in {"--algo", "--trace", "--quantum"} => ~ HasValue
          /\ Exit(1)
          /\ UNCHANGED <<options, arg>>
    /\ UNCHANGED <<environment, loops, call, written, ret, output, LoaderVars>>

NoOther == options.algo = NONE /\ ~ options.quantum_given

IsAll == options.want_all /\ ~ options.want_sweep /\ NoOther /\ options.trace = NONE
IsSweep == options.want_sweep /\ ~ options.want_all /\ NoOther /\ options.trace # NONE

IsSingle ==
    /\ ~ options.want_all /\ ~ options.want_sweep
    /\ options.algo # NONE /\ options.trace # NONE
    /\ options.quantum_given => options.algo = "rr"

run_one(algo, path, q, write) ==
    /\ call' = [algo |-> algo, trace |-> path, quantum |-> q, write |-> write]
    /\ written' = 0
    /\ Goto("lookup")

\* main after its loop: one of the three forms, or an error.
Decide ==
    /\ pc = "parse"
    /\ arg > Len(argv)
    /\ \/ IsAll /\ Goto("list") /\ UNCHANGED <<call, written>>
       \/ IsSweep /\ run_one("rr", options.trace, SWEEP_MIN, FALSE)
       \/ IsSingle /\ run_one(options.algo, options.trace, options.quantum, TRUE)
       \/ ~ (IsAll \/ IsSweep \/ IsSingle) /\ Exit(1) /\ UNCHANGED <<call, written>>
    /\ UNCHANGED <<environment, options, arg, loops, ret, output, LoaderVars>>

-----------------------------------------------------------------------------
\* run_all: list the directory, sort the names, then every pairing.
Unchanged_list ==
    UNCHANGED <<environment, options, arg, algo_at, trace_at, rows, call, written, ret, output, LoaderVars>>

\* The next call of readdir is made if there is room for another name.
Reading == seen < Len(directory) /\ Len(traces) < MaxProcesses

ListEntry ==
    /\ pc = "list"
    /\ Reading
    /\ seen' = seen + 1
    /\ traces' = IF directory[seen + 1] \in TraceFiles THEN Append(traces, directory[seen + 1])
                 ELSE traces
    /\ UNCHANGED <<pc, status>> /\ Unchanged_list

\* A directory that opendir cannot open lists nothing.
Listed ==
    /\ pc = "list"
    /\ ~ Reading
    /\ IF traces = <<>> THEN Exit(1) /\ UNCHANGED seen ELSE Goto("sort") /\ seen' = 1
    /\ UNCHANGED traces /\ Unchanged_list

Rank(name) == CHOOSE k \in DOMAIN Names : Names[k] = name

\* Mutated form: the names stay in the order of readdir.
Inserted_AsListed(s, i) == s

\* The name behind the first i goes behind the last of them that does not
\* follow it, and those that do move up by one.
Inserted(s, i) ==
    LET key == s[i + 1]
        place == Max({0} \cup {j \in 1..i : Rank(s[j]) <= Rank(key)})
    IN  [k \in DOMAIN s |-> IF k <= place \/ k > i + 1 THEN s[k]
                            ELSE IF k = place + 1 THEN key ELSE s[k - 1]]

\* A round of the insertion sort, or its end.
Sort ==
    /\ pc = "sort"
    /\ IF seen < Len(traces)
       THEN traces' = Inserted(traces, seen) /\ seen' = seen + 1 /\ UNCHANGED <<pc, status>>
       ELSE Goto("pairing") /\ UNCHANGED <<traces, seen>>
    /\ Unchanged_list

\* The two loops of run_all, at a pairing.
Pairing ==
    /\ pc = "pairing"
    /\ IF scheduler_names(algo_at)
       THEN run_one(registry[algo_at + 1], traces[trace_at], DEFAULT_QUANTUM, TRUE)
       ELSE Exit(0) /\ UNCHANGED <<call, written>>
    /\ UNCHANGED <<environment, options, arg, loops, ret, output, LoaderVars>>

-----------------------------------------------------------------------------
\* run_one: each part may end it.
Return(value) == Goto("returned") /\ ret' = value
Unchanged_run == UNCHANGED <<environment, options, arg, loops, call>>

Lookup ==
    /\ pc = "lookup"
    /\ IF scheduler_lookup(call.algo)
       THEN load_trace(contents[call.trace]) /\ Goto("load") /\ UNCHANGED ret
       ELSE Return(-1) /\ UNCHANGED LoaderVars
    /\ UNCHANGED <<written, output>> /\ Unchanged_run

Load ==
    /\ pc = "load"
    /\ LoadStep
    /\ UNCHANGED <<written, ret, output, pc, status>> /\ Unchanged_run

Loaded ==
    /\ pc = "load"
    /\ outcome # "reading"
    /\ IF outcome = "failed" THEN Return(-1) ELSE Goto("engine") /\ UNCHANGED ret
    /\ UNCHANGED <<written, output, LoaderVars>> /\ Unchanged_run

\* init and engine_run.  What they do to the rows is in Engine and Metrics.
EngineRun ==
    /\ pc = "engine"
    /\ IF verdict[call.trace] = "endless" THEN Return(-1) ELSE Goto("check") /\ UNCHANGED ret
    /\ UNCHANGED <<written, output, LoaderVars>> /\ Unchanged_run

Check ==
    /\ pc = "check"
    /\ IF verdict[call.trace] = "inconsistent" THEN Return(-1)
       ELSE IF call.write THEN Goto("write") /\ UNCHANGED ret ELSE Return(0)
    /\ UNCHANGED <<written, output, LoaderVars>> /\ Unchanged_run

Contents == <<Result(call.algo, call.trace, call.quantum)>>

\* Mutated form: the failure of a file is not handed on.
WriteFile_GoesOn ==
    /\ pc = "write"
    /\ LET f == RunFile(call.algo, call.trace, written + 1)
       IN  IF CanOpen(f) THEN Write(f, Contents) ELSE UNCHANGED output
    /\ written' = written + 1
    /\ IF written + 1 = Len(Kinds) THEN Return(0) ELSE Goto("write") /\ UNCHANGED ret
    /\ UNCHANGED LoaderVars /\ Unchanged_run

WriteFile ==
    /\ pc = "write"
    /\ LET f == RunFile(call.algo, call.trace, written + 1)
       IN  IF CanOpen(f)
           THEN /\ Write(f, Contents)
                /\ written' = written + 1
                /\ IF written + 1 = Len(Kinds) THEN Return(0) ELSE Goto("write") /\ UNCHANGED ret
           ELSE Return(-1) /\ UNCHANGED <<written, output>>
    /\ UNCHANGED LoaderVars /\ Unchanged_run

-----------------------------------------------------------------------------
\* Back in the caller of run_one.
ReturnToMain ==
    /\ pc = "returned" /\ IsSingle
    /\ Exit(IF ret = 0 THEN 0 ELSE 1)
    /\ UNCHANGED <<environment, options, arg, loops, call, written, ret, output, LoaderVars>>

ReturnToAll ==
    /\ pc = "returned" /\ IsAll
    /\ IF ret # 0 THEN Exit(1) /\ UNCHANGED <<algo_at, trace_at>>
       ELSE /\ Goto("pairing")
            /\ IF trace_at < Len(traces)
               THEN trace_at' = trace_at + 1 /\ UNCHANGED algo_at
               ELSE trace_at' = 1 /\ algo_at' = algo_at + 1
    /\ UNCHANGED <<environment, options, arg, traces, seen, rows, call, written, ret, output, LoaderVars>>

ReturnToSweep ==
    /\ pc = "returned" /\ IsSweep
    /\ IF ret # 0 THEN Exit(1) /\ UNCHANGED <<rows, call, written>>
       ELSE /\ rows' = Append(rows, Result("rr", call.trace, call.quantum))
            /\ IF call.quantum < SWEEP_MAX
               THEN run_one("rr", options.trace, call.quantum + 1, FALSE)
               ELSE Goto("sweep_file") /\ UNCHANGED <<call, written>>
    /\ UNCHANGED <<environment, options, arg, traces, seen, algo_at, trace_at, ret, output, LoaderVars>>

WriteSweep ==
    /\ pc = "sweep_file"
    /\ LET f == SweepFile(options.trace)
       IN  IF CanOpen(f) THEN Write(f, rows) /\ Exit(0) ELSE Exit(1) /\ UNCHANGED output
    /\ UNCHANGED <<environment, options, arg, loops, call, written, ret, LoaderVars>>

Exited == pc = "exited" /\ UNCHANGED DriverVars

DriverNext ==
    \/ ParseArg \/ Decide
    \/ ListEntry \/ Listed \/ Sort \/ Pairing
    \/ Lookup \/ Load \/ Loaded \/ EngineRun \/ Check \/ WriteFile
    \/ ReturnToMain \/ ReturnToAll \/ ReturnToSweep \/ WriteSweep
    \/ Exited

DriverSpec == DriverInit /\ [][DriverNext]_DriverVars /\ WF_DriverVars(DriverNext)

-----------------------------------------------------------------------------
\* The command line as SPEC.md section 10 gives it, read off the words.
Flags == {"--all", "--sweep"}
Valued == {"--algo", "--trace", "--quantum"}

\* A word is an option unless it is the value of the option before it: an even
\* number of words that take a value stand directly before it.  A value may
\* look like an option.
ValuedBefore(k) == {j \in 1..(k - 1) : \A m \in j..(k - 1) : argv[m] \in Valued}
IsOption(k) == Cardinality(ValuedBefore(k)) % 2 = 0
At(word) == {k \in DOMAIN argv : IsOption(k) /\ argv[k] = word}

Has(word) == At(word) # {}
ValueOf(option) == argv[Max(At(option)) + 1]

WellFormed ==
    \A k \in DOMAIN argv : IsOption(k) =>
        \/ argv[k] \in Flags
        \/ /\ argv[k] \in Valued /\ k < Len(argv)
           /\ argv[k] = "--quantum" => parse_int(argv[k + 1])

UsesAll == Has("--all") /\ \A word \in Valued \cup {"--sweep"} : ~ Has(word)
UsesSweep == Has("--sweep") /\ Has("--trace") /\ \A word \in {"--all", "--algo", "--quantum"} : ~ Has(word)
UsesOne == /\ Has("--algo") /\ Has("--trace") /\ ~ Has("--all") /\ ~ Has("--sweep")
           /\ Has("--quantum") => ValueOf("--algo") = "rr"
IsUsage == WellFormed /\ (UsesAll \/ UsesSweep \/ UsesOne)

\* SPEC.md section 10: "--all runs every algorithm on every trace".
TracesThere == {directory[k] : k \in DOMAIN directory} \cap TraceFiles
RoomForAll == Cardinality(TracesThere) <= MaxProcesses

\* With more traces than there is room for, some of them are left out: a
\* selection says which ones it runs.
Selections ==
    IF RoomForAll THEN {TracesThere}
    ELSE {S \in SUBSET TracesThere : Cardinality(S) = MaxProcesses}

InNameOrder(S) ==
    CHOOSE s \in [1..Cardinality(S) -> S] :
        \A i, j \in DOMAIN s : i < j => Rank(s[i]) < Rank(s[j])

\* The pairings and quanta a usage asks for, in order, --all over the traces S.
PairingsOf(S) ==
    LET all == InNameOrder(S)
    IN  [n \in 1..(Len(registry) * Len(all)) |->
            Result(registry[((n - 1) \div Len(all)) + 1], all[((n - 1) % Len(all)) + 1], DEFAULT_QUANTUM)]
AskedOf(S) ==
    IF UsesAll THEN PairingsOf(S)
    ELSE IF UsesSweep THEN [n \in Sweep |-> Result("rr", ValueOf("--trace"), n)]
    ELSE <<Result(ValueOf("--algo"), ValueOf("--trace"),
                  IF Has("--quantum") THEN NumberOf[ValueOf("--quantum")] ELSE DEFAULT_QUANTUM)>>

\* The files it promises, in the order they are to appear.
PromisedOf(S) ==
    LET asked == AskedOf(S)
        run(n) == asked[((n - 1) \div 3) + 1]
    IN  IF UsesSweep THEN <<[file |-> SweepFile(ValueOf("--trace")), of |-> asked]>>
        ELSE [n \in 1..(3 * Len(asked)) |->
                 [file |-> RunFile(run(n).algo, run(n).trace, ((n - 1) % 3) + 1), of |-> <<run(n)>>]]

Touched == {f \in FileNames : output[f] # Before}

\* A file this run has written holds the results r, unless it was cut short.
Reports(f, r) == output[f].of = r /\ (f \notin full => output[f].complete)

\* At every moment what this run has left is the first so many of the files
\* its command line promises, each with the results it is to hold: whatever
\* order readdir lists the traces in, and wherever a run is cut off by a bad
\* trace or a file that cannot be opened.  Of more traces than there is room
\* for it is as if only a selection were there.  A sweep leaves one file or
\* none, and a command line that is no usage leaves nothing.
FilesAppearInOrder ==
    Touched # {} =>
        /\ IsUsage
        /\ \E S \in Selections :
               LET promised == PromisedOf(S)
                   touched == Touched
               IN  /\ Cardinality(touched) <= Len(promised)
                   /\ touched = {promised[n].file : n \in 1..Cardinality(touched)}
                   /\ \A n \in 1..Cardinality(touched) : Reports(promised[n].file, promised[n].of)

\* A zero exit status means all of it: the words were a usage, every pairing
\* was run with the quantum asked for on a trace that is one, and every file
\* promised is there.  For --all that is every algorithm on every trace of the
\* directory, if there is room for them, and a file cut short counts as there:
\* SuccessIsAsDocumented drops both exceptions.
SuccessMeansEverything ==
    pc = "exited" /\ status = 0 =>
        /\ IsUsage
        /\ (UsesAll => RoomForAll) =>
               LET asked == AskedOf(TracesThere)
                   promised == PromisedOf(TracesThere)
               IN  /\ Touched = {promised[n].file : n \in DOMAIN promised}
                   /\ \A n \in DOMAIN promised : Reports(promised[n].file, promised[n].of)
                   /\ \A n \in DOMAIN asked : IsTraceFile(contents[asked[n].trace])

\* A failure has a cause outside the program: the words, the directory, a trace
\* or a file.
FailureHasACause ==
    pc = "exited" /\ status = 1 =>
        \/ ~ IsUsage
        \/ \E S \in Selections :
               \/ AskedOf(S) = <<>>
               \/ \E n \in DOMAIN AskedOf(S) :
                      LET run == AskedOf(S)[n]
                      IN  \/ ~ scheduler_lookup(run.algo)
                          \/ ~ IsTraceFile(contents[run.trace])
                          \/ verdict[run.trace] # "good"
               \/ \E n \in DOMAIN PromisedOf(S) : PromisedOf(S)[n].file \in unwritable

\* The promise as the documents make it.  SPEC.md section 10: "--all runs every
\* algorithm on every trace"; csv.h: "Returns 0 on success, -1 after printing
\* to stderr".  When the program ends with 0, every file of every pairing is
\* there and holds all it is to report.
SuccessIsAsDocumented ==
    pc = "exited" /\ status = 0 =>
        LET promised == PromisedOf(TracesThere)
        IN  \A n \in DOMAIN promised :
                output[promised[n].file] = [of |-> promised[n].of, complete |-> TRUE]
=============================================================================
