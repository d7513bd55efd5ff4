-------------------------------- MODULE Csv --------------------------------
(***************************************************************************)
(* src/csv.c: the names of the output files and what is written to them.   *)
(* Columns, numbers and line ends are left out: a file is known by the     *)
(* results its rows are to report, and by whether it holds all of them.    *)
(***************************************************************************)
EXTENDS Registry

CONSTANT TokenOf       \* csv_trace_token: the part of a path that names its files

VARIABLES output,        \* the output directory
          unwritable,    \* the files fopen refuses to open
          full           \* the files that open, but are cut short: a write to them fails

\* The results of one run; only rr_init reads the quantum, and write_summary
\* reports it for rr alone.
Result(algo, path, q) == [algo |-> algo, trace |-> path, quantum |-> IF algo = "rr" THEN q ELSE 0]

\* The three files of a run in the order csv_write_run writes them.
Kinds == <<"timeline", "processes", "summary">>
RunFile(algo, path, k) == <<algo, TokenOf[path], Kinds[k]>>
SweepFile(path) == <<"sweep", TokenOf[path], "csv">>

FileNames ==
    {<<registry[a], TokenOf[p], Kinds[k]>> :
        a \in DOMAIN registry, p \in DOMAIN TokenOf, k \in DOMAIN Kinds}
        \cup {SweepFile(p) : p \in DOMAIN TokenOf}

\* A file from before this run, or none at all.
Before == [of |-> <<>>, complete |-> FALSE]

CanOpen(f) == f \notin unwritable

\* The file is opened, filled and closed.  What fputs, fprintf and fclose return
\* is not looked at, so a file cut short makes no difference to the caller.
Filled(f, results) == [of |-> results, complete |-> f \notin full]
Write(f, results) == output' = [output EXCEPT ![f] = Filled(f, results)]
=============================================================================
