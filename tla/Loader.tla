------------------------------- MODULE Loader -------------------------------
(***************************************************************************)
(* load_trace of src/process.c.  A file that can be opened is a sequence   *)
(* of the pieces fgets reads it in: one per line, unless a line is longer  *)
(* than the buffer of LINE_MAX_LEN.  A piece is known by what the          *)
(* conversions find in it: whether it is blank or starts with #, the       *)
(* integers it starts with, up to six, and whether anything follows them.  *)
(***************************************************************************)
EXTENDS ProcessTable, FiniteSetsExt, SequencesExt

CONSTANT Files   \* the files load_trace may be called with

VARIABLES file,       \* the trace file
          at,         \* pieces read so far, which is also lineno
          procs,      \* the rows stored so far, procs[0] to procs[count - 1]
          outcome     \* "reading", then "loaded" or "failed"

LoaderVars == <<file, at, procs, outcome>>

Piece == [blank : BOOLEAN, hash : BOOLEAN, ints : Seq(Int), more : BOOLEAN]

ASSUME LoaderAssumption ==
    \A f \in Files : f.opens \in BOOLEAN /\ f.pieces \in Seq(Piece)

\* The six fields of a piece, and the row they make.
Fields(piece) ==
    LET v == piece.ints
    IN  [pid |-> v[1], arrival |-> v[2], burst |-> v[3],
         priority |-> v[4], nice |-> v[5], queue |-> v[6]]
Stored(p) ==
    [pid |-> p.pid, arrival |-> p.arrival, burst |-> p.burst, priority |-> p.priority,
     nice |-> p.nice, queue |-> p.queue,
     remaining |-> p.burst, start_tick |-> NOT_STARTED, completion |-> NOT_STARTED]

is_skippable(piece) == piece.blank \/ piece.hash

\* What sscanf returns, the seventh conversion being the trailing %s.
FieldCount(piece) == Len(piece.ints) + (IF Len(piece.ints) = 6 /\ piece.more THEN 1 ELSE 0)

\* Mutated form: the last test is forgotten.
check_fields_NoQueue(p) ==
    p.pid >= 1 /\ p.arrival >= 0 /\ p.burst >= 1 /\ p.priority \in 0..9 /\ p.nice \in -5..5

check_fields(p) ==
    /\ p.pid >= 1
    /\ p.arrival >= 0
    /\ p.burst >= 1
    /\ p.priority \in 0..9
    /\ p.nice \in -5..5
    /\ p.queue \in 0..2

\* Mutated form: the last place of the array is never used.
IsFull_Early == Len(procs) >= MaxProcesses - 1

IsFull == Len(procs) >= MaxProcesses

IsDuplicate(p) == \E i \in DOMAIN procs : procs[i].pid = p.pid

\* The tests a line that is not skipped must pass, in their order.
IsAccepted(piece) ==
    /\ ~ IsFull
    /\ FieldCount(piece) = 6
    /\ check_fields(Fields(piece))
    /\ ~ IsDuplicate(Fields(piece))

\* The order qsort is given: arrival ascending, then pid ascending.
by_arrival_then_pid(p, q) ==
    p.arrival < q.arrival \/ (p.arrival = q.arrival /\ p.pid < q.pid)

\* What qsort makes of rows no two of which are equal: the same rows, none of
\* them behind one it comes before.
qsort(s) ==
    CHOOSE t \in [DOMAIN s -> Range(s)] :
        /\ Range(t) = Range(s)
        /\ \A i, j \in DOMAIN s : i < j => ~ by_arrival_then_pid(t[j], t[i])

\* A call of load_trace with the file f.
load_trace(f) ==
    /\ file' = f
    /\ at' = 0
    /\ procs' = <<>>
    /\ outcome' = "reading"

\* fopen fails: nothing is read.
CannotOpen ==
    /\ outcome = "reading"
    /\ ~ file.opens
    /\ outcome' = "failed"
    /\ UNCHANGED <<file, at, procs>>

\* The next call of fgets returns piece.
Reads(piece) ==
    /\ outcome = "reading"
    /\ file.opens
    /\ at < Len(file.pieces)
    /\ piece = file.pieces[at + 1]
    /\ at' = at + 1
    /\ UNCHANGED file

SkipLine(piece) ==
    /\ Reads(piece)
    /\ is_skippable(piece)
    /\ UNCHANGED <<procs, outcome>>

RefuseLine(piece) ==
    /\ Reads(piece)
    /\ ~ is_skippable(piece)
    /\ ~ IsAccepted(piece)
    /\ outcome' = "failed"
    /\ UNCHANGED procs

StoreLine(piece) ==
    /\ Reads(piece)
    /\ ~ is_skippable(piece)
    /\ IsAccepted(piece)
    /\ procs' = Append(procs, Stored(Fields(piece)))
    /\ UNCHANGED outcome

EndOfFile ==
    /\ outcome = "reading"
    /\ file.opens
    /\ at = Len(file.pieces)
    /\ IF procs = <<>>
       THEN outcome' = "failed" /\ UNCHANGED procs
       ELSE outcome' = "loaded" /\ procs' = qsort(procs)
    /\ UNCHANGED <<file, at>>

LoadStep ==
    \/ CannotOpen
    \/ \E piece \in Range(file.pieces) : SkipLine(piece) \/ RefuseLine(piece) \/ StoreLine(piece)
    \/ EndOfFile

\* Before the first call.
LoaderInit ==
    /\ file = [opens |-> FALSE, pieces |-> <<>>]
    /\ at = 0
    /\ procs = <<>>
    /\ outcome = "failed"

\* One call after another, as run_one makes them.
LoaderNext == (outcome # "reading" /\ \E f \in Files : load_trace(f)) \/ LoadStep

LoaderSpec == LoaderInit /\ [][LoaderNext]_LoaderVars /\ WF_LoaderVars(LoadStep)

-----------------------------------------------------------------------------
\* The reading of SPEC.md section 4, of a file and not of a loop: which pieces
\* are data, which of them are a row, and which one is the matter of an error.
Data(f) == {k \in DOMAIN f.pieces : ~ (f.pieces[k].blank \/ f.pieces[k].hash)}

\* What the engine sees of a row.
AsRow(p) == [arrival |-> p.arrival, burst |-> p.burst, priority |-> p.priority,
             nice |-> p.nice, queue |-> p.queue]

IsRow(piece) ==
    /\ Len(piece.ints) = 6
    /\ ~ piece.more
    /\ Fields(piece).pid >= 1
    /\ AsRow(Fields(piece)) \in Row

Earlier(f, k) == {j \in Data(f) : j < k}

Offending(f) ==
    {k \in Data(f) :
        \/ ~ IsRow(f.pieces[k])
        \/ Cardinality(Earlier(f, k)) >= MaxProcesses
        \/ \E j \in Earlier(f, k) :
               IsRow(f.pieces[j]) /\ f.pieces[j].ints[1] = f.pieces[k].ints[1]}

IsTraceFile(f) == f.opens /\ Data(f) # {} /\ Offending(f) = {}

\* What is loaded is the file: one row for every data line and none besides,
\* whatever comments stand between them, in an order that the order of the
\* lines does not influence, and it is a table the engine can be given.
LoadsWhatTheFileSays ==
    outcome = "loaded" =>
        /\ IsTraceFile(file)
        /\ Range(procs) = {Stored(Fields(file.pieces[k])) : k \in Data(file)}
        /\ Len(procs) = Cardinality(Data(file))
        /\ \A i, j \in DOMAIN procs : i < j => by_arrival_then_pid(procs[i], procs[j])
        /\ IsTable([i \in DOMAIN procs |-> AsRow(procs[i])])

\* A file that can be opened is refused for a reason in it: where the loader
\* stops, which is the number its message gives, is the first piece that
\* offends (process.h: "a message naming the offending line"), or the end of a
\* file without data.  A file of exactly MAX_PROCESSES rows is not refused.
RefusesTheFirstOffence ==
    outcome = "failed" /\ file.opens =>
        IF Offending(file) = {} THEN Data(file) = {} /\ at = Len(file.pieces)
        ELSE at = Min(Offending(file))

\* cfs.c declares vruntime with MAX_PROCESSES + 1 entries, "indexed by pid", and
\* mlfq.c its level_of: every pid of a loaded table is an index of theirs.
PidsAreIndices ==
    outcome = "loaded" => \A i \in DOMAIN procs : procs[i].pid \in 0..MaxProcesses
=============================================================================
