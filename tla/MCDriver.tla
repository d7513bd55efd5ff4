------------------------------ MODULE MCDriver ------------------------------
(***************************************************************************)
(* Command lines made of up to three options in every order and with       *)
(* repetitions, broken ones included; --all over directories of up to      *)
(* three traces and another file, listed in every order, with room for two *)
(* traces; one trace or one file, or all files, at fault; and one run of   *)
(* each trace file of up to four lines, which may be skipped, too short,   *)
(* too long, out of range in one field, or a row, with room for two rows.  *)
(***************************************************************************)
EXTENDS Driver

MCNames == <<"a.txt", "b.txt", "c.txt", "notes">>
MCTraceFiles == {"a.txt", "b.txt", "c.txt"}
MCTokenOf == [p \in MCTraceFiles |-> CASE p = "a.txt" -> "a" [] p = "b.txt" -> "b" [] p = "c.txt" -> "c"]
MCNumberOf == [n \in {"0", "3", "100001"} |-> CASE n = "0" -> 0 [] n = "3" -> 3 [] n = "100001" -> 100001]

Text(ints, more) == [blank |-> FALSE, hash |-> FALSE, ints |-> ints, more |-> more]
Blank == [Text(<<>>, FALSE) EXCEPT !.blank = TRUE]
Comment == [Text(<<>>, TRUE) EXCEPT !.hash = TRUE]

Rows == {Text(v, FALSE) : v \in {<<1, 1, 2, 0, 0, 0>>, <<1, 0, 1, 9, 5, 2>>,
                                 <<2, 1, 1, 0, -5, 1>>, <<3, 0, 2, 0, 0, 0>>}}
OutOfRange == {Text(v, FALSE) : v \in {<<0, 0, 1, 0, 0, 0>>, <<4, -1, 1, 0, 0, 0>>, <<4, 0, 0, 0, 0, 0>>,
                                       <<4, 0, 1, 10, 0, 0>>, <<4, 0, 1, 0, 6, 0>>, <<4, 0, 1, 0, 0, 3>>}}
Malformed == {Text(<<>>, TRUE), Text(<<4, 0, 1, 0, 0>>, TRUE), Text(<<4, 0, 1, 0, 0, 0>>, TRUE)}

Lines == Rows \cup OutOfRange \cup Malformed \cup {Blank, Comment}
FewLines == UNION {[1..n -> Lines] : n \in 0..3}
FourLines == {f \in [1..4 -> Rows \cup {Comment, Text(<<>>, TRUE)}] : \E k \in 1..4 : f[k] = Comment}

File(pieces) == [opens |-> TRUE, pieces |-> pieces]
Missing == [opens |-> FALSE, pieces |-> <<>>]
OneRow == File(<<Text(<<1, 0, 1, 0, 0, 0>>, FALSE)>>)
MCFiles == {File(p) : p \in FewLines \cup FourLines} \cup {Missing, OneRow}

Words ==
    {<<"--algo", "rr">>, <<"--algo", "sjf">>, <<"--algo", "nope">>, <<"--algo">>,
     <<"--trace", "a.txt">>, <<"--trace", "b.txt">>, <<"--quantum", "3">>, <<"--quantum", "0">>,
     <<"--all">>, <<"--sweep">>, <<"-h">>}
\* Values that look like options.
Tricky ==
    {<<"--algo", "--all", "--algo", "rr", "--trace", "a.txt">>,
     <<"--algo", "--quantum", "--quantum", "3", "--algo", "rr", "--trace", "a.txt">>,
     <<"--algo", "--algo", "--algo", "sjf", "--trace", "b.txt">>,
     <<"--algo", "--sweep", "--trace", "a.txt">>, <<"--algo", "--algo", "--all">>}
SomeCommands == Tricky \cup {FlattenSeq(w) : w \in UNION {[1..n -> Words] : n \in 0..3}}
Orders ==
    {s \in UNION {[1..n -> Range(MCNames)] : n \in 0..4} : \A i, j \in DOMAIN s : s[i] = s[j] => i = j}

AllOne == [t \in MCTraceFiles |-> OneRow]
Good == [t \in MCTraceFiles |-> "good"]
OneBad == {[Good EXCEPT !["b.txt"] = v] : v \in {"endless", "inconsistent"}}
SomeFile == {<<"sjf", "b", "processes">>, <<"rr", "a", "timeline">>, <<"sweep", "b", "csv">>}

\* All is well but for what the named fields say.
Nominal == [argv |-> <<>>, directory |-> <<"b.txt", "notes", "a.txt">>, contents |-> AllOne,
            verdict |-> Good, unwritable |-> {}, full |-> {}]
OneOfEach == {<<"--all">>, <<"--sweep", "--trace", "b.txt">>,
              <<"--algo", "sjf", "--trace", "b.txt">>, <<"--algo", "rr", "--trace", "a.txt">>}
OneRun == [Nominal EXCEPT !.argv = <<"--algo", "sjf", "--trace", "b.txt">>]

MCEnvironments ==
    {[Nominal EXCEPT !.argv = w] : w \in SomeCommands}
        \cup {[Nominal EXCEPT !.argv = <<"--all">>, !.directory = d] : d \in Orders}
        \cup {[Nominal EXCEPT !.argv = w, !.verdict = v, !.unwritable = u] :
                 w \in OneOfEach, v \in OneBad \cup {Good},
                 u \in {{}, FileNames} \cup {{f} : f \in SomeFile}}
        \cup {[Nominal EXCEPT !.argv = w, !.full = u] : w \in OneOfEach, u \in {FileNames} \cup {{f} : f \in SomeFile}}
        \cup {[Nominal EXCEPT !.argv = w, !.contents["b.txt"] = Missing] : w \in OneOfEach}
        \cup {[OneRun EXCEPT !.contents["b.txt"] = f] : f \in MCFiles}

\* Three traces with room for two, and a file cut short.
OverThree == {[Nominal EXCEPT !.argv = <<"--all">>, !.directory = <<"c.txt", "a.txt", "b.txt">>,
                              !.full = {<<"rr", "a", "timeline">>}]}
OneRunOfEachFile == {[OneRun EXCEPT !.contents["b.txt"] = f] : f \in MCFiles}
=============================================================================
