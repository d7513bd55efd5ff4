---------------------------- MODULE DriverProofs ----------------------------
(***************************************************************************)
(* load_trace accepts exactly the trace files, refuses any other at its    *)
(* first piece that offends, and returns the rows of the file as a table   *)
(* in order.  The program around it leaves the files its command line      *)
(* promises in their order, succeeds only with all of them, as far as      *)
(* there is room for the traces of --all, and fails only for a cause       *)
(* outside it.  All of this for every set of files, command lines and      *)
(* directories and every MAX_PROCESSES.                                    *)
(***************************************************************************)
EXTENDS Driver, FiniteSetTheorems, FunctionTheorems, SequenceTheorems, TLAPS

\* The row the k-th piece of the file becomes, and the data before a piece.
Kept(k) == Stored(Fields(file.pieces[k]))
SoFar == Earlier(file, at + 1)

\* Between two calls of fgets: no piece read so far offends, and the array
\* holds the rows of the data among them, one each.
PrefixInv ==
    /\ \A k \in Offending(file) : at < k
    /\ procs \in Seq({Kept(k) : k \in SoFar})
    /\ Range(procs) = {Kept(k) : k \in SoFar}
    /\ Len(procs) = Cardinality(SoFar)
    /\ \A i, j \in DOMAIN procs : procs[i].pid = procs[j].pid => i = j

LoaderTypeInv ==
    /\ file.opens \in BOOLEAN
    /\ file.pieces \in Seq(Piece)
    /\ at \in 0..Len(file.pieces)
    /\ outcome \in {"reading", "loaded", "failed"}

LoaderInv ==
    /\ LoaderTypeInv
    /\ outcome = "reading" => PrefixInv
    /\ RefusesTheFirstOffence
    /\ LoadsWhatTheFileSays

\* The pieces, the data and the lines that offend are numbered from 1.
LEMMA Pieces ==
    ASSUME LoaderTypeInv
    PROVE  /\ at \in Nat /\ at + 1 \in Nat /\ Len(file.pieces) \in Nat
           /\ DOMAIN file.pieces = 1..Len(file.pieces)
           /\ at < Len(file.pieces) => at + 1 \in DOMAIN file.pieces
           /\ \A j \in Data(file) : j \in Nat
           /\ Offending(file) \subseteq Data(file)
<1>1. /\ DOMAIN file.pieces = 1..Len(file.pieces) /\ Len(file.pieces) \in Nat
      /\ at \in 0..Len(file.pieces)
  BY DEF LoaderTypeInv
<1>2. at \in Nat /\ at + 1 \in Nat
      /\ (at < Len(file.pieces) => at + 1 \in 1..Len(file.pieces))
  BY <1>1
<1>3. \A j \in Data(file) : j \in Nat
  BY <1>1 DEF Data
<1> QED
  BY <1>1, <1>2, <1>3 DEF Offending

\* The data before a piece is finite.
LEMMA EarlierData ==
    ASSUME LoaderTypeInv, NEW k \in Nat
    PROVE  /\ Earlier(file, k) \subseteq 1..Len(file.pieces)
           /\ IsFiniteSet(Earlier(file, k))
           /\ Cardinality(Earlier(file, k)) \in Nat
           /\ DOMAIN file.pieces = 1..Len(file.pieces)
           /\ \A j \in DOMAIN file.pieces : file.pieces[j] \in Piece
           /\ Len(file.pieces) \in Nat
<1>1. /\ DOMAIN file.pieces = 1..Len(file.pieces) /\ Len(file.pieces) \in Nat
      /\ \A j \in DOMAIN file.pieces : file.pieces[j] \in Piece
  BY DEF LoaderTypeInv
<1>2. Earlier(file, k) \subseteq 1..Len(file.pieces)
  BY <1>1 DEF Earlier, Data
<1>3. IsFiniteSet(Earlier(file, k))
  <2>1. IsFiniteSet(1..Len(file.pieces))
    BY <1>1, FS_Interval
  <2> QED
    BY <1>2, <2>1, FS_Subset
<1> QED
  BY <1>1, <1>2, <1>3, FS_CardinalityType

\* The five tests and sscanf's count say of a piece what SPEC.md says of a row.
LEMMA FieldTests ==
    ASSUME NEW piece \in Piece
    PROVE  IsRow(piece) <=> FieldCount(piece) = 6 /\ check_fields(Fields(piece))
<1>1. /\ piece.ints \in Seq(Int) /\ piece.more \in BOOLEAN /\ Len(piece.ints) \in Nat
  BY DEF Piece
<1>2. FieldCount(piece) = 6 <=> Len(piece.ints) = 6 /\ ~ piece.more
  <2>1. CASE Len(piece.ints) = 6 /\ piece.more = TRUE
    BY <1>1, <2>1 DEF FieldCount
  <2>2. CASE Len(piece.ints) = 6 /\ piece.more = FALSE
    BY <1>1, <2>2 DEF FieldCount
  <2>3. CASE Len(piece.ints) # 6
    BY <1>1, <2>3 DEF FieldCount
  <2> QED
    BY <1>1, <2>1, <2>2, <2>3
<1>3. ASSUME Len(piece.ints) = 6
      PROVE  AsRow(Fields(piece)) \in Row /\ Fields(piece).pid >= 1
                 <=> check_fields(Fields(piece))
  <2>1. \A n \in 1..6 : piece.ints[n] \in Int
    BY <1>1, <1>3
  <2> QED
    BY <2>1 DEF AsRow, Fields, Row, check_fields
<1> QED
  BY <1>2, <1>3 DEF IsRow

\* The loop's verdict on the next piece is the file's: a piece that is not
\* skipped passes the tests just when it is not the first to offend.
LEMMA Verdict ==
    ASSUME LoaderTypeInv, PrefixInv, at < Len(file.pieces),
           ~ is_skippable(file.pieces[at + 1])
    PROVE  IsAccepted(file.pieces[at + 1]) <=> at + 1 \notin Offending(file)
<1> DEFINE k == at + 1
           piece == file.pieces[k]
<1>1. /\ at \in Nat /\ k \in Nat /\ k \in DOMAIN file.pieces /\ piece \in Piece
      /\ MaxProcesses \in Nat
  <2>1. at \in Nat /\ k \in Nat /\ k \in 1..Len(file.pieces)
    BY DEF LoaderTypeInv
  <2> QED
    BY <2>1, EarlierData, ProcessTableAssumption
<1>2. k \in Data(file)
  BY <1>1 DEF Data, is_skippable
<1>3. \A j \in SoFar : j \in Data(file) /\ IsRow(file.pieces[j]) /\ j < k
  <2> SUFFICES ASSUME NEW j \in SoFar
               PROVE  j \in Data(file) /\ IsRow(file.pieces[j]) /\ j < k
    OBVIOUS
  <2>0. SoFar \subseteq 1..Len(file.pieces)
    BY <1>1, EarlierData DEF SoFar
  <2>1. j \in Data(file) /\ j < k /\ j \in Nat
    BY <2>0 DEF SoFar, Earlier
  <2>2. j \notin Offending(file)
    BY <1>1, <2>1 DEF PrefixInv
  <2> QED
    BY <2>1, <2>2 DEF Offending
<1>4. IsFull <=> Cardinality(Earlier(file, k)) >= MaxProcesses
  BY DEF IsFull, PrefixInv, SoFar
<1>5. IsDuplicate(Fields(piece)) <=>
          \E j \in SoFar : file.pieces[j].ints[1] = piece.ints[1]
  <2>1. /\ \A i \in DOMAIN procs : \E j \in SoFar : procs[i] = Kept(j)
        /\ \A j \in SoFar : \E i \in DOMAIN procs : procs[i] = Kept(j)
    BY DEF PrefixInv, Range
  <2>2. /\ \A j : Kept(j).pid = file.pieces[j].ints[1]
        /\ Fields(piece).pid = piece.ints[1]
    BY DEF Kept, Stored, Fields
  <2> QED
    BY <2>1, <2>2 DEF IsDuplicate
<1>6. at + 1 \in Offending(file) <=>
          \/ ~ IsRow(piece)
          \/ Cardinality(Earlier(file, k)) >= MaxProcesses
          \/ \E j \in SoFar : file.pieces[j].ints[1] = piece.ints[1]
  BY <1>2, <1>3 DEF Offending, SoFar
<1>7. IsRow(piece) <=> FieldCount(piece) = 6 /\ check_fields(Fields(piece))
  BY <1>1, FieldTests
<1> QED
  BY <1>4, <1>5, <1>6, <1>7 DEF IsAccepted

\* The order of qsort is total on rows with different pids.
LEMMA TotalOrder ==
    ASSUME NEW p, NEW q, p.arrival \in Int, q.arrival \in Int, p.pid \in Int, q.pid \in Int,
           p.pid # q.pid
    PROVE  by_arrival_then_pid(p, q) <=> ~ by_arrival_then_pid(q, p)
BY DEF by_arrival_then_pid

LEMMA TransitiveOrder ==
    ASSUME NEW p, NEW q, NEW r, by_arrival_then_pid(p, q), by_arrival_then_pid(q, r),
           p.arrival \in Int, q.arrival \in Int, r.arrival \in Int,
           p.pid \in Int, q.pid \in Int, r.pid \in Int
    PROVE  by_arrival_then_pid(p, r)
BY DEF by_arrival_then_pid

\* Rows with pids of their own can be put in order, and qsort does: a row goes
\* to the place given by the number of rows that come before it.
LEMMA SortedRows ==
    ASSUME NEW S, NEW s \in Seq(S),
           \A i \in DOMAIN s : s[i].arrival \in Int /\ s[i].pid \in Int,
           \A i, j \in DOMAIN s : s[i].pid = s[j].pid => i = j
    PROVE  /\ qsort(s) \in [DOMAIN s -> Range(s)]
           /\ Range(qsort(s)) = Range(s)
           /\ \A i, j \in DOMAIN s : i < j => by_arrival_then_pid(qsort(s)[i], qsort(s)[j])
<1> DEFINE D == DOMAIN s
           n == Len(s)
           Precedes(i) == {j \in D : by_arrival_then_pid(s[j], s[i])}
           rank == [i \in D |-> Cardinality(Precedes(i)) + 1]
           IsSort(t) == /\ Range(t) = Range(s)
                        /\ \A i, j \in D : i < j => ~ by_arrival_then_pid(t[j], t[i])
<1>1. n \in Nat /\ D = 1..n /\ IsFiniteSet(D) /\ Cardinality(D) = n
  <2>1. n \in Nat /\ D = 1..n
    OBVIOUS
  <2> QED
    BY <2>1, FS_Interval
<1>2. \A i \in D : IsFiniteSet(Precedes(i)) /\ Cardinality(Precedes(i)) \in Nat
  BY <1>1, FS_Subset, FS_CardinalityType
<1>3. ASSUME NEW i \in D PROVE rank[i] \in D
  <2>1. Precedes(i) \subseteq D \ {i}
    BY DEF by_arrival_then_pid
  <2>2. IsFiniteSet(D \ {i}) /\ Cardinality(D \ {i}) = n - 1
    BY <1>1, FS_RemoveElement
  <2>3. Cardinality(Precedes(i)) <= n - 1
    BY <2>1, <2>2, FS_Subset
  <2>4. Cardinality(Precedes(i)) \in Nat
    BY <1>2
  <2>5. rank[i] = Cardinality(Precedes(i)) + 1
    OBVIOUS
  <2> HIDE DEF Precedes, rank, D
  <2> QED
    BY <1>1, <2>3, <2>4, <2>5
<1>4. ASSUME NEW i \in D, NEW j \in D, by_arrival_then_pid(s[i], s[j])
      PROVE  rank[i] < rank[j]
  <2>1. Precedes(i) \subseteq Precedes(j) /\ i \in Precedes(j) /\ i \notin Precedes(i)
    BY <1>4, TransitiveOrder DEF by_arrival_then_pid
  <2>2. Cardinality(Precedes(i)) <= Cardinality(Precedes(j))
           /\ Cardinality(Precedes(i)) # Cardinality(Precedes(j))
    BY <1>2, <2>1, FS_Subset
  <2>3. /\ rank[i] = Cardinality(Precedes(i)) + 1 /\ rank[j] = Cardinality(Precedes(j)) + 1
        /\ Cardinality(Precedes(i)) \in Nat /\ Cardinality(Precedes(j)) \in Nat
    BY <1>2
  <2> HIDE DEF Precedes, rank
  <2> QED
    BY <2>2, <2>3
<1>5. rank \in Injection(D, D)
  <2>1. ASSUME NEW i \in D, NEW j \in D, i # j PROVE rank[i] # rank[j]
    <3>1. by_arrival_then_pid(s[i], s[j]) \/ by_arrival_then_pid(s[j], s[i])
      BY <2>1, TotalOrder
    <3>2. rank[i] \in Nat /\ rank[j] \in Nat
      <4>1. rank[i] \in D /\ rank[j] \in D
        BY <1>3
      <4> HIDE DEF rank
      <4> QED
        BY <1>1, <4>1
    <3> HIDE DEF rank
    <3> QED
      BY <1>4, <3>1, <3>2
  <2>2. rank \in [D -> D]
    BY <1>3
  <2> QED
    BY <2>1, <2>2 DEF Injection, IsInjective
<1>6. rank \in Surjection(D, D)
  BY <1>1, <1>5, FS_Injection
<1>7. \A k \in D : \E i \in D : rank[i] = k
  BY <1>6 DEF Surjection
<1> DEFINE at_(k) == CHOOSE i \in D : rank[i] = k
           sorted == [k \in D |-> s[at_(k)]]
<1>8. \A k \in D : at_(k) \in D /\ rank[at_(k)] = k
  BY <1>7
<1>9. \A i \in D : at_(rank[i]) = i
  BY <1>3, <1>5, <1>8 DEF Injection, IsInjective
<1>10. sorted \in [D -> Range(s)] /\ IsSort(sorted)
  <2> HIDE DEF rank
  <2>1. sorted \in [D -> Range(s)]
    BY <1>8 DEF Range
  <2>2. Range(sorted) = Range(s)
    <3>1. \A k \in D : sorted[k] = s[at_(k)]
      OBVIOUS
    <3>2. \A i \in D : sorted[rank[i]] = s[i]
      BY <1>3, <1>9
    <3>3. DOMAIN sorted = D
      OBVIOUS
    <3>4. \A i \in D : rank[i] \in D
      BY <1>3
    <3> HIDE DEF sorted, at_, rank
    <3>5. \A x : x \in Range(sorted) <=> \E k \in D : x = sorted[k]
      BY <3>3 DEF Range
    <3>6. \A x : x \in Range(s) <=> \E i \in D : x = s[i]
      BY DEF Range
    <3>7. ASSUME NEW x \in Range(sorted) PROVE x \in Range(s)
      BY <1>8, <3>1, <3>5, <3>6
    <3>8. ASSUME NEW x \in Range(s) PROVE x \in Range(sorted)
      BY SMTT(30), <3>2, <3>4, <3>5, <3>6
    <3> QED
      BY <3>7, <3>8
  <2>3. ASSUME NEW i \in D, NEW j \in D, i < j
        PROVE  ~ by_arrival_then_pid(sorted[j], sorted[i])
    <3> SUFFICES ASSUME by_arrival_then_pid(s[at_(j)], s[at_(i)]) PROVE FALSE
      OBVIOUS
    <3>1. rank[at_(j)] = j /\ rank[at_(i)] = i /\ at_(i) \in D /\ at_(j) \in D
      BY <1>8
    <3> HIDE DEF at_
    <3>2. j < i
      BY <1>4, <3>1
    <3> QED
      BY <1>1, <2>3, <3>2
  <2> QED
    BY <2>1, <2>2, <2>3
<1>11. qsort(s) \in [D -> Range(s)] /\ IsSort(qsort(s))
  <2>1. \E t \in [D -> Range(s)] : IsSort(t)
    BY <1>10
  <2>2. qsort(s) = CHOOSE t \in [D -> Range(s)] : IsSort(t)
    BY DEF qsort
  <2> HIDE DEF IsSort
  <2> QED
    BY <2>1, <2>2
<1>12. ASSUME NEW i \in D, NEW j \in D, i < j
       PROVE  by_arrival_then_pid(qsort(s)[i], qsort(s)[j])
  <2> DEFINE t == qsort(s)
  <2>1. t \in [D -> Range(s)] /\ Range(t) = Range(s)
        /\ ~ by_arrival_then_pid(t[j], t[i])
    BY <1>11, <1>12
  <2>2. \E a \in D : t[i] = s[a]
    BY <2>1 DEF Range
  <2>3. \E b \in D : t[j] = s[b]
    BY <2>1 DEF Range
  <2>4. t[i] # t[j]
    <3>1. s \in Bijection(D, Range(s))
      BY DEF Bijection, Injection, Surjection, IsInjective, Range
    <3>2. IsFiniteSet(Range(s)) /\ Cardinality(Range(s)) = Cardinality(D)
      BY <1>1, <3>1, FS_Bijection DEF ExistsBijection
    <3>3. t \in Surjection(D, Range(s))
      BY <2>1 DEF Surjection, Range
    <3>4. t \in Injection(D, Range(s))
      BY <1>1, <3>2, <3>3, FS_SurjSameCardinalityImpliesInj
    <3>5. i # j
      BY <1>1, <1>12
    <3> QED
      BY <3>4, <3>5 DEF Injection, IsInjective
  <2> HIDE DEF t
  <2>5. by_arrival_then_pid(t[i], t[j])
    BY <2>1, <2>2, <2>3, <2>4, TotalOrder
  <2> QED
    BY <2>5 DEF t
<1> QED
  BY <1>11, <1>12

\* The rows in the array are well typed and make a table once in order.
LEMMA RowsOfTheFile ==
    ASSUME LoaderTypeInv, PrefixInv
    PROVE  /\ \A k \in SoFar : IsRow(file.pieces[k])
           /\ \A i \in DOMAIN procs :
                  /\ AsRow(procs[i]) \in Row
                  /\ procs[i].arrival \in Int /\ procs[i].pid \in Int
<1>1. at \in Nat /\ at + 1 \in Nat
  BY EarlierData DEF LoaderTypeInv
<1>2. \A k \in SoFar : k \in Data(file) /\ k <= at /\ k \in 1..Len(file.pieces)
  <2>1. SoFar \subseteq 1..Len(file.pieces) /\ Len(file.pieces) \in Nat
    BY <1>1, EarlierData DEF SoFar
  <2>2. \A k \in SoFar : k \in Data(file) /\ k < at + 1
    BY DEF SoFar, Earlier
  <2> QED
    BY <1>1, <2>1, <2>2
<1>3. \A k \in SoFar : IsRow(file.pieces[k])
  <2> SUFFICES ASSUME NEW k \in SoFar PROVE IsRow(file.pieces[k])
    OBVIOUS
  <2>1. k \notin Offending(file)
    BY <1>1, <1>2 DEF PrefixInv
  <2> QED
    BY <1>2, <2>1 DEF Offending
<1>4. ASSUME NEW i \in DOMAIN procs
      PROVE  /\ AsRow(procs[i]) \in Row
             /\ procs[i].arrival \in Int /\ procs[i].pid \in Int
  <2>1. PICK k \in SoFar : procs[i] = Kept(k)
    BY DEF PrefixInv, Range
  <2>2. AsRow(procs[i]) = AsRow(Fields(file.pieces[k]))
    BY <2>1 DEF AsRow, Kept, Stored, Fields
  <2>3. AsRow(procs[i]) \in Row
    BY <1>3, <2>2 DEF IsRow
  <2>4. procs[i].arrival \in Nat
    BY <2>3 DEF AsRow, Row
  <2>5. procs[i].pid \in Int
    <3>1. file.pieces[k] \in Piece /\ Len(file.pieces[k].ints) = 6
      BY <1>1, <1>2, <1>3, EarlierData DEF IsRow
    <3>2. file.pieces[k].ints[1] \in Int
      BY <3>1 DEF Piece
    <3> QED
      BY <2>1, <3>2 DEF Kept, Stored, Fields
  <2> QED
    BY <2>3, <2>4, <2>5
<1> QED
  BY <1>3, <1>4

\* What the data before the next piece is, when it is data and when not.
LEMMA NextPiece ==
    ASSUME LoaderTypeInv, NEW k \in Nat, k \in DOMAIN file.pieces
    PROVE  /\ k \in Data(file) => Earlier(file, k + 1) = Earlier(file, k) \cup {k}
           /\ k \notin Data(file) => Earlier(file, k + 1) = Earlier(file, k)
           /\ k \notin Earlier(file, k)
<1>1. \A j \in Data(file) : j \in Nat
  BY Pieces
<1>2. k \in Data(file) => Earlier(file, k + 1) = Earlier(file, k) \cup {k}
  BY <1>1 DEF Earlier
<1>3. k \notin Data(file) => Earlier(file, k + 1) = Earlier(file, k)
  BY <1>1 DEF Earlier
<1> QED
  BY <1>2, <1>3 DEF Earlier

\* When the last piece has been read without offence the rows of the array,
\* in order, are what the file says.
LEMMA EndOfFileLoads ==
    ASSUME LoaderTypeInv, PrefixInv, file.opens, at = Len(file.pieces), procs # <<>>
    PROVE  /\ IsTraceFile(file)
           /\ Range(qsort(procs)) = {Kept(k) : k \in Data(file)}
           /\ Len(qsort(procs)) = Cardinality(Data(file))
           /\ \A i, j \in DOMAIN qsort(procs) :
                  i < j => by_arrival_then_pid(qsort(procs)[i], qsort(procs)[j])
           /\ IsTable([i \in DOMAIN qsort(procs) |-> AsRow(qsort(procs)[i])])
<1> DEFINE t == qsort(procs)
           n == Len(procs)
<1>1. Len(file.pieces) \in Nat /\ DOMAIN file.pieces = 1..Len(file.pieces)
  BY DEF LoaderTypeInv
<1>2. SoFar = Data(file)
  BY <1>1 DEF SoFar, Earlier, Data
<1>3. Offending(file) = {}
  BY <1>1 DEF PrefixInv, Offending, Data
<1>4. n \in Nat \ {0} /\ DOMAIN procs = 1..n
  <2>1. n \in Nat /\ DOMAIN procs = 1..n /\ (n = 0 => procs = <<>>)
    BY DEF PrefixInv
  <2> QED
    BY <2>1
<1>5. Data(file) # {}
  BY <1>2, <1>4, FS_EmptySet DEF PrefixInv
<1>6. /\ t \in [1..n -> Range(procs)] /\ Range(t) = Range(procs)
      /\ \A i, j \in 1..n : i < j => by_arrival_then_pid(t[i], t[j])
  BY <1>4, RowsOfTheFile, SortedRows DEF PrefixInv
<1>7. DOMAIN t = 1..n /\ Len(t) = n
  BY <1>4, <1>6
<1>8. ASSUME NEW i \in 1..n
      PROVE  AsRow(t[i]) \in Row /\ t[i].arrival \in Int /\ t[i].pid \in Int
  <2>1. t[i] \in Range(procs)
    BY <1>6
  <2>2. PICK j \in DOMAIN procs : t[i] = procs[j]
    BY <2>1 DEF Range
  <2> QED
    BY <2>2, RowsOfTheFile
<1>9. IsTable([i \in 1..n |-> AsRow(t[i])])
  <2> DEFINE tr == [i \in 1..n |-> AsRow(t[i])]
  <2>1. tr \in Seq(Row) /\ DOMAIN tr = 1..n /\ tr # <<>>
    BY <1>4, <1>8
  <2>2. ASSUME NEW i \in 1..n, NEW j \in 1..n, i < j
        PROVE  tr[i].arrival <= tr[j].arrival
    <3>1. by_arrival_then_pid(t[i], t[j]) /\ t[i].arrival \in Int /\ t[j].arrival \in Int
      BY <1>6, <1>8, <2>2
    <3>2. t[i].arrival <= t[j].arrival
      BY <3>1 DEF by_arrival_then_pid
    <3> QED
      BY <3>2 DEF AsRow
  <2> QED
    BY <2>1, <2>2 DEF IsTable
<1> QED
  BY <1>2, <1>3, <1>5, <1>6, <1>7, <1>9 DEF IsTraceFile, PrefixInv

\* A piece that starts with a blank or a #, skipped, and one that is stored.
LEMMA SkipStep ==
    ASSUME LoaderTypeInv, PrefixInv, at < Len(file.pieces),
           is_skippable(file.pieces[at + 1]),
           at' = at + 1, UNCHANGED <<file, procs>>
    PROVE  PrefixInv'
<1>1. at \in Nat /\ at + 1 \in Nat /\ at + 1 \in DOMAIN file.pieces
  BY Pieces
<1>2. at + 1 \notin Data(file)
  BY DEF Data, is_skippable
<1>3. Earlier(file, at' + 1) = Earlier(file, at + 1)
  BY <1>1, <1>2, NextPiece
<1>4. SoFar' = SoFar /\ \A k : Kept(k)' = Kept(k)
  BY <1>3 DEF SoFar, Kept
<1>5. \A k \in Offending(file) : at' < k
  <2> SUFFICES ASSUME NEW k \in Offending(file) PROVE at' < k
    OBVIOUS
  <2>1. k \in Data(file) /\ k \in Nat /\ at < k
    BY Pieces DEF PrefixInv
  <2> QED
    BY <1>1, <1>2, <2>1
<1>6. Offending(file)' = Offending(file)
  BY DEF Offending, Data, Earlier, IsRow
<1>7. {Kept(k)' : k \in SoFar'} = {Kept(k) : k \in SoFar}
  BY <1>4
<1> QED
  BY <1>4, <1>5, <1>6, <1>7 DEF PrefixInv

LEMMA StoreStep ==
    ASSUME LoaderTypeInv, PrefixInv, at < Len(file.pieces),
           ~ is_skippable(file.pieces[at + 1]), IsAccepted(file.pieces[at + 1]),
           at' = at + 1, file' = file,
           procs' = Append(procs, Stored(Fields(file.pieces[at + 1])))
    PROVE  PrefixInv'
<1>1. at \in Nat /\ at + 1 \in Nat /\ at + 1 \in DOMAIN file.pieces
  BY Pieces
<1>2. at + 1 \in Data(file)
  BY <1>1 DEF Data, is_skippable
<1>3. /\ SoFar' = SoFar \cup {at + 1} /\ at + 1 \notin SoFar
      /\ IsFiniteSet(SoFar) /\ Cardinality(SoFar) \in Nat
  BY <1>1, <1>2, NextPiece, EarlierData DEF SoFar
<1>4. Cardinality(SoFar') = Cardinality(SoFar) + 1
  BY <1>3, FS_AddElement
<1>5. \A k : Kept(k)' = Kept(k)
  BY DEF Kept
<1>6. \A k \in Offending(file) : at' < k
  <2> SUFFICES ASSUME NEW k \in Offending(file) PROVE at' < k
    OBVIOUS
  <2>1. at + 1 \notin Offending(file)
    BY Verdict
  <2>2. k \in Data(file) /\ k \in Nat /\ at < k
    BY Pieces DEF PrefixInv
  <2> QED
    BY <1>1, <2>1, <2>2
<1>7. Offending(file)' = Offending(file)
  BY DEF Offending, Data, Earlier, IsRow
<1> DEFINE row == Kept(at + 1)
           n == Len(procs)
<1>8. /\ n \in Nat /\ DOMAIN procs = 1..n
      /\ procs \in Seq({Kept(k) : k \in SoFar})
  BY DEF PrefixInv
<1>9. /\ DOMAIN procs' = 1..(n + 1) /\ Len(procs') = n + 1
      /\ \A i \in 1..n : procs'[i] = procs[i]
      /\ procs'[n + 1] = row
  BY <1>8 DEF Kept
<1>10. {Kept(k) : k \in SoFar'} = {Kept(k) : k \in SoFar} \cup {row}
  BY <1>3
<1>11. procs' \in Seq({Kept(k) : k \in SoFar'})
  <2> DEFINE kept == {Kept(k) : k \in SoFar'}
  <2>1. procs \in Seq(kept) /\ row \in kept
    <3>1. \A i \in 1..n : procs[i] \in {Kept(k) : k \in SoFar}
      BY <1>8
    <3> HIDE DEF row
    <3>2. \A i \in 1..n : procs[i] \in kept
      BY <1>10, <3>1
    <3>3. row \in kept
      BY <1>10
    <3> HIDE DEF kept
    <3>4. procs \in [1..n -> kept]
      BY <1>8, <3>2
    <3> QED
      BY <1>8, <3>3, <3>4
  <2>2. procs' = Append(procs, row)
    BY DEF Kept
  <2> HIDE DEF row, kept
  <2>3. procs' \in Seq(kept)
    BY <2>1, <2>2, AppendProperties
  <2> QED
    BY <2>3 DEF kept
<1>12. Range(procs') = {Kept(k) : k \in SoFar'}
  <2>1. Range(procs') = Range(procs) \cup {row}
    <3> HIDE DEF row
    <3> QED
      BY <1>8, <1>9 DEF Range
  <2> QED
    BY <1>10, <2>1 DEF PrefixInv
<1>13. \A i, j \in DOMAIN procs' : procs'[i].pid = procs'[j].pid => i = j
  <2>1. \A i \in 1..n : procs[i].pid # row.pid
    BY <1>8 DEF IsAccepted, IsDuplicate, Kept, Stored, Fields
  <2> HIDE DEF row
  <2> SUFFICES ASSUME NEW i \in DOMAIN procs', NEW j \in DOMAIN procs',
                      procs'[i].pid = procs'[j].pid
               PROVE  i = j
    OBVIOUS
  <2>2. CASE i \in 1..n /\ j \in 1..n
    BY <1>8, <1>9, <2>2 DEF PrefixInv
  <2>3. CASE i = n + 1 \/ j = n + 1
    BY <1>8, <1>9, <2>1, <2>3
  <2> QED
    BY <1>8, <1>9, <2>2, <2>3
<1>14. {Kept(k)' : k \in SoFar'} = {Kept(k) : k \in SoFar'}
  BY <1>5
<1> QED
  BY <1>4, <1>6, <1>7, <1>8, <1>9, <1>11, <1>12, <1>13, <1>14 DEF PrefixInv

LEMMA LoaderInvInit == LoaderInit => LoaderInv
BY DEF LoaderInit, LoaderInv, LoaderTypeInv, RefusesTheFirstOffence, LoadsWhatTheFileSays

\* A call starts with nothing read and nothing stored.
LEMMA CallStep ==
    ASSUME NEW f \in Files, load_trace(f)
    PROVE  LoaderInv'
<1>1. /\ file' = f /\ at' = 0 /\ procs' = <<>> /\ outcome' = "reading"
      /\ f.opens \in BOOLEAN /\ f.pieces \in Seq(Piece)
  BY LoaderAssumption DEF load_trace
<1>2. LoaderTypeInv'
  BY <1>1 DEF LoaderTypeInv
<1>3. \A k \in Data(f) : k \in Nat /\ 0 < k
  BY <1>1 DEF Data
<1>4. SoFar' = {}
  BY <1>1, <1>3 DEF SoFar, Earlier
<1>5. PrefixInv'
  <2>1. \A k \in Offending(file') : at' < k
    BY <1>1, <1>3 DEF Offending
  <2>2. Offending(file)' = Offending(file')
    BY DEF Offending, Data, Earlier, IsRow
  <2> QED
    BY <1>1, <1>4, <2>1, <2>2, FS_EmptySet DEF PrefixInv, Range
<1> QED
  BY <1>1, <1>2, <1>5 DEF LoaderInv, RefusesTheFirstOffence, LoadsWhatTheFileSays

\* The line refused is the first that offends.
LEMMA RefuseStep ==
    ASSUME LoaderTypeInv, PrefixInv, at < Len(file.pieces),
           ~ is_skippable(file.pieces[at + 1]), ~ IsAccepted(file.pieces[at + 1])
    PROVE  Offending(file) # {} /\ at + 1 = Min(Offending(file))
<1>1. at + 1 \in Offending(file)
  BY Verdict
<1>2. \A k \in Offending(file) : k \in Nat /\ at + 1 <= k
  BY Pieces DEF PrefixInv
<1>3. at + 1 \in Nat
  BY Pieces
<1>4. \A k \in Offending(file) : (\A j \in Offending(file) : k <= j) => k = at + 1
  BY <1>1, <1>2, <1>3
<1> QED
  BY <1>1, <1>2, <1>4 DEF Min

LEMMA LoaderInvStep == LoaderInv /\ [LoaderNext]_LoaderVars => LoaderInv'
<1> SUFFICES ASSUME LoaderInv, [LoaderNext]_LoaderVars PROVE LoaderInv'
  OBVIOUS
<1> USE DEF LoaderInv
<1>1. CASE \E f \in Files : load_trace(f)
  BY <1>1, CallStep
<1>2. CASE CannotOpen
  BY <1>2 DEF CannotOpen, LoaderTypeInv, RefusesTheFirstOffence, LoadsWhatTheFileSays
<1>3. ASSUME NEW piece, Reads(piece)
      PROVE  /\ LoaderTypeInv /\ PrefixInv /\ file' = file /\ at' = at + 1
             /\ at < Len(file.pieces) /\ piece = file.pieces[at + 1]
             /\ at' \in 0..Len(file'.pieces)
  BY <1>3, Pieces DEF Reads, LoaderTypeInv
<1>4. ASSUME NEW piece, SkipLine(piece) PROVE LoaderInv'
  <2>1. PrefixInv' /\ outcome' = outcome /\ outcome = "reading"
    BY <1>3, <1>4, SkipStep DEF SkipLine, Reads
  <2>2. LoaderTypeInv'
    BY <1>3, <1>4, <2>1 DEF SkipLine, LoaderTypeInv
  <2> QED
    BY <2>1, <2>2 DEF RefusesTheFirstOffence, LoadsWhatTheFileSays
<1>5. ASSUME NEW piece, StoreLine(piece) PROVE LoaderInv'
  <2>1. PrefixInv' /\ outcome' = outcome /\ outcome = "reading"
    BY <1>3, <1>5, StoreStep DEF StoreLine, Reads
  <2>2. LoaderTypeInv'
    BY <1>3, <1>5, <2>1 DEF StoreLine, LoaderTypeInv
  <2> QED
    BY <2>1, <2>2 DEF RefusesTheFirstOffence, LoadsWhatTheFileSays
<1>6. ASSUME NEW piece, RefuseLine(piece) PROVE LoaderInv'
  <2>1. /\ LoaderTypeInv /\ PrefixInv /\ at < Len(file.pieces)
        /\ ~ is_skippable(file.pieces[at + 1]) /\ ~ IsAccepted(file.pieces[at + 1])
        /\ file' = file /\ at' = at + 1 /\ outcome' = "failed"
        /\ at' \in 0..Len(file'.pieces)
    BY <1>3, <1>6 DEF RefuseLine
  <2>2. Offending(file) # {} /\ at' = Min(Offending(file))
    BY <2>1, RefuseStep
  <2>3. LoaderTypeInv'
    BY <2>1 DEF LoaderTypeInv
  <2>4. RefusesTheFirstOffence'
    <3>1. Offending(file') = Offending(file)
      BY <2>1
    <3>2. Offending(file)' = Offending(file')
      BY DEF Offending, Data, Earlier, IsRow
    <3> QED
      BY <2>1, <2>2, <3>1, <3>2 DEF RefusesTheFirstOffence
  <2> QED
    BY <2>1, <2>3, <2>4 DEF LoadsWhatTheFileSays
<1>7. CASE EndOfFile
  <2>1. /\ PrefixInv /\ LoaderTypeInv /\ file.opens /\ at = Len(file.pieces)
        /\ file' = file /\ at' = at
    BY <1>7 DEF EndOfFile
  <2>2. LoaderTypeInv'
    BY <1>7, <2>1 DEF EndOfFile, LoaderTypeInv
  <2>3. CASE procs = <<>>
    <3>1. outcome' = "failed"
      BY <1>7, <2>3 DEF EndOfFile
    <3>2. SoFar = {}
      <4>1. Cardinality(SoFar) = 0 /\ IsFiniteSet(SoFar)
        BY <2>1, <2>3, Pieces, EarlierData DEF PrefixInv, SoFar
      <4> QED
        BY <4>1, FS_EmptySet
    <3>3. Data(file) = {} /\ Offending(file) = {}
      BY <2>1, <3>2, Pieces DEF SoFar, Earlier, Data, Offending
    <3>4. RefusesTheFirstOffence'
      BY <2>1, <3>3 DEF RefusesTheFirstOffence
    <3> QED
      BY <2>2, <3>1, <3>4 DEF LoadsWhatTheFileSays
  <2>4. CASE procs # <<>>
    <3>1. outcome' = "loaded" /\ procs' = qsort(procs)
      BY <1>7, <2>4 DEF EndOfFile
    <3>2. LoadsWhatTheFileSays'
      BY <2>1, <2>4, <3>1, EndOfFileLoads DEF LoadsWhatTheFileSays, Kept
    <3> QED
      BY <2>2, <3>1, <3>2 DEF RefusesTheFirstOffence
  <2> QED
    BY <2>3, <2>4
<1>8. CASE UNCHANGED LoaderVars
  <2>1. file' = file /\ at' = at /\ procs' = procs /\ outcome' = outcome
    BY <1>8 DEF LoaderVars
  <2>2. LoaderTypeInv' /\ (PrefixInv' <=> PrefixInv)
    BY <2>1 DEF LoaderTypeInv, PrefixInv, SoFar, Kept
  <2>3. RefusesTheFirstOffence' /\ LoadsWhatTheFileSays'
    BY <2>1 DEF RefusesTheFirstOffence, LoadsWhatTheFileSays
  <2> QED
    BY <2>1, <2>2, <2>3
<1> QED
  BY <1>1, <1>2, <1>4, <1>5, <1>6, <1>7, <1>8 DEF LoaderNext, LoadStep

THEOREM LoaderInvAlways == LoaderSpec => []LoaderInv
BY LoaderInvInit, LoaderInvStep, PTL DEF LoaderSpec

\* SPEC.md section 4 and process.h: what load_trace returns is one row for
\* each data line of a file without offence, sorted by arrival and then pid,
\* and so a table the engine can be given, for every file.
THEOREM LoadsWhatTheFileSaysCorrect == LoaderSpec => []LoadsWhatTheFileSays
BY LoaderInvAlways, PTL DEF LoaderInv

\* process.h: "a message naming the offending line".  A file that can be opened
\* is refused exactly at the first piece that offends, or at its end because it
\* has no data at all; a file of exactly MAX_PROCESSES rows is not refused.
\* Which of the tests the message names is not part of it.
THEOREM RefusesTheFirstOffenceCorrect == LoaderSpec => []RefusesTheFirstOffence
BY LoaderInvAlways, PTL DEF LoaderInv

\* The least number principle, for a set instead of a predicate: the form in
\* which an induction over a table or over time is made in these proofs.
LEMMA LeastNat ==
    ASSUME NEW S \in SUBSET Nat, S # {}
    PROVE  \E x \in S : \A y \in S : x <= y
<1> DEFINE R == OpToRel(<, Nat)
<1>1. IsWellFoundedOn(R, Nat)
  BY NatLessThanWellFounded
<1>2. \A x, y \in Nat : <<y, x>> \in R <=> y < x
  BY DEF OpToRel
<1> HIDE DEF R
<1>3. PICK x \in S : \A y \in S : ~ (<<y, x>> \in R)
  BY <1>1, WFMin
<1>4. ASSUME NEW y \in S PROVE x <= y
  <2>1. x \in Nat /\ y \in Nat
    OBVIOUS
  <2>2. ~ (y < x)
    BY <1>2, <1>3, <2>1
  <2> QED
    BY <2>1, <2>2
<1> QED
  BY <1>4

-----------------------------------------------------------------------------
\* The driver.  Names and values in what follows are those of main.c.
EnvInv ==
    /\ argv \in Seq(STRING \ {NONE})
    /\ \A k \in 1..(Len(argv) - 1) : argv[k] = "--trace" => argv[k + 1] \in Paths
    /\ directory \in Seq(Range(Names)) /\ IsInjective(directory)
    /\ contents \in [Paths -> Files]
    /\ verdict \in [Paths -> Verdicts]

LEMMA MaxIs ==
    ASSUME NEW S \in SUBSET Int, NEW a \in S, \A y \in S : y <= a
    PROVE  Max(S) = a
<1>1. \A x \in S : (\A y \in S : y <= x) => x = a
  OBVIOUS
<1> QED
  BY <1>1 DEF Max

LEMMA GreatestIndex ==
    ASSUME NEW n \in Nat, NEW S \in SUBSET (1..n), S # {}
    PROVE  Max(S) \in S /\ \A y \in S : y <= Max(S)
<1> DEFINE G == {m \in Nat : \A y \in S : y <= m}
<1>2. n \in G /\ G \in SUBSET Nat
  OBVIOUS
<1>3. PICK m \in G : \A y \in G : m <= y
  <2> HIDE DEF G
  <2> QED
    BY <1>2, LeastNat
<1>4. m \in S
  <2> SUFFICES ASSUME m \notin S PROVE FALSE
    OBVIOUS
  <2>1. m > 0 /\ m - 1 \in Nat
    <3>1. PICK y \in S : TRUE
      OBVIOUS
    <3>2. y \in Nat /\ y >= 1 /\ y <= m /\ m \in Nat
      BY <1>3
    <3> QED
      BY <3>2
  <2>2. m - 1 \in G
    <3>1. ASSUME NEW y \in S PROVE y <= m - 1
      <4>1. y \in Nat /\ m \in Nat /\ y <= m /\ y # m
        BY <1>3
      <4> QED
        BY <4>1
    <3> QED
      BY <2>1, <3>1
  <2> QED
    BY <1>3, <2>1, <2>2
<1>5. \E x \in S : \A y \in S : y <= x
  BY <1>3, <1>4
<1> QED
  BY <1>5 DEF Max

\* Where the next option is, when k is the place of one.
LEMMA NextOption ==
    ASSUME EnvInv, NEW k \in DOMAIN argv, IsOption(k)
    PROVE  /\ argv[k] \notin Valued => IsOption(k + 1)
           /\ argv[k] \in Valued => ~ IsOption(k + 1)
           /\ argv[k] \in Valued => IsOption(k + 2)
<1> DEFINE B(j) == ValuedBefore(j)
<1>1. k \in Nat /\ k > 0 /\ Len(argv) \in Nat /\ DOMAIN argv = 1..Len(argv)
  BY DEF EnvInv
<1>2. ASSUME NEW j \in Nat, j > 0, argv[j] \notin Valued PROVE B(j + 1) = {}
  <2>1. \A i \in 1..(j + 1 - 1) : j \in i..(j + 1 - 1)
    BY <1>2
  <2> QED
    BY <1>2, <2>1 DEF ValuedBefore
<1>3. ASSUME NEW j \in Nat, j > 0, argv[j] \in Valued PROVE B(j + 1) = B(j) \cup {j} /\ j \notin B(j)
  <2>1. ASSUME NEW i PROVE i \in B(j + 1) <=> i \in B(j) \cup {j}
    <3>1. i \in 1..(j + 1 - 1) <=> i \in 1..(j - 1) \/ i = j
      BY <1>3
    <3>2. CASE i = j
      <4>1. \A m \in j..(j + 1 - 1) : m = j
        BY <1>3
      <4> QED
        BY <1>3, <3>1, <3>2, <4>1 DEF ValuedBefore
    <3>3. CASE i \in 1..(j - 1)
      <4>1. \A m : m \in i..(j + 1 - 1) <=> m \in i..(j - 1) \/ m = j
        BY <1>3, <3>3
      <4> QED
        BY <1>3, <3>1, <3>3, <4>1 DEF ValuedBefore
    <3>4. CASE i \notin 1..(j - 1) /\ i # j
      BY <3>1, <3>4 DEF ValuedBefore
    <3> QED
      BY <3>2, <3>3, <3>4
  <2>2. j \notin B(j)
    BY <1>3 DEF ValuedBefore
  <2> QED
    BY <2>1, <2>2
<1>4. ASSUME NEW j \in Nat, j > 0 PROVE IsFiniteSet(B(j)) /\ Cardinality(B(j)) \in Nat
  <2>1. IsFiniteSet(1..(j - 1)) /\ B(j) \in SUBSET (1..(j - 1))
    BY <1>4, FS_Interval DEF ValuedBefore
  <2>2. IsFiniteSet(B(j))
    BY <2>1, FS_Subset
  <2> QED
    BY <2>2, FS_CardinalityType
<1>5. ASSUME argv[k] \notin Valued PROVE IsOption(k + 1)
  <2>1. B(k + 1) = {}
    BY <1>1, <1>2, <1>5
  <2>2. Cardinality(B(k + 1)) = 0
    BY <2>1, FS_EmptySet
  <2> QED
    BY <2>2 DEF IsOption
<1>6. ASSUME argv[k] \in Valued PROVE Cardinality(B(k + 1)) = Cardinality(B(k)) + 1
  <2>1. B(k + 1) = B(k) \cup {k} /\ k \notin B(k)
    BY <1>1, <1>3, <1>6
  <2>2. IsFiniteSet(B(k))
    BY <1>1, <1>4
  <2> HIDE DEF B
  <2> QED
    BY <2>1, <2>2, FS_AddElement
<1>7. Cardinality(B(k)) \in Nat /\ Cardinality(B(k)) % 2 = 0
  BY <1>1, <1>4 DEF IsOption
<1>8. ASSUME argv[k] \in Valued PROVE ~ IsOption(k + 1)
  <2>1. Cardinality(B(k + 1)) % 2 = 1
    <3> HIDE DEF B
    <3> QED
      BY <1>6, <1>7, <1>8
  <2> QED
    BY <2>1 DEF IsOption
<1>9. ASSUME argv[k] \in Valued PROVE IsOption(k + 2)
  <2>1. k + 1 \in Nat /\ k + 1 > 0 /\ (k + 1) + 1 = k + 2
    BY <1>1
  <2>2. CASE argv[k + 1] \notin Valued
    <3>1. B(k + 2) = {}
      <4>1. B((k + 1) + 1) = {}
        BY <1>2, <2>1, <2>2
      <4> QED
        BY <2>1, <4>1
    <3>2. Cardinality(B(k + 2)) = 0
      BY <3>1, FS_EmptySet
    <3> QED
      BY <3>2 DEF IsOption
  <2>3. CASE argv[k + 1] \in Valued
    <3>1. B((k + 1) + 1) = B(k + 1) \cup {k + 1} /\ k + 1 \notin B(k + 1)
      BY <1>3, <2>1, <2>3
    <3>2. B(k + 2) = B(k + 1) \cup {k + 1} /\ k + 1 \notin B(k + 1) /\ IsFiniteSet(B(k + 1))
      BY <1>4, <2>1, <3>1
    <3>3. Cardinality(B(k + 2)) = Cardinality(B(k + 1)) + 1
      <4> HIDE DEF B
      <4> QED
        BY <3>2, FS_AddElement
    <3>4. Cardinality(B(k + 2)) % 2 = 0
      <4> HIDE DEF B
      <4> QED
        BY <1>6, <1>7, <1>9, <3>3
    <3> QED
      BY <3>4 DEF IsOption
  <2> QED
    BY <2>2, <2>3
<1> QED
  BY <1>5, <1>8, <1>9

\* What has been read before the n-th word.
ReadBefore(word, n) == {k \in At(word) : k < n}
Latest(word, n) == Max(ReadBefore(word, n))
LastValue(word, n) == IF ReadBefore(word, n) = {} THEN NONE ELSE argv[Latest(word, n) + 1]
Options == [algo : STRING \cup {NONE}, trace : STRING \cup {NONE}, quantum : Int,
            quantum_given : BOOLEAN, want_all : BOOLEAN, want_sweep : BOOLEAN]
OptionsAre(o, n) ==
    /\ o \in Options
    /\ o.algo = LastValue("--algo", n)
    /\ o.trace = LastValue("--trace", n)
    /\ o.quantum = IF ReadBefore("--quantum", n) = {} THEN DEFAULT_QUANTUM
                   ELSE NumberOf[LastValue("--quantum", n)]
    /\ o.quantum_given <=> ReadBefore("--quantum", n) # {}
    /\ o.want_all <=> ReadBefore("--all", n) # {}
    /\ o.want_sweep <=> ReadBefore("--sweep", n) # {}

\* An option the loop reads without an error.
Sound(k) ==
    \/ argv[k] \in Flags
    \/ /\ argv[k] \in Valued /\ k < Len(argv)
       /\ argv[k] = "--quantum" => parse_int(argv[k + 1])

\* Between two rounds of the loop of main over its arguments: an option is
\* next, and the locals hold what the options before it say.
ParsedTo(n) ==
    /\ IsOption(n)
    /\ \A k \in 1..(n - 1) : IsOption(k) => Sound(k)
    /\ OptionsAre(options, n)
ParseInv == \E n \in 1..(Len(argv) + 1) : arg = n /\ ParsedTo(n)

LEMMA Words ==
    ASSUME EnvInv
    PROVE  /\ Len(argv) \in Nat /\ DOMAIN argv = 1..Len(argv)
           /\ \A k \in DOMAIN argv : argv[k] \in STRING /\ argv[k] # NONE
           /\ \A word, n : ReadBefore(word, n) \subseteq 1..Len(argv)
           /\ \A word : ReadBefore(word, Len(argv) + 1) = At(word)
<1>1. Len(argv) \in Nat /\ DOMAIN argv = 1..Len(argv) /\ \A k \in DOMAIN argv : argv[k] \in STRING \ {NONE}
  BY DEF EnvInv
<1>2. \A word : At(word) \subseteq 1..Len(argv)
  BY <1>1 DEF At
<1>3. \A word, n : ReadBefore(word, n) \subseteq 1..Len(argv)
  BY <1>2 DEF ReadBefore
<1>4. ASSUME NEW word PROVE ReadBefore(word, Len(argv) + 1) = At(word)
  <2>1. \A k \in At(word) : k < Len(argv) + 1
    BY <1>1, <1>2
  <2> QED
    BY <2>1 DEF ReadBefore
<1> QED
  BY <1>1, <1>3, <1>4

\* The latest of the places read is one of them.
LEMMA LatestIs ==
    ASSUME EnvInv, NEW word, NEW n, ReadBefore(word, n) # {}
    PROVE  Latest(word, n) \in ReadBefore(word, n)
<1>1. ReadBefore(word, n) \in SUBSET (1..Len(argv)) /\ Len(argv) \in Nat
  BY Words
<1> QED
  BY <1>1, GreatestIndex DEF Latest

\* What reading the option at n adds.
LEMMA ReadMore ==
    ASSUME EnvInv, NEW n \in DOMAIN argv, IsOption(n), NEW w,
           w = IF argv[n] \in Valued THEN n + 2 ELSE n + 1
    PROVE  \A word : ReadBefore(word, w) = ReadBefore(word, n) \cup (IF argv[n] = word THEN {n} ELSE {})
<1>1. n \in Nat /\ DOMAIN argv = 1..Len(argv) /\ Len(argv) \in Nat
  BY Words
<1>2. argv[n] \in Valued => ~ IsOption(n + 1)
  BY NextOption
<1>3. ASSUME NEW k \in DOMAIN argv, IsOption(k) PROVE k < w <=> k < n \/ k = n
  BY <1>1, <1>2, <1>3
<1> QED
  BY <1>1, <1>3 DEF ReadBefore, At

LEMMA LatestHere ==
    ASSUME EnvInv, NEW n \in DOMAIN argv, NEW word, NEW w,
           ReadBefore(word, w) = ReadBefore(word, n) \cup {n}
    PROVE  Latest(word, w) = n /\ ReadBefore(word, w) # {}
<1>1. ReadBefore(word, w) \in SUBSET Int /\ n \in ReadBefore(word, w)
  BY Words
<1>2. \A k \in ReadBefore(word, w) : k <= n
  BY Words DEF ReadBefore
<1> QED
  BY <1>1, <1>2, MaxIs DEF Latest

\* What reading one more option makes of the locals.
LEMMA OptionsMore ==
    ASSUME EnvInv, NEW n \in DOMAIN argv, IsOption(n), Sound(n), NEW o, OptionsAre(o, n)
    PROVE  /\ argv[n] = "--algo" => OptionsAre([o EXCEPT !.algo = argv[n + 1]], n + 2)
           /\ argv[n] = "--trace" => OptionsAre([o EXCEPT !.trace = argv[n + 1]], n + 2)
           /\ argv[n] = "--quantum" =>
                  OptionsAre([o EXCEPT !.quantum = NumberOf[argv[n + 1]], !.quantum_given = TRUE], n + 2)
           /\ argv[n] = "--all" => OptionsAre([o EXCEPT !.want_all = TRUE], n + 1)
           /\ argv[n] = "--sweep" => OptionsAre([o EXCEPT !.want_sweep = TRUE], n + 1)
<1> DEFINE w == IF argv[n] \in Valued THEN n + 2 ELSE n + 1
<1>1. \A word : word # argv[n] =>
          /\ ReadBefore(word, w) = ReadBefore(word, n)
          /\ LastValue(word, w) = LastValue(word, n)
  <2>1. ASSUME NEW word, word # argv[n] PROVE ReadBefore(word, w) = ReadBefore(word, n)
    <3>1. ReadBefore(word, w) = ReadBefore(word, n) \cup (IF argv[n] = word THEN {n} ELSE {})
      BY ReadMore
    <3> QED
      BY <2>1, <3>1
  <2> HIDE DEF w
  <2> QED
    BY <2>1 DEF LastValue, Latest
<1>2. ReadBefore(argv[n], w) = ReadBefore(argv[n], n) \cup {n}
  BY ReadMore
<1>3. LastValue(argv[n], w) = argv[n + 1] /\ ReadBefore(argv[n], w) # {}
  <2>1. Latest(argv[n], w) = n /\ ReadBefore(argv[n], w) # {}
    <3> HIDE DEF w
    <3> QED
      BY <1>2, LatestHere
  <2> QED
    BY <2>1 DEF LastValue
<1>4. w = IF argv[n] \in Valued THEN n + 2 ELSE n + 1
  OBVIOUS
<1> HIDE DEF w
<1>5. argv[n] \in Valued => w = n + 2
  BY <1>4
<1>6. argv[n] \notin Valued => w = n + 1
  BY <1>4
<1>0. argv[n] \in Valued => argv[n + 1] \in STRING /\ (argv[n] = "--quantum" => NumberOf[argv[n + 1]] \in Int)
  <2>1. n \in Nat /\ Len(argv) \in Nat /\ DOMAIN argv = 1..Len(argv)
    BY Words
  <2>2. argv[n] \in Valued => n + 1 \in DOMAIN argv /\ (argv[n] = "--quantum" => parse_int(argv[n + 1]))
    BY <2>1 DEF Sound, Flags, Valued
  <2>3. argv[n] \in Valued => argv[n + 1] \in STRING
    BY <2>2, Words
  <2>4. \A word : parse_int(word) => NumberOf[word] \in Int
    BY DEF parse_int
  <2> QED
    BY <2>2, <2>3, <2>4
<1>7. ASSUME argv[n] = "--algo" PROVE OptionsAre([o EXCEPT !.algo = argv[n + 1]], n + 2)
  <2>1. w = n + 2 /\ \A word : word # "--algo" =>
            ReadBefore(word, n + 2) = ReadBefore(word, n) /\ LastValue(word, n + 2) = LastValue(word, n)
    BY <1>1, <1>5, <1>7 DEF Valued
  <2>2. ReadBefore("--algo", n + 2) # {} /\ LastValue("--algo", n + 2) = argv[n + 1]
    BY <1>3, <1>7, <2>1
  <2>3. argv[n + 1] \in STRING
    BY <1>0, <1>7 DEF Valued
  <2> QED
    BY <2>1, <2>2, <2>3 DEF OptionsAre, Options
<1>8. ASSUME argv[n] = "--trace" PROVE OptionsAre([o EXCEPT !.trace = argv[n + 1]], n + 2)
  <2>1. w = n + 2 /\ \A word : word # "--trace" =>
            ReadBefore(word, n + 2) = ReadBefore(word, n) /\ LastValue(word, n + 2) = LastValue(word, n)
    BY <1>1, <1>5, <1>8 DEF Valued
  <2>2. ReadBefore("--trace", n + 2) # {} /\ LastValue("--trace", n + 2) = argv[n + 1]
    BY <1>3, <1>8, <2>1
  <2>3. argv[n + 1] \in STRING
    BY <1>0, <1>8 DEF Valued
  <2> QED
    BY <2>1, <2>2, <2>3 DEF OptionsAre, Options
<1>9. ASSUME argv[n] = "--quantum" PROVE OptionsAre([o EXCEPT !.quantum = NumberOf[argv[n + 1]], !.quantum_given = TRUE], n + 2)
  <2>1. w = n + 2 /\ \A word : word # "--quantum" =>
            ReadBefore(word, n + 2) = ReadBefore(word, n) /\ LastValue(word, n + 2) = LastValue(word, n)
    BY <1>1, <1>5, <1>9 DEF Valued
  <2>2. ReadBefore("--quantum", n + 2) # {} /\ LastValue("--quantum", n + 2) = argv[n + 1]
    BY <1>3, <1>9, <2>1
  <2>3. argv[n + 1] \in STRING /\ NumberOf[argv[n + 1]] \in Int
    BY <1>0, <1>9 DEF Valued
  <2> QED
    BY <2>1, <2>2, <2>3 DEF OptionsAre, Options
<1>10. ASSUME argv[n] = "--all" PROVE OptionsAre([o EXCEPT !.want_all = TRUE], n + 1)
  <2>1. w = n + 1 /\ \A word : word # "--all" =>
            ReadBefore(word, n + 1) = ReadBefore(word, n) /\ LastValue(word, n + 1) = LastValue(word, n)
    BY <1>1, <1>6, <1>10 DEF Valued
  <2>2. ReadBefore("--all", n + 1) # {} /\ LastValue("--all", n + 1) = argv[n + 1]
    BY <1>3, <1>10, <2>1
  <2> QED
    BY <2>1, <2>2 DEF OptionsAre, Options
<1>11. ASSUME argv[n] = "--sweep" PROVE OptionsAre([o EXCEPT !.want_sweep = TRUE], n + 1)
  <2>1. w = n + 1 /\ \A word : word # "--sweep" =>
            ReadBefore(word, n + 1) = ReadBefore(word, n) /\ LastValue(word, n + 1) = LastValue(word, n)
    BY <1>1, <1>6, <1>11 DEF Valued
  <2>2. ReadBefore("--sweep", n + 1) # {} /\ LastValue("--sweep", n + 1) = argv[n + 1]
    BY <1>3, <1>11, <2>1
  <2> QED
    BY <2>1, <2>2 DEF OptionsAre, Options
<1> QED
  BY <1>7, <1>8, <1>9, <1>10, <1>11

\* The words do not change, nor what is read off them.
LEMMA WordsStay ==
    ASSUME argv' = argv
    PROVE  \A n : /\ IsOption(n)' = IsOption(n)
                  /\ Sound(n)' = Sound(n)
                  /\ OptionsAre(options, n)' <=> OptionsAre(options', n)
<1> TAKE n
<1>1. \A k : IsOption(k)' = IsOption(k)
  BY DEF IsOption, ValuedBefore
<1>2. \A word : At(word)' = At(word)
  BY <1>1 DEF At
<1>3. \A word : ReadBefore(word, n)' = ReadBefore(word, n)
  BY <1>2 DEF ReadBefore
<1>4. \A word : LastValue(word, n)' = LastValue(word, n)
  BY <1>3 DEF LastValue, Latest
<1>5. OptionsAre(options, n)' <=> OptionsAre(options', n)
  BY <1>3, <1>4 DEF OptionsAre
<1>6. Sound(n)' = Sound(n)
  BY DEF Sound
<1> QED
  BY <1>1, <1>5, <1>6

\* The first word is an option.
LEMMA ParseInvInit == EnvInv /\ DriverInit => ParseInv
<1> SUFFICES ASSUME EnvInv, DriverInit PROVE ParseInv
  OBVIOUS
<1>1. arg = 1 /\ Len(argv) \in Nat
  BY Words DEF DriverInit
<1>2. IsOption(1)
  <2>1. ValuedBefore(1) = {}
    BY DEF ValuedBefore
  <2>2. Cardinality(ValuedBefore(1)) = 0
    BY <2>1, FS_EmptySet
  <2> QED
    BY <2>2 DEF IsOption
<1>3. \A word : ReadBefore(word, 1) = {}
  <2>1. ASSUME NEW word, NEW k \in ReadBefore(word, 1) PROVE FALSE
    <3>1. k \in 1..Len(argv) /\ k < 1
      BY Words DEF ReadBefore
    <3> QED
      BY <3>1, <1>1
  <2> QED
    BY <2>1
<1>4. /\ options \in Options /\ options.algo = NONE /\ options.trace = NONE
      /\ options.quantum = DEFAULT_QUANTUM /\ options.quantum_given = FALSE
      /\ options.want_all = FALSE /\ options.want_sweep = FALSE
  <2>1. options = [algo |-> NONE, trace |-> NONE, quantum |-> DEFAULT_QUANTUM,
                   quantum_given |-> FALSE, want_all |-> FALSE, want_sweep |-> FALSE]
    BY DEF DriverInit
  <2> QED
    BY <2>1 DEF Options, DEFAULT_QUANTUM
<1>5. OptionsAre(options, 1)
  BY <1>3, <1>4 DEF OptionsAre, LastValue
<1> QED
  BY <1>1, <1>2, <1>5 DEF ParseInv, ParsedTo

\* The usage is well formed when every option can be read.
LEMMA WellFormedIs == WellFormed <=> \A k \in DOMAIN argv : IsOption(k) => Sound(k)
  BY DEF WellFormed, Sound

\* After an option that can be read the loop is at the next one.
LEMMA ReadOn ==
    ASSUME EnvInv, ParseInv, arg \in DOMAIN argv, Sound(arg), argv' = argv,
           NEW w, w = IF argv[arg] \in Valued THEN arg + 2 ELSE arg + 1,
           arg' = w, OptionsAre(options', w)
    PROVE  ParseInv'
<1>1. arg \in Nat /\ Len(argv) \in Nat /\ DOMAIN argv = 1..Len(argv) /\ ParsedTo(arg)
  BY Words DEF ParseInv
<1>2. IsOption(w) /\ (argv[arg] \in Valued => ~ IsOption(arg + 1))
  BY <1>1, NextOption DEF ParsedTo
<1>3. argv[arg] \in Valued => arg < Len(argv)
  BY DEF Sound, Flags, Valued
<1>4. w \in 1..(Len(argv) + 1)
  BY <1>1, <1>3
<1>5. ASSUME NEW k \in 1..(w - 1), IsOption(k) PROVE Sound(k)
  <2>1. k \in 1..(arg - 1) \/ k = arg
    BY <1>1, <1>2, <1>5
  <2> QED
    BY <1>1, <1>5, <2>1 DEF ParsedTo
<1>6. /\ OptionsAre(options, w)' <=> OptionsAre(options', w)
      /\ \A k : IsOption(k)' = IsOption(k) /\ Sound(k)' = Sound(k)
  BY WordsStay
<1>7. ParsedTo(w)'
  BY <1>2, <1>5, <1>6 DEF ParsedTo
<1> QED
  BY <1>4, <1>7 DEF ParseInv

\* Nothing but the loop touches the options.
LEMMA ParseInvStays ==
    ASSUME ParseInv, argv' = argv, options' = options, arg' = arg
    PROVE  ParseInv'
<1>1. PICK n \in 1..(Len(argv) + 1) : arg = n /\ ParsedTo(n)
  BY DEF ParseInv
<1>2. /\ OptionsAre(options, n)' <=> OptionsAre(options', n)
      /\ \A k : IsOption(k)' = IsOption(k) /\ Sound(k)' = Sound(k)
  BY WordsStay
<1>3. ParsedTo(n)'
  BY <1>1, <1>2 DEF ParsedTo
<1> QED
  BY <1>1, <1>3 DEF ParseInv

\* A round of the loop: the next option is read, or the words are no usage.
LEMMA ParseStep ==
    ASSUME EnvInv, ParseInv, ParseArg
    PROVE  /\ ParseInv'
           /\ \/ pc' = "parse"
              \/ pc' = "exited" /\ status' = 1 /\ ~ WellFormed
<1> DEFINE v == argv[arg + 1]
<1>1. /\ arg \in DOMAIN argv /\ ParsedTo(arg) /\ arg \in Nat /\ Len(argv) \in Nat
      /\ argv' = argv
  BY Words DEF ParseInv, ParseArg, environment
<1>2. IsOption(arg) /\ OptionsAre(options, arg)
  BY <1>1 DEF ParsedTo
<1>3. ASSUME argv[arg] = "--algo", HasValue, SetOption([options EXCEPT !.algo = v], 2)
      PROVE  ParseInv' /\ pc' = "parse"
  <2>1. Sound(arg) /\ argv[arg] \in Valued
    BY <1>1, <1>3 DEF Sound, Valued, HasValue
  <2>2. OptionsAre([options EXCEPT !.algo = v], arg + 2)
    BY <1>1, <1>2, <1>3, <2>1, OptionsMore
  <2>3. arg' = arg + 2 /\ options' = [options EXCEPT !.algo = v] /\ pc' = "parse"
    BY <1>3 DEF SetOption, Goto
  <2> QED
    BY <1>1, <2>1, <2>2, <2>3, ReadOn
<1>4. ASSUME argv[arg] = "--trace", HasValue, SetOption([options EXCEPT !.trace = v], 2)
      PROVE  ParseInv' /\ pc' = "parse"
  <2>1. Sound(arg) /\ argv[arg] \in Valued
    BY <1>1, <1>4 DEF Sound, Valued, HasValue
  <2>2. OptionsAre([options EXCEPT !.trace = v], arg + 2)
    BY <1>1, <1>2, <1>4, <2>1, OptionsMore
  <2>3. arg' = arg + 2 /\ options' = [options EXCEPT !.trace = v] /\ pc' = "parse"
    BY <1>4 DEF SetOption, Goto
  <2> QED
    BY <1>1, <2>1, <2>2, <2>3, ReadOn
<1>5. ASSUME argv[arg] = "--quantum", HasValue, parse_int(v),
             SetOption([options EXCEPT !.quantum = NumberOf[v], !.quantum_given = TRUE], 2)
      PROVE  ParseInv' /\ pc' = "parse"
  <2>1. Sound(arg) /\ argv[arg] \in Valued
    BY <1>1, <1>5 DEF Sound, Valued, HasValue
  <2>2. OptionsAre([options EXCEPT !.quantum = NumberOf[v], !.quantum_given = TRUE], arg + 2)
    BY <1>1, <1>2, <1>5, <2>1, OptionsMore
  <2>3. /\ arg' = arg + 2 /\ pc' = "parse"
        /\ options' = [options EXCEPT !.quantum = NumberOf[v], !.quantum_given = TRUE]
    BY <1>5 DEF SetOption, Goto
  <2> QED
    BY <1>1, <2>1, <2>2, <2>3, ReadOn
<1>6. ASSUME argv[arg] = "--quantum", HasValue, ~ parse_int(v), Exit(1), UNCHANGED <<options, arg>>
      PROVE  ParseInv' /\ pc' = "exited" /\ status' = 1 /\ ~ WellFormed
  <2>1. ~ Sound(arg)
    BY <1>6 DEF Sound, Flags, Valued
  <2>2. ~ WellFormed
    BY <1>1, <1>2, <2>1, WellFormedIs
  <2> QED
    BY <1>1, <1>6, <2>2, ParseInvStays DEF Exit
<1>7. ASSUME argv[arg] = "--all", SetOption([options EXCEPT !.want_all = TRUE], 1)
      PROVE  ParseInv' /\ pc' = "parse"
  <2>1. Sound(arg) /\ argv[arg] \notin Valued
    BY <1>1, <1>7 DEF Sound, Valued, Flags
  <2>2. OptionsAre([options EXCEPT !.want_all = TRUE], arg + 1)
    BY <1>1, <1>2, <1>7, <2>1, OptionsMore
  <2>3. arg' = arg + 1 /\ options' = [options EXCEPT !.want_all = TRUE] /\ pc' = "parse"
    BY <1>7 DEF SetOption, Goto
  <2> QED
    BY <1>1, <2>1, <2>2, <2>3, ReadOn
<1>8. ASSUME argv[arg] = "--sweep", SetOption([options EXCEPT !.want_sweep = TRUE], 1)
      PROVE  ParseInv' /\ pc' = "parse"
  <2>1. Sound(arg) /\ argv[arg] \notin Valued
    BY <1>1, <1>8 DEF Sound, Valued, Flags
  <2>2. OptionsAre([options EXCEPT !.want_sweep = TRUE], arg + 1)
    BY <1>1, <1>2, <1>8, <2>1, OptionsMore
  <2>3. arg' = arg + 1 /\ options' = [options EXCEPT !.want_sweep = TRUE] /\ pc' = "parse"
    BY <1>8 DEF SetOption, Goto
  <2> QED
    BY <1>1, <2>1, <2>2, <2>3, ReadOn
<1>9. ASSUME argv[arg] \notin {"--all", "--sweep"},
             argv[arg] \in {"--algo", "--trace", "--quantum"} => ~ HasValue,
             Exit(1), UNCHANGED <<options, arg>>
      PROVE  ParseInv' /\ pc' = "exited" /\ status' = 1 /\ ~ WellFormed
  <2>1. ~ Sound(arg)
    BY <1>1, <1>9 DEF Sound, Flags, Valued, HasValue
  <2>2. ~ WellFormed
    BY <1>1, <1>2, <2>1, WellFormedIs
  <2> QED
    BY <1>1, <1>9, <2>2, ParseInvStays DEF Exit
<1> QED
  BY <1>3, <1>4, <1>5, <1>6, <1>7, <1>8, <1>9 DEF ParseArg, Value

\* After the loop the options hold what the words say.
LEMMA ValuesRead ==
    ASSUME EnvInv, ParseInv, arg > Len(argv)
    PROVE  /\ WellFormed
           /\ OptionsAre(options, Len(argv) + 1)
           /\ \A word \in Valued : Has(word) =>
                  /\ LastValue(word, Len(argv) + 1) = ValueOf(word)
                  /\ ValueOf(word) # NONE
                  /\ word = "--trace" => ValueOf(word) \in Paths
           /\ \A word : ~ Has(word) => LastValue(word, Len(argv) + 1) = NONE
<1> DEFINE n == Len(argv) + 1
<1>1. /\ Len(argv) \in Nat /\ DOMAIN argv = 1..Len(argv)
      /\ \A k \in DOMAIN argv : argv[k] # NONE
      /\ \A word : ReadBefore(word, n) = At(word)
  BY Words
<1>2. arg = n /\ ParsedTo(n)
  BY <1>1 DEF ParseInv
<1>3. WellFormed
  <2>1. \A k \in DOMAIN argv : k \in 1..(n - 1)
    BY <1>1
  <2> QED
    BY <1>2, <2>1, WellFormedIs DEF ParsedTo
<1>4. OptionsAre(options, n)
  BY <1>2 DEF ParsedTo
<1> HIDE DEF n
<1>5. \A word : ~ Has(word) => LastValue(word, n) = NONE
  BY <1>1 DEF Has, LastValue
<1>6. ASSUME NEW word \in Valued, Has(word)
      PROVE  /\ LastValue(word, n) = ValueOf(word)
             /\ ValueOf(word) # NONE
             /\ word = "--trace" => ValueOf(word) \in Paths
  <2>1. LastValue(word, n) = ValueOf(word)
    BY <1>1, <1>6 DEF Has, LastValue, ValueOf, Latest
  <2> DEFINE k == Max(At(word))
  <2>2. k \in At(word)
    <3>1. Latest(word, n) \in ReadBefore(word, n)
      BY <1>1, <1>6, LatestIs DEF Has
    <3> QED
      BY <1>1, <3>1 DEF Latest
  <2>3. k \in DOMAIN argv /\ argv[k] = word /\ Sound(k)
    BY <1>3, <2>2, WellFormedIs DEF At
  <2>4. ValueOf(word) = argv[k + 1]
    BY DEF ValueOf
  <2> HIDE DEF k
  <2>5. k \in 1..(Len(argv) - 1)
    BY <1>1, <1>6, <2>3 DEF Sound, Flags, Valued
  <2>6. k + 1 \in DOMAIN argv
    BY <1>1, <2>5
  <2>7. word = "--trace" => argv[k + 1] \in Paths
    BY <2>3, <2>5 DEF EnvInv
  <2> QED
    BY <1>1, <2>1, <2>4, <2>6, <2>7
<1> QED
  BY <1>3, <1>4, <1>5, <1>6 DEF n

\* The forms of the command, by the options and by the words.
LEMMA Settled ==
    ASSUME EnvInv, ParseInv, arg > Len(argv)
    PROVE  /\ WellFormed
           /\ IsAll <=> UsesAll
           /\ IsSweep <=> UsesSweep
           /\ IsSingle <=> UsesOne
           /\ IsSweep \/ IsSingle => options.trace = ValueOf("--trace") /\ options.trace \in Paths
           /\ IsSingle => /\ options.algo = ValueOf("--algo")
                          /\ options.quantum = IF Has("--quantum") THEN NumberOf[ValueOf("--quantum")]
                                               ELSE DEFAULT_QUANTUM
<1> DEFINE n == Len(argv) + 1
<1>1. /\ WellFormed
      /\ OptionsAre(options, n)
      /\ \A word \in Valued : Has(word) =>
             /\ LastValue(word, n) = ValueOf(word)
             /\ ValueOf(word) # NONE
             /\ word = "--trace" => ValueOf(word) \in Paths
      /\ \A word : ~ Has(word) => LastValue(word, n) = NONE
      /\ \A word : ReadBefore(word, n) = At(word)
  BY ValuesRead, Words
<1> HIDE DEF n
<1>2. /\ options.algo = IF Has("--algo") THEN ValueOf("--algo") ELSE NONE
      /\ options.algo # NONE <=> Has("--algo")
  BY <1>1 DEF OptionsAre, Valued
<1>3. /\ options.trace = IF Has("--trace") THEN ValueOf("--trace") ELSE NONE
      /\ options.trace # NONE <=> Has("--trace")
      /\ Has("--trace") => ValueOf("--trace") \in Paths
  BY <1>1 DEF OptionsAre, Valued
<1>4. /\ options.quantum = IF Has("--quantum") THEN NumberOf[ValueOf("--quantum")] ELSE DEFAULT_QUANTUM
      /\ options.quantum_given <=> Has("--quantum")
  BY <1>1 DEF OptionsAre, Valued, Has
<1>5. (options.want_all <=> Has("--all")) /\ (options.want_sweep <=> Has("--sweep"))
  BY <1>1 DEF OptionsAre, Has
<1>6. IsAll <=> UsesAll
  BY <1>2, <1>3, <1>4, <1>5 DEF IsAll, NoOther, UsesAll, Valued
<1>7. IsSweep <=> UsesSweep
  BY <1>2, <1>3, <1>4, <1>5 DEF IsSweep, NoOther, UsesSweep
<1>8. IsSingle <=> UsesOne
  BY <1>2, <1>3, <1>4, <1>5 DEF IsSingle, UsesOne
<1> QED
  BY <1>1, <1>2, <1>3, <1>4, <1>6, <1>7, <1>8 DEF IsSweep, IsSingle

-----------------------------------------------------------------------------
\* The selection --all makes: as many of the traces readdir lists first as there
\* is room for.  What a usage asks for and promises is meant with it.
Chosen ==
    LET found == {k \in DOMAIN directory : directory[k] \in TraceFiles}
    IN  {directory[k] : k \in {i \in found : Cardinality({j \in found : j < i}) < MaxProcesses}}
AllTraces == InNameOrder(Chosen)
Asked == AskedOf(Chosen)
Promised == PromisedOf(Chosen)

\* A place in a list of N columns is a row a and a column t.
LEMMA RowAndColumn ==
    ASSUME NEW N \in Nat \ {0}, NEW a \in Nat, NEW t \in 1..N
    PROVE  (a * N + t - 1) \div N = a /\ (a * N + t - 1) % N = t - 1
<1> DEFINE m == a * N + t - 1
           q == m \div N
           r == m % N
<1>1. a * N \in Nat
  OBVIOUS
<1>2. m \in Nat
  BY <1>1
<1>3. q \in Nat /\ r \in 0..(N - 1) /\ m = N * q + r
  BY <1>2
<1> QED
  BY <1>3

\* The number of the k-th file of the i-th run, and of the run of the a-th
\* algorithm on the t-th of L traces.
FileNumber(i, k) == 3 * (i - 1) + k
RunNumber(a, t, L) == a * L + t

LEMMA FileNumbers ==
    ASSUME NEW N \in Nat
    PROVE  \A n \in 1..(3 * N) : \E i \in 1..N, k \in 1..3 : n = FileNumber(i, k)
<1> TAKE n \in 1..(3 * N)
<1> DEFINE q == (n - 1) \div 3
           r == (n - 1) % 3
<1>1. q \in Nat /\ r \in 0..2 /\ n - 1 = 3 * q + r
  OBVIOUS
<1>2. (q + 1) - 1 = q /\ (r + 1) - 1 = r /\ n = 3 * ((q + 1) - 1) + (r + 1)
  BY <1>1
<1>3. q + 1 \in 1..N /\ r + 1 \in 1..3
  BY <1>1
<1> HIDE DEF q, r
<1> QED
  BY <1>2, <1>3 DEF FileNumber

LEMMA OneAsked ==
    ASSUME EnvInv, ParseInv, arg > Len(argv), IsSingle
    PROVE  /\ ~ UsesSweep /\ IsUsage
           /\ Asked = <<Result(options.algo, options.trace, options.quantum)>>
<1>1. ~ UsesAll /\ ~ UsesSweep /\ IsUsage
  BY Settled DEF UsesAll, UsesSweep, UsesOne, IsUsage
<1> QED
  BY <1>1, Settled DEF Asked, AskedOf

LEMMA SweepAsked ==
    ASSUME EnvInv, ParseInv, arg > Len(argv), IsSweep
    PROVE  /\ UsesSweep /\ IsUsage
           /\ Asked = [n \in Sweep |-> Result("rr", options.trace, n)]
           /\ Promised = <<[file |-> SweepFile(options.trace), of |-> Asked]>>
<1>1. UsesSweep /\ ~ UsesAll /\ IsUsage
  BY Settled DEF UsesAll, UsesSweep, IsUsage
<1> QED
  BY <1>1, Settled DEF Asked, AskedOf, Promised, PromisedOf

LEMMA AllAsked ==
    ASSUME EnvInv, ParseInv, arg > Len(argv), IsAll, NEW all, AllTraces = all,
           all \in Seq(TraceFiles)
    PROVE  /\ ~ UsesSweep /\ IsUsage
           /\ DOMAIN Asked = 1..(9 * Len(all)) /\ Len(Asked) = 9 * Len(all)
           /\ \A a \in 0..8, t \in 1..Len(all) :
                  Asked[RunNumber(a, t, Len(all))] = Result(registry[a + 1], all[t], DEFAULT_QUANTUM)
<1>1. UsesAll /\ ~ UsesSweep /\ IsUsage
  BY Settled DEF UsesAll, UsesSweep, IsUsage
<1>2. Len(registry) = 9
  BY DEF registry
<1> DEFINE L == Len(all)
<1>3. Asked = [n \in 1..(9 * L) |->
                  Result(registry[((n - 1) \div L) + 1], all[((n - 1) % L) + 1], DEFAULT_QUANTUM)]
  BY <1>1, <1>2 DEF Asked, AskedOf, PairingsOf, AllTraces
<1>4. L \in Nat
  OBVIOUS
<1> HIDE DEF L
<1>5. DOMAIN Asked = 1..(9 * L) /\ Len(Asked) = 9 * L
  <2>1. 9 * L \in Nat
    BY <1>4
  <2> QED
    BY <1>3, <2>1
<1>6. ASSUME NEW a \in 0..8, NEW t \in 1..L
      PROVE  Asked[a * L + t] = Result(registry[a + 1], all[t], DEFAULT_QUANTUM)
  <2>1. L \in Nat \ {0} /\ a \in Nat
    BY <1>4
  <2>2. (a * L + t - 1) \div L = a /\ (a * L + t - 1) % L = t - 1
    BY <2>1, RowAndColumn
  <2>3. a * L + t \in 1..(9 * L) /\ (t - 1) + 1 = t
    <3>1. a * L \in Nat /\ a * L <= 8 * L
      BY <2>1
    <3> QED
      BY <2>1, <3>1
  <2>4. (a * L + t) - 1 = a * L + t - 1
    <3>1. a * L \in Nat /\ t \in Nat
      BY <2>1
    <3> QED
      BY <3>1
  <2> QED
    BY <1>3, <2>2, <2>3, <2>4
<1> QED
  BY <1>1, <1>5, <1>6 DEF L, RunNumber

LEMMA FilesPromised ==
    ASSUME ~ UsesSweep, NEW N \in Nat, DOMAIN Asked = 1..N, Len(Asked) = N
    PROVE  /\ DOMAIN Promised = 1..(3 * N) /\ Len(Promised) = 3 * N
           /\ \A i \in 1..N, k \in 1..3 :
                  /\ FileNumber(i, k) \in 1..(3 * N)
                  /\ Promised[FileNumber(i, k)] =
                         [file |-> RunFile(Asked[i].algo, Asked[i].trace, k), of |-> <<Asked[i]>>]
<1> DEFINE run(n) == Asked[((n - 1) \div 3) + 1]
<1>1. Promised = [n \in 1..(3 * N) |->
                     [file |-> RunFile(run(n).algo, run(n).trace, ((n - 1) % 3) + 1), of |-> <<run(n)>>]]
  BY DEF Promised, PromisedOf, Asked
<1>2. DOMAIN Promised = 1..(3 * N) /\ Len(Promised) = 3 * N
  <2>1. 3 * N \in Nat
    OBVIOUS
  <2> HIDE DEF run
  <2> QED
    BY <1>1, <2>1
<1>3. ASSUME NEW i \in 1..N, NEW k \in 1..3
      PROVE  /\ FileNumber(i, k) \in 1..(3 * N)
             /\ Promised[FileNumber(i, k)] =
                    [file |-> RunFile(Asked[i].algo, Asked[i].trace, k), of |-> <<Asked[i]>>]
  <2> DEFINE n == 3 * (i - 1) + k
  <2>1. n \in 1..(3 * N) /\ (n - 1) \div 3 = i - 1 /\ (n - 1) % 3 = k - 1
    OBVIOUS
  <2>2. ((n - 1) \div 3) + 1 = i /\ ((n - 1) % 3) + 1 = k
    BY <2>1
  <2> HIDE DEF n
  <2>3. Promised[n] = [file |-> RunFile(run(n).algo, run(n).trace, ((n - 1) % 3) + 1), of |-> <<run(n)>>]
    <3> HIDE DEF run
    <3> QED
      BY <1>1, <2>1
  <2>4. Promised[n] = [file |-> RunFile(Asked[i].algo, Asked[i].trace, k), of |-> <<Asked[i]>>]
    BY <2>2, <2>3
  <2> QED
    BY <2>1, <2>4 DEF n, FileNumber
<1> QED
  BY <1>2, <1>3

\* Neither the words nor the directory change, nor what they promise.
LEMMA PromiseStays ==
    ASSUME argv' = argv, directory' = directory
    PROVE  /\ WellFormed' = WellFormed /\ IsUsage' = IsUsage /\ UsesSweep' = UsesSweep /\ UsesAll' = UsesAll
           /\ AllTraces' = AllTraces /\ Chosen' = Chosen
           /\ Asked' = Asked /\ Promised' = Promised
<1>1. \A k : IsOption(k)' = IsOption(k)
  BY WordsStay
<1>2. \A word : At(word)' = At(word)
  BY <1>1 DEF At
<1>3. \A word : Has(word)' = Has(word) /\ ValueOf(word)' = ValueOf(word)
  BY <1>2 DEF Has, ValueOf
<1>4. WellFormed' = WellFormed
  BY <1>1 DEF WellFormed
<1>5. UsesAll' = UsesAll /\ UsesSweep' = UsesSweep /\ UsesOne' = UsesOne
  BY <1>3 DEF UsesAll, UsesSweep, UsesOne
<1>6. IsUsage' = IsUsage
  BY <1>4, <1>5 DEF IsUsage
<1>7. Chosen' = Chosen
  BY DEF Chosen
<1>8. AllTraces' = AllTraces
  BY <1>7 DEF AllTraces, InNameOrder
<1>9. PairingsOf(Chosen)' = PairingsOf(Chosen)
  BY <1>8 DEF PairingsOf, AllTraces
<1>10. Asked' = Asked
  BY <1>3, <1>5, <1>9 DEF Asked, AskedOf
<1>11. Promised' = Promised
  BY <1>3, <1>5, <1>10 DEF Promised, PromisedOf, Asked
<1> QED
  BY <1>4, <1>5, <1>6, <1>7, <1>8, <1>10, <1>11

LEMMA RunNumbers ==
    ASSUME NEW L \in Nat
    PROVE  \A n \in 1..(9 * L) : \E a \in 0..8, t \in 1..L : n = RunNumber(a, t, L)
<1> TAKE n \in 1..(9 * L)
<1> DEFINE q == (n - 1) \div L
           r == (n - 1) % L
<1>1. L \in Nat \ {0} /\ n - 1 \in Nat
  OBVIOUS
<1>2. q \in Nat /\ r \in 0..(L - 1) /\ n - 1 = L * q + r
  BY <1>1
<1>3. L * q < L * 9
  BY <1>1, <1>2
<1>4. q < 9
  <2> HIDE DEF q, r
  <2>1. CASE q >= 9
    <3>1. L * q >= L * 9
      BY <1>1, <1>2, <2>1
    <3> QED
      BY <1>1, <1>2, <1>3, <3>1
  <2> QED
    BY <1>2, <2>1
<1>5. q \in 0..8 /\ r + 1 \in 1..L /\ n = q * L + (r + 1)
  BY <1>1, <1>2, <1>4
<1> HIDE DEF q, r
<1> QED
  BY <1>5 DEF RunNumber

\* The nine names differ.
LEMMA NamesDiffer == \A k, l \in 1..9 : registry[k] = registry[l] => k = l
<1>1. /\ registry[1] = "fcfs" /\ registry[2] = "sjf" /\ registry[3] = "srtf"
      /\ registry[4] = "priority_p" /\ registry[5] = "priority_np" /\ registry[6] = "rr"
      /\ registry[7] = "mlq" /\ registry[8] = "mlfq" /\ registry[9] = "cfs"
  BY DEF registry
<1>2. \A k \in 1..9 : k = 1 \/ k = 2 \/ k = 3 \/ k = 4 \/ k = 5 \/ k = 6 \/ k = 7 \/ k = 8 \/ k = 9
  OBVIOUS
<1> QED
  BY <1>1, <1>2

\* --all asks for no pairing twice.
LEMMA AskedOnce ==
    ASSUME EnvInv, ParseInv, arg > Len(argv), IsAll, NEW all, AllTraces = all,
           all \in Seq(TraceFiles), IsInjective(all)
    PROVE  \A i, j \in 1..(9 * Len(all)) :
               Asked[i].algo = Asked[j].algo /\ TokenOf[Asked[i].trace] = TokenOf[Asked[j].trace] => i = j
<1> DEFINE L == Len(all)
<1>1. L \in Nat /\ DOMAIN all = 1..L
  OBVIOUS
<1>2. \A a \in 0..8, t \in 1..L : Asked[RunNumber(a, t, L)] = Result(registry[a + 1], all[t], DEFAULT_QUANTUM)
  BY AllAsked
<1> HIDE DEF L
<1>3. SUFFICES ASSUME NEW i \in 1..(9 * L), NEW j \in 1..(9 * L), Asked[i].algo = Asked[j].algo,
                      TokenOf[Asked[i].trace] = TokenOf[Asked[j].trace]
               PROVE  i = j
  BY DEF L
<1>4. PICK a \in 0..8, t \in 1..L : i = RunNumber(a, t, L)
  BY <1>1, RunNumbers
<1>5. PICK b \in 0..8, u \in 1..L : j = RunNumber(b, u, L)
  BY <1>1, RunNumbers
<1>6. /\ Asked[i].algo = registry[a + 1] /\ Asked[i].trace = all[t]
      /\ Asked[j].algo = registry[b + 1] /\ Asked[j].trace = all[u]
  <2>1. /\ Asked[RunNumber(a, t, L)] = Result(registry[a + 1], all[t], DEFAULT_QUANTUM)
        /\ Asked[RunNumber(b, u, L)] = Result(registry[b + 1], all[u], DEFAULT_QUANTUM)
    BY <1>2
  <2>2. /\ Asked[i] = Result(registry[a + 1], all[t], DEFAULT_QUANTUM)
        /\ Asked[j] = Result(registry[b + 1], all[u], DEFAULT_QUANTUM)
    BY <1>4, <1>5, <2>1
  <2> QED
    BY <2>2 DEF Result
<1>7. a = b
  <2>1. a + 1 \in 1..9 /\ b + 1 \in 1..9
    OBVIOUS
  <2>2. registry[a + 1] = registry[b + 1]
    BY <1>3, <1>6
  <2>3. a + 1 = b + 1
    BY <2>1, <2>2, NamesDiffer
  <2> QED
    BY <2>3
<1>8. t = u
  <2>1. all[t] \in TraceFiles /\ all[u] \in TraceFiles
    BY <1>1
  <2>2. all[t] = all[u]
    BY <1>3, <1>6, <2>1, NamesAssumption
  <2> QED
    BY <1>1, <2>2 DEF IsInjective
<1> QED
  BY <1>4, <1>5, <1>7, <1>8

\* No file is promised twice, if no pairing is asked for twice.
Once == \A m, n \in DOMAIN Promised : Promised[m].file = Promised[n].file => m = n

LEMMA PromisedOnce ==
    ASSUME ~ UsesSweep, NEW N \in Nat, DOMAIN Asked = 1..N, Len(Asked) = N,
           \A i, j \in 1..N : Asked[i].algo = Asked[j].algo
                                  /\ TokenOf[Asked[i].trace] = TokenOf[Asked[j].trace] => i = j
    PROVE  Once
<1>1. /\ DOMAIN Promised = 1..(3 * N)
      /\ \A i \in 1..N, k \in 1..3 :
             Promised[FileNumber(i, k)] =
                 [file |-> RunFile(Asked[i].algo, Asked[i].trace, k), of |-> <<Asked[i]>>]
  BY FilesPromised
<1>2. SUFFICES ASSUME NEW m \in 1..(3 * N), NEW n \in 1..(3 * N), Promised[m].file = Promised[n].file
               PROVE  m = n
  BY <1>1 DEF Once
<1>a. \A x \in 1..(3 * N) : \E i \in 1..N, k \in 1..3 : x = FileNumber(i, k)
  BY FileNumbers
<1>3. PICK i \in 1..N, k \in 1..3 : m = FileNumber(i, k)
  BY <1>a
<1>4. PICK j \in 1..N, l \in 1..3 : n = FileNumber(j, l)
  BY <1>a
<1>5. RunFile(Asked[i].algo, Asked[i].trace, k) = RunFile(Asked[j].algo, Asked[j].trace, l)
  <2>1. Promised[m].file = RunFile(Asked[i].algo, Asked[i].trace, k)
    <3>1. Promised[FileNumber(i, k)] =
              [file |-> RunFile(Asked[i].algo, Asked[i].trace, k), of |-> <<Asked[i]>>]
      BY <1>1, <1>3, Zenon
    <3>2. Promised[FileNumber(i, k)].file = RunFile(Asked[i].algo, Asked[i].trace, k)
      BY <3>1
    <3> QED
      BY <1>3, <3>2
  <2>2. Promised[n].file = RunFile(Asked[j].algo, Asked[j].trace, l)
    <3>1. Promised[FileNumber(j, l)] =
              [file |-> RunFile(Asked[j].algo, Asked[j].trace, l), of |-> <<Asked[j]>>]
      BY <1>1, <1>4, Zenon
    <3>2. Promised[FileNumber(j, l)].file = RunFile(Asked[j].algo, Asked[j].trace, l)
      BY <3>1
    <3> QED
      BY <1>4, <3>2
  <2> QED
    BY <1>2, <2>1, <2>2
<1>6. /\ Asked[i].algo = Asked[j].algo
      /\ TokenOf[Asked[i].trace] = TokenOf[Asked[j].trace]
      /\ Kinds[k] = Kinds[l]
  BY <1>5 DEF RunFile
<1>7. k = l
  <2>1. \A x, y \in 1..3 : Kinds[x] = Kinds[y] => x = y
    BY DEF Kinds
  <2> QED
    BY <1>6, <2>1
<1> QED
  BY <1>3, <1>4, <1>6, <1>7

\* The first n of the promised files are there, and no others.
Done(n) ==
    /\ output = [f \in FileNames |-> output[f]]
    /\ IsFiniteSet(Touched) /\ Cardinality(Touched) = n
    /\ Touched = {Promised[m].file : m \in 1..n}
    /\ \A m \in 1..n : output[Promised[m].file] = Filled(Promised[m].file, Promised[m].of)

LEMMA FilledReports ==
    ASSUME NEW f, NEW results, output[f] = Filled(f, results)
    PROVE  Reports(f, results)
<1>1. output[f] = [of |-> results, complete |-> f \notin full]
  BY DEF Filled
<1>2. output[f].of = results /\ output[f].complete = (f \notin full)
  <2>1. ASSUME NEW b PROVE [of |-> results, complete |-> b].of = results
    OBVIOUS
  <2>2. ASSUME NEW b PROVE [of |-> results, complete |-> b].complete = b
    OBVIOUS
  <2> QED
    BY <1>1, <2>1, <2>2, Zenon
<1>3. f \notin full => output[f].complete
  BY <1>2, Zenon
<1> QED
  BY <1>2, <1>3 DEF Reports

LEMMA DoneMeans ==
    ASSUME NEW n \in Nat, Done(n), n <= Len(Promised), IsUsage, Chosen \in Selections
    PROVE  FilesAppearInOrder
<1>1. /\ Cardinality(Touched) = n
      /\ Touched = {Promised[m].file : m \in 1..n}
      /\ \A m \in 1..n : Reports(Promised[m].file, Promised[m].of)
  <2>1. \A m \in 1..n : Reports(Promised[m].file, Promised[m].of)
    BY FilledReports DEF Done
  <2> QED
    BY <2>1 DEF Done
<1> QED
  BY <1>1 DEF FilesAppearInOrder, Promised

LEMMA DoneStays ==
    ASSUME NEW n, Done(n), argv' = argv, directory' = directory, full' = full, output' = output
    PROVE  Done(n)'
<1>1. Promised' = Promised
  BY PromiseStays
<1>2. Touched' = Touched
  BY DEF Touched
<1> QED
  BY <1>1, <1>2 DEF Done, Filled

\* The next of the promised files is written.
LEMMA WriteMore ==
    ASSUME NEW n \in Nat, Done(n), n + 1 <= Len(Promised), Len(Promised) \in Nat,
           DOMAIN Promised = 1..Len(Promised), Once,
           argv' = argv, directory' = directory, full' = full,
           NEW f, NEW x, f = Promised[n + 1].file, x = Promised[n + 1].of, x # <<>>, f \in FileNames,
           Write(f, x)
    PROVE  Done(n + 1)'
<1>1. Promised' = Promised
  BY PromiseStays
<1>2. /\ DOMAIN output = FileNames
      /\ \A m \in 1..n :
             /\ Promised[m].file \in FileNames
             /\ output[Promised[m].file] = Filled(Promised[m].file, Promised[m].of)
      /\ Touched = {Promised[m].file : m \in 1..n}
      /\ IsFiniteSet(Touched) /\ Cardinality(Touched) = n
  <2>1. output = [g \in FileNames |-> output[g]]
    BY DEF Done
  <2>2. DOMAIN output = FileNames
    BY <2>1
  <2>3. Touched = {Promised[m].file : m \in 1..n} /\ Touched \subseteq FileNames
    BY DEF Done, Touched
  <2> QED
    BY <2>2, <2>3 DEF Done
<1>3. f \notin Touched
  <2>1. ASSUME NEW m \in 1..n PROVE Promised[m].file # f
    <3>1. m \in DOMAIN Promised /\ n + 1 \in DOMAIN Promised /\ m # n + 1
      OBVIOUS
    <3> QED
      BY <3>1 DEF Once
  <2> QED
    BY <1>2, <2>1
<1>w. output' = [output EXCEPT ![f] = Filled(f, x)] /\ Filled(f, x) # Before
  BY DEF Write, Filled, Before
<1>v. \A g, y : Filled(g, y)' = Filled(g, y)
  BY DEF Filled
<1>4. output' = [g \in FileNames |-> output'[g]]
  BY <1>2, <1>w
<1>5. Touched' = Touched \cup {f}
  <2>1. ASSUME NEW g PROVE g \in Touched' <=> g \in Touched \cup {f}
    BY <1>2, <1>w DEF Touched
  <2> QED
    BY <2>1
<1>6. IsFiniteSet(Touched') /\ Cardinality(Touched') = n + 1
  BY <1>2, <1>3, <1>5, FS_AddElement
<1>7. \A m : m \in 1..(n + 1) <=> m \in 1..n \/ m = n + 1
  OBVIOUS
<1>8. Touched' = {Promised[m].file : m \in 1..(n + 1)}
  BY <1>2, <1>5, <1>7
<1>9. ASSUME NEW m \in 1..(n + 1)
      PROVE  output'[Promised[m].file] = Filled(Promised[m].file, Promised[m].of)
  <2>1. CASE m = n + 1
    BY <1>2, <1>w, <2>1
  <2>2. CASE m \in 1..n
    <3>1. Promised[m].file # f
      BY <1>2, <1>3, <2>2
    <3> QED
      BY <1>2, <1>w, <2>2, <3>1
  <2> QED
    BY <1>7, <2>1, <2>2
<1>10. Done(n + 1)' <=> /\ output' = [g \in FileNames |-> output'[g]]
                        /\ IsFiniteSet(Touched') /\ Cardinality(Touched') = n + 1
                        /\ Touched' = {Promised'[m].file : m \in 1..(n + 1)}
                        /\ \A m \in 1..(n + 1) :
                               output'[Promised'[m].file] = Filled(Promised'[m].file, Promised'[m].of)
  BY <1>v DEF Done
<1> QED
  BY <1>1, <1>4, <1>6, <1>8, <1>9, <1>10

-----------------------------------------------------------------------------
\* The listing and the sort.  No two names have the same rank.
LEMMA Ranks ==
    /\ \A name \in Range(Names) : Rank(name) \in Nat
    /\ \A a, b \in Range(Names) : Rank(a) = Rank(b) => a = b
    /\ TraceFiles \subseteq Range(Names)
<1>1. \A name \in Range(Names) : \E k \in DOMAIN Names : Names[k] = name
  BY DEF Range
<1>2. \A name \in Range(Names) : Rank(name) \in DOMAIN Names /\ Names[Rank(name)] = name
  BY <1>1 DEF Rank
<1>3. DOMAIN Names = 1..Len(Names) /\ Len(Names) \in Nat
  BY NamesAssumption
<1>4. \A name \in Range(Names) : Rank(name) \in Nat
  BY <1>2, <1>3
<1>5. \A a, b \in Range(Names) : Rank(a) = Rank(b) => a = b
  BY <1>2
<1>6. TraceFiles \subseteq Range(Names)
  BY NamesAssumption
<1> QED
  BY <1>4, <1>5, <1>6

\* The names of s are in strictly increasing order up to the n-th.
SortedTo(s, n) == \A i, j \in 1..n : i < j => Rank(s[i]) < Rank(s[j])

\* s is an enumeration of C in order.
Sorts(s, n, C) == s \in [1..n -> C] /\ SortedTo(s, n) /\ \A c \in C : \E k \in 1..n : s[k] = c

\* Two enumerations of the same names in order are the same.
LEMMA OneSort ==
    ASSUME NEW C, C \subseteq Range(Names), NEW n \in Nat, NEW p, NEW q, Sorts(p, n, C), Sorts(q, n, C)
    PROVE  p = q
<1>0. /\ p \in [1..n -> C] /\ q \in [1..n -> C] /\ SortedTo(p, n) /\ SortedTo(q, n)
      /\ \A c \in C : (\E k \in 1..n : p[k] = c) /\ (\E k \in 1..n : q[k] = c)
  BY DEF Sorts
<1> DEFINE Wrong == {k \in 1..n : p[k] # q[k]}
<1>1. SUFFICES ASSUME Wrong # {} PROVE FALSE
  <2>1. ASSUME Wrong = {} PROVE p = q
    <3>1. \A k \in 1..n : p[k] = q[k]
      BY <2>1
    <3> QED
      BY <1>0, <3>1
  <2> HIDE DEF Wrong
  <2> QED
    BY <2>1
<1>2. PICK k \in Wrong : \A j \in Wrong : k <= j
  <2>1. Wrong \in SUBSET Nat
    OBVIOUS
  <2> HIDE DEF Wrong
  <2> QED
    BY <1>1, <2>1, LeastNat
<1>3. k \in 1..n /\ k \in Nat /\ p[k] # q[k]
  BY <1>2
<1>4. ASSUME NEW j \in 1..n, j < k PROVE p[j] = q[j]
  <2>1. ~ (k <= j)
    BY <1>3, <1>4
  <2> QED
    BY <1>2, <2>1
<1> HIDE DEF Wrong
<1>5. PICK m \in 1..n : q[m] = p[k]
  BY <1>0, <1>3
<1>6. PICK l \in 1..n : p[l] = q[k]
  BY <1>0, <1>3
<1>7. /\ \A i \in 1..n : Rank(p[i]) \in Nat /\ Rank(q[i]) \in Nat
      /\ Rank(q[m]) = Rank(p[k]) /\ Rank(p[l]) = Rank(q[k])
  BY <1>0, <1>5, <1>6, Ranks
<1>8. k < m
  <2>1. CASE m < k
    <3>1. p[m] = p[k]
      BY <1>4, <1>5, <2>1
    <3>2. Rank(p[m]) < Rank(p[k])
      BY <1>0, <1>3, <2>1 DEF SortedTo
    <3> QED
      BY <1>3, <1>7, <3>1, <3>2
  <2>2. m # k
    BY <1>3, <1>5
  <2> QED
    BY <1>3, <2>1, <2>2
<1>9. k < l
  <2>1. CASE l < k
    <3>1. q[l] = q[k]
      BY <1>4, <1>6, <2>1
    <3>2. Rank(q[l]) < Rank(q[k])
      BY <1>0, <1>3, <2>1 DEF SortedTo
    <3> QED
      BY <1>3, <1>7, <3>1, <3>2
  <2>2. l # k
    BY <1>3, <1>6
  <2> QED
    BY <1>3, <2>1, <2>2
<1>10. Rank(q[k]) < Rank(q[m]) /\ Rank(p[k]) < Rank(p[l])
  BY <1>0, <1>3, <1>8, <1>9 DEF SortedTo
<1>11. Rank(q[k]) < Rank(p[k]) /\ Rank(p[k]) < Rank(q[k])
  BY <1>7, <1>10
<1>12. Rank(q[k]) \in Nat /\ Rank(p[k]) \in Nat
  BY <1>3, <1>7
<1> QED
  BY <1>11, <1>12

\* The traces of --all are the chosen ones in order, of which there is one
\* arrangement.
LEMMA SortedIsAllTraces ==
    ASSUME EnvInv, NEW s \in Seq(TraceFiles), Range(s) = Chosen, SortedTo(s, Len(s))
    PROVE  AllTraces = s
<1> DEFINE n == Len(s)
           InOrder(t) == t \in [1..Cardinality(Chosen) -> Chosen]
                             /\ \A i, j \in DOMAIN t : i < j => Rank(t[i]) < Rank(t[j])
<1>1. n \in Nat /\ DOMAIN s = 1..n /\ s \in [1..n -> Chosen] /\ Chosen \subseteq Range(Names)
  <2>1. n \in Nat /\ DOMAIN s = 1..n
    OBVIOUS
  <2>2. \A k \in 1..n : s[k] \in Chosen
    BY <2>1 DEF Range
  <2>3. Chosen \subseteq TraceFiles
    BY DEF Chosen
  <2> QED
    BY <2>1, <2>2, <2>3, Ranks
<1> HIDE DEF n
<1>2. \A c \in Chosen : \E k \in 1..n : s[k] = c
  BY <1>1 DEF Range
<1>3. SortedTo(s, n)
  BY DEF n
<1>4. \A k \in 1..n : Rank(s[k]) \in Nat
  BY <1>1, Ranks
<1>5. s \in Bijection(1..n, Chosen)
  <2>1. ASSUME NEW i \in 1..n, NEW j \in 1..n, s[i] = s[j] PROVE i = j
    <3>1. ~ (i < j) /\ ~ (j < i)
      BY <1>3, <1>4, <2>1 DEF SortedTo
    <3> QED
      BY <1>1, <3>1
  <2> QED
    BY <1>1, <1>2, <2>1 DEF Bijection, Injection, Surjection, IsInjective
<1>6. IsFiniteSet(Chosen) /\ Cardinality(Chosen) = n /\ IsFiniteSet(1..n) /\ Cardinality(1..n) = n
  <2>1. IsFiniteSet(1..n) /\ Cardinality(1..n) = n
    BY <1>1, FS_Interval
  <2> QED
    BY <1>5, <2>1, FS_Bijection DEF ExistsBijection
<1>7. InOrder(s)
  BY <1>1, <1>3, <1>6 DEF SortedTo
<1>8. AllTraces = CHOOSE t : InOrder(t)
  BY DEF AllTraces, InNameOrder
<1>9. InOrder(AllTraces)
  BY <1>7, <1>8
<1> DEFINE t == AllTraces
<1>10. t \in [1..n -> Chosen] /\ SortedTo(t, n)
  BY <1>6, <1>9 DEF SortedTo
<1> HIDE DEF t, InOrder
<1>11. \A c \in Chosen : \E k \in 1..n : t[k] = c
  <2>1. ASSUME NEW i \in 1..n, NEW j \in 1..n, t[i] = t[j] PROVE i = j
    <3>0. \A k \in 1..n : Rank(t[k]) \in Nat
      BY <1>1, <1>10, Ranks
    <3>1. ~ (i < j) /\ ~ (j < i)
      BY <1>10, <2>1, <3>0 DEF SortedTo
    <3> QED
      BY <1>1, <3>1
  <2>2. t \in Injection(1..n, Chosen)
    BY <1>10, <2>1 DEF Injection, IsInjective
  <2>3. t \in Surjection(1..n, Chosen)
    BY <1>6, <2>2, FS_Injection
  <2> QED
    BY <2>3 DEF Surjection
<1>12. s = t
  <2>1. Sorts(s, n, Chosen) /\ Sorts(t, n, Chosen)
    BY <1>1, <1>2, <1>3, <1>10, <1>11 DEF Sorts
  <2> QED
    BY <1>1, <2>1, OneSort
<1> QED
  BY <1>12 DEF t

\* The traces among the first n entries of the directory, in the order of
\* readdir.
Found(n) == {k \in DOMAIN directory : k <= n /\ directory[k] \in TraceFiles}
Listing(n) ==
    /\ traces \in Seq(TraceFiles) /\ IsInjective(traces)
    /\ Range(traces) = {directory[k] : k \in Found(n)}
    /\ Len(traces) = Cardinality(Found(n))
    /\ Len(traces) <= MaxProcesses

LEMMA Entries ==
    ASSUME EnvInv
    PROVE  /\ Len(directory) \in Nat /\ DOMAIN directory = 1..Len(directory)
           /\ \A i, j \in DOMAIN directory : directory[i] = directory[j] => i = j
           /\ \A n : IsFiniteSet(Found(n)) /\ Cardinality(Found(n)) \in Nat
<1>1. /\ Len(directory) \in Nat /\ DOMAIN directory = 1..Len(directory)
      /\ \A i, j \in DOMAIN directory : directory[i] = directory[j] => i = j
  BY DEF EnvInv, IsInjective
<1>2. ASSUME NEW n PROVE IsFiniteSet(Found(n)) /\ Cardinality(Found(n)) \in Nat
  <2>1. IsFiniteSet(1..Len(directory))
    BY <1>1, FS_Interval
  <2>2. Found(n) \in SUBSET (1..Len(directory))
    BY <1>1 DEF Found
  <2>3. IsFiniteSet(Found(n))
    BY <2>1, <2>2, FS_Subset
  <2> QED
    BY <2>3, FS_CardinalityType
<1> QED
  BY <1>1, <1>2

LEMMA ListingBegins ==
    ASSUME EnvInv, traces = <<>>
    PROVE  Listing(0)
<1>1. Found(0) = {}
  <2>1. \A k \in DOMAIN directory : k \in Nat /\ k # 0 /\ k > 0
    BY Entries
  <2> QED
    BY <2>1 DEF Found
<1>2. Cardinality(Found(0)) = 0
  BY <1>1, FS_EmptySet
<1>3. traces \in Seq(TraceFiles) /\ Len(traces) = 0 /\ DOMAIN traces = {}
  OBVIOUS
<1>4. 0 <= MaxProcesses
  BY ProcessTableAssumption
<1> QED
  BY <1>1, <1>2, <1>3, <1>4 DEF Listing, IsInjective, Range

LEMMA ListEntryStep ==
    ASSUME EnvInv, NEW n \in 0..Len(directory), seen = n, Listing(n), ListEntry
    PROVE  n + 1 \in 0..Len(directory) /\ seen' = n + 1 /\ Listing(n + 1)'
<1> DEFINE name == directory[n + 1]
<1>1. /\ n + 1 \in DOMAIN directory /\ n + 1 \in 0..Len(directory) /\ Len(traces) < MaxProcesses
      /\ seen' = n + 1 /\ directory' = directory
      /\ traces' = IF name \in TraceFiles THEN Append(traces, name) ELSE traces
  BY Entries DEF ListEntry, Reading, Unchanged_list, environment
<1>2. /\ traces \in Seq(TraceFiles) /\ IsInjective(traces)
      /\ Range(traces) = {directory[k] : k \in Found(n)}
      /\ Len(traces) = Cardinality(Found(n)) /\ Len(traces) \in Nat
  BY DEF Listing
<1>3. \A k \in DOMAIN directory : k <= n + 1 <=> k <= n \/ k = n + 1
  BY Entries
<1>4. Listing(n + 1)' <=>
          /\ traces' \in Seq(TraceFiles) /\ IsInjective(traces')
          /\ Range(traces') = {directory[k] : k \in Found(n + 1)}
          /\ Len(traces') = Cardinality(Found(n + 1))
          /\ Len(traces') <= MaxProcesses
  BY <1>1 DEF Listing, Found
<1> HIDE DEF name
<1>5. CASE name \notin TraceFiles
  <2>1. Found(n + 1) = Found(n)
    BY <1>3, <1>5 DEF Found, name
  <2>2. traces' = traces
    BY <1>1, <1>5
  <2> QED
    BY <1>1, <1>2, <1>4, <2>1, <2>2 DEF Listing
<1>6. CASE name \in TraceFiles
  <2>1. Found(n + 1) = Found(n) \cup {n + 1} /\ n + 1 \notin Found(n)
    <3>1. n + 1 \notin Found(n)
      BY DEF Found
    <3> QED
      BY <1>1, <1>3, <1>6, <3>1 DEF Found, name
  <2>2. Cardinality(Found(n + 1)) = Cardinality(Found(n)) + 1
    BY <2>1, Entries, FS_AddElement
  <2>3. traces' = Append(traces, name)
    BY <1>1, <1>6
  <2>4. name \notin Range(traces)
    <3>1. ASSUME NEW k \in Found(n) PROVE directory[k] # name
      <4>1. k \in DOMAIN directory /\ k # n + 1
        BY <2>1 DEF Found
      <4> QED
        BY <1>1, <4>1, Entries DEF name
    <3> QED
      BY <1>2, <3>1
  <2> DEFINE l == Len(traces)
             t == Append(traces, name)
  <2>5. /\ l \in Nat /\ DOMAIN traces = 1..l /\ DOMAIN t = 1..(l + 1) /\ Len(t) = l + 1
        /\ \A k \in 1..l : t[k] = traces[k]
        /\ t[l + 1] = name /\ t \in Seq(TraceFiles)
    BY <1>2, <1>6
  <2>6. \A k : k \in 1..(l + 1) <=> k \in 1..l \/ k = l + 1
    BY <2>5
  <2> HIDE DEF l, t
  <2>7. IsInjective(t)
    <3>1. \A k \in 1..l : traces[k] # name
      BY <2>4, <2>5 DEF Range
    <3> QED
      BY <1>2, <2>5, <2>6, <3>1 DEF IsInjective
  <2>8. Range(t) = Range(traces) \cup {name}
    <3>1. \A x : x \in Range(t) <=> x \in Range(traces) \/ x = name
      BY <2>5, <2>6 DEF Range
    <3> QED
      BY <3>1
  <2>9. Range(t) = {directory[k] : k \in Found(n + 1)}
    BY <1>2, <2>1, <2>8 DEF name
  <2>10. Len(t) = Cardinality(Found(n + 1))
    BY <1>2, <2>2, <2>5 DEF l
  <2>11. Len(t) <= MaxProcesses
    BY <1>1, <2>5, ProcessTableAssumption DEF l
  <2>12. traces' = t
    BY <2>3 DEF t
  <2>13. Listing(n + 1)'
    BY <1>4, <2>5, <2>7, <2>9, <2>10, <2>11, <2>12
  <2> QED
    BY <1>1, <2>13
<1> QED
  BY <1>1, <1>5, <1>6

\* When the listing ends it has the traces there is room for.
LEMMA ListingEnds ==
    ASSUME EnvInv, NEW n \in 0..Len(directory), seen = n, Listing(n), ~ Reading
    PROVE  Range(traces) = Chosen
<1> DEFINE found == {k \in DOMAIN directory : directory[k] \in TraceFiles}
           before(k) == {j \in found : j < k}
<1>1. /\ Len(traces) = Cardinality(Found(n)) /\ Len(traces) <= MaxProcesses
      /\ Range(traces) = {directory[k] : k \in Found(n)}
      /\ Len(traces) \in Nat
  BY DEF Listing
<1>d. DOMAIN directory = 1..Len(directory) /\ Len(directory) \in Nat /\ MaxProcesses \in Nat
  BY Entries, ProcessTableAssumption
<1>e. n \in Nat /\ (n = Len(directory) \/ Len(traces) = MaxProcesses)
  <2>1. ~ (n < Len(directory) /\ Len(traces) < MaxProcesses)
    BY DEF Reading
  <2>2. n \in Nat /\ n <= Len(directory)
    BY <1>d
  <2> DEFINE l == Len(traces)
             m == MaxProcesses
             d == Len(directory)
  <2>3. l \in Nat /\ m \in Nat /\ d \in Nat /\ l <= m
    BY <1>1, <1>d
  <2>4. ~ (n < d /\ l < m) /\ n \in Nat /\ n <= d
    BY <2>1, <2>2
  <2> HIDE DEF l, m, d
  <2>5. n = d \/ l = m
    BY <2>3, <2>4
  <2> QED
    BY <2>4, <2>5 DEF l, m, d
<1>2. Chosen = {directory[k] : k \in {i \in found : Cardinality(before(i)) < MaxProcesses}}
  BY DEF Chosen
<1>a. \A k \in found : k \in 1..Len(directory) /\ k \in Nat
  BY <1>d
<1>b. \A k : before(k) \in SUBSET found /\ \A j \in found : j \in before(k) <=> j < k
  OBVIOUS
<1>c. Found(n) \in SUBSET found /\ \A j \in found : j \in Found(n) <=> j <= n
  BY DEF Found
<1> HIDE DEF before, found
<1>3. ASSUME NEW k PROVE IsFiniteSet(before(k)) /\ Cardinality(before(k)) \in Nat
  <2>1. IsFiniteSet(1..Len(directory))
    BY <1>d, FS_Interval
  <2>2. before(k) \in SUBSET (1..Len(directory))
    BY <1>a, <1>b
  <2>3. IsFiniteSet(before(k))
    BY <2>1, <2>2, FS_Subset
  <2> QED
    BY <2>3, FS_CardinalityType
<1>4. ASSUME NEW k \in found, k <= n PROVE Cardinality(before(k)) < MaxProcesses
  <2>1. k \in Found(n) /\ k \notin before(k) /\ k \in Nat
    BY <1>4, <1>a, <1>b, <1>c
  <2>2. ASSUME NEW j \in before(k) PROVE j \in Found(n)
    <3>1. j \in Nat /\ j < k /\ j \in found /\ n \in Nat
      BY <1>a, <1>b, <1>e
    <3> QED
      BY <1>4, <1>c, <2>1, <3>1
  <2>3. Cardinality(before(k) \cup {k}) = Cardinality(before(k)) + 1
    BY <1>3, <2>1, FS_AddElement
  <2>4. Cardinality(before(k) \cup {k}) <= Cardinality(Found(n))
    <3>1. before(k) \cup {k} \in SUBSET Found(n)
      BY <2>1, <2>2
    <3> QED
      BY <3>1, Entries, FS_Subset
  <2>5. Cardinality(before(k)) \in Nat
    BY <1>3
  <2> QED
    BY <1>1, <1>d, <2>3, <2>4, <2>5
<1>5. ASSUME NEW k \in found, ~ (k <= n) PROVE ~ (Cardinality(before(k)) < MaxProcesses)
  <2>0. k \in Nat /\ n \in Nat /\ k <= Len(directory)
    BY <1>a, <1>e
  <2>1. Len(traces) = MaxProcesses
    BY <1>5, <1>e, <2>0
  <2>2. ASSUME NEW j \in Found(n) PROVE j \in before(k)
    <3>1. j \in found /\ j \in Nat /\ j <= n
      BY <1>a, <1>c
    <3> QED
      BY <1>5, <1>b, <2>0, <3>1
  <2>3. Cardinality(Found(n)) <= Cardinality(before(k))
    <3>1. Found(n) \in SUBSET before(k)
      BY <2>2
    <3> QED
      BY <1>3, <3>1, FS_Subset
  <2>4. Cardinality(before(k)) \in Nat
    BY <1>3
  <2> QED
    BY <1>1, <1>d, <2>1, <2>3, <2>4
<1>7. Found(n) = {i \in found : Cardinality(before(i)) < MaxProcesses}
  BY <1>4, <1>5, <1>c
<1> QED
  BY <1>1, <1>2, <1>7

\* It is a selection: all the traces there are, or MAX_PROCESSES of them.  The
\* entries found so far are counted: they are all within the bound, or the last
\* of those that are is the MAX_PROCESSES-th.
LEMMA ChosenIsASelection == EnvInv => Chosen \in Selections
<1> SUFFICES ASSUME EnvInv PROVE Chosen \in Selections
  OBVIOUS
<1> DEFINE found == {k \in DOMAIN directory : directory[k] \in TraceFiles}
           before(k) == {j \in found : j < k}
           K == {i \in found : Cardinality(before(i)) < MaxProcesses}
           names(I) == {directory[k] : k \in I}
<1>1. /\ Len(directory) \in Nat /\ DOMAIN directory = 1..Len(directory)
      /\ \A i, j \in DOMAIN directory : directory[i] = directory[j] => i = j
      /\ MaxProcesses \in Nat
  BY Entries, ProcessTableAssumption
<1>2. Chosen = names(K) /\ TracesThere = names(found)
  BY DEF Chosen, TracesThere
<1>3. /\ \A k \in found : k \in Nat /\ k \in 1..Len(directory)
      /\ \A k, j : j \in before(k) <=> j \in found /\ j < k
      /\ \A k : k \in K <=> k \in found /\ Cardinality(before(k)) < MaxProcesses
      /\ \A i, j \in found : directory[i] = directory[j] => i = j
  BY <1>1
<1> HIDE DEF found, before, K
<1>4. ASSUME NEW I \in SUBSET found PROVE IsFiniteSet(I) /\ Cardinality(I) \in Nat
  <2>1. IsFiniteSet(1..Len(directory)) /\ I \in SUBSET (1..Len(directory))
    BY <1>1, <1>3, FS_Interval
  <2> QED
    BY <2>1, FS_Subset, FS_CardinalityType
<1>5. ASSUME NEW I \in SUBSET found PROVE Cardinality(names(I)) = Cardinality(I)
  <2> DEFINE nameAt(k) == directory[k]
             p == [k \in I |-> nameAt(k)]
  <2>1. p \in Bijection(I, names(I))
    BY <1>3 DEF Bijection, Injection, Surjection, IsInjective
  <2>2. IsFiniteSet(I)
    BY <1>4
  <2> QED
    BY <2>1, <2>2, FS_Bijection DEF ExistsBijection
<1>6. \A k : before(k) \in SUBSET found
  BY <1>3
<1>7. CASE K = found
  <2>1. Chosen = TracesThere
    BY <1>2, <1>7
  <2>2. CASE RoomForAll
    BY <2>1, <2>2 DEF Selections
  <2>3. CASE ~ RoomForAll
    <3>1. Cardinality(found) \in Nat /\ ~ (Cardinality(found) <= MaxProcesses)
      BY <1>2, <1>4, <1>5, <2>3 DEF RoomForAll
    <3>2. found # {}
      BY <1>1, <3>1, FS_EmptySet
    <3>3. PICK k \in found : \A j \in found : j <= k
      <4>1. found \in SUBSET (1..Len(directory))
        BY <1>3
      <4> QED
        BY <1>1, <3>2, <4>1, GreatestIndex
    <3>4. found = before(k) \cup {k} /\ k \notin before(k)
      BY <1>3, <3>3
    <3>5. IsFiniteSet(before(k)) /\ Cardinality(before(k)) \in Nat
      BY <1>4, <1>6
    <3>6. Cardinality(found) = Cardinality(before(k)) + 1
      BY <3>4, <3>5, FS_AddElement
    <3>7. Cardinality(before(k)) < MaxProcesses
      BY <1>3, <1>7, <3>3
    <3>8. Cardinality(found) = MaxProcesses \/ Cardinality(found) < MaxProcesses
      BY <1>1, <3>5, <3>6, <3>7
    <3> QED
      BY <1>1, <3>1, <3>8
  <2> QED
    BY <2>2, <2>3
<1>8. CASE K # found
  <2>1. PICK k \in found \ K : \A j \in found \ K : k <= j
    <3>1. found \ K \in SUBSET Nat /\ found \ K # {}
      BY <1>3, <1>8
    <3> QED
      BY <3>1, LeastNat
  <2>2. k \in found /\ k \in Nat /\ ~ (Cardinality(before(k)) < MaxProcesses)
    BY <1>3, <2>1
  <2>3. ASSUME NEW i \in found, NEW j \in found, i < j, j \in K PROVE i \in K
    <3>1. before(i) \in SUBSET before(j)
      BY <1>3, <2>3
    <3>2. IsFiniteSet(before(j)) /\ Cardinality(before(i)) \in Nat /\ Cardinality(before(j)) \in Nat
      BY <1>4, <1>6
    <3>3. Cardinality(before(i)) <= Cardinality(before(j))
      BY <3>1, <3>2, FS_Subset
    <3>4. Cardinality(before(j)) < MaxProcesses
      BY <1>3, <2>3
    <3> QED
      BY <1>1, <1>3, <3>2, <3>3, <3>4
  <2>4. K = before(k)
    <3>1. ASSUME NEW j \in found PROVE j \in K <=> j < k
      <4>1. j \in Nat
        BY <1>3
      <4>2. ASSUME j \in K PROVE j < k
        <5>1. j # k
          BY <2>1, <4>2
        <5>2. ~ (k < j)
          BY <2>1, <2>2, <2>3, <4>2
        <5> QED
          BY <2>2, <4>1, <5>1, <5>2
      <4>3. ASSUME j < k PROVE j \in K
        <5>1. ~ (k <= j)
          BY <2>2, <4>1, <4>3
        <5> QED
          BY <2>1, <5>1
      <4> QED
        BY <4>2, <4>3
    <3> QED
      BY <1>3, <3>1
  <2>5. Cardinality(K) \in Nat /\ MaxProcesses <= Cardinality(K)
    BY <1>1, <1>4, <1>6, <2>2, <2>4
  <2>6. Cardinality(K) <= MaxProcesses
    <3>1. CASE K = {}
      BY <1>1, <3>1, FS_EmptySet
    <3>2. CASE K # {}
      <4>1. PICK m \in K : \A j \in K : j <= m
        <5>1. K \in SUBSET (1..Len(directory))
          BY <1>3
        <5> QED
          BY <1>1, <3>2, <5>1, GreatestIndex
      <4>2. m \in found /\ m \in Nat /\ Cardinality(before(m)) < MaxProcesses
        BY <1>3, <4>1
      <4>3. K = before(m) \cup {m} /\ m \notin before(m)
        <5>1. \A j \in before(m) : j \in K
          BY <1>3, <2>3, <4>1, <4>2
        <5>2. \A j \in K : j \in before(m) \/ j = m
          BY <1>3, <4>1, <4>2
        <5>3. m \notin before(m)
          BY <1>3, <4>2
        <5> QED
          BY <4>1, <5>1, <5>2, <5>3
      <4>4. IsFiniteSet(before(m)) /\ Cardinality(before(m)) \in Nat
        BY <1>4, <1>6
      <4>5. Cardinality(K) = Cardinality(before(m)) + 1
        BY <4>3, <4>4, FS_AddElement
      <4> QED
        BY <1>1, <4>2, <4>4, <4>5
    <3> QED
      BY <3>1, <3>2
  <2>7. K \in SUBSET found /\ Cardinality(K) = MaxProcesses
    BY <1>1, <1>3, <2>5, <2>6
  <2>8. Chosen \in SUBSET TracesThere /\ Cardinality(Chosen) = MaxProcesses
    BY <1>2, <1>5, <2>7
  <2>9. ~ RoomForAll
    <3>1. K \cup {k} \in SUBSET found /\ k \notin K
      BY <2>1, <2>7
    <3>2. Cardinality(K \cup {k}) = MaxProcesses + 1
      BY <1>4, <2>7, <3>1, FS_AddElement
    <3>3. Cardinality(K \cup {k}) <= Cardinality(found)
      BY <1>4, <3>1, FS_Subset
    <3>4. Cardinality(TracesThere) = Cardinality(found) /\ Cardinality(found) \in Nat
      BY <1>2, <1>4, <1>5
    <3> QED
      BY <1>1, <3>2, <3>3, <3>4 DEF RoomForAll
  <2> QED
    BY <2>8, <2>9 DEF Selections
<1> QED
  BY <1>7, <1>8

\* Where the next name goes: behind those of the first n it follows.
LEMMA PlaceOfNext ==
    ASSUME NEW s \in Seq(TraceFiles), IsInjective(s), NEW n \in 1..(Len(s) - 1), SortedTo(s, n)
    PROVE  \E p \in 0..n :
               /\ p = Max({0} \cup {j \in 1..n : Rank(s[j]) <= Rank(s[n + 1])})
               /\ \A j \in 1..n : IF j <= p THEN Rank(s[j]) < Rank(s[n + 1])
                                  ELSE Rank(s[n + 1]) < Rank(s[j])
<1> DEFINE I == {j \in 1..n : Rank(s[j]) <= Rank(s[n + 1])}
<1>1. /\ Len(s) \in Nat /\ DOMAIN s = 1..Len(s) /\ n \in Nat /\ n + 1 \in 1..Len(s)
      /\ \A j \in 1..n : j \in 1..Len(s) /\ j # n + 1 /\ j \in Nat
  OBVIOUS
<1>2. \A j \in 1..Len(s) : Rank(s[j]) \in Nat /\ s[j] \in Range(Names)
  BY <1>1, Ranks
<1>3. \A j \in 1..n : Rank(s[j]) # Rank(s[n + 1])
  <2>1. \A j \in 1..n : s[j] # s[n + 1]
    BY <1>1 DEF IsInjective
  <2> QED
    BY <1>1, <1>2, <2>1, Ranks
<1>4. \A j \in 1..n : j \notin I => Rank(s[n + 1]) < Rank(s[j])
  BY <1>1, <1>2
<1>5. CASE I = {}
  <2>1. Max({0} \cup I) = 0
    <3>1. {0} \cup I = {0}
      BY <1>5
    <3>2. {0} \in SUBSET Int /\ 0 \in {0} /\ \A y \in {0} : y <= 0
      OBVIOUS
    <3>3. Max({0}) = 0
      BY <3>2, MaxIs
    <3> HIDE DEF I
    <3> QED
      BY <3>1, <3>3
  <2>2. 0 \in 0..n /\ \A j \in 1..n : ~ (j <= 0)
    BY <1>1
  <2> QED
    BY <1>4, <1>5, <2>1, <2>2
<1>6. CASE I # {}
  <2> DEFINE p == Max(I)
  <2>1. p \in I /\ \A j \in I : j <= p
    <3>1. I \in SUBSET (1..n)
      OBVIOUS
    <3> HIDE DEF I
    <3> QED
      BY <1>1, <1>6, <3>1, GreatestIndex
  <2>2. Max({0} \cup I) = p
    <3>1. {0} \cup I \in SUBSET Int /\ p \in {0} \cup I
      BY <1>1, <2>1
    <3>2. \A y \in {0} \cup I : y <= p
      <4>1. 0 <= p
        BY <1>1, <2>1
      <4> HIDE DEF I, p
      <4> QED
        BY <2>1, <4>1
    <3> HIDE DEF I, p
    <3> QED
      BY <3>1, <3>2, MaxIs
  <2> HIDE DEF p
  <2>3. p \in 1..n /\ Rank(s[p]) < Rank(s[n + 1])
    <3>1. p \in 1..n /\ Rank(s[p]) <= Rank(s[n + 1])
      BY <2>1
    <3> QED
      BY <1>1, <1>2, <1>3, <3>1
  <2>4. ASSUME NEW j \in 1..n, j <= p PROVE Rank(s[j]) < Rank(s[n + 1])
    <3>1. CASE j = p
      BY <2>3, <3>1
    <3>2. CASE j < p
      <4>1. Rank(s[j]) < Rank(s[p])
        BY <2>3, <3>2 DEF SortedTo
      <4>2. Rank(s[j]) \in Nat /\ Rank(s[p]) \in Nat /\ Rank(s[n + 1]) \in Nat
        BY <1>1, <1>2, <2>3
      <4> QED
        BY <2>3, <4>1, <4>2
    <3> QED
      BY <1>1, <2>3, <2>4, <3>1, <3>2
  <2>5. ASSUME NEW j \in 1..n, ~ (j <= p) PROVE Rank(s[n + 1]) < Rank(s[j])
    BY <1>4, <2>1, <2>5
  <2>6. p \in 0..n
    BY <1>1, <2>3
  <2> QED
    BY <2>2, <2>4, <2>5, <2>6
<1> QED
  BY <1>5, <1>6

\* A round of the sort rearranges the names, and one more is in order.
LEMMA InsertedIs ==
    ASSUME NEW s \in Seq(TraceFiles), IsInjective(s), NEW n \in 1..(Len(s) - 1), SortedTo(s, n)
    PROVE  /\ Inserted(s, n) \in Seq(TraceFiles) /\ IsInjective(Inserted(s, n))
           /\ Len(Inserted(s, n)) = Len(s) /\ Range(Inserted(s, n)) = Range(s)
           /\ SortedTo(Inserted(s, n), n + 1)
<1> DEFINE t == Inserted(s, n)
           L == Len(s)
<1>1. L \in Nat /\ DOMAIN s = 1..L /\ n \in Nat /\ n >= 1 /\ n + 1 <= L /\ n + 1 \in 1..L
  OBVIOUS
<1>2. PICK p \in 0..n :
          /\ p = Max({0} \cup {j \in 1..n : Rank(s[j]) <= Rank(s[n + 1])})
          /\ \A j \in 1..n : IF j <= p THEN Rank(s[j]) < Rank(s[n + 1])
                             ELSE Rank(s[n + 1]) < Rank(s[j])
  BY PlaceOfNext
<1> HIDE DEF L
<1> DEFINE From(k) == IF k <= p \/ k > n + 1 THEN k ELSE IF k = p + 1 THEN n + 1 ELSE k - 1
           To(j) == IF j <= p \/ j > n + 1 THEN j ELSE IF j = n + 1 THEN p + 1 ELSE j + 1
<1>3. \A k \in 1..L : From(k) \in 1..L /\ To(k) \in 1..L /\ From(To(k)) = k /\ To(From(k)) = k
  BY <1>1, <1>2
<1>4. t = [k \in 1..L |-> s[From(k)]]
  <2>1. t = [k \in DOMAIN s |-> IF k <= p \/ k > n + 1 THEN s[k]
                                ELSE IF k = p + 1 THEN s[n + 1] ELSE s[k - 1]]
    BY <1>2 DEF Inserted
  <2>2. \A k \in 1..L : (IF k <= p \/ k > n + 1 THEN s[k]
                         ELSE IF k = p + 1 THEN s[n + 1] ELSE s[k - 1]) = s[From(k)]
    OBVIOUS
  <2> QED
    BY <1>1, <2>1, <2>2
<1>5. \A i, j \in 1..(n + 1) : i < j =>
          \/ From(i) \in 1..n /\ From(j) \in 1..n /\ From(i) < From(j)
          \/ From(i) = n + 1 /\ From(j) \in 1..n /\ ~ (From(j) <= p)
          \/ From(j) = n + 1 /\ From(i) \in 1..n /\ From(i) <= p
  BY <1>1, <1>2
<1> HIDE DEF t, From, To
<1>6. DOMAIN t = 1..L /\ \A k \in 1..L : t[k] = s[From(k)]
  BY <1>4
<1>7. \A k \in 1..L : s[k] \in TraceFiles
  BY <1>1
<1>8. t \in Seq(TraceFiles) /\ Len(t) = L
  <2>1. t \in [1..L -> TraceFiles]
    BY <1>3, <1>4, <1>7
  <2> QED
    BY <1>1, <2>1
<1>9. IsInjective(t)
  <2>1. ASSUME NEW i \in 1..L, NEW j \in 1..L, t[i] = t[j] PROVE i = j
    <3>1. From(i) = From(j)
      BY <1>1, <1>3, <1>6, <2>1 DEF IsInjective
    <3> QED
      BY <1>3, <3>1
  <2> QED
    BY <1>6, <2>1 DEF IsInjective
<1>10. Range(t) = Range(s)
  <2>1. \A k \in 1..L : t[k] = s[From(k)] /\ From(k) \in 1..L
    BY <1>3, <1>6
  <2>2. \A k \in 1..L : s[k] = t[To(k)] /\ To(k) \in 1..L
    BY <1>3, <1>6
  <2>3. Range(t) \subseteq Range(s)
    BY <1>1, <1>6, <2>1 DEF Range
  <2>4. Range(s) \subseteq Range(t)
    BY <1>1, <1>6, <2>2 DEF Range
  <2> QED
    BY <2>3, <2>4
<1>11. SortedTo(t, n + 1)
  <2>1. ASSUME NEW i \in 1..(n + 1), NEW j \in 1..(n + 1), i < j PROVE Rank(t[i]) < Rank(t[j])
    <3>1. /\ t[i] = s[From(i)] /\ t[j] = s[From(j)]
      BY <1>1, <1>6
    <3>2. CASE From(i) \in 1..n /\ From(j) \in 1..n /\ From(i) < From(j)
      BY <3>1, <3>2 DEF SortedTo
    <3>3. CASE From(i) = n + 1 /\ From(j) \in 1..n /\ ~ (From(j) <= p)
      BY <1>2, <3>1, <3>3
    <3>4. CASE From(j) = n + 1 /\ From(i) \in 1..n /\ From(i) <= p
      BY <1>2, <3>1, <3>4
    <3> QED
      BY <1>5, <2>1, <3>2, <3>3, <3>4
  <2> QED
    BY <2>1 DEF SortedTo
<1> QED
  BY <1>8, <1>9, <1>10, <1>11 DEF t, L

-----------------------------------------------------------------------------
\* The invariant of the driver.  What the words and the directory promise:
\* three files for every run, or the file of a sweep, and none of them twice.
Plan ==
    /\ IsUsage
    /\ Len(Asked) \in Nat /\ DOMAIN Asked = 1..Len(Asked)
    /\ Len(Promised) \in Nat /\ DOMAIN Promised = 1..Len(Promised)
    /\ Once
    /\ IF UsesSweep THEN Len(Asked) = SWEEP_MAX /\ Len(Promised) = 1
       ELSE /\ Len(Promised) = 3 * Len(Asked)
            /\ \A i \in 1..Len(Asked), k \in 1..3 :
                   /\ FileNumber(i, k) \in 1..Len(Promised)
                   /\ Promised[FileNumber(i, k)] =
                          [file |-> RunFile(Asked[i].algo, Asked[i].trace, k), of |-> <<Asked[i]>>]

\* The first i of the runs had a trace file to work on.
Sane(i) == \A n \in 1..i : IsTraceFile(contents[Asked[n].trace])

\* What may refuse a run, and what may end the program with an error.
Refuses(r) ==
    \/ ~ scheduler_lookup(r.algo)
    \/ ~ IsTraceFile(contents[r.trace])
    \/ verdict[r.trace] # "good"
Reason ==
    \/ ~ IsUsage
    \/ Asked = <<>>
    \/ \E n \in DOMAIN Asked : Refuses(Asked[n])
    \/ \E n \in DOMAIN Promised : Promised[n].file \in unwritable

\* The files left so far are the first so many.
Left == \E n \in Nat : Done(n) /\ (n > 0 => IsUsage /\ n <= Len(Promised))

\* The files left after k of those of the i-th run.
Written(i, k) == Done(IF UsesSweep THEN 0 ELSE FileNumber(i, k))

AtStart == traces = <<>> /\ seen = 0 /\ algo_at = 0 /\ trace_at = 1 /\ rows = <<>> /\ Done(0)
AtList ==
    /\ IsAll /\ algo_at = 0 /\ trace_at = 1 /\ Done(0)
    /\ \E n \in 0..Len(directory) : seen = n /\ Listing(n)
AtSort ==
    /\ IsAll /\ algo_at = 0 /\ trace_at = 1 /\ Done(0)
    /\ traces \in Seq(TraceFiles) /\ IsInjective(traces) /\ Range(traces) = Chosen
    /\ \E n \in 1..Len(traces) : seen = n /\ SortedTo(traces, n)

\* The traces of --all are sorted, and the loops stand at the i-th pairing.
AtRun(i) ==
    /\ traces \in Seq(TraceFiles) /\ AllTraces = traces
    /\ algo_at \in 0..9 /\ trace_at \in 1..Len(traces) /\ (algo_at = 9 => trace_at = 1)
    /\ i = RunNumber(algo_at, trace_at, Len(traces))
AtPairing == IsAll /\ Plan /\ \E i \in Nat \ {0} : AtRun(i) /\ Sane(i - 1) /\ Written(i, 0)

\* The call of run_one is the i-th run asked for.
InRun(i) ==
    /\ Result(call.algo, call.trace, call.quantum) = Asked[i]
    /\ call.trace \in Paths
    /\ call.write <=> ~ IsSweep
    /\ IsAll => AtRun(i) /\ algo_at < 9
    /\ IsSweep => /\ i = call.quantum /\ call.trace = options.trace
                  /\ rows = [n \in 1..(i - 1) |-> Asked[n]]
    /\ IsSingle => i = 1
    /\ Sane(i - 1)
    /\ written \in 0..3 /\ Written(i, written)

Accepted == scheduler_lookup(call.algo) /\ IsTraceFile(contents[call.trace])
Phase ==
    \/ pc = "lookup" /\ written = 0
    \/ pc = "load" /\ written = 0 /\ scheduler_lookup(call.algo) /\ file = contents[call.trace]
    \/ pc \in {"engine", "check"} /\ written = 0 /\ Accepted
    \/ pc = "write" /\ written < 3 /\ Accepted /\ call.write
    \/ pc = "returned" /\ ret = 0 /\ Accepted /\ (call.write => written = 3)
    \/ pc = "returned" /\ ret # 0 /\ Reason
Running == Plan /\ Phase /\ \E i \in 1..Len(Asked) : InRun(i)

AtSweepFile == pc = "sweep_file" /\ IsSweep /\ Plan /\ rows = Asked /\ Sane(Len(Asked)) /\ Done(0)
Ended ==
    /\ status \in {0, 1}
    /\ status = 0 => Plan /\ Done(Len(Promised)) /\ Sane(Len(Asked))
    /\ status = 1 => Reason

Decided == arg > Len(argv) /\ (IsAll \/ IsSweep \/ IsSingle)
Common ==
    /\ EnvInv /\ ParseInv
    /\ LoaderInv /\ (pc # "load" => outcome # "reading")
    /\ Left
    /\ pc \notin {"parse", "exited"} => Decided
DriverInv ==
    /\ Common
    /\ \/ pc = "parse" /\ AtStart
       \/ pc = "list" /\ AtList
       \/ pc = "sort" /\ AtSort
       \/ pc = "pairing" /\ AtPairing
       \/ Running
       \/ AtSweepFile
       \/ pc = "exited" /\ Ended

\* What a step leaves of all this that changes neither what the program was
\* given nor what it read of its words.
LEMMA FrameStays ==
    ASSUME UNCHANGED environment, UNCHANGED options, UNCHANGED arg
    PROVE  /\ EnvInv => EnvInv'
           /\ ParseInv => ParseInv'
           /\ IsAll' = IsAll /\ IsSweep' = IsSweep /\ IsSingle' = IsSingle /\ Decided' = Decided
           /\ Asked' = Asked /\ Promised' = Promised /\ UsesSweep' = UsesSweep
           /\ IsUsage' = IsUsage /\ Plan' = Plan /\ Reason' = Reason
           /\ \A i : Sane(i)' = Sane(i)
<1>1. argv' = argv /\ directory' = directory /\ contents' = contents /\ verdict' = verdict
      /\ unwritable' = unwritable /\ full' = full
  BY DEF environment
<1>2. EnvInv => EnvInv'
  BY <1>1 DEF EnvInv
<1>3. ParseInv => ParseInv'
  BY <1>1, ParseInvStays
<1>4. /\ IsUsage' = IsUsage /\ UsesSweep' = UsesSweep /\ Asked' = Asked /\ Promised' = Promised
  BY <1>1, PromiseStays
<1>5. IsAll' = IsAll /\ IsSweep' = IsSweep /\ IsSingle' = IsSingle
  BY DEF IsAll, IsSweep, IsSingle, NoOther
<1>6. Decided' = Decided
  BY <1>1, <1>5 DEF Decided
<1>7. Plan' = Plan
  BY <1>4 DEF Plan, Once
<1>8. Reason' = Reason
  BY <1>1, <1>4 DEF Reason, Refuses
<1>9. ASSUME NEW i PROVE Sane(i)' = Sane(i)
  BY <1>1, <1>4 DEF Sane
<1> QED
  BY <1>2, <1>3, <1>4, <1>5, <1>6, <1>7, <1>8, <1>9

\* And of the files, if it writes none.
LEMMA FilesStay ==
    ASSUME UNCHANGED environment, UNCHANGED options, UNCHANGED arg, UNCHANGED output
    PROVE  /\ \A n : Done(n) => Done(n)'
           /\ \A i, k : Written(i, k) => Written(i, k)'
           /\ Left => Left'
<1>1. argv' = argv /\ directory' = directory /\ full' = full
  BY DEF environment
<1>2. ASSUME NEW n, Done(n) PROVE Done(n)'
  BY <1>1, <1>2, DoneStays
<1>3. UsesSweep' = UsesSweep /\ IsUsage' = IsUsage /\ Promised' = Promised
  BY FrameStays
<1>4. ASSUME NEW i, NEW k, Written(i, k) PROVE Written(i, k)'
  <2>1. CASE UsesSweep
    <3>1. Done(0)
      BY <1>4, <2>1 DEF Written
    <3>2. Done(0)'
      BY <1>2, <3>1
    <3> QED
      BY <1>3, <2>1, <3>2 DEF Written
  <2>2. CASE ~ UsesSweep
    <3>1. Done(FileNumber(i, k))
      BY <1>4, <2>2 DEF Written
    <3>2. Done(FileNumber(i, k))'
      BY <1>2, <3>1
    <3> QED
      BY <1>3, <2>2, <3>2 DEF Written
  <2> QED
    BY <2>1, <2>2
<1>5. ASSUME Left PROVE Left'
  <2>1. PICK n \in Nat : Done(n) /\ (n > 0 => IsUsage /\ n <= Len(Promised))
    BY <1>5 DEF Left
  <2>2. Done(n)'
    BY <1>2, <2>1
  <2> QED
    BY <1>3, <2>1, <2>2 DEF Left
<1> QED
  BY <1>2, <1>4, <1>5

LEMMA AllStay ==
    ASSUME UNCHANGED environment, UNCHANGED options, UNCHANGED arg, UNCHANGED output,
           Done(Len(Promised))
    PROVE  Done(Len(Promised))'
<1>1. PICK n : n = Len(Promised)
  OBVIOUS
<1>2. Done(n)
  BY <1>1
<1>3. Done(n)'
  BY <1>2, FilesStay
<1>4. Len(Promised') = n
  BY <1>1, FrameStays
<1> QED
  BY <1>3, <1>4 DEF Done

\* What a step of the driver that neither reads an option nor writes a file
\* nor moves the loader leaves of the common part.
LEMMA CommonStays ==
    ASSUME Common, UNCHANGED environment, UNCHANGED options, UNCHANGED arg, UNCHANGED output,
           UNCHANGED LoaderVars, outcome # "reading",
           pc' \notin {"parse", "exited"} => Decided
    PROVE  Common'
<1>1. EnvInv' /\ ParseInv' /\ Left' /\ Decided' = Decided
  BY FrameStays, FilesStay DEF Common
<1>2. LoaderInv'
  <2>1. LoaderInv
    BY DEF Common
  <2> QED
    BY <2>1, LoaderInvStep
<1>3. outcome' # "reading"
  BY DEF LoaderVars
<1> QED
  BY <1>1, <1>2, <1>3 DEF Common

\* main has decided for a form: which of them excludes the others.
LEMMA OneForm ==
    ASSUME Common, pc \notin {"parse", "exited"}
    PROVE  /\ EnvInv /\ ParseInv /\ arg > Len(argv) /\ Decided
           /\ IsAll => ~ IsSweep /\ ~ IsSingle /\ ~ UsesSweep
           /\ IsSweep => ~ IsAll /\ ~ IsSingle /\ UsesSweep
           /\ IsSingle => ~ IsAll /\ ~ IsSweep /\ ~ UsesSweep
<1>1. EnvInv /\ ParseInv /\ arg > Len(argv) /\ Decided
  BY DEF Common, Decided
<1>2. IsSweep <=> UsesSweep
  BY <1>1, Settled
<1>3. /\ IsAll => ~ IsSweep /\ ~ IsSingle
      /\ IsSweep => ~ IsAll /\ ~ IsSingle
      /\ IsSingle => ~ IsAll /\ ~ IsSweep
  BY DEF IsAll, IsSweep, IsSingle
<1> QED
  BY <1>1, <1>2, <1>3

\* The plan of each form.
LEMMA PlanOfSingle ==
    ASSUME EnvInv, ParseInv, arg > Len(argv), IsSingle
    PROVE  Plan /\ Len(Asked) = 1 /\ Asked[1] = Result(options.algo, options.trace, options.quantum)
<1>1. ~ UsesSweep /\ IsUsage /\ Asked = <<Result(options.algo, options.trace, options.quantum)>>
  BY OneAsked
<1>2. DOMAIN Asked = 1..1 /\ Len(Asked) = 1 /\ Asked[1] = Result(options.algo, options.trace, options.quantum)
  BY <1>1
<1>3. \A i, j \in 1..1 : i = j
  OBVIOUS
<1>4. Once
  BY <1>1, <1>2, <1>3, PromisedOnce
<1>5. /\ DOMAIN Promised = 1..(3 * 1) /\ Len(Promised) = 3 * 1
      /\ \A i \in 1..1, k \in 1..3 :
             /\ FileNumber(i, k) \in 1..(3 * 1)
             /\ Promised[FileNumber(i, k)] =
                    [file |-> RunFile(Asked[i].algo, Asked[i].trace, k), of |-> <<Asked[i]>>]
  BY <1>1, <1>2, FilesPromised
<1> QED
  BY <1>1, <1>2, <1>4, <1>5 DEF Plan

LEMMA PlanOfSweep ==
    ASSUME EnvInv, ParseInv, arg > Len(argv), IsSweep
    PROVE  /\ Plan /\ Len(Asked) = 12 /\ UsesSweep
           /\ Asked = [n \in 1..12 |-> Result("rr", options.trace, n)]
           /\ Promised[1] = [file |-> SweepFile(options.trace), of |-> Asked]
<1>1. /\ UsesSweep /\ IsUsage
      /\ Asked = [n \in Sweep |-> Result("rr", options.trace, n)]
      /\ Promised = <<[file |-> SweepFile(options.trace), of |-> Asked]>>
  BY SweepAsked
<1>2. Sweep = 1..12 /\ SWEEP_MAX = 12
  BY DEF Sweep, SWEEP_MIN, SWEEP_MAX
<1>3. Asked = [n \in 1..12 |-> Result("rr", options.trace, n)]
  BY <1>1, <1>2
<1>4. DOMAIN Asked = 1..12 /\ Len(Asked) = 12
  <2> DEFINE e(n) == Result("rr", options.trace, n)
  <2>1. Asked = [n \in 1..12 |-> e(n)]
    BY <1>3
  <2> HIDE DEF e
  <2> QED
    BY <2>1
<1>5. /\ DOMAIN Promised = 1..1 /\ Len(Promised) = 1
      /\ Promised[1] = [file |-> SweepFile(options.trace), of |-> Asked]
  BY <1>1
<1>6. Once
  <2>1. \A m, n \in 1..1 : m = n
    OBVIOUS
  <2> QED
    BY <1>5, <2>1 DEF Once
<1> QED
  BY <1>1, <1>2, <1>3, <1>4, <1>5, <1>6 DEF Plan

LEMMA PlanOfAll ==
    ASSUME EnvInv, ParseInv, arg > Len(argv), IsAll, AllTraces = traces,
           traces \in Seq(TraceFiles), IsInjective(traces)
    PROVE  Plan /\ Len(Asked) = 9 * Len(traces)
<1>1. /\ ~ UsesSweep /\ IsUsage
      /\ DOMAIN Asked = 1..(9 * Len(traces)) /\ Len(Asked) = 9 * Len(traces)
  BY AllAsked
<1> DEFINE N == 9 * Len(traces)
<1>2. N \in Nat
  OBVIOUS
<1>3. \A i, j \in 1..N :
          Asked[i].algo = Asked[j].algo /\ TokenOf[Asked[i].trace] = TokenOf[Asked[j].trace] => i = j
  BY AskedOnce
<1>4. DOMAIN Asked = 1..N /\ Len(Asked) = N
  BY <1>1
<1> HIDE DEF N
<1>5. Once
  BY <1>1, <1>2, <1>3, <1>4, PromisedOnce
<1>6. /\ DOMAIN Promised = 1..(3 * N) /\ Len(Promised) = 3 * N
      /\ \A i \in 1..N, k \in 1..3 :
             /\ FileNumber(i, k) \in 1..(3 * N)
             /\ Promised[FileNumber(i, k)] =
                    [file |-> RunFile(Asked[i].algo, Asked[i].trace, k), of |-> <<Asked[i]>>]
  BY <1>1, <1>2, <1>4, FilesPromised
<1>7. 3 * N \in Nat
  BY <1>2
<1>8. Plan
  BY <1>1, <1>2, <1>4, <1>5, <1>6, <1>7 DEF Plan
<1> QED
  BY <1>1, <1>8

\* No trace, nothing to ask for.
LEMMA NothingAsked ==
    ASSUME EnvInv, ParseInv, arg > Len(argv), IsAll, Range(traces) = Chosen, traces = <<>>
    PROVE  Asked = <<>>
<1>1. AllTraces = <<>>
  <2>1. traces \in Seq(TraceFiles) /\ Len(traces) = 0
    OBVIOUS
  <2>2. SortedTo(traces, Len(traces))
    BY <2>1 DEF SortedTo
  <2> QED
    BY <2>1, <2>2, SortedIsAllTraces
<1>2. UsesAll
  BY Settled
<1>3. Asked = [n \in 1..(Len(registry) * Len(AllTraces)) |->
                  Result(registry[((n - 1) \div Len(AllTraces)) + 1],
                         AllTraces[((n - 1) % Len(AllTraces)) + 1], DEFAULT_QUANTUM)]
  BY <1>2 DEF Asked, AskedOf, PairingsOf, AllTraces
<1>4. Len(registry) * Len(AllTraces) = 0
  BY <1>1 DEF registry
<1> DEFINE e(n) == Result(registry[((n - 1) \div Len(AllTraces)) + 1],
                          AllTraces[((n - 1) % Len(AllTraces)) + 1], DEFAULT_QUANTUM)
<1>5. Asked = [n \in 1..0 |-> e(n)]
  BY <1>3, <1>4
<1> HIDE DEF e
<1> QED
  BY <1>5

LEMMA DriverInvInit == DriverInit => DriverInv
<1> SUFFICES ASSUME DriverInit PROVE DriverInv
  OBVIOUS
<1>1. EnvInv
  <2>1. PICK e \in Environments :
            /\ argv = e.argv /\ directory = e.directory /\ contents = e.contents
            /\ verdict = e.verdict /\ unwritable = e.unwritable
    BY DEF DriverInit
  <2> QED
    BY <2>1, EnvironmentAssumption DEF EnvInv
<1>2. ParseInv
  BY <1>1, ParseInvInit
<1>3. LoaderInv /\ outcome # "reading"
  BY LoaderInvInit DEF DriverInit, LoaderInit
<1>4. Done(0)
  <2>1. output = [f \in FileNames |-> Before]
    BY DEF DriverInit
  <2>2. output = [f \in FileNames |-> output[f]]
    BY <2>1
  <2>3. Touched = {}
    BY <2>1 DEF Touched
  <2>4. 1..0 = {}
    OBVIOUS
  <2> QED
    BY <2>2, <2>3, <2>4, FS_EmptySet DEF Done
<1>5. Left
  BY <1>4 DEF Left
<1>6. pc = "parse" /\ AtStart
  BY <1>4 DEF DriverInit, AtStart
<1> QED
  BY <1>1, <1>2, <1>3, <1>5, <1>6 DEF DriverInv, Common

LEMMA ParseArgInv == DriverInv /\ ParseArg => DriverInv'
<1> SUFFICES ASSUME DriverInv, ParseArg PROVE DriverInv'
  OBVIOUS
<1>1. pc = "parse" /\ Common /\ AtStart
  BY DEF DriverInv, ParseArg, Phase, Running, AtSweepFile
<1>2. UNCHANGED environment /\ UNCHANGED loops /\ UNCHANGED output /\ UNCHANGED LoaderVars
  BY DEF ParseArg
<1>3. argv' = argv /\ directory' = directory /\ contents' = contents /\ verdict' = verdict /\ full' = full
  BY <1>2 DEF environment
<1>4. EnvInv'
  BY <1>1, <1>3 DEF EnvInv, Common
<1>5. LoaderInv' /\ outcome' # "reading"
  <2>1. LoaderInv /\ outcome # "reading"
    BY <1>1 DEF Common
  <2>2. LoaderInv'
    BY <1>2, <2>1, LoaderInvStep
  <2>3. outcome' = outcome
    BY <1>2 DEF LoaderVars
  <2> QED
    BY <2>1, <2>2, <2>3
<1>6. Done(0)'
  <2>1. Done(0) /\ output' = output
    BY <1>1, <1>2 DEF AtStart
  <2> QED
    BY <1>3, <2>1, DoneStays
<1>7. Left'
  BY <1>6 DEF Left
<1>8. /\ ParseInv'
      /\ \/ pc' = "parse"
         \/ pc' = "exited" /\ status' = 1 /\ ~ WellFormed
  BY <1>1, ParseStep DEF Common
<1>9. Common'
  BY <1>4, <1>5, <1>7, <1>8 DEF Common
<1>10. CASE pc' = "parse"
  <2>1. AtStart'
    BY <1>1, <1>2, <1>6 DEF AtStart, loops
  <2> QED
    BY <1>9, <1>10, <2>1 DEF DriverInv
<1>11. CASE pc' = "exited" /\ status' = 1 /\ ~ WellFormed
  <2>1. ~ IsUsage'
    BY <1>3, <1>11, PromiseStays DEF IsUsage
  <2>2. Ended'
    BY <1>11, <2>1 DEF Ended, Reason
  <2> QED
    BY <1>9, <1>11, <2>2 DEF DriverInv
<1> QED
  BY <1>8, <1>10, <1>11

\* A call of run_one for the i-th run.
LEMMA RunBegins ==
    ASSUME UNCHANGED environment, UNCHANGED options, UNCHANGED arg, UNCHANGED output, Plan,
           NEW algo, NEW path, NEW q, NEW write, run_one(algo, path, q, write),
           NEW i \in 1..Len(Asked), Result(algo, path, q) = Asked[i], path \in Paths,
           write <=> ~ IsSweep,
           IsAll => AtRun(i)' /\ algo_at' < 9,
           IsSweep => /\ i = q /\ path = options.trace
                      /\ rows' = [n \in 1..(i - 1) |-> Asked[n]],
           IsSingle => i = 1,
           Sane(i - 1), Written(i, 0)
    PROVE  Running'
<1>1. /\ call'.algo = algo /\ call'.trace = path /\ call'.quantum = q /\ call'.write = write
      /\ written' = 0 /\ pc' = "lookup" /\ options' = options
  BY DEF run_one, Goto
<1>2. /\ Plan' /\ Asked' = Asked /\ IsAll' = IsAll /\ IsSweep' = IsSweep /\ IsSingle' = IsSingle
      /\ Sane(i - 1)'
  BY FrameStays
<1>3. Written(i, 0)'
  BY FilesStay
<1>4. Written(i, written)'
  BY <1>1, <1>3 DEF Written
<1>5. Phase'
  BY <1>1 DEF Phase
<1>6. InRun(i)'
  BY <1>1, <1>2, <1>4 DEF InRun
<1>7. i \in 1..Len(Asked')
  BY <1>2
<1> QED
  BY <1>2, <1>5, <1>6, <1>7 DEF Running

LEMMA DecideInv == DriverInv /\ Decide => DriverInv'
<1> SUFFICES ASSUME DriverInv, Decide PROVE DriverInv'
  OBVIOUS
<1>1. /\ pc = "parse" /\ arg > Len(argv) /\ Common /\ AtStart
      /\ EnvInv /\ ParseInv /\ outcome # "reading"
  BY DEF DriverInv, Decide, Phase, Running, AtSweepFile, Common
<1>2. /\ UNCHANGED environment /\ UNCHANGED options /\ UNCHANGED arg /\ UNCHANGED loops
      /\ UNCHANGED output /\ UNCHANGED LoaderVars
  BY DEF Decide
<1>3. Done(0) /\ Done(0)' /\ traces = <<>> /\ algo_at = 0 /\ trace_at = 1 /\ seen = 0 /\ rows = <<>>
  BY <1>1, <1>2, FilesStay DEF AtStart
<1>4. ASSUME pc' \notin {"parse", "exited"} => Decided PROVE Common'
  BY <1>1, <1>2, <1>4, CommonStays
<1>5. \A i : i = 1 => Sane(i - 1)
  BY DEF Sane
<1>6. CASE IsAll /\ Goto("list")
  <2>1. Listing(0)
    BY <1>1, <1>3, ListingBegins
  <2>2. Listing(0)' /\ seen' = 0 /\ directory' = directory
    BY <1>2, <1>3, <2>1 DEF Listing, Found, loops, environment
  <2>3. 0 \in 0..Len(directory')
    BY <1>1, <2>2, Entries
  <2>4. IsAll' /\ algo_at' = 0 /\ trace_at' = 1
    BY <1>2, <1>3, <1>6, FrameStays DEF loops
  <2>5. AtList'
    BY <1>3, <2>2, <2>3, <2>4 DEF AtList
  <2>6. Common'
    BY <1>1, <1>4, <1>6 DEF Decided
  <2> QED
    BY <1>6, <2>5, <2>6 DEF DriverInv, Goto
<1>7. CASE IsSweep /\ run_one("rr", options.trace, SWEEP_MIN, FALSE)
  <2>1. /\ Plan /\ Len(Asked) = 12 /\ UsesSweep
        /\ Asked = [n \in 1..12 |-> Result("rr", options.trace, n)]
    BY <1>1, <1>7, PlanOfSweep
  <2>2. 1 \in 1..Len(Asked) /\ SWEEP_MIN = 1 /\ Result("rr", options.trace, SWEEP_MIN) = Asked[1]
    BY <2>1 DEF SWEEP_MIN
  <2>3. options.trace \in Paths
    BY <1>1, <1>7, Settled
  <2>4. rows' = [n \in 1..(1 - 1) |-> Asked[n]]
    BY <1>2, <1>3 DEF loops
  <2>5. ~ IsAll /\ ~ IsSingle
    BY <1>7 DEF IsAll, IsSweep, IsSingle
  <2>6. Written(1, 0)
    BY <1>3, <2>1 DEF Written
  <2>7. Running'
    BY <1>2, <1>5, <1>7, <2>1, <2>2, <2>3, <2>4, <2>5, <2>6, RunBegins
  <2>8. Common'
    BY <1>1, <1>4, <1>7 DEF Decided
  <2> QED
    BY <2>7, <2>8 DEF DriverInv
<1>8. CASE IsSingle /\ run_one(options.algo, options.trace, options.quantum, TRUE)
  <2>1. Plan /\ Len(Asked) = 1 /\ Asked[1] = Result(options.algo, options.trace, options.quantum)
    BY <1>1, <1>8, PlanOfSingle
  <2>2. 1 \in 1..Len(Asked)
    BY <2>1
  <2>3. options.trace \in Paths /\ ~ UsesSweep
    BY <1>1, <1>8, Settled, OneAsked
  <2>5. ~ IsAll /\ ~ IsSweep
    BY <1>8 DEF IsAll, IsSweep, IsSingle
  <2>6. Written(1, 0)
    <3>1. FileNumber(1, 0) = 0
      BY DEF FileNumber
    <3> QED
      BY <1>3, <2>3, <3>1 DEF Written
  <2>7. Running'
    BY <1>2, <1>5, <1>8, <2>1, <2>2, <2>3, <2>5, <2>6, RunBegins
  <2>8. Common'
    BY <1>1, <1>4, <1>8 DEF Decided
  <2> QED
    BY <2>7, <2>8 DEF DriverInv
<1>9. CASE ~ (IsAll \/ IsSweep \/ IsSingle) /\ Exit(1)
  <2>1. ~ IsUsage
    BY <1>1, <1>9, Settled DEF IsUsage
  <2>2. ~ IsUsage'
    BY <1>2, <2>1, FrameStays
  <2>3. pc' = "exited" /\ status' = 1
    BY <1>9 DEF Exit
  <2>4. Ended'
    BY <2>2, <2>3 DEF Ended, Reason
  <2>5. Common'
    BY <1>4, <2>3
  <2> QED
    BY <2>3, <2>4, <2>5 DEF DriverInv
<1> QED
  BY <1>6, <1>7, <1>8, <1>9 DEF Decide

LEMMA ListEntryInv == DriverInv /\ ListEntry => DriverInv'
<1> SUFFICES ASSUME DriverInv, ListEntry PROVE DriverInv'
  OBVIOUS
<1>1. /\ pc = "list" /\ pc' = "list" /\ Common /\ AtList
      /\ EnvInv /\ Decided /\ outcome # "reading"
  BY DEF DriverInv, ListEntry, Phase, Running, AtSweepFile, Common
<1>2. /\ UNCHANGED environment /\ UNCHANGED options /\ UNCHANGED arg /\ UNCHANGED output
      /\ UNCHANGED LoaderVars /\ algo_at' = algo_at /\ trace_at' = trace_at /\ directory' = directory
  BY DEF ListEntry, Unchanged_list, environment
<1>3. Common'
  BY <1>1, <1>2, CommonStays
<1>4. PICK n \in 0..Len(directory) : seen = n /\ Listing(n)
  BY <1>1 DEF AtList
<1>5. n + 1 \in 0..Len(directory) /\ seen' = n + 1 /\ Listing(n + 1)'
  BY <1>1, <1>4, ListEntryStep
<1>6. IsAll' /\ Done(0)'
  BY <1>1, <1>2, FrameStays, FilesStay DEF AtList
<1>7. n + 1 \in 0..Len(directory')
  BY <1>2, <1>5
<1>8. AtList'
  BY <1>1, <1>2, <1>5, <1>6, <1>7 DEF AtList
<1> QED
  BY <1>1, <1>3, <1>8 DEF DriverInv

LEMMA ListedInv == DriverInv /\ Listed => DriverInv'
<1> SUFFICES ASSUME DriverInv, Listed PROVE DriverInv'
  OBVIOUS
<1>1. /\ pc = "list" /\ Common /\ AtList /\ ~ Reading
      /\ EnvInv /\ ParseInv /\ Decided /\ outcome # "reading" /\ IsAll /\ arg > Len(argv)
  BY DEF DriverInv, Listed, Phase, Running, AtSweepFile, Common, AtList, Decided
<1>2. /\ UNCHANGED environment /\ UNCHANGED options /\ UNCHANGED arg /\ UNCHANGED output
      /\ UNCHANGED LoaderVars /\ algo_at' = algo_at /\ trace_at' = trace_at
      /\ directory' = directory /\ traces' = traces
  BY DEF Listed, Unchanged_list, environment
<1>3. Common'
  BY <1>1, <1>2, CommonStays
<1>4. PICK n \in 0..Len(directory) : seen = n /\ Listing(n)
  BY <1>1 DEF AtList
<1>5. Range(traces) = Chosen /\ traces \in Seq(TraceFiles) /\ IsInjective(traces)
  BY <1>1, <1>4, ListingEnds DEF Listing
<1>6. IsAll' /\ Done(0)' /\ Asked' = Asked /\ Chosen' = Chosen
  <2>1. argv' = argv
    BY <1>2 DEF environment
  <2> QED
    BY <1>1, <1>2, <2>1, FrameStays, FilesStay, PromiseStays DEF AtList
<1>7. CASE traces = <<>> /\ Exit(1)
  <2>1. Asked = <<>>
    BY <1>1, <1>5, <1>7, NothingAsked
  <2>2. pc' = "exited" /\ status' = 1 /\ Asked' = <<>>
    BY <1>6, <1>7, <2>1 DEF Exit
  <2>3. Ended'
    BY <2>2 DEF Ended, Reason
  <2> QED
    BY <1>3, <2>2, <2>3 DEF DriverInv
<1>8. CASE traces # <<>> /\ Goto("sort") /\ seen' = 1
  <2>1. 1 \in 1..Len(traces)
    BY <1>5, <1>8
  <2>2. SortedTo(traces, 1)
    BY DEF SortedTo
  <2>3. /\ traces' \in Seq(TraceFiles) /\ IsInjective(traces') /\ Range(traces') = Chosen'
        /\ 1 \in 1..Len(traces') /\ SortedTo(traces', 1)
    BY <1>2, <1>5, <1>6, <2>1, <2>2
  <2>4. AtSort'
    BY <1>1, <1>2, <1>6, <1>8, <2>3 DEF AtSort, AtList
  <2> QED
    BY <1>3, <1>8, <2>4 DEF DriverInv, Goto
<1> QED
  BY <1>7, <1>8 DEF Listed

LEMMA SortInv == DriverInv /\ Sort => DriverInv'
<1> SUFFICES ASSUME DriverInv, Sort PROVE DriverInv'
  OBVIOUS
<1>1. /\ pc = "sort" /\ Common /\ AtSort
      /\ EnvInv /\ ParseInv /\ Decided /\ outcome # "reading" /\ IsAll /\ arg > Len(argv)
  BY DEF DriverInv, Sort, Phase, Running, AtSweepFile, Common, AtSort, Decided
<1>2. /\ UNCHANGED environment /\ UNCHANGED options /\ UNCHANGED arg /\ UNCHANGED output
      /\ UNCHANGED LoaderVars /\ algo_at' = algo_at /\ trace_at' = trace_at
      /\ directory' = directory /\ argv' = argv
  BY DEF Sort, Unchanged_list, environment
<1>3. Common'
  BY <1>1, <1>2, CommonStays
<1>4. /\ traces \in Seq(TraceFiles) /\ IsInjective(traces) /\ Range(traces) = Chosen
      /\ algo_at = 0 /\ trace_at = 1 /\ Done(0)
  BY <1>1 DEF AtSort
<1>5. PICK n \in 1..Len(traces) : seen = n /\ SortedTo(traces, n)
  BY <1>1 DEF AtSort
<1>6. /\ IsAll' /\ Done(0)' /\ Chosen' = Chosen /\ AllTraces' = AllTraces /\ UsesSweep' = UsesSweep
      /\ Plan' = Plan
  BY <1>1, <1>2, <1>4, FrameStays, FilesStay, PromiseStays
<1>7. CASE seen < Len(traces)
  <2>1. traces' = Inserted(traces, n) /\ seen' = n + 1 /\ pc' = "sort"
    BY <1>1, <1>5, <1>7 DEF Sort
  <2>2. n \in 1..(Len(traces) - 1) /\ n + 1 \in 1..Len(traces)
    BY <1>4, <1>5, <1>7
  <2>3. /\ traces' \in Seq(TraceFiles) /\ IsInjective(traces')
        /\ Len(traces') = Len(traces) /\ Range(traces') = Chosen'
        /\ SortedTo(traces', n + 1)
    BY <1>4, <1>5, <1>6, <2>1, <2>2, InsertedIs
  <2>4. n + 1 \in 1..Len(traces')
    BY <2>2, <2>3
  <2>5. AtSort'
    BY <1>2, <1>4, <1>6, <2>1, <2>3, <2>4 DEF AtSort
  <2> QED
    BY <1>3, <2>1, <2>5 DEF DriverInv
<1>8. CASE ~ (seen < Len(traces))
  <2>1. pc' = "pairing" /\ traces' = traces
    BY <1>1, <1>8 DEF Sort, Goto
  <2>2. n = Len(traces) /\ Len(traces) \in Nat
    BY <1>4, <1>5, <1>8
  <2>3. AllTraces = traces
    BY <1>1, <1>4, <1>5, <2>2, SortedIsAllTraces
  <2>4. Plan
    BY <1>1, <1>4, <2>3, PlanOfAll
  <2>5. ~ UsesSweep
    BY <1>1, OneForm
  <2>6. RunNumber(0, 1, Len(traces)) = 1 /\ FileNumber(1, 0) = 0
    BY <2>2 DEF RunNumber, FileNumber
  <2>7. AtRun(1)'
    BY <1>2, <1>4, <1>5, <1>6, <2>1, <2>2, <2>3, <2>6 DEF AtRun
  <2>8. Sane(1 - 1)'
    BY DEF Sane
  <2>9. Written(1, 0)'
    BY <1>6, <2>5, <2>6 DEF Written
  <2>10. AtPairing'
    BY <1>6, <2>4, <2>7, <2>8, <2>9 DEF AtPairing
  <2> QED
    BY <1>3, <2>1, <2>10 DEF DriverInv
<1> QED
  BY <1>7, <1>8

\* One pairing behind the other.
LEMMA NextRun ==
    ASSUME NEW L \in Nat \ {0}
    PROVE  /\ \A a \in 0..8, t \in 1..L : RunNumber(a, t, L) \in 1..(9 * L)
           /\ \A a \in Nat, t \in Nat : RunNumber(a, t + 1, L) = RunNumber(a, t, L) + 1
           /\ \A a \in Nat : RunNumber(a + 1, 1, L) = RunNumber(a, L, L) + 1
           /\ RunNumber(9, 1, L) = 9 * L + 1
           /\ \A a \in Nat, t \in Nat \ {0} : RunNumber(a, t, L) \in Nat \ {0}
<1>1. ASSUME NEW a \in 0..8, NEW t \in 1..L PROVE a * L + t \in 1..(9 * L)
  <2>1. a * L \in Nat /\ a * L <= 8 * L
    OBVIOUS
  <2> QED
    BY <2>1
<1>2. ASSUME NEW a \in Nat, NEW t \in Nat PROVE a * L + (t + 1) = (a * L + t) + 1
  <2>1. a * L \in Nat
    OBVIOUS
  <2> QED
    BY <2>1
<1>3. ASSUME NEW a \in Nat PROVE (a + 1) * L + 1 = (a * L + L) + 1
  OBVIOUS
<1>4. ASSUME NEW a \in Nat, NEW t \in Nat \ {0} PROVE a * L + t \in Nat \ {0}
  <2>1. a * L \in Nat
    OBVIOUS
  <2> QED
    BY <2>1
<1> QED
  BY <1>1, <1>2, <1>3, <1>4 DEF RunNumber

LEMMA PairingInv == DriverInv /\ Pairing => DriverInv'
<1> SUFFICES ASSUME DriverInv, Pairing PROVE DriverInv'
  OBVIOUS
<1>1. /\ pc = "pairing" /\ Common /\ AtPairing
      /\ EnvInv /\ ParseInv /\ Decided /\ outcome # "reading" /\ IsAll /\ Plan /\ arg > Len(argv)
  BY DEF DriverInv, Pairing, Phase, Running, AtSweepFile, Common, AtPairing, Decided
<1>2. /\ UNCHANGED environment /\ UNCHANGED options /\ UNCHANGED arg /\ UNCHANGED output
      /\ UNCHANGED LoaderVars /\ UNCHANGED loops
  BY DEF Pairing
<1>3. Common'
  BY <1>1, <1>2, CommonStays
<1>4. PICK i \in Nat \ {0} : AtRun(i) /\ Sane(i - 1) /\ Written(i, 0)
  BY <1>1 DEF AtPairing
<1> DEFINE L == Len(traces)
<1>5. /\ traces \in Seq(TraceFiles) /\ AllTraces = traces /\ L \in Nat \ {0}
      /\ algo_at \in 0..9 /\ trace_at \in 1..L /\ (algo_at = 9 => trace_at = 1)
      /\ i = RunNumber(algo_at, trace_at, L)
  BY <1>4 DEF AtRun
<1>6. /\ ~ IsSweep /\ ~ IsSingle /\ ~ UsesSweep
  BY <1>1, OneForm
<1>7. /\ Len(Asked) = 9 * L
      /\ \A a \in 0..8, t \in 1..L :
             Asked[RunNumber(a, t, L)] = Result(registry[a + 1], traces[t], DEFAULT_QUANTUM)
  BY <1>1, <1>5, AllAsked
<1>8. Len(registry) = 9
  BY DEF registry
<1>9. AllTraces' = AllTraces /\ traces' = traces /\ algo_at' = algo_at /\ trace_at' = trace_at
  <2>1. argv' = argv /\ directory' = directory
    BY <1>2 DEF environment
  <2> QED
    BY <1>2, <2>1, PromiseStays DEF loops
<1>10. CASE scheduler_names(algo_at)
  <2>1. algo_at \in 0..8 /\ algo_at < 9
    BY <1>5, <1>8, <1>10 DEF scheduler_names
  <2>2. run_one(registry[algo_at + 1], traces[trace_at], DEFAULT_QUANTUM, TRUE)
    BY <1>10 DEF Pairing
  <2>3. i \in 1..(9 * L)
    BY <1>5, <2>1, NextRun
  <2>4. Asked[i] = Result(registry[algo_at + 1], traces[trace_at], DEFAULT_QUANTUM)
    BY <1>5, <1>7, <2>1
  <2>5. traces[trace_at] \in Paths
    BY <1>5, NamesAssumption
  <2>6. AtRun(i)' /\ algo_at' < 9
    BY <1>5, <1>9, <2>1 DEF AtRun
  <2>7. i \in 1..Len(Asked)
    BY <1>7, <2>3
  <2>8. Running'
    <3>1. Plan /\ Sane(i - 1) /\ Written(i, 0)
      BY <1>1, <1>4
    <3> QED
      BY <1>2, <1>6, <2>2, <2>4, <2>5, <2>6, <2>7, <3>1, RunBegins
  <2> QED
    BY <1>3, <2>8 DEF DriverInv
<1>11. CASE ~ scheduler_names(algo_at)
  <2>1. algo_at = 9 /\ trace_at = 1
    BY <1>5, <1>8, <1>11 DEF scheduler_names
  <2>2. pc' = "exited" /\ status' = 0
    BY <1>11 DEF Pairing, Exit
  <2>3. i = 9 * L + 1
    BY <1>5, <2>1, NextRun
  <2> HIDE DEF L
  <2>4. i - 1 = Len(Asked) /\ FileNumber(i, 0) = 3 * Len(Asked)
    BY <1>5, <1>7, <2>3 DEF FileNumber
  <2>5. Len(Promised) = 3 * Len(Asked)
    BY <1>1, <1>6 DEF Plan
  <2>6. Done(Len(Promised)) /\ Sane(Len(Asked))
    BY <1>4, <1>6, <2>4, <2>5 DEF Written
  <2>7. Done(Len(Promised))' /\ Sane(Len(Asked))' /\ Plan'
    <3>1. Done(Len(Promised))'
      BY <1>2, <2>6, AllStay
    <3> QED
      BY <1>1, <1>2, <2>6, <3>1, FrameStays DEF Sane
  <2>8. Ended'
    BY <2>2, <2>7 DEF Ended
  <2> QED
    BY <1>3, <2>2, <2>8 DEF DriverInv
<1> QED
  BY <1>10, <1>11

\* A step inside run_one that moves neither the loops nor the files.
LEMMA RunKeeps ==
    ASSUME UNCHANGED environment, UNCHANGED options, UNCHANGED arg, UNCHANGED output,
           UNCHANGED loops, UNCHANGED call, UNCHANGED written,
           Running, Phase'
    PROVE  Running'
<1>1. PICK i \in 1..Len(Asked) : InRun(i)
  BY DEF Running
<1>2. /\ Plan' /\ Asked' = Asked /\ IsAll' = IsAll /\ IsSweep' = IsSweep /\ IsSingle' = IsSingle
      /\ Sane(i - 1)' = Sane(i - 1)
  BY FrameStays DEF Running
<1>3. /\ traces' = traces /\ algo_at' = algo_at /\ trace_at' = trace_at /\ rows' = rows
      /\ call' = call /\ written' = written /\ options' = options
  BY DEF loops
<1>4. Written(i, written)'
  <2>1. Written(i, written)
    BY <1>1 DEF InRun
  <2> DEFINE k == written
  <2>2. Written(i, k)
    BY <2>1
  <2> HIDE DEF k
  <2>3. Written(i, k)'
    <3>1. \A x, y : Written(x, y) => Written(x, y)'
      BY FilesStay
    <3>2. UsesSweep' = UsesSweep /\ Promised' = Promised /\ output' = output
      BY FrameStays
    <3> QED
      BY <2>2, <3>1, <3>2, <1>3 DEF k, Written, Done, Touched
  <2> QED
    BY <1>3, <2>3 DEF k
<1>5. AtRun(i)' <=> AtRun(i)
  <2>1. argv' = argv /\ directory' = directory
    BY DEF environment
  <2>2. AllTraces' = AllTraces
    BY <2>1, PromiseStays
  <2> QED
    BY <1>3, <2>2 DEF AtRun
<1>6. InRun(i)'
  BY <1>1, <1>2, <1>3, <1>4, <1>5 DEF InRun
<1>7. i \in 1..Len(Asked')
  BY <1>2
<1> QED
  BY <1>2, <1>6, <1>7 DEF Running

\* What is known in run_one.
LEMMA RunFacts ==
    ASSUME DriverInv, pc \in {"lookup", "load", "engine", "check", "write", "returned"}
    PROVE  /\ Common /\ Running /\ Plan /\ Phase /\ Decided /\ EnvInv /\ ParseInv /\ LoaderInv
           /\ call.trace \in Paths /\ contents[call.trace] \in Files
           /\ Refuses(call) => Reason
<1>1. Common /\ Running /\ Plan /\ Phase /\ Decided /\ EnvInv /\ ParseInv /\ LoaderInv
  BY DEF DriverInv, Common, Running, AtSweepFile
<1>2. PICK i \in 1..Len(Asked) : InRun(i)
  BY <1>1 DEF Running
<1>3. call.trace \in Paths /\ Result(call.algo, call.trace, call.quantum) = Asked[i]
  BY <1>2 DEF InRun
<1>4. contents[call.trace] \in Files
  BY <1>1, <1>3 DEF EnvInv
<1>5. call.algo = Asked[i].algo /\ call.trace = Asked[i].trace
  BY <1>3 DEF Result
<1>6. i \in DOMAIN Asked
  BY <1>1 DEF Plan
<1>7. Refuses(call) => Reason
  BY <1>5, <1>6 DEF Refuses, Reason
<1> QED
  BY <1>1, <1>3, <1>4, <1>7

LEMMA LookupInv == DriverInv /\ Lookup => DriverInv'
<1> SUFFICES ASSUME DriverInv, Lookup PROVE DriverInv'
  OBVIOUS
<1>1. /\ Common /\ Running /\ Phase /\ Decided /\ LoaderInv
      /\ contents[call.trace] \in Files /\ (Refuses(call) => Reason) /\ outcome # "reading"
  BY RunFacts DEF Lookup, Common
<1>2. pc = "lookup" /\ written = 0
  BY <1>1 DEF Lookup, Phase
<1>3. /\ UNCHANGED environment /\ UNCHANGED options /\ UNCHANGED arg /\ UNCHANGED output
      /\ UNCHANGED loops /\ UNCHANGED call /\ UNCHANGED written
  BY DEF Lookup, Unchanged_run
<1>4. /\ EnvInv' /\ ParseInv' /\ Left' /\ Decided' /\ Reason' = Reason
  BY <1>1, <1>3, FrameStays, FilesStay DEF Common
<1>5. CASE scheduler_lookup(call.algo)
  <2>1. load_trace(contents[call.trace]) /\ pc' = "load"
    BY <1>5 DEF Lookup, Goto
  <2>2. LoaderInv'
    BY <1>1, <2>1, CallStep
  <2>3. file' = contents'[call'.trace]
    BY <1>3, <2>1 DEF load_trace, environment
  <2>4. scheduler_lookup(call'.algo)
    BY <1>3, <1>5
  <2>5. Phase'
    BY <1>2, <1>3, <2>1, <2>3, <2>4 DEF Phase
  <2>6. Common'
    BY <1>4, <2>1, <2>2 DEF Common
  <2>7. Running'
    BY <1>1, <1>3, <2>5, RunKeeps
  <2> QED
    BY <2>6, <2>7 DEF DriverInv
<1>6. CASE ~ scheduler_lookup(call.algo)
  <2>1. pc' = "returned" /\ ret' = -1 /\ UNCHANGED LoaderVars
    BY <1>6 DEF Lookup, Return, Goto
  <2>2. Reason'
    BY <1>1, <1>4, <1>6 DEF Refuses
  <2>3. Phase'
    BY <2>1, <2>2 DEF Phase
  <2>4. Common'
    BY <1>1, <1>3, <2>1, CommonStays
  <2>5. Running'
    BY <1>1, <1>3, <2>3, RunKeeps
  <2> QED
    BY <2>4, <2>5 DEF DriverInv
<1> QED
  BY <1>5, <1>6

LEMMA LoadInv == DriverInv /\ Load => DriverInv'
<1> SUFFICES ASSUME DriverInv, Load PROVE DriverInv'
  OBVIOUS
<1>1. Common /\ Running /\ Phase /\ Decided /\ LoaderInv
  BY RunFacts DEF Load
<1>2. /\ pc = "load" /\ written = 0 /\ scheduler_lookup(call.algo) /\ file = contents[call.trace]
  BY <1>1 DEF Load, Phase
<1>3. /\ UNCHANGED environment /\ UNCHANGED options /\ UNCHANGED arg /\ UNCHANGED output
      /\ UNCHANGED loops /\ UNCHANGED call /\ UNCHANGED written
      /\ pc' = "load" /\ LoadStep
  BY <1>2 DEF Load, Unchanged_run
<1>4. file' = file
  BY <1>3 DEF LoadStep, CannotOpen, SkipLine, RefuseLine, StoreLine, Reads, EndOfFile
<1>5. LoaderInv'
  BY <1>1, <1>3, LoaderInvStep DEF LoaderNext
<1>6. EnvInv' /\ ParseInv' /\ Left' /\ Decided'
  BY <1>1, <1>3, FrameStays, FilesStay DEF Common
<1>7. Common'
  BY <1>3, <1>5, <1>6 DEF Common
<1>8. contents' = contents /\ call' = call
  BY <1>3 DEF environment
<1>9. Phase'
  BY <1>2, <1>3, <1>4, <1>8 DEF Phase
<1>10. Running'
  BY <1>1, <1>3, <1>9, RunKeeps
<1> QED
  BY <1>7, <1>10 DEF DriverInv

\* What load_trace refuses is no trace file, and what it loads is one.
LEMMA LoadedIs ==
    ASSUME LoaderInv, outcome # "reading"
    PROVE  IF outcome = "failed" THEN ~ IsTraceFile(file) ELSE IsTraceFile(file)
<1>1. CASE outcome = "failed"
  <2>1. SUFFICES ASSUME IsTraceFile(file) PROVE FALSE
    BY <1>1
  <2>2. file.opens /\ Data(file) # {} /\ Offending(file) = {}
    BY <2>1 DEF IsTraceFile
  <2> QED
    BY <1>1, <2>2 DEF LoaderInv, RefusesTheFirstOffence
<1>2. CASE outcome = "loaded"
  BY <1>2 DEF LoaderInv, LoadsWhatTheFileSays
<1> QED
  BY <1>1, <1>2 DEF LoaderInv, LoaderTypeInv

LEMMA LoadedInv == DriverInv /\ Loaded => DriverInv'
<1> SUFFICES ASSUME DriverInv, Loaded PROVE DriverInv'
  OBVIOUS
<1>1. /\ Common /\ Running /\ Phase /\ Decided /\ LoaderInv
      /\ (Refuses(call) => Reason) /\ outcome # "reading"
  BY RunFacts DEF Loaded
<1>2. pc = "load" /\ written = 0 /\ scheduler_lookup(call.algo) /\ file = contents[call.trace]
  BY <1>1 DEF Loaded, Phase
<1>3. /\ UNCHANGED environment /\ UNCHANGED options /\ UNCHANGED arg /\ UNCHANGED output
      /\ UNCHANGED loops /\ UNCHANGED call /\ UNCHANGED written /\ UNCHANGED LoaderVars
  BY DEF Loaded, Unchanged_run
<1>4. Common'
  BY <1>1, <1>3, CommonStays
<1>5. Reason' = Reason /\ contents' = contents /\ call' = call
  BY <1>3, FrameStays DEF environment
<1>6. Phase'
  <2>1. CASE outcome = "failed"
    <3>1. pc' = "returned" /\ ret' = -1
      BY <2>1 DEF Loaded, Return, Goto
    <3>2. Reason
      BY <1>1, <1>2, <2>1, LoadedIs DEF Refuses
    <3> QED
      BY <1>5, <3>1, <3>2 DEF Phase
  <2>2. CASE outcome # "failed"
    <3>1. pc' = "engine" /\ written' = 0
      BY <1>2, <1>3, <2>2 DEF Loaded, Goto
    <3>2. Accepted
      BY <1>1, <1>2, <2>2, LoadedIs DEF Accepted
    <3>3. Accepted'
      BY <1>5, <3>2 DEF Accepted
    <3> QED
      BY <3>1, <3>3 DEF Phase
  <2> QED
    BY <2>1, <2>2
<1>7. Running'
  BY <1>1, <1>3, <1>6, RunKeeps
<1> QED
  BY <1>4, <1>7 DEF DriverInv

\* The engine and the checks refuse for what verdict says of the trace.
LEMMA EngineAndCheckInv == DriverInv /\ (EngineRun \/ Check) => DriverInv'
<1> SUFFICES ASSUME DriverInv, EngineRun \/ Check PROVE DriverInv'
  OBVIOUS
<1>1. /\ Common /\ Running /\ Phase /\ Decided /\ (Refuses(call) => Reason) /\ outcome # "reading"
  BY RunFacts DEF EngineRun, Check, Common
<1>2. pc \in {"engine", "check"} /\ written = 0 /\ Accepted
  BY <1>1 DEF EngineRun, Check, Phase
<1>3. /\ UNCHANGED environment /\ UNCHANGED options /\ UNCHANGED arg /\ UNCHANGED output
      /\ UNCHANGED loops /\ UNCHANGED call /\ UNCHANGED written /\ UNCHANGED LoaderVars
  BY DEF EngineRun, Check, Unchanged_run
<1>4. Common'
  BY <1>1, <1>3, CommonStays
<1>5. Reason' = Reason /\ contents' = contents /\ call' = call /\ written' = 0 /\ Accepted' = Accepted
  BY <1>2, <1>3, FrameStays DEF environment, Accepted
<1>6. Phase'
  <2>1. CASE pc' = "returned" /\ ret' = -1 /\ verdict[call.trace] # "good"
    <3>1. Reason'
      BY <1>1, <1>5, <2>1 DEF Refuses
    <3> QED
      BY <2>1, <3>1 DEF Phase
  <2>2. CASE pc' = "check"
    BY <1>2, <1>5, <2>2 DEF Phase
  <2>3. CASE pc' = "write" /\ call.write
    BY <1>2, <1>5, <2>3 DEF Phase
  <2>4. CASE pc' = "returned" /\ ret' = 0 /\ ~ call.write
    BY <1>2, <1>5, <2>4 DEF Phase
  <2> QED
    BY <2>1, <2>2, <2>3, <2>4 DEF EngineRun, Check, Return, Goto
<1>7. Running'
  BY <1>1, <1>3, <1>6, RunKeeps
<1> QED
  BY <1>4, <1>7 DEF DriverInv

\* A file of a run is the next of those promised.
LEMMA WriteFileInv == DriverInv /\ WriteFile => DriverInv'
<1> SUFFICES ASSUME DriverInv, WriteFile PROVE DriverInv'
  OBVIOUS
<1>1. /\ Common /\ Running /\ Plan /\ Phase /\ Decided /\ outcome # "reading"
      /\ EnvInv /\ call.trace \in Paths
  BY RunFacts DEF WriteFile, Common
<1>2. pc = "write" /\ written < 3 /\ Accepted /\ call.write
  BY <1>1 DEF WriteFile, Phase
<1>3. /\ UNCHANGED environment /\ UNCHANGED options /\ UNCHANGED arg
      /\ UNCHANGED loops /\ UNCHANGED call /\ UNCHANGED LoaderVars
  BY DEF WriteFile, Unchanged_run
<1>4. PICK i \in 1..Len(Asked) : InRun(i)
  BY <1>1 DEF Running
<1>5. ~ IsSweep /\ ~ UsesSweep
  <2>1. ~ IsSweep
    BY <1>2, <1>4 DEF InRun
  <2> QED
    BY <1>1, <1>2, <2>1, OneForm DEF Decided
<1>w. PICK w \in 0..2 : written = w
  <2>1. written \in 0..3
    BY <1>4 DEF InRun
  <2> QED
    BY <1>2, <2>1
<1> DEFINE k == w + 1
           n == FileNumber(i, w)
           f == RunFile(call.algo, call.trace, k)
<1>6. /\ k \in 1..3 /\ n \in Nat /\ FileNumber(i, k) = n + 1
      /\ i \in Nat /\ i >= 1
  <2>1. Len(Asked) \in Nat
    BY <1>1 DEF Plan
  <2>2. i \in Nat /\ i >= 1
    BY <2>1
  <2> QED
    BY <1>w, <2>2 DEF FileNumber
<1>7. Done(n)
  BY <1>4, <1>5, <1>w DEF InRun, Written
<1> HIDE DEF k, n
<1>8. call.algo = Asked[i].algo /\ call.trace = Asked[i].trace /\ Contents = <<Asked[i]>>
  BY <1>4 DEF InRun, Result, Contents
<1>9. /\ n + 1 \in 1..Len(Promised) /\ Len(Promised) \in Nat /\ DOMAIN Promised = 1..Len(Promised) /\ Once
      /\ Promised[n + 1] = [file |-> f, of |-> Contents]
  <2>1. /\ FileNumber(i, k) \in 1..Len(Promised)
        /\ Promised[FileNumber(i, k)] =
               [file |-> RunFile(Asked[i].algo, Asked[i].trace, k), of |-> <<Asked[i]>>]
    BY <1>1, <1>5, <1>6 DEF Plan
  <2> QED
    BY <1>1, <1>6, <1>8, <2>1 DEF Plan
<1>10. f \in FileNames
  <2>1. PICK a \in DOMAIN registry : registry[a] = call.algo
    BY <1>2 DEF Accepted, scheduler_lookup
  <2>2. k \in DOMAIN Kinds
    BY <1>6 DEF Kinds
  <2>3. call.trace \in DOMAIN TokenOf
    BY <1>1 DEF Paths
  <2>4. f = <<registry[a], TokenOf[call.trace], Kinds[k]>>
    BY <2>1 DEF RunFile
  <2> QED
    BY <2>1, <2>2, <2>3, <2>4 DEF FileNames
<1>11. /\ EnvInv' /\ ParseInv' /\ Decided' /\ Plan' /\ Asked' = Asked /\ Promised' = Promised
       /\ IsUsage' /\ ~ UsesSweep' /\ Reason' = Reason /\ IsAll' = IsAll /\ IsSweep' = IsSweep
       /\ IsSingle' = IsSingle /\ Sane(i - 1)' = Sane(i - 1)
  <2>1. IsUsage
    BY <1>1 DEF Plan
  <2> QED
    BY <1>1, <1>3, <1>5, <2>1, FrameStays DEF Common
<1>12. LoaderInv' /\ outcome' # "reading" /\ Accepted' = Accepted /\ call' = call
  <2>1. LoaderInv
    BY <1>1 DEF Common
  <2>2. LoaderInv'
    BY <1>3, <2>1, LoaderInvStep
  <2> QED
    BY <1>1, <1>3, <2>2 DEF LoaderVars, Accepted, environment
<1>13. CASE CanOpen(f)
  <2>1. /\ Write(f, Contents) /\ written' = k
        /\ IF k = 3 THEN pc' = "returned" /\ ret' = 0 ELSE pc' = "write"
    BY <1>13, <1>w DEF WriteFile, Return, Goto, Kinds, k
  <2>2. Done(n + 1)'
    <3>1. f = Promised[n + 1].file /\ Contents = Promised[n + 1].of
      BY <1>9
    <3>2. Contents # <<>>
      BY DEF Contents
    <3>3. argv' = argv /\ directory' = directory /\ full' = full
      BY <1>3 DEF environment
    <3>4. n + 1 <= Len(Promised)
      BY <1>6, <1>9
    <3> HIDE DEF f
    <3> QED
      BY <1>6, <1>7, <1>9, <1>10, <2>1, <3>1, <3>2, <3>3, <3>4, WriteMore
  <2>3. Written(i, k)'
    BY <1>6, <1>11, <2>2 DEF Written
  <2>4. Left'
    <3>1. n + 1 \in Nat /\ n + 1 <= Len(Promised')
      BY <1>6, <1>9, <1>11
    <3> QED
      BY <1>11, <2>2, <3>1 DEF Left
  <2>5. Common'
    BY <1>11, <1>12, <2>1, <2>4 DEF Common
  <2>6. AtRun(i)' <=> AtRun(i)
    <3>1. argv' = argv /\ directory' = directory
      BY <1>3 DEF environment
    <3>2. AllTraces' = AllTraces
      BY <3>1, PromiseStays
    <3> QED
      BY <1>3, <3>2 DEF AtRun, loops
  <2>7. Written(i, written)'
    BY <2>1, <2>3 DEF Written
  <2>8. InRun(i)'
    <3>1. call' = call /\ algo_at' = algo_at /\ rows' = rows /\ options' = options /\ written' \in 0..3
      BY <1>3, <1>6, <2>1 DEF loops
    <3> QED
      BY <1>4, <1>11, <2>6, <2>7, <3>1 DEF InRun
  <2>9. Phase'
    <3>1. CASE k = 3
      BY <1>2, <1>12, <2>1, <3>1 DEF Phase
    <3>2. CASE k # 3
      <4>1. written' < 3
        BY <1>6, <2>1, <3>2
      <4> QED
        BY <1>2, <1>12, <2>1, <3>2, <4>1 DEF Phase
    <3> QED
      BY <3>1, <3>2
  <2>10. i \in 1..Len(Asked')
    BY <1>11
  <2> QED
    BY <1>11, <2>5, <2>8, <2>9, <2>10 DEF DriverInv, Running
<1>14. CASE ~ CanOpen(f)
  <2>1. pc' = "returned" /\ ret' = -1 /\ UNCHANGED output /\ UNCHANGED written
    BY <1>14, <1>w DEF WriteFile, Return, Goto, k
  <2>2. Reason
    <3>1. Promised[n + 1].file \in unwritable
      BY <1>9, <1>14 DEF CanOpen
    <3> QED
      BY <1>9, <3>1 DEF Reason
  <2>3. Phase'
    BY <1>11, <2>1, <2>2 DEF Phase
  <2>4. Common'
    BY <1>1, <1>3, <2>1, CommonStays
  <2>5. Running'
    BY <1>1, <1>3, <2>1, <2>3, RunKeeps
  <2> QED
    BY <2>4, <2>5 DEF DriverInv
<1> QED
  BY <1>13, <1>14

\* A run that went well had a trace file.
LEMMA SaneNext ==
    ASSUME NEW i \in Nat, i >= 1, InRun(i), Accepted
    PROVE  Sane(i)
<1>1. ASSUME NEW n \in 1..i PROVE IsTraceFile(contents[Asked[n].trace])
  <2>1. CASE n = i
    <3>1. call.trace = Asked[i].trace
      BY DEF InRun, Result
    <3> QED
      BY <2>1, <3>1 DEF Accepted
  <2>2. CASE n # i
    <3>1. n \in 1..(i - 1)
      BY <2>2
    <3> QED
      BY <3>1 DEF InRun, Sane
  <2> QED
    BY <2>1, <2>2
<1> QED
  BY <1>1 DEF Sane

\* Back in the caller.
LEMMA Returned ==
    ASSUME DriverInv, pc = "returned"
    PROVE  /\ Common /\ Plan /\ Decided /\ outcome # "reading" /\ EnvInv /\ ParseInv /\ arg > Len(argv)
           /\ ret # 0 => Reason
           /\ \E i \in 1..Len(Asked) : /\ InRun(i) /\ i \in Nat /\ i >= 1
                                       /\ ret = 0 => Sane(i) /\ (~ UsesSweep => Done(FileNumber(i, 3)))
<1>1. /\ Common /\ Running /\ Plan /\ Phase /\ Decided /\ EnvInv /\ ParseInv
      /\ outcome # "reading" /\ arg > Len(argv)
  BY RunFacts DEF Common, Decided
<1>2. /\ ret = 0 => Accepted /\ (call.write => written = 3)
      /\ ret # 0 => Reason
  BY <1>1 DEF Phase
<1>3. PICK i \in 1..Len(Asked) : InRun(i)
  BY <1>1 DEF Running
<1>4. i \in Nat /\ i >= 1
  <2>1. Len(Asked) \in Nat
    BY <1>1 DEF Plan
  <2> QED
    BY <2>1
<1>5. ASSUME ret = 0 PROVE Sane(i)
  BY <1>2, <1>3, <1>4, <1>5, SaneNext
<1>6. ASSUME ret = 0, ~ UsesSweep PROVE Done(FileNumber(i, 3))
  <2>1. call.write
    BY <1>1, <1>3, <1>6, OneForm DEF InRun
  <2> QED
    BY <1>2, <1>3, <1>6, <2>1 DEF InRun, Written
<1> QED
  BY <1>1, <1>2, <1>3, <1>4, <1>5, <1>6

\* A failed run ends the program.
LEMMA FailedRun ==
    ASSUME UNCHANGED environment, UNCHANGED options, UNCHANGED arg, UNCHANGED output,
           UNCHANGED LoaderVars, Common, outcome # "reading", Reason, Exit(1)
    PROVE  DriverInv'
<1>1. pc' = "exited" /\ status' = 1
  BY DEF Exit
<1>2. Common'
  BY <1>1, CommonStays
<1>3. Reason'
  BY FrameStays
<1>4. Ended'
  BY <1>1, <1>3 DEF Ended
<1> QED
  BY <1>1, <1>2, <1>4 DEF DriverInv

\* All of it is there.
LEMMA AllDone ==
    ASSUME UNCHANGED environment, UNCHANGED options, UNCHANGED arg, Common', Plan, Sane(Len(Asked)),
           Done(Len(Promised))', Exit(0)
    PROVE  DriverInv'
<1>1. pc' = "exited" /\ status' = 0
  BY DEF Exit
<1>2. Plan' /\ Sane(Len(Asked))'
  <2>1. Plan' /\ Asked' = Asked /\ \A n : Sane(n)' = Sane(n)
    BY FrameStays
  <2> QED
    BY <2>1 DEF Sane, environment
<1>3. Ended'
  BY <1>1, <1>2 DEF Ended
<1> QED
  BY <1>1, <1>3 DEF DriverInv

LEMMA ReturnToMainInv == DriverInv /\ ReturnToMain => DriverInv'
<1> SUFFICES ASSUME DriverInv, ReturnToMain PROVE DriverInv'
  OBVIOUS
<1>1. pc = "returned" /\ IsSingle
  BY DEF ReturnToMain
<1>2. /\ Common /\ Plan /\ Decided /\ outcome # "reading" /\ EnvInv /\ ParseInv /\ arg > Len(argv)
      /\ ret # 0 => Reason
  BY <1>1, Returned
<1>3. PICK i \in 1..Len(Asked) : /\ InRun(i) /\ i \in Nat /\ i >= 1
                                 /\ ret = 0 => Sane(i) /\ (~ UsesSweep => Done(FileNumber(i, 3)))
  BY <1>1, Returned
<1>4. /\ UNCHANGED environment /\ UNCHANGED options /\ UNCHANGED arg /\ UNCHANGED output
      /\ UNCHANGED LoaderVars
  BY DEF ReturnToMain
<1>5. CASE ret # 0
  BY <1>2, <1>4, <1>5, FailedRun DEF ReturnToMain
<1>6. CASE ret = 0
  <2>1. Exit(0)
    BY <1>6 DEF ReturnToMain
  <2>2. i = 1 /\ Len(Asked) = 1 /\ ~ UsesSweep
    BY <1>1, <1>2, <1>3, PlanOfSingle, OneAsked DEF InRun
  <2>3. Len(Promised) = 3
    BY <1>2, <2>2 DEF Plan
  <2>4. FileNumber(1, 3) = 3
    BY DEF FileNumber
  <2>5. Done(3) /\ Sane(Len(Asked))
    BY <1>3, <1>6, <2>2, <2>4
  <2>6. Done(3)' /\ Len(Promised') = 3
    BY <1>4, <2>3, <2>5, FilesStay, FrameStays
  <2>7. Done(Len(Promised))'
    BY <2>6 DEF Done
  <2>8. Common'
    BY <1>2, <1>4, <2>1, CommonStays DEF Exit
  <2> QED
    BY <1>2, <1>4, <2>1, <2>5, <2>7, <2>8, AllDone
<1> QED
  BY <1>5, <1>6

LEMMA ReturnToAllInv == DriverInv /\ ReturnToAll => DriverInv'
<1> SUFFICES ASSUME DriverInv, ReturnToAll PROVE DriverInv'
  OBVIOUS
<1>1. pc = "returned" /\ IsAll
  BY DEF ReturnToAll
<1>2. /\ Common /\ Plan /\ Decided /\ outcome # "reading" /\ EnvInv /\ ParseInv /\ arg > Len(argv)
      /\ (ret # 0 => Reason) /\ ~ UsesSweep
  <2>1. pc \notin {"parse", "exited"}
    BY <1>1
  <2>2. Common
    BY <1>1, Returned
  <2>3. ~ UsesSweep
    BY <1>1, <2>1, <2>2, OneForm
  <2> QED
    BY <1>1, <2>3, Returned
<1>3. PICK i \in 1..Len(Asked) : /\ InRun(i) /\ i \in Nat /\ i >= 1
                                 /\ ret = 0 => Sane(i) /\ (~ UsesSweep => Done(FileNumber(i, 3)))
  BY <1>1, Returned
<1>4. /\ UNCHANGED environment /\ UNCHANGED options /\ UNCHANGED arg /\ UNCHANGED output
      /\ UNCHANGED LoaderVars /\ traces' = traces
  BY DEF ReturnToAll
<1>5. CASE ret # 0
  BY <1>2, <1>4, <1>5, FailedRun DEF ReturnToAll
<1>6. CASE ret = 0
  <2> DEFINE L == Len(traces)
  <2>1. /\ traces \in Seq(TraceFiles) /\ AllTraces = traces /\ L \in Nat \ {0}
        /\ algo_at \in 0..8 /\ trace_at \in 1..L /\ i = RunNumber(algo_at, trace_at, L)
    BY <1>1, <1>3 DEF InRun, AtRun
  <2>2. /\ pc' = "pairing"
        /\ IF trace_at < L THEN trace_at' = trace_at + 1 /\ algo_at' = algo_at
           ELSE trace_at' = 1 /\ algo_at' = algo_at + 1
    BY <1>6 DEF ReturnToAll, Goto
  <2>3. AllTraces' = traces'
    <3>1. argv' = argv /\ directory' = directory
      BY <1>4 DEF environment
    <3> QED
      BY <1>4, <2>1, <3>1, PromiseStays
  <2>4. Len(traces') = L
    BY <1>4
  <2> HIDE DEF L
  <2>5. /\ algo_at' \in 0..9 /\ trace_at' \in 1..L /\ (algo_at' = 9 => trace_at' = 1)
        /\ i + 1 = RunNumber(algo_at', trace_at', L)
    <3>0. /\ algo_at \in Nat /\ trace_at \in Nat /\ L \in Nat \ {0} /\ i = RunNumber(algo_at, trace_at, L)
          /\ \A a \in Nat, t \in Nat : RunNumber(a, t + 1, L) = RunNumber(a, t, L) + 1
          /\ \A a \in Nat : RunNumber(a + 1, 1, L) = RunNumber(a, L, L) + 1
      <4>1. algo_at \in Nat /\ trace_at \in Nat /\ L \in Nat \ {0} /\ i = RunNumber(algo_at, trace_at, L)
        BY <2>1
      <4> QED
        BY <4>1, NextRun
    <3>1. CASE trace_at < L
      <4>1. RunNumber(algo_at, trace_at + 1, L) = i + 1
        BY <3>0
      <4>2. trace_at + 1 \in 1..L /\ algo_at # 9 /\ algo_at \in 0..9
        BY <2>1, <3>1
      <4> QED
        BY <2>2, <3>1, <4>1, <4>2
    <3>2. CASE ~ (trace_at < L)
      <4>1. trace_at = L
        BY <2>1, <3>2
      <4>2. RunNumber(algo_at + 1, 1, L) = i + 1
        BY <3>0, <4>1
      <4>3. algo_at + 1 \in 0..9 /\ 1 \in 1..L
        BY <2>1
      <4> QED
        BY <2>2, <3>2, <4>2, <4>3
    <3> QED
      BY <3>1, <3>2
  <2>6. AtRun(i + 1)'
    BY <1>4, <2>1, <2>3, <2>4, <2>5 DEF AtRun
  <2>7. FileNumber(i + 1, 0) = FileNumber(i, 3)
    BY <1>3 DEF FileNumber
  <2>8. Done(FileNumber(i + 1, 0))'
    BY <1>2, <1>3, <1>4, <1>6, <2>7, FilesStay
  <2>9. IsAll' /\ Plan' /\ ~ UsesSweep' /\ Sane(i)'
    BY <1>1, <1>2, <1>3, <1>4, <1>6, FrameStays
  <2>10. Written(i + 1, 0)'
    BY <2>8, <2>9 DEF Written
  <2>11. i + 1 \in Nat \ {0} /\ (i + 1) - 1 = i
    BY <1>3
  <2>12. Sane((i + 1) - 1)'
    BY <2>9, <2>11
  <2>13. AtPairing'
    BY <2>6, <2>9, <2>10, <2>11, <2>12 DEF AtPairing
  <2>14. Common'
    BY <1>2, <1>4, <2>2, CommonStays
  <2> QED
    BY <2>2, <2>13, <2>14 DEF DriverInv
<1> QED
  BY <1>5, <1>6

\* The rows of a sweep are its results in the order they were asked for.
LEMMA ReturnToSweepInv == DriverInv /\ ReturnToSweep => DriverInv'
<1> SUFFICES ASSUME DriverInv, ReturnToSweep PROVE DriverInv'
  OBVIOUS
<1>1. pc = "returned" /\ IsSweep
  BY DEF ReturnToSweep
<1>2. /\ Common /\ Plan /\ Decided /\ outcome # "reading" /\ EnvInv /\ ParseInv /\ arg > Len(argv)
      /\ ret # 0 => Reason
  BY <1>1, Returned
<1>3. PICK i \in 1..Len(Asked) : /\ InRun(i) /\ i \in Nat /\ i >= 1
                                 /\ ret = 0 => Sane(i) /\ (~ UsesSweep => Done(FileNumber(i, 3)))
  BY <1>1, Returned
<1>4. /\ UNCHANGED environment /\ UNCHANGED options /\ UNCHANGED arg /\ UNCHANGED output
      /\ UNCHANGED LoaderVars
  BY DEF ReturnToSweep
<1>5. CASE ret # 0
  BY <1>2, <1>4, <1>5, FailedRun DEF ReturnToSweep
<1>6. CASE ret = 0
  <2>1. /\ UsesSweep /\ Len(Asked) = 12 /\ ~ IsAll /\ ~ IsSingle
        /\ Asked = [n \in 1..12 |-> Result("rr", options.trace, n)]
    BY <1>1, <1>2, PlanOfSweep DEF IsAll, IsSingle, IsSweep
  <2>2. i = call.quantum /\ call.trace = options.trace /\ rows = [n \in 1..(i - 1) |-> Asked[n]]
    BY <1>1, <1>3 DEF InRun
  <2>3. i \in 1..12 /\ i \in Nat
    BY <1>3, <2>1
  <2>4. Result("rr", call.trace, call.quantum) = Asked[i]
    BY <2>1, <2>2, <2>3
  <2>5. rows' = [n \in 1..i |-> Asked[n]]
    <3>1. rows' = Append(rows, Asked[i])
      BY <1>6, <2>4 DEF ReturnToSweep
    <3> DEFINE e(n) == Asked[n]
    <3>2. rows = [n \in 1..(i - 1) |-> e(n)] /\ rows' = Append(rows, e(i)) /\ i - 1 \in Nat
      BY <1>3, <2>2, <3>1
    <3> HIDE DEF e
    <3>3. rows' = [n \in 1..i |-> e(n)]
      <4>1. Len(rows) = i - 1 /\ DOMAIN rows = 1..(i - 1)
        BY <3>2
      <4>2. rows' = [n \in 1..(Len(rows) + 1) |-> IF n <= Len(rows) THEN rows[n] ELSE e(i)]
        BY <3>2, <4>1
      <4>3. Len(rows) + 1 = i
        BY <3>2, <4>1
      <4>4. \A n \in 1..i : (IF n <= Len(rows) THEN rows[n] ELSE e(i)) = e(n)
        BY <3>2, <4>1, <4>3
      <4> QED
        BY <4>2, <4>3, <4>4
    <3> QED
      BY <3>3 DEF e
  <2>6. Written(i + 1, 0) /\ Done(0)
    BY <1>3, <2>1 DEF InRun, Written
  <2>7. Sane(i)
    BY <1>3, <1>6
  <2>8. CASE call.quantum < SWEEP_MAX
    <3>1. run_one("rr", options.trace, call.quantum + 1, FALSE)
      BY <1>6, <2>8 DEF ReturnToSweep
    <3>2. i < 12 /\ i + 1 \in 1..Len(Asked) /\ (i + 1) - 1 = i /\ i + 1 = call.quantum + 1
      BY <2>1, <2>2, <2>3, <2>8 DEF SWEEP_MAX
    <3>3. Result("rr", options.trace, call.quantum + 1) = Asked[i + 1]
      BY <2>1, <3>2
    <3>4. options.trace \in Paths
      BY <1>1, <1>2, Settled
    <3>5. rows' = [n \in 1..((i + 1) - 1) |-> Asked[n]] /\ Sane((i + 1) - 1)
      BY <2>5, <2>7, <3>2
    <3>6. Running'
      BY <1>1, <1>2, <1>4, <2>1, <2>6, <3>1, <3>2, <3>3, <3>4, <3>5, RunBegins
    <3>7. Common'
      BY <1>2, <1>4, CommonStays
    <3> QED
      BY <3>6, <3>7 DEF DriverInv
  <2>9. CASE ~ (call.quantum < SWEEP_MAX)
    <3>1. pc' = "sweep_file"
      BY <1>6, <2>9 DEF ReturnToSweep, Goto
    <3>2. i = 12
      BY <2>2, <2>3, <2>9 DEF SWEEP_MAX
    <3>3. rows' = Asked /\ Sane(Len(Asked))
      BY <2>1, <2>5, <2>7, <3>2
    <3>4. /\ IsSweep' /\ Plan' /\ Asked' = Asked /\ Done(0)' /\ Sane(12)'
      <4>1. Sane(12)
        BY <2>7, <3>2
      <4> QED
        BY <1>1, <1>2, <1>4, <2>6, <4>1, FrameStays, FilesStay
    <3>5. Sane(Len(Asked))'
      BY <2>1, <3>4 DEF Sane
    <3>6. AtSweepFile'
      BY <3>1, <3>3, <3>4, <3>5 DEF AtSweepFile
    <3>7. Common'
      BY <1>2, <1>4, CommonStays
    <3> QED
      BY <3>6, <3>7 DEF DriverInv
  <2> QED
    BY <2>8, <2>9
<1> QED
  BY <1>5, <1>6

LEMMA WriteSweepInv == DriverInv /\ WriteSweep => DriverInv'
<1> SUFFICES ASSUME DriverInv, WriteSweep PROVE DriverInv'
  OBVIOUS
<1>1. /\ pc = "sweep_file" /\ Common /\ AtSweepFile /\ Decided /\ outcome # "reading"
      /\ EnvInv /\ ParseInv /\ LoaderInv /\ IsSweep /\ arg > Len(argv)
  BY DEF DriverInv, WriteSweep, Phase, Running, AtSweepFile, Common, Decided
<1>2. /\ UNCHANGED environment /\ UNCHANGED options /\ UNCHANGED arg /\ UNCHANGED LoaderVars
  BY DEF WriteSweep
<1>3. /\ Plan /\ Len(Asked) = 12 /\ UsesSweep
      /\ Promised[1] = [file |-> SweepFile(options.trace), of |-> Asked]
      /\ Asked = [n \in 1..12 |-> Result("rr", options.trace, n)]
  BY <1>1, PlanOfSweep
<1>4. /\ rows = Asked /\ Sane(Len(Asked)) /\ Done(0)
      /\ Len(Promised) = 1 /\ DOMAIN Promised = 1..Len(Promised) /\ Once
  BY <1>1, <1>3 DEF AtSweepFile, Plan
<1>5. options.trace \in Paths
  BY <1>1, Settled
<1> DEFINE f == SweepFile(options.trace)
<1>6. f \in FileNames
  BY <1>5 DEF FileNames, Paths
<1>7. CASE CanOpen(f)
  <2>1. Write(f, rows) /\ Exit(0)
    BY <1>7 DEF WriteSweep
  <2>2. f = Promised[1].file /\ rows = Promised[1].of
    BY <1>3, <1>4
  <2>3. rows # <<>>
    BY <1>3, <1>4
  <2>4. argv' = argv /\ directory' = directory /\ full' = full
    BY <1>2 DEF environment
  <2> HIDE DEF f
  <2>5. Done(1)'
    <3> DEFINE n == 0
    <3>1. n \in Nat /\ n + 1 = 1 /\ Done(n) /\ n + 1 <= Len(Promised) /\ Len(Promised) \in Nat
      BY <1>4
    <3>2. f = Promised[n + 1].file /\ rows = Promised[n + 1].of
      BY <2>2, <3>1
    <3> HIDE DEF n
    <3>3. Done(n + 1)'
      BY <1>4, <1>6, <2>1, <2>3, <2>4, <3>1, <3>2, WriteMore
    <3> QED
      BY <3>1, <3>3 DEF n
  <2>6. /\ EnvInv' /\ ParseInv' /\ Promised' = Promised /\ IsUsage'
    BY <1>1, <1>2, <1>3, FrameStays DEF Plan
  <2>7. Len(Promised') = 1 /\ Done(1)'
    BY <1>4, <2>5, <2>6
  <2>8. Left'
    BY <2>6, <2>7 DEF Left
  <2>9. LoaderInv' /\ outcome' # "reading"
    BY <1>1, <1>2, LoaderInvStep DEF LoaderVars
  <2>10. Common'
    BY <2>1, <2>6, <2>8, <2>9 DEF Common, Exit
  <2>11. Done(Len(Promised))'
    BY <2>7 DEF Done
  <2> QED
    BY <1>2, <1>3, <1>4, <2>1, <2>10, <2>11, AllDone
<1>8. CASE ~ CanOpen(f)
  <2>1. Exit(1) /\ UNCHANGED output
    BY <1>8 DEF WriteSweep
  <2>2. Reason
    <3>1. 1 \in DOMAIN Promised
      BY <1>4
    <3> QED
      BY <1>3, <1>8, <3>1 DEF Reason, CanOpen
  <2> QED
    BY <1>1, <1>2, <2>1, <2>2, FailedRun
<1> QED
  BY <1>7, <1>8

\* Nothing happens, after the exit or before it.
LEMMA StutterInv == DriverInv /\ UNCHANGED DriverVars => DriverInv'
<1> SUFFICES ASSUME DriverInv, UNCHANGED DriverVars PROVE DriverInv'
  OBVIOUS
<1>1. /\ UNCHANGED environment /\ UNCHANGED options /\ UNCHANGED arg /\ UNCHANGED output
      /\ UNCHANGED loops /\ UNCHANGED call /\ UNCHANGED written /\ UNCHANGED LoaderVars
      /\ pc' = pc /\ status' = status /\ ret' = ret
  BY DEF DriverVars
<1>2. /\ traces' = traces /\ seen' = seen /\ algo_at' = algo_at /\ trace_at' = trace_at /\ rows' = rows
      /\ argv' = argv /\ directory' = directory /\ contents' = contents
      /\ file' = file /\ outcome' = outcome
  BY <1>1 DEF loops, environment, LoaderVars
<1>3. /\ EnvInv => EnvInv'
      /\ ParseInv => ParseInv'
      /\ IsAll' = IsAll /\ IsSweep' = IsSweep /\ Decided' = Decided
      /\ Asked' = Asked /\ Promised' = Promised /\ UsesSweep' = UsesSweep
      /\ Plan' = Plan /\ Reason' = Reason /\ \A i : Sane(i)' = Sane(i)
  BY <1>1, FrameStays
<1>4. /\ \A n : Done(n) => Done(n)'
      /\ \A i, k : Written(i, k) => Written(i, k)'
      /\ Left => Left'
  BY <1>1, FilesStay
<1>5. AllTraces' = AllTraces /\ Chosen' = Chosen
  BY <1>2, PromiseStays
<1>6. Common'
  <2>1. Common
    BY DEF DriverInv
  <2>2. LoaderInv'
    BY <1>1, <2>1, LoaderInvStep DEF Common
  <2> QED
    BY <1>1, <1>2, <1>3, <1>4, <2>1, <2>2 DEF Common
<1>7. ASSUME AtStart PROVE AtStart'
  BY <1>2, <1>4, <1>7 DEF AtStart
<1>8. ASSUME AtList PROVE AtList'
  <2>1. PICK n \in 0..Len(directory) : seen = n /\ Listing(n)
    BY <1>8 DEF AtList
  <2>2. Listing(n)'
    BY <1>2, <2>1 DEF Listing, Found
  <2>3. n \in 0..Len(directory') /\ seen' = n
    BY <1>2, <2>1
  <2> QED
    BY <1>2, <1>3, <1>4, <1>8, <2>2, <2>3 DEF AtList
<1>9. ASSUME AtSort PROVE AtSort'
  BY <1>2, <1>3, <1>4, <1>5, <1>9 DEF AtSort
<1>10. ASSUME AtPairing PROVE AtPairing'
  <2>1. PICK i \in Nat \ {0} : AtRun(i) /\ Sane(i - 1) /\ Written(i, 0)
    BY <1>10 DEF AtPairing
  <2>2. AtRun(i)'
    BY <1>2, <1>5, <2>1 DEF AtRun
  <2>3. Sane(i - 1)' /\ Written(i, 0)'
    BY <1>3, <1>4, <2>1
  <2> QED
    BY <1>3, <1>10, <2>2, <2>3 DEF AtPairing
<1>11. ASSUME Running PROVE Running'
  <2>1. Accepted' = Accepted
    BY <1>1, <1>2 DEF Accepted
  <2>2. Phase
    BY <1>11 DEF Running
  <2>3. Phase'
    BY <1>1, <1>2, <1>3, <2>1, <2>2 DEF Phase
  <2> QED
    BY <1>1, <1>11, <2>3, RunKeeps
<1>12. ASSUME AtSweepFile PROVE AtSweepFile'
  <2>1. Sane(Len(Asked))'
    BY <1>2, <1>3, <1>12 DEF AtSweepFile, Sane
  <2> QED
    BY <1>1, <1>2, <1>3, <1>4, <1>12, <2>1 DEF AtSweepFile
<1>13. ASSUME Ended PROVE Ended'
  <2>1. CASE status = 0
    <3>1. Done(Len(Promised)) /\ Plan /\ Sane(Len(Asked))
      BY <1>13, <2>1 DEF Ended
    <3>2. Sane(Len(Asked))'
      BY <1>2, <1>3, <3>1 DEF Sane
    <3>3. Done(Len(Promised))'
      BY <1>1, <3>1, AllStay
    <3> QED
      BY <1>1, <1>3, <2>1, <3>1, <3>2, <3>3 DEF Ended
  <2>2. CASE status = 1
    BY <1>1, <1>3, <1>13, <2>2 DEF Ended
  <2> QED
    BY <1>13, <2>1, <2>2 DEF Ended
<1> QED
  BY <1>1, <1>6, <1>7, <1>8, <1>9, <1>10, <1>11, <1>12, <1>13 DEF DriverInv

LEMMA DriverInvStep == DriverInv /\ [DriverNext]_DriverVars => DriverInv'
<1> SUFFICES ASSUME DriverInv, [DriverNext]_DriverVars PROVE DriverInv'
  OBVIOUS
<1>1. CASE ParseArg \/ Decide
  BY <1>1, ParseArgInv, DecideInv
<1>2. CASE ListEntry \/ Listed \/ Sort \/ Pairing
  BY <1>2, ListEntryInv, ListedInv, SortInv, PairingInv
<1>3. CASE Lookup \/ Load \/ Loaded \/ EngineRun \/ Check \/ WriteFile
  BY <1>3, LookupInv, LoadInv, LoadedInv, EngineAndCheckInv, WriteFileInv
<1>4. CASE ReturnToMain \/ ReturnToAll \/ ReturnToSweep \/ WriteSweep
  BY <1>4, ReturnToMainInv, ReturnToAllInv, ReturnToSweepInv, WriteSweepInv
<1>5. CASE Exited \/ UNCHANGED DriverVars
  BY <1>5, StutterInv DEF Exited
<1> QED
  BY <1>1, <1>2, <1>3, <1>4, <1>5 DEF DriverNext

\* What the invariant says of the files and of the exit.
LEMMA WhatIsLeft == DriverInv => FilesAppearInOrder
<1> SUFFICES ASSUME DriverInv PROVE FilesAppearInOrder
  OBVIOUS
<1>1. PICK n \in Nat : Done(n) /\ (n > 0 => IsUsage /\ n <= Len(Promised))
  BY DEF DriverInv, Common, Left
<1>2. CASE n = 0
  <2>1. IsFiniteSet(Touched) /\ Cardinality(Touched) = 0
    BY <1>1, <1>2 DEF Done
  <2>2. Touched = {}
    BY <2>1, FS_EmptySet
  <2> QED
    BY <2>2 DEF FilesAppearInOrder
<1>3. CASE n # 0
  <2>1. n <= Len(Promised) /\ IsUsage
    BY <1>1, <1>3
  <2>2. Chosen \in Selections
    BY ChosenIsASelection DEF DriverInv, Common
  <2> QED
    BY <1>1, <2>1, <2>2, DoneMeans
<1> QED
  BY <1>2, <1>3

LEMMA WhatSuccessMeans == DriverInv => SuccessMeansEverything
<1> SUFFICES ASSUME DriverInv, pc = "exited", status = 0
             PROVE  /\ IsUsage
                    /\ (UsesAll => RoomForAll) =>
                           LET asked == AskedOf(TracesThere)
                               promised == PromisedOf(TracesThere)
                           IN  /\ Touched = {promised[n].file : n \in DOMAIN promised}
                               /\ \A n \in DOMAIN promised : Reports(promised[n].file, promised[n].of)
                               /\ \A n \in DOMAIN asked : IsTraceFile(contents[asked[n].trace])
  BY DEF SuccessMeansEverything
<1>1. Plan /\ Done(Len(Promised)) /\ Sane(Len(Asked))
  BY DEF DriverInv, Running, Phase, AtSweepFile, Ended
<1>2. IsUsage
  BY <1>1 DEF Plan
<1>3. /\ DOMAIN Asked = 1..Len(Asked) /\ DOMAIN Promised = 1..Len(Promised)
  BY <1>1 DEF Plan
<1>4. /\ Touched = {Promised[n].file : n \in DOMAIN Promised}
      /\ \A n \in DOMAIN Promised : Reports(Promised[n].file, Promised[n].of)
      /\ \A n \in DOMAIN Asked : IsTraceFile(contents[Asked[n].trace])
  <2>1. ASSUME NEW n \in DOMAIN Promised PROVE Reports(Promised[n].file, Promised[n].of)
    <3>1. output[Promised[n].file] = Filled(Promised[n].file, Promised[n].of)
      BY <1>1, <1>3 DEF Done
    <3> QED
      BY <3>1, FilledReports
  <2>2. Touched = {Promised[n].file : n \in DOMAIN Promised}
    BY <1>1, <1>3 DEF Done
  <2>3. \A n \in DOMAIN Asked : IsTraceFile(contents[Asked[n].trace])
    BY <1>1, <1>3 DEF Sane
  <2> QED
    BY <2>1, <2>2, <2>3
<1>5. ASSUME UsesAll => RoomForAll
      PROVE  AskedOf(TracesThere) = Asked /\ PromisedOf(TracesThere) = Promised
  <2>1. CASE UsesAll
    <3>1. Chosen \in Selections
      BY ChosenIsASelection DEF DriverInv, Common
    <3>2. Chosen = TracesThere
      BY <1>5, <2>1, <3>1 DEF Selections
    <3> QED
      BY <3>2 DEF Asked, Promised
  <2>2. CASE ~ UsesAll
    <3>1. AskedOf(TracesThere) = Asked
      BY <2>2 DEF Asked, AskedOf
    <3> QED
      BY <3>1 DEF Promised, PromisedOf, Asked
  <2> QED
    BY <2>1, <2>2
<1> QED
  BY <1>2, <1>4, <1>5

LEMMA WhatFailureMeans == DriverInv => FailureHasACause
<1> SUFFICES ASSUME DriverInv, pc = "exited", status = 1, IsUsage
             PROVE  \E S \in Selections :
                        \/ AskedOf(S) = <<>>
                        \/ \E n \in DOMAIN AskedOf(S) :
                               LET run == AskedOf(S)[n]
                               IN  \/ ~ scheduler_lookup(run.algo)
                                   \/ ~ IsTraceFile(contents[run.trace])
                                   \/ verdict[run.trace] # "good"
                        \/ \E n \in DOMAIN PromisedOf(S) : PromisedOf(S)[n].file \in unwritable
  BY DEF FailureHasACause
<1>1. Reason
  BY DEF DriverInv, Running, Phase, AtSweepFile, Ended
<1>2. Chosen \in Selections
  BY ChosenIsASelection DEF DriverInv, Common
<1>3. \/ AskedOf(Chosen) = <<>>
      \/ \E n \in DOMAIN AskedOf(Chosen) : Refuses(AskedOf(Chosen)[n])
      \/ \E n \in DOMAIN PromisedOf(Chosen) : PromisedOf(Chosen)[n].file \in unwritable
  BY <1>1 DEF Reason, Asked, Promised
<1> QED
  BY <1>2, <1>3 DEF Refuses

\* The invariant of the driver.
THEOREM DriverInvAlways == DriverSpec => []DriverInv
BY DriverInvInit, DriverInvStep, PTL DEF DriverSpec

\* main.c and csv.c: at every moment the files left are the first so many of
\* those the command line promises, each with the results it is to hold unless
\* it was cut short, for every command line, directory, set of traces and sets
\* of files that cannot be opened or filled, and in whatever order readdir lists
\* the directory.
THEOREM FilesAppearInOrderCorrect == DriverSpec => []FilesAppearInOrder
BY DriverInvAlways, WhatIsLeft, PTL

\* main.c: a zero exit status means a well-formed usage, every pairing run on
\* a trace file, and every file there, if there is room for the traces of
\* --all.
THEOREM SuccessMeansEverythingCorrect == DriverSpec => []SuccessMeansEverything
BY DriverInvAlways, WhatSuccessMeans, PTL

\* main.c: the program fails for a cause outside it: the words, the directory,
\* a trace or a file.
THEOREM FailureHasACauseCorrect == DriverSpec => []FailureHasACause
BY DriverInvAlways, WhatFailureMeans, PTL
=============================================================================
