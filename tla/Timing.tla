------------------------------- MODULE Timing -------------------------------
(***************************************************************************)
(* The mains of timeResults/test: ForwardSolveCSC.cc (Program = "solve")   *)
(* and IncompleteCholesky_k.cc, _m7.cc (Program = "chol"), around          *)
(* readMatrix and the kernels.  The three arrays of durations are handled  *)
(* alike; durationE stands for them, and the medians for the averages,     *)
(* which are printed with them.  A duration is any of Durations.           *)
(*                                                                         *)
(* The kernels are taken at what LSolve and IC0 show of them: parallel and *)
(* serial call compute the same.  A forward solve is done in small integers*)
(* (every column starts with 1 or -1, so that quotients are exact); the    *)
(* arrays of a factorisation hold the number of calls that changed them.   *)
(***************************************************************************)
EXTENDS CSC, Sequences, SequencesExt, FiniteSets

CONSTANTS
  Programs,      \* subset of {"solve", "chol"}
  Lists,         \* the lists of matrices: lines as read by getline
  Headers,       \* the first lines, as sequences of the numbers sscanf reads
  IntMax,        \* the largest int: 2^31 - 1 in the code
  Unset,         \* what an uninitialised int may hold
  DefaultRuns,   \* nRuns if the first line does not say
  Slots,         \* elements of durationE: 20 in the code
  Durations

\* The first line has up to three numbers; a line is a matrix [n, ptr, idx,
\* val], or an empty line, or the name of a file readMatrix refuses.
Blank == [kind |-> "empty line"]
Unreadable == [kind |-> "refused"]

ASSUME TimingConstants ==
  /\ Programs \subseteq {"solve", "chol"}
  /\ IntMax \in Nat /\ IntMax >= 3
  /\ Headers \subseteq {h \in Seq(Int) : Len(h) <= 3}
  /\ \A h \in Headers : \A k \in 1 .. Len(h) : h[k] \in -IntMax - 1 .. IntMax
  /\ Slots \in Nat \ {0} /\ DefaultRuns \in Nat
  /\ Unset \subseteq -IntMax - 1 .. IntMax
  /\ Durations \subseteq Nat
  /\ \A s \in Lists : s \in Seq({s[k] : k \in DOMAIN s})

\* Numbers are small integers; the first of a column is the diagonal's, 1 or -1.
Numbers(A) ==
  /\ A.val \in [Positions(A) -> Int]
  /\ \A j \in Rows(A) : A.idx[A.ptr[j]] = j /\ A.val[A.ptr[j]] \in {1, -1}

ASSUME MatrixNumbers ==
  \A s \in Lists : \A k \in DOMAIN s :
    s[k] \notin {Blank, Unreadable} /\ LowerTriangular(s[k]) => Numbers(s[k])

VARIABLES
  program, list, header,   \* the inputs, never written
  maxTC, iterNo, nRuns,    \* as read from the first line
  pc,                      \* "header", "list", "threads", "run", "kernel",
                           \* "compare", "returned", "refused"; or a fault:
                           \* "overrun" (of durationE), "dangling",
                           \* "spinning" (tc is past the largest int)
  line,                    \* lines read after the first
  tc,                      \* threads, 1 for the sequential part
  i, l,                    \* the loops' counters
  durationE,               \* the array
  serialMed,               \* the sequential median, times two
  x,                       \* the solve's vector
  val, val1,               \* the factor's arrays: {} not allocated or freed,
                           \* {<<line, k>>} after k calls on that line's matrix
  complaints,              \* messages of the tests: <<line, tc>>
  report,                  \* what was printed: [line, tc, med, base]
  measured                 \* history: the sequential and the last durations

inputs == <<program, list, header>>
params == <<maxTC, iterNo, nRuns>>
arrays == <<x, val, val1>>
results == <<complaints, report, measured>>
vars == <<inputs, params, pc, line, tc, i, l, durationE, serialMed, arrays, results>>

-----------------------------------------------------------------------------
\* The entries of A added to an array in their order.
Added(A, v, p) == [v EXCEPT ![A.idx[p]] = @ + A.val[p]]

Accumulated(A, from) ==
  LET sum[p \in 0 .. A.ptr[A.n]] == IF p = 0 THEN from ELSE Added(A, sum[p - 1], p - 1)
  IN sum[A.ptr[A.n]]

\* MUTANT: b keeps what the last solve left in it.
rhsInitAdds(A, b) == Accumulated(A, b)

\* b = A * (1, ..., 1)
rhsInit(A, b) == Accumulated(A, [r \in Rows(A) |-> 0])

\* x[j] /= the first entry, 1 or -1, then the column's other entries one by one.
Divided(A, v, j) == [v EXCEPT ![j] = @ * A.val[A.ptr[j]]]
Subtracted(A, v, j, p) == [v EXCEPT ![A.idx[p]] = @ - A.val[p] * v[j]]

SolveColumn(A, v, j) ==
  LET w[k \in 0 .. A.ptr[j + 1] - A.ptr[j]] ==
        IF k = 0 THEN Divided(A, v, j)
        ELSE IF k = 1 THEN w[k - 1]
        ELSE Subtracted(A, w[k - 1], j, A.ptr[j] + k - 1)
  IN w[A.ptr[j + 1] - A.ptr[j]]

lsolve(A, b) ==
  LET v[j \in 0 .. A.n] == IF j = 0 THEN b ELSE SolveColumn(A, v[j - 1], j - 1)
  IN v[A.n]

\* 1 - x[i] < 0.001, of integers: values above 1 pass too.
testTriangular(A, v) == \A r \in Rows(A) : v[r] >= 1

Zeros == [k \in 0 .. Slots - 1 |-> 0]
Matrix == list[line]

\* MUTANT: the median of durations in the order of the runs.
SortedNot(E, n) == E

\* std::sort of the first n elements: the place each of them comes from.
Order(E, n) ==
  CHOOSE p \in Bijection(0 .. n - 1, 0 .. n - 1) :
    \A a, b \in 0 .. n - 1 : a < b => E[p[a]] <= E[p[b]]

Sorted(E, n) ==
  LET p == Order(E, n)
  IN [k \in DOMAIN E |-> IF k < n THEN E[p[k]] ELSE E[k]]

\* Times two.
Median(E, n) ==
  IF n % 2 = 1 THEN 2 * E[n \div 2] ELSE E[n \div 2] + E[n \div 2 - 1]

\* MUTANT: one run too many.
MoreRunsByOne == i <= nRuns
MoreRuns == i < nRuns

MoreIterations == l < iterNo

\* MUTANT: not with all threads.
MoreThreadsShort == tc < maxTC
MoreThreads == tc <= maxTC

\* MUTANT: the factor of the last run is freed too.
FreedAfterRunAlways == TRUE
FreedAfterRun == program = "solve" \/ i < nRuns - 1

\* A product stored in an integer whose largest value is top.
Wrapped(v, top) ==
  CASE v > top -> v - 2 * (top + 1)
    [] v < -top - 1 -> v + 2 * (top + 1)
    [] OTHER -> v

\* MUTANT: the number of threads is kept in a shorter integer.
DoubledNarrow(t) == Wrapped(2 * t, IntMax \div 2)

\* tc *= 2 of an int, which wraps around in the build (to the language it is
\* undefined).
Doubled(t) == Wrapped(2 * t, IntMax)

\* Once wrapped, tc is never above maxTC: "tc <= maxTC" holds for ever.
NextTest(t) == IF Doubled(t) > t THEN "threads" ELSE "spinning"

-----------------------------------------------------------------------------
Init ==
  /\ program \in Programs /\ list \in Lists /\ header \in Headers
  /\ maxTC \in Unset /\ iterNo \in Unset /\ nRuns = DefaultRuns
  /\ pc = "header" /\ line = 0 /\ tc = 1 /\ i = 0 /\ l = 0
  /\ durationE = Zeros /\ serialMed = 0
  /\ x = {} /\ val = {} /\ val1 = {}
  /\ complaints = {} /\ report = <<>> /\ measured = <<<<>>, <<>>>>

\* getline and sscanf, which leaves alone what it does not read.
ReadParameters ==
  /\ pc = "header" /\ pc' = "list"
  /\ maxTC' = IF Len(header) >= 1 THEN header[1] ELSE maxTC
  /\ iterNo' = IF Len(header) >= 2 THEN header[2] ELSE iterNo
  /\ nRuns' = IF Len(header) = 3 THEN header[3] ELSE nRuns
  /\ UNCHANGED <<inputs, line, tc, i, l, durationE, serialMed, arrays, results>>

AnotherMatrix == line < Len(list) /\ list[line + 1] # Blank

NextMatrix ==
  /\ pc = "list" /\ AnotherMatrix /\ pc' = "run"
  /\ line' = line + 1 /\ tc' = 1 /\ i' = 0
  /\ serialMed' = 0 /\ durationE' = Zeros /\ measured' = <<<<>>, <<>>>>
  /\ UNCHANGED <<inputs, params, l, arrays, complaints, report>>

\* return 0
EndOfList ==
  /\ pc = "list" /\ ~ AnotherMatrix /\ pc' = "returned"
  /\ UNCHANGED <<inputs, params, line, tc, i, l, durationE, serialMed, arrays, results>>

\* return -1
RefuseMatrix ==
  /\ pc = "run" /\ MoreRuns /\ Matrix = Unreadable /\ pc' = "refused"
  /\ UNCHANGED <<inputs, params, line, tc, i, l, durationE, serialMed, arrays, results>>

\* readMatrix and new; its duration is stored at once.
StartRun ==
  /\ pc = "run" /\ MoreRuns /\ Matrix # Unreadable
  /\ pc' = IF i < Slots THEN "kernel" ELSE "overrun"
  /\ l' = 0
  /\ IF program = "solve"
       THEN x' = {[r \in Rows(Matrix) |-> 0]} /\ UNCHANGED <<val, val1>>
       ELSE IF tc = 1 THEN val' = {<<line, 0>>} /\ UNCHANGED <<x, val1>>
                      ELSE val1' = {<<line, 0>>} /\ UNCHANGED <<x, val>>
  /\ UNCHANGED <<inputs, params, line, tc, i, durationE, serialMed, results>>

Solve ==
  /\ program = "solve" /\ pc = "kernel" /\ MoreIterations /\ l' = l + 1
  /\ x' = {lsolve(Matrix, rhsInit(Matrix, b)) : b \in x}
  /\ complaints' = IF \A v \in x' : testTriangular(Matrix, v) THEN complaints
                   ELSE complaints \cup {<<line, tc>>}
  /\ UNCHANGED <<inputs, params, pc, line, tc, i, durationE, serialMed, val,
                 val1, report, measured>>

Factor ==
  /\ program = "chol" /\ pc = "kernel" /\ MoreIterations /\ l' = l + 1
  /\ LET called == {<<v[1], v[2] + 1>> : v \in IF tc = 1 THEN val ELSE val1}
     IN IF tc = 1 THEN val' = called /\ UNCHANGED val1
                  ELSE val1' = called /\ UNCHANGED val
  /\ UNCHANGED <<inputs, params, pc, line, tc, i, durationE, serialMed, x,
                 results>>

EndRun ==
  /\ pc = "kernel" /\ ~ MoreIterations /\ pc' = "run" /\ i' = i + 1
  /\ \E d \in Durations :
       /\ durationE' = [durationE EXCEPT ![i] = d]
       /\ measured' = IF tc = 1 THEN <<Append(measured[1], d), <<>>>>
                                ELSE <<measured[1], Append(measured[2], d)>>
  /\ x' = {}
  /\ val' = IF tc = 1 /\ FreedAfterRun THEN {} ELSE val
  /\ val1' = IF tc > 1 /\ FreedAfterRun THEN {} ELSE val1
  /\ UNCHANGED <<inputs, params, line, tc, l, serialMed, complaints, report>>

\* Without a run the median is durationE[-1]'s; std::sort of a negative
\* number of elements is undefined.
NoRuns ==
  /\ pc = "run" /\ ~ MoreRuns /\ nRuns <= 0 /\ pc' = "overrun"
  /\ UNCHANGED <<inputs, params, line, tc, i, l, durationE, serialMed, arrays, results>>

Summarise ==
  /\ pc = "run" /\ ~ MoreRuns /\ nRuns > 0
  /\ durationE' = Sorted(durationE, nRuns)
  /\ LET med == Median(durationE', nRuns)
     IN /\ serialMed' = IF tc = 1 THEN med ELSE serialMed
        /\ report' = Append(report, [line |-> line, tc |-> tc, med |-> med,
                                     base |-> serialMed'])
  /\ IF tc > 1 /\ program = "chol"
       THEN pc' = "compare" /\ UNCHANGED tc
       ELSE pc' = NextTest(tc) /\ tc' = Doubled(tc)
  /\ UNCHANGED <<inputs, params, line, i, l, arrays, complaints, measured>>

NextThreads ==
  /\ pc = "threads" /\ MoreThreads /\ pc' = "run"
  /\ i' = 0 /\ durationE' = Zeros /\ measured' = <<measured[1], <<>>>>
  /\ UNCHANGED <<inputs, params, line, tc, l, serialMed, arrays, complaints,
                 report>>

\* The comparison is one-sided too: different factors may go unnoticed.
Compare ==
  /\ pc = "compare"
  /\ pc' = IF val = {} \/ val1 = {} THEN "dangling" ELSE NextTest(tc)
  /\ complaints' \in IF val = val1 THEN {complaints}
                     ELSE {complaints, complaints \cup {<<line, tc>>}}
  /\ val1' = {} /\ tc' = Doubled(tc)
  /\ UNCHANGED <<inputs, params, line, i, l, durationE, serialMed, x, val,
                 report, measured>>

EndThreads ==
  /\ pc = "threads" /\ ~ MoreThreads
  /\ pc' = IF program = "chol" /\ val = {} THEN "dangling" ELSE "list"
  /\ val' = {}
  /\ UNCHANGED <<inputs, params, line, tc, i, l, durationE, serialMed, x, val1,
                 results>>

(***************************************************************************)
(* One more turn of the loop over tc with a tc that has wrapped: the       *)
(* smallest int, then 0, of which omp_set_num_threads makes one thread.    *)
(* The turn allocates, measures, prints, compares and frees as the others  *)
(* do; what it prints is not recorded.                                     *)
(***************************************************************************)
Spin ==
  /\ pc = "spinning" /\ MoreThreads /\ tc' = Doubled(tc)
  /\ UNCHANGED <<inputs, params, pc, line, i, l, durationE, serialMed, arrays, results>>

Next ==
  \/ ReadParameters \/ NextMatrix \/ EndOfList
  \/ RefuseMatrix \/ StartRun \/ Solve \/ Factor \/ EndRun
  \/ NoRuns \/ Summarise \/ NextThreads \/ Compare \/ EndThreads
  \/ Spin

Spec == Init /\ [][Next]_vars /\ WF_vars(Next)

-----------------------------------------------------------------------------
\* The k-th smallest of a sequence of durations.
Smallest(seq, k) ==
  LET below(v) == Cardinality({n \in DOMAIN seq : seq[n] < v})
      upto(v) == Cardinality({n \in DOMAIN seq : seq[n] <= v})
  IN CHOOSE v \in Durations : below(v) < k /\ k <= upto(v)

TrueMedian(seq) ==
  LET n == Len(seq) IN Smallest(seq, (n + 1) \div 2) + Smallest(seq, n \div 2 + 1)

\* The lines the program is to work through, and the thread counts.
Wanted == CHOOSE n \in 0 .. Len(list) :
            /\ \A k \in 1 .. n : list[k] # Blank
            /\ n < Len(list) => list[n + 1] = Blank
PowersOfTwo(n) ==
  LET power[k \in 0 .. n] == IF k = 0 THEN 1 ELSE 2 * power[k - 1]
  IN {power[k] : k \in 0 .. n}
ThreadCounts == {1} \cup (PowersOfTwo(maxTC) \cap 2 .. maxTC)

\* durationE has 20 elements and is indexed by a number read from the list:
\* it suffices exactly for 1 to 20 runs, for whatever matrices and threads.
SlotsSuffice == pc = "overrun" => nRuns \notin 1 .. Slots

\* A line's sequential and parallel medians, and the base of the ratio
\* printed as Normalized, are the medians of the durations measured for that
\* line and thread count, not of an earlier line's or another count's.
MediansTrue ==
  \A k \in DOMAIN report :
    k = Len(report) /\ report[k].line = line /\ pc \in {"threads", "compare", "list"}
      => /\ report[k].base = TrueMedian(measured[1])
         /\ report[k].med = TrueMedian(measured[IF report[k].tc = 1 THEN 1 ELSE 2])

\* A solve after another in the same x starts from its own right-hand side:
\* with a lower triangular matrix it ends in ones, and the test stays silent.
SolvesEndInOnes ==
  LET lower == {k \in DOMAIN list : k <= line /\ list[k] \notin {Blank, Unreadable}
                                    /\ LowerTriangular(list[k])}
  IN program = "solve" =>
       /\ \A c \in complaints : c[1] \notin lower
       /\ line \in lower /\ pc = "kernel" /\ l > 0 =>
            \A v \in x, r \in Rows(Matrix) : v[r] = 1

\* The factors' arrays live as long as they are needed and no longer: at every
\* comparison the sequential factor is there, of the same matrix and after as
\* many calls as the parallel one, so that the comparison never complains; and
\* none is left when the next readMatrix overwrites the pointers.
FactorsKeptApart ==
  /\ pc = "compare" => val # {} /\ val = val1
  /\ pc # "dangling"
  /\ program = "chol" => complaints = {}
  /\ pc = "list" => x = {} /\ val = {} /\ val1 = {}
  /\ pc = "run" /\ i < nRuns => x = {} /\ (IF tc = 1 THEN val ELSE val1) = {}

\* A program that returns 0 has reported every matrix before the first empty
\* line once with one thread and once with each power of two up to the first
\* number of the list.
WorkedThrough ==
  pc = "returned" =>
    LET wanted == (1 .. Wanted) \X ThreadCounts
    IN /\ {<<report[k].line, report[k].tc>> : k \in DOMAIN report} = wanted
       /\ Len(report) = Cardinality(wanted)

(***************************************************************************)
(* The program comes to an end, whatever the list holds, the first line    *)
(* asks for and it leaves unset, provided maxTC is at most half of the     *)
(* largest int.  With a larger maxTC, as an uninitialised one may be,      *)
(* "tc *=2" (ForwardSolveCSC.cc:138, IncompleteCholesky_k.cc:136,          *)
(* _m7.cc:136) wraps around and the loop over tc never ends.               *)
(***************************************************************************)
Terminates ==
  (pc = "list" /\ maxTC <= IntMax \div 2)
    ~> (pc \in {"returned", "refused", "overrun", "dangling"})
=============================================================================
