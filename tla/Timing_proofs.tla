---------------------------- MODULE Timing_proofs ----------------------------
(***************************************************************************)
(* The timing programs stay within their arrays of durations, keep the two *)
(* factors apart, print the medians of the runs they belong to, solve to   *)
(* ones and report every line once per thread count, for every list,       *)
(* number of threads, size of the arrays and number of runs.               *)
(***************************************************************************)
EXTENDS Timing, Lemmas

\* Only a run the array has no element for, or no run at all, ends in a fault.
IInv ==
  /\ nRuns \in Int
  /\ i \in Nat
  /\ SlotsSuffice

\* Before a list is opened nothing has been run and nRuns is a number.
LEMMA InitHolds == Init => IInv
<1> SUFFICES ASSUME Init PROVE IInv
  OBVIOUS
<1> QED
  BY TimingConstants DEF Init, IInv, SlotsSuffice

\* The first line is a sequence of numbers.
LEMMA ReadParametersHolds ==
  ASSUME IInv, header \in Headers, ReadParameters PROVE IInv'
<1>1. header \in Seq(Int)
  BY TimingConstants
<1>2. Len(header) = 3 => header[3] \in Int
  <2>1. ASSUME Len(header) = 3 PROVE 3 \in 1 .. Len(header)
    BY <2>1
  <2> QED
    BY <1>1, <2>1, ElementOfSeq
<1>3. nRuns' \in Int
  BY <1>2 DEF ReadParameters, IInv
<1> QED
  BY <1>3 DEF ReadParameters, IInv, SlotsSuffice

\* One step per action; those that set pc to "overrun" have their reason.
LEMMA NextHolds ==
  ASSUME IInv, header \in Headers, [Next]_vars PROVE IInv'
<1>1. CASE ReadParameters
  BY <1>1, ReadParametersHolds
<1>2. CASE NextMatrix
  BY <1>2 DEF NextMatrix, params, IInv, SlotsSuffice
<1>3. CASE EndOfList
  BY <1>3 DEF EndOfList, params, IInv, SlotsSuffice
<1>4. CASE RefuseMatrix
  BY <1>4 DEF RefuseMatrix, params, IInv, SlotsSuffice
<1>5. CASE StartRun
  <2>1. nRuns' = nRuns /\ i' = i /\ i < nRuns
    BY <1>5 DEF StartRun, MoreRuns, params
  <2>2. pc' = "overrun" => Slots <= i
    BY <1>5, TimingConstants DEF StartRun, IInv
  <2> QED
    BY <2>1, <2>2, TimingConstants DEF IInv, SlotsSuffice
<1>6. CASE Solve
  BY <1>6 DEF Solve, params, IInv, SlotsSuffice
<1>7. CASE Factor
  BY <1>7 DEF Factor, params, IInv, SlotsSuffice
<1>8. CASE EndRun
  <2>1. nRuns' = nRuns /\ i' = i + 1 /\ pc' = "run"
    BY <1>8 DEF EndRun, params
  <2> QED
    BY <2>1 DEF IInv, SlotsSuffice
<1>9. CASE NoRuns
  <2>1. nRuns' = nRuns /\ i' = i /\ nRuns <= 0
    BY <1>9 DEF NoRuns, params
  <2> QED
    BY <2>1 DEF IInv, SlotsSuffice
<1>10. CASE Summarise
  <2>1. nRuns' = nRuns /\ i' = i /\ pc' \in {"compare", "threads", "spinning"}
    BY <1>10 DEF Summarise, NextTest, params
  <2> QED
    BY <2>1 DEF IInv, SlotsSuffice
<1>11. CASE NextThreads
  BY <1>11 DEF NextThreads, params, IInv, SlotsSuffice
<1>12. CASE Compare
  BY <1>12 DEF Compare, NextTest, params, IInv, SlotsSuffice
<1>13. CASE EndThreads
  BY <1>13 DEF EndThreads, params, IInv, SlotsSuffice
<1>14. CASE Spin
  BY <1>14 DEF Spin, params, IInv, SlotsSuffice
<1>15. CASE UNCHANGED vars
  BY <1>15 DEF vars, params, IInv, SlotsSuffice
<1> QED
  BY <1>1, <1>2, <1>3, <1>4, <1>5, <1>6, <1>7, <1>8, <1>9, <1>10, <1>11,
     <1>12, <1>13, <1>14, <1>15 DEF Next

\* The inputs are never written.
LEMMA HeaderKept == Spec => [](header \in Headers)
<1>1. Init => header \in Headers
  BY DEF Init
<1>2. header \in Headers /\ [Next]_vars => (header \in Headers)'
  BY DEF Next, vars, inputs, ReadParameters, NextMatrix, EndOfList, RefuseMatrix,
         StartRun, Solve, Factor, EndRun, NoRuns, Summarise, NextThreads, Compare,
         EndThreads, Spin
<1> QED
  BY <1>1, <1>2, PTL DEF Spec

\* ForwardSolveCSC.cc:45, IncompleteCholesky_k.cc and _m7.cc: the arrays of
\* durations suffice whenever the list asks for at least one run and at most
\* as many as they have elements.
THEOREM SlotsAlwaysSuffice == Spec => []SlotsSuffice
<1>1. Init => IInv
  BY InitHolds
<1>2. IInv /\ header \in Headers /\ [Next]_vars => IInv'
  BY NextHolds
<1>3. IInv => SlotsSuffice
  BY DEF IInv
<1> QED
  BY <1>1, <1>2, <1>3, HeaderKept, PTL DEF Spec


-----------------------------------------------------------------------------
(***************************************************************************)
(* Where the arrays of the two factors are: the sequential one, left by    *)
(* the last run with one thread, until the threads are done; the parallel  *)
(* one from its last run to the comparison.  Both then belong to the line  *)
(* and have been through the same number of calls, Calls.                  *)
(***************************************************************************)
Calls == IF iterNo > 0 THEN iterNo ELSE 0
Factored == {<<line, Calls>>}

\* A factor at a check for another run: kept from the last run only.
AfterRuns == IF i > 0 /\ i = nRuns THEN Factored ELSE {}

CountersInv ==
  /\ program \in {"solve", "chol"} /\ header \in Headers
  /\ nRuns \in Int /\ iterNo \in Int /\ i \in Nat /\ l \in Nat
  /\ tc \in Int /\ (pc \notin {"spinning", "dangling"} => 1 <= tc /\ tc <= IntMax)
  /\ pc \in {"threads", "compare"} => tc > 1
  /\ pc = "compare" => program = "chol"
  /\ pc = "kernel" => i < nRuns /\ (l = 0 \/ l <= iterNo)
  /\ pc = "run" => i = 0 \/ i <= nRuns

FactorsInv ==
  /\ pc # "dangling"
  /\ program = "solve" => val = {} /\ val1 = {}
  /\ program = "chol" => x = {} /\ complaints = {}
  /\ pc \in {"header", "list", "run", "threads", "compare"} => x = {}
  /\ pc \in {"header", "list"} => val = {} /\ val1 = {}
  /\ program = "chol" =>
       /\ pc \in {"run", "kernel"} /\ tc = 1 => val1 = {}
       /\ pc \in {"run", "kernel"} /\ tc > 1 => val = Factored
       /\ pc = "run" => (IF tc = 1 THEN val ELSE val1) = AfterRuns
       /\ pc = "kernel" => (IF tc = 1 THEN val ELSE val1) = {<<line, l>>}
       /\ pc = "threads" => val = Factored /\ val1 = {}
       /\ pc = "compare" => val = Factored /\ val1 = Factored

\* While tc has not wrapped it doubles; once it has, the program spins.
LEMMA DoublingStep ==
  ASSUME NEW t \in Int, 1 <= t, t <= IntMax
  PROVE  /\ Doubled(t) \in Int
         /\ NextTest(t) \in {"threads", "spinning"}
         /\ NextTest(t) = "threads" =>
              Doubled(t) = 2 * t /\ 1 < Doubled(t) /\ Doubled(t) <= IntMax
<1>1. IntMax \in Nat
  BY TimingConstants
<1>2. CASE 2 * t <= IntMax
  <2>1. Doubled(t) = 2 * t
    BY <1>1, <1>2 DEF Doubled, Wrapped
  <2> QED
    BY <2>1, <1>1, <1>2 DEF NextTest
<1>3. CASE ~ (2 * t <= IntMax)
  <2>1. Doubled(t) = 2 * t - 2 * (IntMax + 1)
    BY <1>1, <1>3 DEF Doubled, Wrapped
  <2> QED
    BY <2>1, <1>1, <1>3 DEF NextTest
<1> QED
  BY <1>2, <1>3

\* The same of a tc that has wrapped: it stays an integer.
LEMMA WrappedStep == ASSUME NEW t \in Int PROVE Doubled(t) \in Int
  BY TimingConstants DEF Doubled, Wrapped

\* The counters, where the factors need them.
LEMMA CountersKept ==
  ASSUME CountersInv, [Next]_vars
  PROVE  CountersInv'
<1> USE DEF CountersInv
<1>1. CASE ReadParameters
  <2>1. header \in Seq(Int)
    BY TimingConstants
  <2>2. /\ Len(header) >= 2 => header[2] \in Int
        /\ Len(header) = 3 => header[3] \in Int
    <3> HIDE DEF CountersInv
    <3>1. Len(header) \in Nat
      BY <2>1, LenProperties
    <3>2. /\ Len(header) >= 2 => 2 \in 1 .. Len(header)
          /\ Len(header) = 3 => 3 \in 1 .. Len(header)
      BY <3>1
    <3> QED
      BY <2>1, <3>2, ElementOfSeq
  <2> QED
    BY <1>1, <2>2 DEF ReadParameters, inputs
<1>2. CASE NextMatrix \/ EndOfList \/ RefuseMatrix \/ Solve \/ Factor \/ EndThreads
  BY <1>2, TimingConstants DEF NextMatrix, EndOfList, RefuseMatrix, Solve, Factor, EndThreads, MoreIterations,
              inputs, params
<1>3. CASE StartRun
  BY <1>3 DEF StartRun, MoreRuns, inputs, params
<1>4. CASE EndRun
  BY <1>4 DEF EndRun, inputs, params
<1>5. CASE NoRuns \/ NextThreads
  BY <1>5 DEF NoRuns, NextThreads, inputs, params
<1>6. CASE Summarise \/ Compare
  <2>1. /\ UNCHANGED <<program, header, nRuns, iterNo, i, l>> /\ pc \in {"run", "compare"}
        /\ \/ pc' = "compare" /\ tc' = tc /\ tc > 1 /\ program = "chol"
           \/ pc' = NextTest(tc) /\ tc' = Doubled(tc)
           \/ pc' = "dangling" /\ tc' = Doubled(tc) /\ pc = "compare"
    BY <1>6 DEF Summarise, Compare, inputs, params
  <2>2. 1 <= tc /\ tc <= IntMax /\ tc \in Int
    BY <2>1
  <2>3. CASE pc' = "compare" /\ tc' = tc /\ tc > 1 /\ program = "chol"
    BY <2>1, <2>2, <2>3
  <2>4. CASE pc' = NextTest(tc) /\ tc' = Doubled(tc)
    BY <2>1, <2>2, <2>4, DoublingStep
  <2>5. CASE pc' = "dangling" /\ tc' = Doubled(tc)
    BY <2>1, <2>2, <2>5, DoublingStep
  <2> QED
    BY <2>1, <2>3, <2>4, <2>5
<1>7. CASE Spin
  BY <1>7, WrappedStep DEF Spin, inputs, params
<1>8. CASE UNCHANGED vars
  BY <1>8 DEF vars, inputs, params
<1> QED
  BY <1>1, <1>2, <1>3, <1>4, <1>5, <1>6, <1>7, <1>8 DEF Next

\* IncompleteCholesky_k.cc, _m7.cc: allocation, factorisation, free.
LEMMA FactorsKept ==
  ASSUME CountersInv, FactorsInv, [Next]_vars
  PROVE  FactorsInv'
<1> USE DEF CountersInv, FactorsInv
<1>1. CASE ReadParameters \/ EndOfList \/ RefuseMatrix \/ NoRuns
  BY <1>1 DEF ReadParameters, EndOfList, RefuseMatrix, NoRuns, arrays, results, inputs
<1>2. CASE NextMatrix
  BY <1>2 DEF NextMatrix, arrays, AfterRuns, inputs
<1>3. CASE StartRun
  <2>1. i < nRuns /\ pc = "run" /\ AfterRuns = {}
    BY <1>3 DEF StartRun, MoreRuns, AfterRuns
  <2>2. UNCHANGED <<program, line, tc, iterNo, complaints>> /\ l' = 0 /\ pc' \in {"kernel", "overrun"}
    BY <1>3 DEF StartRun, inputs, params, results
  <2>3. Factored' = Factored
    BY <2>2 DEF Factored, Calls
  <2>4. CASE program = "solve"
    BY <1>3, <2>1, <2>2, <2>4 DEF StartRun
  <2>5. CASE program = "chol"
    BY <1>3, <2>1, <2>2, <2>3, <2>5 DEF StartRun
  <2> QED
    BY <2>4, <2>5
<1>4. CASE Solve
  BY <1>4 DEF Solve, inputs, params
<1>5. CASE Factor
  <2>1. /\ UNCHANGED <<program, line, tc, iterNo, complaints, x, pc>> /\ l' = l + 1
        /\ pc = "kernel" /\ program = "chol"
    BY <1>5 DEF Factor, inputs, params, results
  <2>2. Factored' = Factored
    BY <2>1 DEF Factored, Calls
  <2>3. {<<v[1], v[2] + 1>> : v \in {<<line, l>>}} = {<<line', l'>>}
    BY <2>1
  <2>4. CASE tc = 1
    BY <1>5, <2>1, <2>2, <2>3, <2>4 DEF Factor
  <2>5. CASE tc > 1
    BY <1>5, <2>1, <2>2, <2>3, <2>5 DEF Factor
  <2>6. tc = 1 \/ tc > 1
    BY <2>1
  <2> QED
    BY <2>4, <2>5, <2>6
<1>6. CASE EndRun
  <2>1. /\ UNCHANGED <<program, line, tc, iterNo, nRuns, complaints>>
        /\ pc = "kernel" /\ pc' = "run" /\ x' = {} /\ i' = i + 1 /\ ~ (l < iterNo)
    BY <1>6 DEF EndRun, MoreIterations, inputs, params
  <2>2. Factored' = Factored /\ {<<line, l>>} = Factored
    BY <2>1 DEF Factored, Calls
  <2>3. /\ val' = IF tc = 1 /\ FreedAfterRun THEN {} ELSE val
        /\ val1' = IF tc > 1 /\ FreedAfterRun THEN {} ELSE val1
    BY <1>6 DEF EndRun
  <2>4. CASE program = "solve"
    BY <2>1, <2>3, <2>4
  <2>5. CASE program = "chol"
    <3>1. FreedAfterRun <=> i < nRuns - 1
      BY <2>5 DEF FreedAfterRun
    <3>2. AfterRuns' = IF FreedAfterRun THEN {} ELSE Factored
      BY <2>1, <2>2, <3>1 DEF AfterRuns
    <3>3. CASE tc = 1
      BY <2>1, <2>2, <2>3, <2>5, <3>2, <3>3
    <3>4. CASE tc > 1
      BY <2>1, <2>2, <2>3, <2>5, <3>2, <3>4
    <3>5. tc = 1 \/ tc > 1
      BY <2>1
    <3> QED
      BY <3>3, <3>4, <3>5
  <2> QED
    BY <2>4, <2>5
<1>7. CASE Summarise
  <2>1. /\ UNCHANGED <<program, line, iterNo, complaints, x, val, val1>>
        /\ pc = "run" /\ pc' \in {"compare", "threads", "spinning"} /\ AfterRuns = Factored
        /\ pc' = "compare" <=> tc > 1 /\ program = "chol"
    BY <1>7 DEF Summarise, NextTest, MoreRuns, AfterRuns, inputs, params, arrays
  <2>2. Factored' = Factored
    BY <2>1 DEF Factored, Calls
  <2>3. CASE program = "solve"
    BY <2>1, <2>3
  <2>4. CASE program = "chol"
    BY <2>1, <2>2, <2>4
  <2> QED
    BY <2>3, <2>4
<1>8. CASE NextThreads
  <2>1. /\ UNCHANGED <<program, line, iterNo, complaints, x, val, val1, tc, nRuns>>
        /\ pc = "threads" /\ pc' = "run" /\ i' = 0
    BY <1>8 DEF NextThreads, inputs, params, arrays
  <2>2. Factored' = Factored /\ AfterRuns' = {}
    BY <2>1 DEF Factored, Calls, AfterRuns
  <2> QED
    BY <2>1, <2>2
<1>9. CASE Compare
  <2>1. /\ UNCHANGED <<program, line, iterNo, x, val>> /\ pc = "compare" /\ val1' = {}
        /\ val = Factored /\ val1 = Factored /\ complaints = {} /\ program = "chol"
    BY <1>9 DEF Compare, inputs, params
  <2>2. Factored' = Factored /\ Factored # {}
    BY <2>1 DEF Factored, Calls
  <2>3. pc' \in {"threads", "spinning"} /\ complaints' = {}
    BY <1>9, <2>1, <2>2 DEF Compare, NextTest
  <2> QED
    BY <2>1, <2>2, <2>3
<1>10. CASE EndThreads
  <2>1. /\ UNCHANGED <<program, line, iterNo, x, val1, complaints>> /\ pc = "threads" /\ val' = {}
        /\ pc' = IF program = "chol" /\ val = {} THEN "dangling" ELSE "list"
    BY <1>10 DEF EndThreads, inputs, params, results
  <2>2. program = "chol" => val # {}
    BY <2>1 DEF Factored
  <2> QED
    BY <2>1, <2>2
<1>11. CASE Spin
  BY <1>11 DEF Spin, inputs, arrays, results
<1>12. CASE UNCHANGED vars
  <2>1. /\ UNCHANGED <<program, line, iterNo, nRuns, pc, tc, i, l, x, val, val1, complaints>>
    BY <1>12 DEF vars, inputs, params, arrays, results
  <2>2. Factored' = Factored /\ AfterRuns' = AfterRuns
    BY <2>1 DEF Factored, Calls, AfterRuns
  <2> QED
    BY <2>1, <2>2
<1> QED
  BY <1>1, <1>2, <1>3, <1>4, <1>5, <1>6, <1>7, <1>8, <1>9, <1>10, <1>11, <1>12 DEF Next

\* IncompleteCholesky_k.cc, _m7.cc: no comparison reads a freed factor or
\* complains, and none is left behind for the next matrix.
THEOREM FactorsAreKeptApart == Spec => []FactorsKeptApart
<1>1. Init => CountersInv /\ FactorsInv
  <2> SUFFICES ASSUME Init PROVE CountersInv /\ FactorsInv
    OBVIOUS
  <2>1. CountersInv
    BY TimingConstants DEF Init, CountersInv
  <2>2. FactorsInv
    BY DEF Init, FactorsInv
  <2> QED
    BY <2>1, <2>2
<1>2. CountersInv /\ [Next]_vars => CountersInv'
  BY CountersKept
<1>3. CountersInv /\ FactorsInv /\ [Next]_vars => FactorsInv'
  BY FactorsKept
<1>4. CountersInv /\ FactorsInv => FactorsKeptApart
  <2> SUFFICES ASSUME CountersInv, FactorsInv PROVE FactorsKeptApart
    OBVIOUS
  <2>1. pc = "compare" => val # {} /\ val = val1
    BY DEF CountersInv, FactorsInv, Factored
  <2>2. pc = "run" /\ i < nRuns => x = {} /\ (IF tc = 1 THEN val ELSE val1) = {}
    BY DEF CountersInv, FactorsInv, AfterRuns
  <2> QED
    BY <2>1, <2>2 DEF FactorsKeptApart, FactorsInv
<1> QED
  BY <1>1, <1>2, <1>3, <1>4, PTL DEF Spec


-----------------------------------------------------------------------------
(***************************************************************************)
(* Numbers can be sorted, and the k-th of a sorted sequence is its k-th    *)
(* smallest.                                                               *)
(***************************************************************************)
InOrder(E, m, p) == \A a, b \in 0 .. m - 1 : a < b => E[p[a]] <= E[p[b]]
Sortings(E, m) == {p \in Bijection(0 .. m - 1, 0 .. m - 1) : InOrder(E, m, p)}

\* A permutation, with its values and its inverse spelled out.
LEMMA Permutation ==
  ASSUME NEW S, NEW T, NEW p
  PROVE  p \in Bijection(S, T) <=>
           /\ p \in [S -> T]
           /\ \A a, b \in S : p[a] = p[b] => a = b
           /\ \A t \in T : \E s \in S : p[s] = t
  BY DEF Bijection, Injection, Surjection, IsInjective

\* What it is to sort the first m elements of E.
LEMMA SortingFacts ==
  ASSUME NEW m, NEW E, NEW p
  PROVE  p \in Sortings(E, m) <=>
           /\ p \in [0 .. m - 1 -> 0 .. m - 1]
           /\ \A a, b \in 0 .. m - 1 : p[a] = p[b] => a = b
           /\ \A t \in 0 .. m - 1 : \E s \in 0 .. m - 1 : p[s] = t
           /\ \A a, b \in 0 .. m - 1 : a < b => E[p[a]] <= E[p[b]]
<1> DEFINE D == 0 .. m - 1
<1>1. p \in Bijection(D, D) <=> /\ p \in [D -> D]
                               /\ \A a, b \in D : p[a] = p[b] => a = b
                               /\ \A t \in D : \E s \in D : p[s] = t
  <2> HIDE DEF D
  <2> QED
    BY Permutation
<1>2. p \in Sortings(E, m) <=>
        p \in Bijection(D, D) /\ \A a, b \in D : a < b => E[p[a]] <= E[p[b]]
  BY DEF Sortings, InOrder
<1> QED
  BY <1>1, <1>2, Zenon

\* The same with the places named.
Sorts(E, p, D) ==
  /\ p \in [D -> D]
  /\ \A a, b \in D : p[a] = p[b] => a = b
  /\ \A t \in D : \E a \in D : p[a] = t
  /\ \A a, b \in D : a < b => E[p[a]] <= E[p[b]]

\* A sorting sorts.
LEMMA SortingSorts ==
  ASSUME NEW m, NEW E, NEW p, p \in Sortings(E, m)
  PROVE  Sorts(E, p, 0 .. m - 1)
  BY SortingFacts DEF Sorts

\* The first n elements of the array are the durations of the runs s.
Stored(E, s, n) ==
  s \in Seq(Durations) /\ Len(s) = n /\ \A a \in 0 .. n - 1 : E[a] = s[a + 1]

\* One more number finds its place among sorted ones.
LEMMA InsertOne ==
  ASSUME NEW m \in Nat \ {0}, NEW E, \A a \in 0 .. m - 1 : E[a] \in Int,
         NEW p \in Sortings(E, m - 1)
  PROVE  Sortings(E, m) # {}
<1> DEFINE z == m - 1
           T == {a \in 0 .. z : a = z \/ E[p[a]] > E[z]}
<1>1. PICK c \in T : \A a \in T : c <= a
  <2>1. T \in SUBSET Nat /\ z \in T
    OBVIOUS
  <2> HIDE DEF T
  <2> QED
    BY <2>1, LeastNumber
<1>2. /\ p \in [0 .. z - 1 -> 0 .. z - 1]
      /\ \A a, b \in 0 .. z - 1 : p[a] = p[b] => a = b
      /\ \A t \in 0 .. z - 1 : \E s \in 0 .. z - 1 : p[s] = t
      /\ \A a, b \in 0 .. z - 1 : a < b => E[p[a]] <= E[p[b]]
  <2>1. p \in Sortings(E, z)
    OBVIOUS
  <2> HIDE DEF z
  <2> QED
    BY <2>1, SortingFacts
<1>i. \A a, b \in 0 .. z - 1 : p[a] = p[b] => a = b
  BY <1>2
<1>s. \A t \in 0 .. z - 1 : \E s \in 0 .. z - 1 : p[s] = t
  BY <1>2
<1>o. \A a, b \in 0 .. z - 1 : a < b => E[p[a]] <= E[p[b]]
  BY <1>2
<1>3. /\ c \in 0 .. z /\ z \in Nat /\ E[z] \in Int
      /\ \A a \in 0 .. z - 1 : p[a] \in 0 .. z - 1 /\ E[p[a]] \in Int
  <2>1. c \in 0 .. z /\ z \in Nat /\ E[z] \in Int
    OBVIOUS
  <2>2. \A a \in 0 .. z - 1 : p[a] \in 0 .. z - 1
    <3>1. p \in [0 .. z - 1 -> 0 .. z - 1]
      BY <1>2
    <3> QED
      BY <3>1
  <2>3. \A a \in 0 .. z - 1 : E[a] \in Int
    OBVIOUS
  <2> QED
    BY <2>1, <2>2, <2>3
<1>4. \A a \in 0 .. c - 1 : a \in 0 .. z - 1 /\ E[p[a]] <= E[z]
  <2> TAKE a \in 0 .. c - 1
  <2>1. a \in 0 .. z - 1 /\ a \notin T
    BY <1>1, <1>3
  <2> QED
    BY <2>1, <1>3
<1>5. \A a \in c .. z - 1 : a \in 0 .. z - 1 /\ E[z] <= E[p[a]]
  <2> TAKE a \in c .. z - 1
  <2>1. c \in 0 .. z - 1 /\ a \in 0 .. z - 1 /\ c # z
    BY <1>3
  <2>2. E[p[c]] > E[z]
    BY <2>1, <1>1
  <2>3. E[p[c]] <= E[p[a]]
    <3>1. c < a \/ c = a
      BY <1>3
    <3> QED
      BY <3>1, <2>1, <1>o, <1>3
  <2> QED
    BY <2>1, <2>2, <2>3, <1>3
<1> HIDE DEF T
<1> DEFINE q == [a \in 0 .. z |-> IF a < c THEN p[a] ELSE IF a = c THEN z ELSE p[a - 1]]
<1>6. /\ \A a \in 0 .. c - 1 : q[a] = p[a]
      /\ q[c] = z
      /\ \A a \in c + 1 .. z : q[a] = p[a - 1] /\ a - 1 \in 0 .. z - 1 /\ a - 1 \in c .. z - 1
      /\ q \in [0 .. z -> 0 .. z]
  BY <1>3
<1> HIDE DEF q
<1>7. \A a \in 0 .. z : a \in 0 .. c - 1 \/ a = c \/ a \in c + 1 .. z
  BY <1>3
<1>8. \A a, b \in 0 .. z : q[a] = q[b] => a = b
  <2> SUFFICES ASSUME NEW a \in 0 .. z, NEW b \in 0 .. z, a < b, q[a] = q[b] PROVE FALSE
    BY <1>3
  <2>1. CASE b \in 0 .. c - 1
    BY <2>1, <1>i, <1>3, <1>4, <1>6
  <2>2. CASE b = c
    BY <2>2, <1>3, <1>4, <1>6
  <2>3. CASE b \in c + 1 .. z
    <3>1. CASE a \in 0 .. c - 1
      <4>1. /\ a \in 0 .. z - 1 /\ q[a] = p[a]
            /\ b - 1 \in 0 .. z - 1 /\ q[b] = p[b - 1]
        BY <2>3, <3>1, <1>4, <1>6
      <4>2. p[a] = p[b - 1]
        BY <4>1
      <4>3. a = b - 1
        BY <4>1, <4>2, <1>i
      <4> QED
        BY <4>3, <2>3, <3>1, <1>3
    <3>2. CASE a = c
      <4>1. q[a] = z /\ q[b] = p[b - 1] /\ b - 1 \in 0 .. z - 1
        BY <2>3, <3>2, <1>6
      <4>2. p[b - 1] \in 0 .. z - 1
        BY <4>1, <1>3
      <4>3. z \notin 0 .. z - 1
        BY <1>3
      <4> HIDE DEF z
      <4> QED
        BY <4>1, <4>2, <4>3
    <3>3. CASE a \in c + 1 .. z
      <4>1. /\ a - 1 \in 0 .. z - 1 /\ q[a] = p[a - 1]
            /\ b - 1 \in 0 .. z - 1 /\ q[b] = p[b - 1]
        BY <2>3, <3>3, <1>6
      <4>2. a - 1 = b - 1
        BY <4>1, <1>i
      <4> QED
        BY <4>2
    <3> QED
      BY <3>1, <3>2, <3>3, <1>7
  <2> QED
    BY <2>1, <2>2, <2>3, <1>7
<1>9. \A t \in 0 .. z : \E s \in 0 .. z : q[s] = t
  <2> TAKE t \in 0 .. z
  <2>1. CASE t = z
    BY <2>1, <1>3, <1>6
  <2>2. CASE t # z
    <3>1. PICK s \in 0 .. z - 1 : p[s] = t
      BY <2>2, <1>s, <1>3
    <3>2. CASE s \in 0 .. c - 1
      <4>1. s \in 0 .. z /\ q[s] = p[s]
        BY <3>2, <1>3, <1>6
      <4> QED
        BY <4>1, <3>1
    <3>3. CASE ~ (s \in 0 .. c - 1)
      <4>1. s + 1 \in c + 1 .. z /\ s + 1 \in 0 .. z /\ s + 1 - 1 = s
        BY <3>3, <1>3
      <4>2. q[s + 1] = p[s + 1 - 1]
        BY <4>1, <1>6
      <4> QED
        BY <4>1, <4>2, <3>1
    <3> QED
      BY <3>2, <3>3
  <2> QED
    BY <2>1, <2>2
<1>10. \A a, b \in 0 .. z : a < b => E[q[a]] <= E[q[b]]
  <2> SUFFICES ASSUME NEW a \in 0 .. z, NEW b \in 0 .. z, a < b PROVE E[q[a]] <= E[q[b]]
    OBVIOUS
  <2>1. CASE b \in 0 .. c - 1
    <3>1. a \in 0 .. c - 1 /\ a \in 0 .. z - 1 /\ b \in 0 .. z - 1
      BY <2>1, <1>3
    <3> QED
      BY <2>1, <3>1, <1>o, <1>6
  <2>2. CASE b = c
    <3>1. a \in 0 .. c - 1
      BY <2>2, <1>3
    <3> QED
      BY <2>2, <3>1, <1>4, <1>6
  <2>3. CASE b \in c + 1 .. z
    <3>1. CASE a \in 0 .. c - 1
      <4>1. E[p[a]] <= E[z] /\ E[z] <= E[p[b - 1]] /\ q[a] = p[a] /\ q[b] = p[b - 1]
        BY <2>3, <3>1, <1>4, <1>5, <1>6
      <4>2. E[p[a]] \in Int /\ E[p[b - 1]] \in Int
        BY <2>3, <3>1, <1>3, <1>4, <1>6
      <4> QED
        BY <4>1, <4>2, <1>3
    <3>2. CASE a = c
      BY <2>3, <3>2, <1>5, <1>6
    <3>3. CASE a \in c + 1 .. z
      <4>1. a - 1 < b - 1
        OBVIOUS
      <4> QED
        BY <4>1, <2>3, <3>3, <1>o, <1>6
    <3> QED
      BY <3>1, <3>2, <3>3, <1>7
  <2> QED
    BY <2>1, <2>2, <2>3, <1>7
<1>11. q \in Sortings(E, m)
  BY <1>6, <1>8, <1>9, <1>10, SortingFacts
<1> QED
  BY <1>11

\* ForwardSolveCSC.cc:110: what std::sort promises can be kept.
LEMMA CanSort ==
  ASSUME NEW n \in Nat, NEW E, \A a \in 0 .. n - 1 : E[a] \in Int
  PROVE  Order(E, n) \in Sortings(E, n)
<1> DEFINE P == {m \in 0 .. n : Sortings(E, m) # {}}
<1>1. 0 \in P
  <2> DEFINE none == [a \in {} |-> 0]
  <2>1. 0 .. 0 - 1 = {} /\ none \in [{} -> {}]
    OBVIOUS
  <2>2. none \in Sortings(E, 0)
    BY <2>1, SortingFacts
  <2> QED
    BY <2>2
<1>2. \A m \in 1 .. n : m - 1 \in P => m \in P
  <2> TAKE m \in 1 .. n
  <2> SUFFICES ASSUME m - 1 \in P PROVE m \in P
    OBVIOUS
  <2>1. PICK p : p \in Sortings(E, m - 1)
    OBVIOUS
  <2>2. m \in Nat \ {0} /\ \A a \in 0 .. m - 1 : E[a] \in Int
    OBVIOUS
  <2>3. Sortings(E, m) # {}
    BY <2>1, <2>2, InsertOne
  <2> QED
    BY <2>3
<1>3. n \in P
  <2> HIDE DEF P
  <2>1. \A m \in 0 .. n : m \in P
    BY <1>1, <1>2, Induct
  <2> QED
    BY <2>1
<1> QED
  BY <1>3 DEF Order, Sortings, InOrder

\* The runs that took less than v, and those that took no more.
Below(s, v) == {a \in DOMAIN s : s[a] < v}
NoMore(s, v) == {a \in DOMAIN s : s[a] <= v}

\* The number of elements of a finite set is a number.
LEMMA CardinalityNat ==
  ASSUME NEW S, IsFiniteSet(S)
  PROVE  Cardinality(S) \in Nat
  BY FS_CardinalityType

\* The runs at the places A of the sorted array.
Sent(p, A) == {p[a] + 1 : a \in A}

\* Each of A is sent somewhere.
LEMMA SentIn ==
  ASSUME NEW p, NEW A, NEW a \in A
  PROVE  p[a] + 1 \in Sent(p, A)
  BY DEF Sent

AtPlace(E, p, k, v) == v = E[p[k - 1]]

\* The k-th of the sorted array is the k-th smallest duration.
LEMMA KthSmallest ==
  ASSUME NEW n \in Nat, NEW s, NEW E, Stored(E, s, n), NEW p, p \in Sortings(E, n),
         NEW k \in 1 .. n
  PROVE  AtPlace(E, p, k, Smallest(s, k))
<1> DEFINE D == 0 .. n - 1
           v == E[p[k - 1]]
<1>1. /\ p \in [D -> D]
      /\ \A a, b \in D : p[a] = p[b] => a = b
      /\ \A t \in D : \E a \in D : p[a] = t
      /\ \A a, b \in D : a < b => E[p[a]] <= E[p[b]]
  <2>1. Sorts(E, p, D)
    BY SortingSorts
  <2> HIDE DEF v, D
  <2> QED
    BY <2>1 DEF Sorts
<1>0. s \in Seq(Durations) /\ Len(s) = n /\ \A a \in 0 .. n - 1 : E[a] = s[a + 1]
  BY DEF Stored
<1>s. \A t \in D : \E a \in D : p[a] = t
  BY <1>1
<1>o. \A a, b \in D : a < b => E[p[a]] <= E[p[b]]
  BY <1>1
<1>2. /\ DOMAIN s = 1 .. n /\ k - 1 \in D /\ Durations \subseteq Int
      /\ \A a \in 1 .. n : s[a] \in Durations
      /\ \A a \in D : p[a] \in D /\ p[a] + 1 \in 1 .. n /\ s[p[a] + 1] = E[p[a]] /\ E[p[a]] \in Durations
  <2>1. DOMAIN s = 1 .. n /\ \A a \in 1 .. n : s[a] \in Durations
    BY <1>0, ElementOfSeq, LenProperties
  <2>2. k - 1 \in D /\ Durations \subseteq Int
    BY TimingConstants
  <2>3. \A a \in D : p[a] \in D
    <3>1. p \in [D -> D]
      BY <1>1
    <3> HIDE DEF D
    <3> QED
      BY <3>1
  <2>4. \A a \in D : a + 1 \in 1 .. n
    OBVIOUS
  <2> QED
    BY <1>0, <2>1, <2>2, <2>3, <2>4
<1>3. IsFiniteSet(DOMAIN s)
  BY <1>2, FS_Interval
<1>4. ASSUME NEW A \in SUBSET D
      PROVE  IsFiniteSet(Sent(p, A)) /\ Cardinality(Sent(p, A)) = Cardinality(A)
  <2>1. IsFiniteSet(A)
    <3>1. IsFiniteSet(D)
      <4>1. n - 1 \in Int
        OBVIOUS
      <4> QED
        BY <4>1, FS_Interval
    <3> HIDE DEF D
    <3> QED
      BY <3>1, FS_Subset
  <2> DEFINE f == [a \in A |-> p[a] + 1]
  <2>2. f \in Bijection(A, Sent(p, A))
    <3>1. f \in [A -> Sent(p, A)]
      BY DEF Sent
    <3>2. \A a, b \in A : f[a] = f[b] => a = b
      <4>1. \A a, b \in A : p[a] \in Int /\ p[b] \in Int /\ (p[a] = p[b] => a = b)
        BY <1>1, <1>2
      <4> QED
        BY <4>1
    <3>3. \A t \in Sent(p, A) : \E a \in A : f[a] = t
      BY DEF Sent
    <3> HIDE DEF f
    <3> QED
      BY <3>1, <3>2, <3>3, Permutation
  <2> QED
    BY <2>1, <2>2, FS_Bijection DEF ExistsBijection
\* Fewer than k runs are below v, and k or more are not above it.
<1>5. Cardinality(Below(s, v)) < k
  <2>1. Below(s, v) \subseteq Sent(p, 0 .. k - 2)
    <3> SUFFICES ASSUME NEW t \in Below(s, v) PROVE t \in Sent(p, 0 .. k - 2)
      OBVIOUS
    <3>1. t \in 1 .. n /\ s[t] < v
      BY <1>2 DEF Below
    <3>2. PICK a \in D : p[a] = t - 1
      <4>1. t - 1 \in D
        BY <3>1
      <4> QED
        BY <4>1, <1>s
    <3>3. s[t] = E[p[a]] /\ t = p[a] + 1
      <4>1. t = p[a] + 1
        BY <3>1, <3>2
      <4>2. s[p[a] + 1] = E[p[a]]
        BY <1>2
      <4> QED
        BY <4>1, <4>2
    <3>4. ~ (E[p[k - 1]] <= E[p[a]])
      <4>1. E[p[k - 1]] \in Int /\ E[p[a]] \in Int
        BY <1>2
      <4>2. E[p[a]] < E[p[k - 1]]
        BY <3>1, <3>3
      <4> QED
        BY <4>1, <4>2
    <3>5. a # k - 1 /\ ~ (k - 1 < a)
      <4>1. E[p[a]] \in Int
        BY <1>2
      <4>2. k - 1 < a => E[p[k - 1]] <= E[p[a]]
        BY <1>o, <1>2
      <4>3. a = k - 1 => E[p[k - 1]] <= E[p[a]]
        BY <4>1
      <4> QED
        BY <4>2, <4>3, <3>4
    <3>6. a \in 0 .. k - 2
      BY <3>5
    <3> QED
      BY <3>3, <3>6, SentIn
  <2>2. 0 .. k - 2 \in SUBSET D /\ Cardinality(0 .. k - 2) = k - 1
    <3>1. 0 \in Int /\ k - 2 \in Int /\ 0 .. k - 2 \in SUBSET D
      OBVIOUS
    <3>2. Cardinality(0 .. k - 2) = IF 0 > k - 2 THEN 0 ELSE k - 2 - 0 + 1
      BY <3>1, FS_Interval
    <3>3. (IF 0 > k - 2 THEN 0 ELSE k - 2 - 0 + 1) = k - 1
      OBVIOUS
    <3> QED
      BY <3>1, <3>2, <3>3
  <2> HIDE DEF v
  <2>3. IsFiniteSet(Sent(p, 0 .. k - 2)) /\ Cardinality(Sent(p, 0 .. k - 2)) = k - 1
    BY <2>2, <1>4
  <2>4. IsFiniteSet(Below(s, v)) /\ Cardinality(Below(s, v)) <= k - 1
    BY <2>1, <2>3, FS_Subset
  <2>5. Cardinality(Below(s, v)) \in Nat
    BY <2>4, CardinalityNat
  <2> QED
    BY <2>4, <2>5
<1>6. k <= Cardinality(NoMore(s, v))
  <2>1. Sent(p, 0 .. k - 1) \subseteq NoMore(s, v)
    <3> SUFFICES ASSUME NEW t \in Sent(p, 0 .. k - 1) PROVE t \in NoMore(s, v)
      OBVIOUS
    <3>1. PICK a \in 0 .. k - 1 : t = p[a] + 1
      BY DEF Sent
    <3>2. a \in D /\ (a = k - 1 \/ a < k - 1)
      BY <3>1
    <3>3. E[p[a]] <= v /\ t \in 1 .. n /\ s[t] = E[p[a]]
      <4>1. t \in 1 .. n /\ s[t] = E[p[a]]
        BY <3>1, <3>2, <1>2
      <4>2. E[p[a]] \in Int
        BY <3>2, <1>2
      <4>3. a < k - 1 => E[p[a]] <= E[p[k - 1]]
        BY <3>2, <1>2, <1>o
      <4>4. a = k - 1 => E[p[a]] <= E[p[k - 1]]
        BY <4>2
      <4> QED
        BY <4>1, <4>3, <4>4, <3>2
    <3>4. s[t] <= v /\ t \in DOMAIN s
      BY <3>3, <1>2
    <3> HIDE DEF v
    <3> QED
      BY <3>4 DEF NoMore
  <2>2. 0 .. k - 1 \in SUBSET D /\ Cardinality(0 .. k - 1) = k
    <3>1. k - 1 \in Int /\ 0 .. k - 1 \in SUBSET D
      OBVIOUS
    <3> QED
      BY <3>1, FS_Interval
  <2> HIDE DEF v
  <2>3. Cardinality(Sent(p, 0 .. k - 1)) = k
    BY <2>2, <1>4
  <2>4. IsFiniteSet(NoMore(s, v))
    BY <1>3, FS_Subset DEF NoMore
  <2>5. Cardinality(Sent(p, 0 .. k - 1)) <= Cardinality(NoMore(s, v))
    BY <2>1, <2>4, FS_Subset
  <2> QED
    BY <2>3, <2>5
\* Of two durations only one can have that.
<1>7. ASSUME NEW w \in Durations, NEW y \in Durations, w < y,
             k <= Cardinality(NoMore(s, w)), Cardinality(Below(s, y)) < k
      PROVE  FALSE
  <2>1. NoMore(s, w) \subseteq Below(s, y)
    <3>1. \A a \in DOMAIN s : s[a] \in Int
      BY <1>2
    <3>2. w \in Int /\ y \in Int
      BY <1>2
    <3> QED
      BY <3>1, <3>2, <1>7 DEF NoMore, Below
  <2>2. IsFiniteSet(Below(s, y))
    BY <1>3, FS_Subset DEF Below
  <2>3. /\ Cardinality(NoMore(s, w)) <= Cardinality(Below(s, y))
        /\ Cardinality(NoMore(s, w)) \in Nat /\ Cardinality(Below(s, y)) \in Nat
    <3>1. IsFiniteSet(NoMore(s, w))
      BY <2>1, <2>2, FS_Subset
    <3> QED
      BY <2>1, <2>2, <3>1, FS_Subset, CardinalityNat
  <2> QED
    BY <2>3, <1>7
<1>8. v \in Durations
  BY <1>2
<1> HIDE DEF v
<1>9. \A w \in Durations :
        Cardinality(Below(s, w)) < k /\ k <= Cardinality(NoMore(s, w)) => w = v
  <2> TAKE w \in Durations
  <2>1. w \in Int /\ v \in Int
    BY <1>2, <1>8
  <2> QED
    BY <2>1, <1>5, <1>6, <1>7, <1>8
<1>10. Smallest(s, k) = CHOOSE w \in Durations :
                          Cardinality(Below(s, w)) < k /\ k <= Cardinality(NoMore(s, w))
  BY DEF Smallest, Below, NoMore
<1> QED
  BY <1>5, <1>6, <1>8, <1>9, <1>10 DEF v, AtPlace

\* ForwardSolveCSC.cc:110-119: the middle of the sorted array is the median.
LEMMA MedianOfRuns ==
  ASSUME NEW n \in Nat \ {0}, NEW s, NEW E, Stored(E, s, n),
         n <= Slots, DOMAIN E = 0 .. Slots - 1
  PROVE  Median(Sorted(E, n), n) = TrueMedian(s) /\ TrueMedian(s) \in Int
<1> DEFINE p == Order(E, n)
           t == Sorted(E, n)
<1>1. /\ \A a \in 0 .. n - 1 : E[a] \in Int
      /\ Slots \in Nat /\ 0 .. n - 1 \subseteq 0 .. Slots - 1
  <2>0. Durations \subseteq Nat
    BY TimingConstants
  <2>1. ASSUME NEW a \in 0 .. n - 1 PROVE E[a] \in Int
    <3>1. a + 1 \in 1 .. Len(s) /\ E[a] = s[a + 1] /\ s \in Seq(Durations)
      BY DEF Stored
    <3>2. s[a + 1] \in Durations
      BY <3>1, ElementOfSeq
    <3>3. E[a] \in Nat
      BY <3>1, <3>2, <2>0, Zenon
    <3> QED
      BY <3>3
  <2>2. Slots \in Nat /\ 0 .. n - 1 \subseteq 0 .. Slots - 1
    BY TimingConstants
  <2> QED
    BY <2>1, <2>2
<1>2. p \in Sortings(E, n)
  BY <1>1, CanSort
<1>3. \A a \in 0 .. n - 1 : t[a] = E[p[a]]
  <2> HIDE DEF p
  <2>1. \A a \in 0 .. n - 1 : a \in DOMAIN E /\ a < n
    BY <1>1
  <2>2. t = [a \in DOMAIN E |-> IF a < n THEN E[p[a]] ELSE E[a]]
    BY DEF Sorted, p
  <2> QED
    BY <2>1, <2>2
<1> HIDE DEF p
<1>4. \A k \in 1 .. n : Smallest(s, k) = E[p[k - 1]]
  <2> TAKE k \in 1 .. n
  <2>1. n \in Nat /\ Stored(E, s, n)
    OBVIOUS
  <2>2. AtPlace(E, p, k, Smallest(s, k))
    BY <1>2, <2>1, KthSmallest
  <2> QED
    BY <2>2 DEF AtPlace
<1>5. \A k \in 1 .. n : Smallest(s, k) = t[k - 1] /\ t[k - 1] \in Int
  <2> TAKE k \in 1 .. n
  <2>1. k - 1 \in 0 .. n - 1
    OBVIOUS
  <2>2. p[k - 1] \in 0 .. n - 1
    <3>1. p \in [0 .. n - 1 -> 0 .. n - 1]
      BY <1>2, SortingFacts
    <3> QED
      BY <2>1, <3>1
  <2> QED
    BY <2>1, <2>2, <1>1, <1>3, <1>4
<1> HIDE DEF t
<1>6. TrueMedian(s) = Smallest(s, (n + 1) \div 2) + Smallest(s, n \div 2 + 1)
  BY DEF TrueMedian, Stored
<1> DEFINE h == n \div 2
<1>7. CASE n % 2 = 1
  <2>1. (n + 1) \div 2 = h + 1 /\ h + 1 \in 1 .. n /\ h \in Int
    BY <1>7
  <2>3. Median(t, n) = 2 * t[h]
    BY <1>7 DEF Median
  <2> HIDE DEF h
  <2>2. Smallest(s, h + 1) = t[h] /\ t[h] \in Int
    <3> DEFINE g == h + 1
    <3>1. g \in 1 .. n /\ g - 1 = h
      BY <2>1
    <3> HIDE DEF g
    <3>2. Smallest(s, g) = t[g - 1] /\ t[g - 1] \in Int
      BY <3>1, <1>5
    <3> QED
      BY <3>1, <3>2 DEF g
  <2>4. TrueMedian(s) = Smallest(s, h + 1) + Smallest(s, h + 1)
    BY <1>6, <2>1 DEF h
  <2>5. TrueMedian(s) = 2 * t[h]
    BY <2>2, <2>4
  <2> QED
    BY <2>2, <2>3, <2>5 DEF t
<1>8. CASE n % 2 # 1
  <2>1. /\ (n + 1) \div 2 = h /\ h \in 1 .. n /\ h + 1 \in 1 .. n
        /\ h \in Int
    BY <1>8
  <2>3. Median(t, n) = t[h] + t[h - 1]
    BY <1>8 DEF Median
  <2> HIDE DEF h
  <2>2. Smallest(s, h + 1) = t[h] /\ t[h] \in Int
    <3> DEFINE g == h + 1
    <3>1. g \in 1 .. n /\ g - 1 = h
      BY <2>1
    <3> HIDE DEF g
    <3>2. Smallest(s, g) = t[g - 1] /\ t[g - 1] \in Int
      BY <3>1, <1>5
    <3> QED
      BY <3>1, <3>2 DEF g
  <2>4. Smallest(s, h) = t[h - 1] /\ t[h - 1] \in Int
    BY <2>1, <1>5
  <2>5. TrueMedian(s) = Smallest(s, h) + Smallest(s, h + 1)
    BY <1>6, <2>1 DEF h
  <2>6. TrueMedian(s) = t[h] + t[h - 1]
    BY <2>2, <2>4, <2>5
  <2> QED
    BY <2>2, <2>3, <2>4, <2>6 DEF t
<1> QED
  BY <1>7, <1>8


-----------------------------------------------------------------------------
(***************************************************************************)
(* During the runs of a line and thread count the first i elements of the  *)
(* array are the durations of those i runs, and from the first parallel    *)
(* run of a line on serialMed is the median of its sequential runs.        *)
(***************************************************************************)
Reports == [line : Nat, tc : Nat, med : Int, base : Int]
Current == measured[IF tc = 1 THEN 1 ELSE 2]

RunsInv ==
  /\ line \in Nat /\ serialMed \in Int /\ report \in Seq(Reports)
  /\ measured \in Seq(Durations) \X Seq(Durations)
  /\ pc = "header" => report = <<>>
  /\ pc \in {"run", "kernel"} =>
       durationE \in [0 .. Slots - 1 -> Nat] /\ Stored(durationE, Current, i)
  /\ pc = "run" => i <= Slots
  /\ pc = "kernel" => i < Slots
  /\ pc \in {"run", "kernel", "threads", "compare"} /\ tc > 1 =>
       serialMed = TrueMedian(measured[1])

\* No runs are stored in an array at first.
LEMMA NothingStored == Stored(Zeros, <<>>, 0)
<1>1. <<>> \in Seq(Durations) /\ Len(<<>>) = 0
  BY EmptySeq
<1>2. 0 .. 0 - 1 = {}
  OBVIOUS
<1> QED
  BY <1>1, <1>2 DEF Stored

\* ForwardSolveCSC.cc:92: the duration of another run.
LEMMA StoreOne ==
  ASSUME NEW n \in Nat, n < Slots, NEW E \in [0 .. Slots - 1 -> Nat], NEW s,
         Stored(E, s, n), NEW d \in Durations
  PROVE  /\ Stored([E EXCEPT ![n] = d], Append(s, d), n + 1)
         /\ [E EXCEPT ![n] = d] \in [0 .. Slots - 1 -> Nat]
<1> DEFINE F == [E EXCEPT ![n] = d]
           t == Append(s, d)
<1>0. Durations \subseteq Nat /\ Slots \in Nat
  BY TimingConstants
<1>1. F \in [0 .. Slots - 1 -> Nat] /\ F[n] = d /\ \A a \in 0 .. n - 1 : F[a] = E[a]
  BY <1>0
<1>2. s \in Seq(Durations) /\ Len(s) = n /\ \A a \in 0 .. n - 1 : E[a] = s[a + 1]
  BY DEF Stored
<1>3. /\ t \in Seq(Durations) /\ Len(t) = n + 1 /\ t[n + 1] = d
      /\ \A a \in 1 .. n : t[a] = s[a]
  BY <1>2, AppendProperties
<1> HIDE DEF F, t
<1>4. ASSUME NEW a \in 0 .. n + 1 - 1 PROVE F[a] = t[a + 1]
  <2>1. CASE a = n
    BY <2>1, <1>1, <1>3
  <2>2. CASE a # n
    <3>1. a \in 0 .. n - 1 /\ a + 1 \in 1 .. n
      BY <2>2
    <3>2. F[a] = E[a] /\ E[a] = s[a + 1] /\ t[a + 1] = s[a + 1]
      BY <3>1, <1>1, <1>2, <1>3
    <3> QED
      BY <3>2
  <2> QED
    BY <2>1, <2>2
<1>5. Stored(F, t, n + 1)
  BY <1>3, <1>4 DEF Stored
<1> QED
  BY <1>1, <1>5 DEF F, t

\* ForwardSolveCSC.cc:110-128: at the end of the runs they are all stored.
LEMMA SummariseMedians ==
  ASSUME CountersInv, RunsInv, Summarise
  PROVE  /\ serialMed' = TrueMedian(measured[1])
         /\ Median(durationE', nRuns) = TrueMedian(Current)
         /\ serialMed' \in Int /\ Median(durationE', nRuns) \in Int
<1>1. nRuns \in Nat \ {0} /\ i = nRuns /\ pc = "run" /\ nRuns <= Slots
  BY DEF CountersInv, RunsInv, Summarise, MoreRuns
<1>2. Stored(durationE, Current, nRuns) /\ DOMAIN durationE = 0 .. Slots - 1
  BY <1>1 DEF RunsInv
<1>3. /\ Median(Sorted(durationE, nRuns), nRuns) = TrueMedian(Current)
      /\ TrueMedian(Current) \in Int
  BY <1>1, <1>2, MedianOfRuns
<1>4. /\ durationE' = Sorted(durationE, nRuns)
      /\ serialMed' = IF tc = 1 THEN Median(durationE', nRuns) ELSE serialMed
  BY DEF Summarise
<1>5. CASE tc = 1
  BY <1>3, <1>4, <1>5 DEF Current
<1>6. CASE tc # 1
  <2>1. serialMed = TrueMedian(measured[1]) /\ serialMed \in Int
    BY <1>1, <1>6 DEF CountersInv, RunsInv
  <2> QED
    BY <1>3, <1>4, <1>6, <2>1
<1> QED
  BY <1>5, <1>6

\* ForwardSolveCSC.cc, IncompleteCholesky_k.cc, _m7.cc: the runs and what is
\* kept of them.
LEMMA RunsKept ==
  ASSUME CountersInv, RunsInv, [Next]_vars
  PROVE  RunsInv'
<1>1. CASE ReadParameters \/ EndOfList \/ RefuseMatrix \/ NoRuns
  BY <1>1 DEF RunsInv, ReadParameters, EndOfList, RefuseMatrix, NoRuns, results
<1>2. CASE NextMatrix
  <2>1. /\ pc' = "run" /\ line' = line + 1 /\ tc' = 1 /\ i' = 0 /\ serialMed' = 0
        /\ durationE' = Zeros /\ measured' = <<<<>>, <<>>>> /\ report' = report
    BY <1>2 DEF NextMatrix
  <2>2. measured' \in Seq(Durations) \X Seq(Durations) /\ Current' = <<>>
    BY <2>1, EmptySeq DEF Current
  <2>3. durationE' \in [0 .. Slots - 1 -> Nat] /\ Slots \in Nat
    BY <2>1, TimingConstants DEF Zeros
  <2>4. Stored(durationE', Current', i')
    BY <2>1, <2>2, NothingStored
  <2> QED
    BY <2>1, <2>2, <2>3, <2>4 DEF RunsInv
<1>3. CASE StartRun
  <2>1. /\ UNCHANGED <<line, tc, i, durationE, serialMed, report, measured>>
        /\ pc = "run" /\ pc' = IF i < Slots THEN "kernel" ELSE "overrun"
    BY <1>3 DEF StartRun, results
  <2>2. Current' = Current
    BY <2>1 DEF Current
  <2> QED
    BY <2>1, <2>2 DEF RunsInv
<1>4. CASE Solve \/ Factor
  <2>1. /\ UNCHANGED <<line, tc, i, durationE, serialMed, report, measured, pc>>
    BY <1>4 DEF Solve, Factor, results
  <2>2. Current' = Current
    BY <2>1 DEF Current
  <2> QED
    BY <2>1, <2>2 DEF RunsInv
<1>5. CASE EndRun
  <2>1. /\ UNCHANGED <<line, tc, serialMed, report>>
        /\ pc = "kernel" /\ pc' = "run" /\ i' = i + 1 /\ i < Slots /\ i \in Nat
    BY <1>5 DEF EndRun, RunsInv, CountersInv
  <2>2. PICK d \in Durations :
          /\ durationE' = [durationE EXCEPT ![i] = d]
          /\ measured' = IF tc = 1 THEN <<Append(measured[1], d), <<>>>>
                                   ELSE <<measured[1], Append(measured[2], d)>>
    BY <1>5 DEF EndRun
  <2>3. Current' = Append(Current, d)
    BY <2>1, <2>2 DEF Current
  <2>4. Stored(durationE', Current', i') /\ durationE' \in [0 .. Slots - 1 -> Nat]
    <3>1. durationE \in [0 .. Slots - 1 -> Nat] /\ Stored(durationE, Current, i)
      BY <2>1 DEF RunsInv
    <3> QED
      BY <2>1, <2>2, <2>3, <3>1, StoreOne
  <2>5. measured' \in Seq(Durations) \X Seq(Durations)
    <3>1. measured[1] \in Seq(Durations) /\ measured[2] \in Seq(Durations)
      BY DEF RunsInv
    <3>2. Append(measured[1], d) \in Seq(Durations) /\ Append(measured[2], d) \in Seq(Durations)
      BY <3>1, AppendProperties
    <3> QED
      BY <2>2, <3>1, <3>2, EmptySeq
  <2>6. i' <= Slots
    BY <2>1, TimingConstants
  <2>7. tc' > 1 => serialMed' = TrueMedian(measured'[1])
    <3>1. tc > 1 => measured'[1] = measured[1]
      BY <2>2
    <3> QED
      BY <2>1, <3>1 DEF RunsInv
  <2> QED
    BY <2>1, <2>4, <2>5, <2>6, <2>7 DEF RunsInv
<1>6. CASE Summarise
  <2>1. /\ UNCHANGED <<line, measured>> /\ pc' \in {"threads", "compare", "spinning"}
        /\ report' = Append(report, [line |-> line, tc |-> tc, med |-> Median(durationE', nRuns),
                                     base |-> serialMed'])
    BY <1>6 DEF Summarise, NextTest
  <2>2. /\ serialMed' = TrueMedian(measured[1]) /\ serialMed' \in Int
        /\ Median(durationE', nRuns) \in Int
    BY <1>6, SummariseMedians
  <2>3. report' \in Seq(Reports)
    <3>0. tc \in Nat
      BY <1>6 DEF Summarise, CountersInv
    <3>1. [line |-> line, tc |-> tc, med |-> Median(durationE', nRuns), base |-> serialMed']
             \in Reports
      BY <2>2, <3>0 DEF RunsInv, Reports
    <3> QED
      BY <2>1, <3>1, AppendProperties DEF RunsInv
  <2> QED
    BY <2>1, <2>2, <2>3 DEF RunsInv
<1>7. CASE NextThreads
  <2>1. /\ pc' = "run" /\ i' = 0 /\ durationE' = Zeros /\ measured' = <<measured[1], <<>>>>
        /\ UNCHANGED <<line, tc, serialMed, report>> /\ pc = "threads" /\ tc > 1
    BY <1>7 DEF NextThreads, CountersInv
  <2>2. measured' \in Seq(Durations) \X Seq(Durations) /\ Current' = <<>>
    <3>1. measured[1] \in Seq(Durations)
      BY DEF RunsInv
    <3>2. tc' # 1 /\ measured'[2] = <<>>
      BY <2>1 DEF CountersInv
    <3>3. Current' = <<>>
      BY <3>2 DEF Current
    <3> QED
      BY <2>1, <3>1, <3>3, EmptySeq
  <2>3. durationE' \in [0 .. Slots - 1 -> Nat] /\ Slots \in Nat
    BY <2>1, TimingConstants DEF Zeros
  <2>4. Stored(durationE', Current', i')
    BY <2>1, <2>2, NothingStored
  <2>5. serialMed' = TrueMedian(measured'[1])
    BY <2>1 DEF RunsInv
  <2> QED
    BY <2>1, <2>2, <2>3, <2>4, <2>5 DEF RunsInv
<1>8. CASE Compare
  <2>1. /\ UNCHANGED <<line, serialMed, report, measured>> /\ pc = "compare"
        /\ pc' \in {"dangling", "threads", "spinning"} /\ tc > 1
    BY <1>8 DEF Compare, NextTest, CountersInv
  <2> QED
    BY <2>1 DEF RunsInv
<1>9. CASE EndThreads
  <2>1. /\ UNCHANGED <<line, serialMed, report, measured>> /\ pc' \in {"dangling", "list"}
    BY <1>9 DEF EndThreads, results
  <2> QED
    BY <2>1 DEF RunsInv
<1>10. CASE Spin
  BY <1>10 DEF Spin, RunsInv, results
<1>11. CASE UNCHANGED vars
  <2>1. UNCHANGED <<line, tc, i, durationE, serialMed, report, measured, pc>>
    BY <1>11 DEF vars, results
  <2>2. Current' = Current
    BY <2>1 DEF Current
  <2> QED
    BY <2>1, <2>2 DEF RunsInv
<1> QED
  BY <1>1, <1>2, <1>3, <1>4, <1>5, <1>6, <1>7, <1>8, <1>9, <1>10, <1>11 DEF Next

\* The last line reported stays true until the next runs begin.
LEMMA MediansKept ==
  ASSUME CountersInv, RunsInv, MediansTrue, [Next]_vars
  PROVE  MediansTrue'
<1>1. CASE Summarise
  <2> DEFINE r == [line |-> line, tc |-> tc, med |-> Median(durationE', nRuns),
                   base |-> serialMed']
  <2>1. report' = Append(report, r) /\ measured' = measured
    BY <1>1 DEF Summarise
  <2>2. /\ r.base = TrueMedian(measured[1])
        /\ r.med = TrueMedian(measured[IF r.tc = 1 THEN 1 ELSE 2])
    BY <1>1, SummariseMedians DEF Current
  <2>3. r \in Reports
    <3>1. tc \in Nat
      BY <1>1 DEF Summarise, CountersInv
    <3> QED
      BY <1>1, <3>1, SummariseMedians DEF Reports, RunsInv
  <2> HIDE DEF r
  <2>4. report'[Len(report')] = r
    BY <2>1, <2>3, AppendProperties DEF RunsInv
  <2> QED
    BY <2>1, <2>2, <2>4 DEF MediansTrue
<1>2. CASE ReadParameters
  <2>1. pc = "header" /\ report' = report /\ report = <<>>
    BY <1>2 DEF ReadParameters, results, RunsInv
  <2> QED
    BY <2>1 DEF MediansTrue
<1>3. CASE EndOfList \/ RefuseMatrix \/ StartRun \/ NextMatrix \/ NoRuns \/ EndRun \/ NextThreads
  <2>1. pc' \notin {"threads", "compare", "list"}
    BY <1>3 DEF EndOfList, RefuseMatrix, StartRun, NextMatrix, NoRuns, EndRun, NextThreads
  <2> QED
    BY <2>1 DEF MediansTrue
<1>4. CASE Solve \/ Factor
  <2>1. pc' = "kernel"
    BY <1>4 DEF Solve, Factor
  <2> QED
    BY <2>1 DEF MediansTrue
<1>5. CASE Compare \/ EndThreads \/ Spin \/ UNCHANGED vars
  <2>1. /\ UNCHANGED <<report, line, measured>>
        /\ pc' \in {"threads", "compare", "list"} => pc \in {"threads", "compare", "list"}
    BY <1>5 DEF Compare, EndThreads, Spin, NextTest, vars, results
  <2> QED
    BY <2>1 DEF MediansTrue
<1> QED
  BY <1>1, <1>2, <1>3, <1>4, <1>5 DEF Next

\* ForwardSolveCSC.cc:110-128 and the mains alike: the medians printed, and the
\* sequential one the ratios are taken to, are those of the line's own runs.
THEOREM MediansAreTrue == Spec => []MediansTrue
<1>1. Init => CountersInv /\ RunsInv /\ MediansTrue
  <2> SUFFICES ASSUME Init PROVE CountersInv /\ RunsInv /\ MediansTrue
    OBVIOUS
  <2>1. CountersInv
    BY TimingConstants DEF Init, CountersInv
  <2>2. RunsInv
    <3>1. <<>> \in Seq(Durations) /\ <<>> \in Seq(Reports)
      BY EmptySeq
    <3>2. pc = "header" /\ line = 0 /\ serialMed = 0 /\ report = <<>>
      BY DEF Init
    <3>3. measured \in Seq(Durations) \X Seq(Durations)
      BY <3>1 DEF Init
    <3> QED
      BY <3>1, <3>2, <3>3 DEF RunsInv
  <2>3. MediansTrue
    BY DEF Init, MediansTrue
  <2> QED
    BY <2>1, <2>2, <2>3
<1>2. CountersInv /\ [Next]_vars => CountersInv'
  BY CountersKept
<1>3. CountersInv /\ RunsInv /\ [Next]_vars => RunsInv'
  BY RunsKept
<1>4. CountersInv /\ RunsInv /\ MediansTrue /\ [Next]_vars => MediansTrue'
  BY MediansKept
<1> QED
  BY <1>1, <1>2, <1>3, <1>4, PTL DEF Spec

-----------------------------------------------------------------------------
(***************************************************************************)
(* A forward solve ends in ones.  B[p] is the right-hand side before the   *)
(* entry at position p is added to it.  The solve takes the entries away   *)
(* again in the same order: when it comes to column j, row r >= j holds    *)
(* what the entries from ptr[j] on add to it, and the only one of those in *)
(* row j is the diagonal.                                                  *)
(***************************************************************************)
Arrays(A) == [Rows(A) -> Int]
Size(A) == A.ptr[A.n]

Sums(A) ==
  {B \in [0 .. Size(A) -> Arrays(A)] :
     /\ B[0] = [r \in Rows(A) |-> 0]
     /\ \A p \in 1 .. Size(A) : B[p] = Added(A, B[p - 1], p - 1)}

\* Positions and rows are numbers, and so are the entries.
LEMMA NumberFacts ==
  ASSUME NEW A, LowerTriangular(A), Numbers(A)
  PROVE  /\ A.n \in Nat \ {0} /\ Size(A) \in Nat /\ A.ptr[0] = 0 /\ A.ptr[A.n] = Size(A)
         /\ \A p \in 1 .. Size(A) : /\ p \in 0 .. Size(A) /\ p - 1 \in 0 .. Size(A)
                                    /\ p - 1 \in Positions(A)
         /\ \A p \in Positions(A) : A.idx[p] \in Rows(A) /\ A.val[p] \in Int
         /\ \A j \in Rows(A) : /\ j \in Nat /\ j \in 0 .. A.n /\ j + 1 \in 0 .. A.n /\ j + 1 \in 1 .. A.n
                               /\ A.ptr[j] \in Positions(A) /\ A.ptr[j] \in Nat
                               /\ A.ptr[j + 1] \in Nat /\ A.ptr[j] < A.ptr[j + 1]
                               /\ A.ptr[j + 1] <= Size(A)
                               /\ A.idx[A.ptr[j]] = j /\ A.val[A.ptr[j]] \in {1, -1}
         /\ \A j \in Rows(A), p \in Positions(A) : A.ptr[j] < p => j < A.idx[p]
<1>1. /\ A.n \in Nat \ {0} /\ Size(A) \in Nat /\ A.ptr[0] = 0
      /\ A.idx \in [Positions(A) -> Rows(A)] /\ A.val \in [Positions(A) -> Int]
      /\ Positions(A) = 0 .. Size(A) - 1
  BY PtrFacts DEF LowerTriangular, IsCSC, Numbers, Size, Positions
<1>2. ASSUME NEW p \in 1 .. Size(A)
      PROVE  p \in 0 .. Size(A) /\ p - 1 \in 0 .. Size(A) /\ p - 1 \in Positions(A)
  BY <1>1
<1>3. ASSUME NEW j \in Rows(A)
      PROVE  /\ j \in Nat /\ j \in 0 .. A.n /\ j + 1 \in 0 .. A.n /\ j + 1 \in 1 .. A.n
             /\ A.ptr[j] \in Positions(A) /\ A.ptr[j] \in Nat
             /\ A.ptr[j + 1] \in Nat /\ A.ptr[j] < A.ptr[j + 1] /\ A.ptr[j + 1] <= Size(A)
  <2>1. j \in Nat /\ j \in 0 .. A.n /\ j + 1 \in 0 .. A.n /\ j + 1 \in 1 .. A.n /\ j < j + 1
    BY <1>1 DEF Rows
  <2> QED
    BY <2>1, PtrFacts, ColumnFacts DEF Size
<1>4. \A j \in Rows(A) : A.idx[A.ptr[j]] = j /\ A.val[A.ptr[j]] \in {1, -1}
  BY DEF Numbers
<1>5. \A j \in Rows(A), p \in Positions(A) : A.ptr[j] < p => j < A.idx[p]
  BY <1>3 DEF LowerTriangular, Triangularity
<1> QED
  BY <1>1, <1>2, <1>3, <1>4, <1>5 DEF Size

\* What one step of either loop does to an array.
LEMMA StepFacts ==
  ASSUME NEW A, LowerTriangular(A), Numbers(A), NEW v \in Arrays(A), NEW j \in Rows(A),
         NEW p \in Positions(A)
  PROVE  /\ Added(A, v, p) \in Arrays(A) /\ Divided(A, v, j) \in Arrays(A)
         /\ Subtracted(A, v, j, p) \in Arrays(A)
         /\ \A r \in Rows(A) :
              /\ v[r] \in Int
              /\ Added(A, v, p)[r] = IF r = A.idx[p] THEN v[r] + A.val[p] ELSE v[r]
              /\ Divided(A, v, j)[r] = IF r = j THEN v[j] * A.val[A.ptr[j]] ELSE v[r]
              /\ Subtracted(A, v, j, p)[r] =
                   IF r = A.idx[p] THEN v[r] - A.val[p] * v[j] ELSE v[r]
<1>1. A.idx[p] \in Rows(A) /\ A.val[p] \in Int /\ A.val[A.ptr[j]] \in Int
  BY NumberFacts
<1>2. v \in [Rows(A) -> Int]
  BY DEF Arrays
<1>3. v[j] \in Int /\ v[A.idx[p]] \in Int
  BY <1>1, <1>2
<1>4. /\ v[A.idx[p]] + A.val[p] \in Int /\ v[j] * A.val[A.ptr[j]] \in Int
      /\ v[A.idx[p]] - A.val[p] * v[j] \in Int
  BY <1>1, <1>3
<1> QED
  BY <1>1, <1>2, <1>4 DEF Added, Divided, Subtracted, Arrays

\* rhsInit's loop.
LEMMA RhsSums ==
  ASSUME NEW A, LowerTriangular(A), Numbers(A), NEW b
  PROVE  \E B \in Sums(A) : rhsInit(A, b) = B[Size(A)]
<1> DEFINE N == Size(A)
           V == Arrays(A)
           z == [r \in Rows(A) |-> 0]
           S == [p \in 1 .. N |-> [v \in V |-> Added(A, v, p - 1)]]
           Q(g) == g = [p \in 0 .. N |-> IF p = 0 THEN z ELSE Added(A, g[p - 1], p - 1)]
<1>1. N \in Nat /\ \A p \in 1 .. N : p \in 0 .. N /\ p - 1 \in 0 .. N /\ p - 1 \in Positions(A)
  BY NumberFacts
<1>2. z \in V
  BY DEF Arrays
<1>3. 0 \in Rows(A)
  BY NumberFacts DEF Rows
<1>4. \A p \in 1 .. N : \A v \in V : Added(A, v, p - 1) \in V
  BY <1>1, <1>3, StepFacts
<1> HIDE DEF N, V, z
<1>5. S \in Steps(N, V)
  BY <1>4 DEF Steps
<1>6. \A p \in 1 .. N : \A v \in V : S[p][v] = Added(A, v, p - 1)
  OBVIOUS
<1> HIDE DEF S
<1>7. PICK f \in [0 .. N -> V] : f[0] = z /\ \A p \in 1 .. N : f[p] = S[p][f[p - 1]]
  <2>1. Iterates(N, V, z, S) # {}
    BY <1>1, <1>2, <1>5, Recursion
  <2> QED
    BY <2>1 DEF Iterates
<1>8. \A p \in 1 .. N : f[p] = Added(A, f[p - 1], p - 1)
  BY <1>1, <1>6, <1>7
<1>9. Q(f)
  <2> DEFINE next(p) == IF p = 0 THEN z ELSE Added(A, f[p - 1], p - 1)
  <2>1. ASSUME NEW p \in 0 .. N PROVE f[p] = next(p)
    <3>1. p = 0 \/ p \in 1 .. N
      BY <1>1
    <3> QED
      BY <3>1, <1>1, <1>7, <1>8
  <2> HIDE DEF next
  <2>2. f = [p \in 0 .. N |-> next(p)]
    BY <2>1, <1>7
  <2> QED
    BY <2>2 DEF next
<1> DEFINE h == CHOOSE g : Q(g)
<1>10. Q(h)
  <2> HIDE DEF Q
  <2> QED
    BY <1>9
<1>11. rhsInit(A, b) = h[N]
  BY DEF rhsInit, Accumulated, N, Size, z
<1> HIDE DEF h
<1>12. \A p \in 0 .. N : h[p] = f[p]
  <2> DEFINE P == {p \in 0 .. N : h[p] = f[p]}
  <2>1. 0 \in P
    <3>1. 0 \in 0 .. N
      BY <1>1
    <3> QED
      BY <3>1, <1>9, <1>10, Zenon
  <2>2. ASSUME NEW p \in 1 .. N, p - 1 \in P PROVE p \in P
    <3>1. p \in 0 .. N /\ p # 0 /\ h[p - 1] = f[p - 1]
      BY <2>2, <1>1
    <3> QED
      BY <3>1, <1>9, <1>10, Zenon
  <2> HIDE DEF P
  <2>3. \A p \in 1 .. N : p - 1 \in P => p \in P
    BY <2>2
  <2>4. \A p \in 0 .. N : p \in P
    BY <1>1, <2>1, <2>3, Induct
  <2> QED
    BY <2>4 DEF P
<1>13. f \in Sums(A)
  BY <1>7, <1>8 DEF Sums, N, V, z
<1>14. N \in 0 .. N
  BY <1>1
<1> QED
  BY <1>11, <1>12, <1>13, <1>14 DEF N

\* The steps of a column: after k entries.
Columns(A, v, j) ==
  {w \in [0 .. A.ptr[j + 1] - A.ptr[j] -> Arrays(A)] :
     /\ w[0] = Divided(A, v, j)
     /\ \A k \in 1 .. A.ptr[j + 1] - A.ptr[j] :
          w[k] = IF k = 1 THEN w[k - 1] ELSE Subtracted(A, w[k - 1], j, A.ptr[j] + k - 1)}

\* The inner loop of lsolve.
LEMMA ColumnSteps ==
  ASSUME NEW A, LowerTriangular(A), Numbers(A), NEW j \in Rows(A), NEW v \in Arrays(A)
  PROVE  \E w \in Columns(A, v, j) : SolveColumn(A, v, j) = w[A.ptr[j + 1] - A.ptr[j]]
<1> DEFINE N == A.ptr[j + 1] - A.ptr[j]
           V == Arrays(A)
           z == Divided(A, v, j)
           step(k, u) == IF k = 1 THEN u ELSE Subtracted(A, u, j, A.ptr[j] + k - 1)
           S == [k \in 1 .. N |-> [u \in V |-> step(k, u)]]
           Q(g) == g = [k \in 0 .. N |->
                          IF k = 0 THEN z ELSE IF k = 1 THEN g[k - 1]
                          ELSE Subtracted(A, g[k - 1], j, A.ptr[j] + k - 1)]
<1>1. /\ N \in Nat
      /\ \A k \in 1 .. N : /\ k \in 0 .. N /\ k - 1 \in 0 .. N
                           /\ A.ptr[j] + k - 1 \in Positions(A)
  <2>1. A.ptr[j] \in Nat /\ A.ptr[j + 1] \in Nat /\ A.ptr[j] < A.ptr[j + 1]
        /\ A.ptr[j + 1] <= Size(A) /\ Size(A) \in Nat /\ Positions(A) = 0 .. Size(A) - 1
    BY NumberFacts DEF Positions, Size
  <2> QED
    BY <2>1
<1>2. z \in V
  BY NumberFacts, StepFacts
<1>4. \A k \in 1 .. N : \A u \in V : step(k, u) \in V
  BY <1>1, StepFacts
<1> HIDE DEF N, V, z, step
<1>5. S \in Steps(N, V)
  BY <1>4 DEF Steps
<1>6. \A k \in 1 .. N : \A u \in V : S[k][u] = step(k, u)
  OBVIOUS
<1> HIDE DEF S
<1>7. PICK f \in [0 .. N -> V] : f[0] = z /\ \A k \in 1 .. N : f[k] = S[k][f[k - 1]]
  <2>1. Iterates(N, V, z, S) # {}
    BY <1>1, <1>2, <1>5, Recursion
  <2> QED
    BY <2>1 DEF Iterates
<1>8. \A k \in 1 .. N : f[k] = step(k, f[k - 1])
  BY <1>1, <1>6, <1>7
<1>9. Q(f)
  <2> DEFINE next(k) == IF k = 0 THEN z ELSE IF k = 1 THEN f[k - 1]
                        ELSE Subtracted(A, f[k - 1], j, A.ptr[j] + k - 1)
  <2>1. ASSUME NEW k \in 0 .. N PROVE f[k] = next(k)
    <3>1. k = 0 \/ k \in 1 .. N
      BY <1>1
    <3>2. k \in 1 .. N => k # 0
      OBVIOUS
    <3> QED
      BY <3>1, <3>2, <1>7, <1>8, Zenon DEF step
  <2> HIDE DEF next
  <2>2. f = [k \in 0 .. N |-> next(k)]
    BY <2>1, <1>7
  <2> QED
    BY <2>2 DEF next
<1> DEFINE h == CHOOSE g : Q(g)
<1>10. Q(h)
  <2> HIDE DEF Q
  <2> QED
    BY <1>9
<1>11. SolveColumn(A, v, j) = h[N]
  BY DEF SolveColumn, N, z
<1> HIDE DEF h
<1>12. \A k \in 0 .. N : h[k] = f[k]
  <2> DEFINE P == {k \in 0 .. N : h[k] = f[k]}
  <2>1. 0 \in P
    <3>1. 0 \in 0 .. N
      BY <1>1
    <3> QED
      BY <3>1, <1>9, <1>10, Zenon
  <2>2. ASSUME NEW k \in 1 .. N, k - 1 \in P PROVE k \in P
    <3>1. k \in 0 .. N /\ k # 0 /\ h[k - 1] = f[k - 1]
      BY <2>2, <1>1
    <3> QED
      BY <3>1, <1>9, <1>10, Zenon
  <2> HIDE DEF P
  <2>3. \A k \in 1 .. N : k - 1 \in P => k \in P
    BY <2>2
  <2>4. \A k \in 0 .. N : k \in P
    BY <1>1, <2>1, <2>3, Induct
  <2> QED
    BY <2>4 DEF P
<1>13. f \in Columns(A, v, j)
  BY <1>7, <1>8 DEF Columns, N, V, z, step
<1>14. N \in 0 .. N
  BY <1>1
<1> QED
  BY <1>11, <1>12, <1>13, <1>14 DEF N

\* Row r of the right-hand side, from position p on.
Rest(A, B, p, r) == B[Size(A)][r] - B[p][r]

\* The solve before column j.
SolvedTo(A, B, v, j) ==
  \A r \in Rows(A) : v[r] = IF r < j THEN 1 ELSE Rest(A, B, A.ptr[j], r)

\* An entry counts in its row only.
LEMMA RestStep ==
  ASSUME NEW A, LowerTriangular(A), Numbers(A), NEW B \in Sums(A), NEW p \in Positions(A),
         NEW r \in Rows(A)
  PROVE  /\ p + 1 \in 0 .. Size(A)
         /\ Rest(A, B, p, r) \in Int /\ Rest(A, B, p + 1, r) \in Int
         /\ Rest(A, B, p + 1, r) = IF r = A.idx[p] THEN Rest(A, B, p, r) - A.val[p]
                                                   ELSE Rest(A, B, p, r)
<1>1. p + 1 \in 1 .. Size(A) /\ p \in 0 .. Size(A) /\ p + 1 \in 0 .. Size(A)
      /\ (p + 1) - 1 = p /\ Size(A) \in 0 .. Size(A)
  BY NumberFacts DEF Positions, Size
<1>2. B[p] \in Arrays(A) /\ B[p + 1] \in Arrays(A) /\ B[Size(A)] \in Arrays(A)
  BY <1>1 DEF Sums
<1>3. B[p + 1] = Added(A, B[p], p)
  BY <1>1 DEF Sums
<1>4. B[p + 1][r] = IF r = A.idx[p] THEN B[p][r] + A.val[p] ELSE B[p][r]
  BY <1>2, <1>3, StepFacts
<1>5. B[p][r] \in Int /\ B[p + 1][r] \in Int /\ B[Size(A)][r] \in Int /\ A.val[p] \in Int
  BY <1>2, NumberFacts DEF Arrays
<1> QED
  BY <1>1, <1>4, <1>5 DEF Rest

\* The entries after the diagonal's do not count in its row.
LEMMA RestOfRow ==
  ASSUME NEW A, LowerTriangular(A), Numbers(A), NEW B \in Sums(A), NEW j \in Rows(A)
  PROVE  Rest(A, B, A.ptr[j], j) = A.val[A.ptr[j]]
<1> DEFINE N == Size(A) - (A.ptr[j] + 1)
           P == {k \in 0 .. N : Rest(A, B, Size(A) - k, j) = 0}
<1>1. /\ A.ptr[j] \in Positions(A) /\ A.ptr[j] \in Nat /\ Size(A) \in Nat
      /\ A.ptr[j] + 1 <= Size(A) /\ Positions(A) = 0 .. Size(A) - 1
      /\ A.idx[A.ptr[j]] = j /\ A.val[A.ptr[j]] \in Int
  BY NumberFacts DEF Positions, Size
<1>2. N \in Nat
  BY <1>1
<1>3. 0 \in P
  <2>1. B[Size(A)] \in Arrays(A)
    BY <1>1 DEF Sums
  <2>2. B[Size(A)][j] \in Int
    BY <2>1 DEF Arrays
  <2>3. Size(A) - 0 = Size(A)
    BY <1>1
  <2> QED
    BY <1>2, <2>2, <2>3 DEF Rest
<1>4. ASSUME NEW k \in 1 .. N, k - 1 \in P PROVE k \in P
  <2> DEFINE p == Size(A) - k
  <2>1. p \in Positions(A) /\ A.ptr[j] < p /\ p + 1 = Size(A) - (k - 1) /\ k \in 0 .. N
    BY <1>1
  <2>2. j < A.idx[p] /\ A.idx[p] # j
    BY <2>1, NumberFacts DEF Rows
  <2> QED
    BY <2>1, <2>2, <1>4, RestStep
<1> HIDE DEF P
<1>5. \A k \in 1 .. N : k - 1 \in P => k \in P
  BY <1>4
<1>6. N \in P
  <2>1. \A k \in 0 .. N : k \in P
    BY <1>2, <1>3, <1>5, Induct
  <2> QED
    BY <2>1, <1>2
<1>7. Rest(A, B, A.ptr[j] + 1, j) = 0
  <2>1. Size(A) - N = A.ptr[j] + 1
    BY <1>1
  <2> QED
    BY <2>1, <1>6 DEF P
<1> QED
  BY <1>1, <1>7, RestStep

\* One column of the solve.
LEMMA ColumnSolved ==
  ASSUME NEW A, LowerTriangular(A), Numbers(A), NEW B \in Sums(A), NEW j \in Rows(A),
         NEW v \in Arrays(A), SolvedTo(A, B, v, j)
  PROVE  SolveColumn(A, v, j) \in Arrays(A) /\ SolvedTo(A, B, SolveColumn(A, v, j), j + 1)
<1> DEFINE N == A.ptr[j + 1] - A.ptr[j]
<1>1. PICK w \in Columns(A, v, j) : SolveColumn(A, v, j) = w[N]
  BY ColumnSteps
<1>2. /\ w \in [0 .. N -> Arrays(A)] /\ w[0] = Divided(A, v, j)
      /\ \A k \in 1 .. N :
           w[k] = IF k = 1 THEN w[k - 1] ELSE Subtracted(A, w[k - 1], j, A.ptr[j] + k - 1)
  BY DEF Columns
<1>3. /\ A.ptr[j] \in Positions(A) /\ A.ptr[j] \in Nat /\ Size(A) \in Nat
      /\ A.ptr[j + 1] \in Nat /\ A.ptr[j] < A.ptr[j + 1] /\ A.ptr[j + 1] <= Size(A)
      /\ Positions(A) = 0 .. Size(A) - 1 /\ j \in Nat
      /\ A.idx[A.ptr[j]] = j /\ A.val[A.ptr[j]] \in {1, -1}
      /\ \A r \in Rows(A) : r \in Nat
  BY NumberFacts DEF Positions, Size
<1>4. N \in Nat /\ 1 <= N
  BY <1>3
<1> DEFINE holds(k) == \A r \in Rows(A) :
                         w[k][r] = IF r <= j THEN 1 ELSE Rest(A, B, A.ptr[j] + k, r)
           P == {k \in 0 .. N : k > 0 => holds(k)}
<1>5. holds(1)
  <2>1. w[1] = Divided(A, v, j)
    <3>1. 1 \in 1 .. N /\ 1 - 1 = 0
      BY <1>4
    <3> QED
      BY <3>1, <1>2
  <2> SUFFICES ASSUME NEW r \in Rows(A)
               PROVE  w[1][r] = IF r <= j THEN 1 ELSE Rest(A, B, A.ptr[j] + 1, r)
    OBVIOUS
  <2>2. w[1][r] = IF r = j THEN v[j] * A.val[A.ptr[j]] ELSE v[r]
    BY <2>1, <1>3, StepFacts
  <2>3. v[j] = A.val[A.ptr[j]]
    BY <1>3, RestOfRow DEF SolvedTo
  <2>4. v[r] = IF r < j THEN 1 ELSE Rest(A, B, A.ptr[j], r)
    BY DEF SolvedTo
  <2>5. r # j => Rest(A, B, A.ptr[j] + 1, r) = Rest(A, B, A.ptr[j], r)
    BY <1>3, RestStep
  <2>6. v[j] * A.val[A.ptr[j]] = 1
    BY <2>3, <1>3
  <2> QED
    BY <2>2, <2>4, <2>5, <2>6, <1>3
<1>6. ASSUME NEW k \in 1 .. N, k > 1, holds(k - 1) PROVE holds(k)
  <2> DEFINE p == A.ptr[j] + k - 1
  <2>1. p \in Positions(A) /\ A.ptr[j] < p /\ p = A.ptr[j] + (k - 1) /\ p + 1 = A.ptr[j] + k
        /\ k - 1 \in 0 .. N /\ k # 1
    BY <1>3, <1>6
  <2>2. j < A.idx[p] /\ A.idx[p] \in Rows(A) /\ A.val[p] \in Int
    BY <2>1, NumberFacts
  <2>3. w[k - 1] \in Arrays(A) /\ w[k] = Subtracted(A, w[k - 1], j, p)
    BY <2>1, <1>2
  <2>4. w[k - 1][j] = 1
    BY <1>3, <1>6
  <2> SUFFICES ASSUME NEW r \in Rows(A)
               PROVE  w[k][r] = IF r <= j THEN 1 ELSE Rest(A, B, A.ptr[j] + k, r)
    OBVIOUS
  <2>5. w[k][r] = IF r = A.idx[p] THEN w[k - 1][r] - A.val[p] * w[k - 1][j] ELSE w[k - 1][r]
    BY <2>1, <2>3, StepFacts
  <2>6. A.val[p] * w[k - 1][j] = A.val[p]
    BY <2>2, <2>4
  <2>7. w[k - 1][r] = IF r <= j THEN 1 ELSE Rest(A, B, p, r)
    BY <1>6, <2>1
  <2>8. Rest(A, B, p + 1, r) = IF r = A.idx[p] THEN Rest(A, B, p, r) - A.val[p]
                                               ELSE Rest(A, B, p, r)
    BY <2>1, RestStep
  <2> HIDE DEF p
  <2> QED
    BY <2>1, <2>2, <2>5, <2>6, <2>7, <2>8, <1>3
<1>7. holds(N)
  <2>1. 0 \in P
    BY <1>4
  <2>2. ASSUME NEW k \in 1 .. N, k - 1 \in P PROVE k \in P
    <3>1. k \in 0 .. N
      BY <1>4
    <3>2. CASE k = 1
      BY <3>1, <3>2, <1>5
    <3>3. CASE k # 1
      <4>1. k > 1 /\ k - 1 > 0
        BY <3>3
      <4>2. holds(k - 1)
        <5> HIDE DEF holds
        <5> QED
          BY <4>1, <2>2
      <4>3. holds(k)
        <5> HIDE DEF holds
        <5> QED
          BY <4>1, <4>2, <1>6
      <4> HIDE DEF holds
      <4> QED
        BY <3>1, <4>3
    <3> QED
      BY <3>2, <3>3
  <2> HIDE DEF P
  <2>3. \A k \in 1 .. N : k - 1 \in P => k \in P
    BY <2>2
  <2>4. \A k \in 0 .. N : k \in P
    BY <1>4, <2>1, <2>3, Induct
  <2> HIDE DEF holds
  <2> QED
    BY <2>4, <1>4 DEF P
<1>8. SolveColumn(A, v, j) \in Arrays(A)
  BY <1>1, <1>2, <1>4
<1>9. A.ptr[j] + N = A.ptr[j + 1] /\ \A r \in Rows(A) : r <= j <=> r < j + 1
  BY <1>3
<1> HIDE DEF N
<1> QED
  BY <1>1, <1>7, <1>8, <1>9 DEF SolvedTo

\* All columns of the solve.
LEMMA SolveGivesOnes ==
  ASSUME NEW A, LowerTriangular(A), Numbers(A), NEW b
  PROVE  \A r \in Rows(A) : lsolve(A, rhsInit(A, b))[r] = 1
<1>1. PICK B \in Sums(A) : rhsInit(A, b) = B[Size(A)]
  BY RhsSums
<1> DEFINE N == A.n
           z == B[Size(A)]
           Q(g) == g = [j \in 0 .. N |-> IF j = 0 THEN z ELSE SolveColumn(A, g[j - 1], j - 1)]
<1>2. /\ N \in Nat /\ N > 0 /\ Size(A) \in Nat /\ A.ptr[0] = 0
      /\ \A j \in 1 .. N : j \in 0 .. N /\ j - 1 \in Rows(A) /\ (j - 1) + 1 = j
  BY NumberFacts DEF Rows
<1>3. z \in Arrays(A) /\ SolvedTo(A, B, z, 0)
  <2>1. B \in [0 .. Size(A) -> Arrays(A)] /\ B[0] = [r \in Rows(A) |-> 0]
    BY DEF Sums
  <2>2. z \in Arrays(A)
    BY <2>1, <1>2
  <2>3. ASSUME NEW r \in Rows(A) PROVE z[r] = Rest(A, B, 0, r) /\ ~ (r < 0)
    <3>1. z[r] \in Int /\ r \in Nat
      BY <2>2, NumberFacts DEF Arrays
    <3> QED
      BY <3>1, <2>1 DEF Rest
  <2> QED
    BY <2>2, <2>3, <1>2 DEF SolvedTo
<1> DEFINE T == Arrays(A)
           step(j, v) == IF SolvedTo(A, B, v, j - 1) THEN SolveColumn(A, v, j - 1) ELSE v
           S == [j \in 1 .. N |-> [v \in T |-> step(j, v)]]
<1>4. \A j \in 1 .. N : \A v \in T : step(j, v) \in T
  BY <1>2, ColumnSolved
<1> HIDE DEF N, z, T, step
<1>5. S \in Steps(N, T)
  BY <1>4 DEF Steps
<1>6. \A j \in 1 .. N : \A v \in T : S[j][v] = step(j, v)
  OBVIOUS
<1> HIDE DEF S
<1>7. PICK f \in [0 .. N -> T] : f[0] = z /\ \A j \in 1 .. N : f[j] = S[j][f[j - 1]]
  <2>1. Iterates(N, T, z, S) # {}
    BY <1>2, <1>3, <1>5, Recursion DEF T
  <2> QED
    BY <2>1 DEF Iterates
<1>8. \A j \in 0 .. N : SolvedTo(A, B, f[j], j)
  <2> DEFINE P == {j \in 0 .. N : SolvedTo(A, B, f[j], j)}
  <2>1. 0 \in P
    BY <1>2, <1>3, <1>7
  <2>2. ASSUME NEW j \in 1 .. N, j - 1 \in P PROVE j \in P
    <3>1. /\ j \in 0 .. N /\ j - 1 \in 0 .. N /\ j - 1 \in Rows(A) /\ (j - 1) + 1 = j
          /\ SolvedTo(A, B, f[j - 1], j - 1) /\ f[j - 1] \in Arrays(A)
      BY <2>2, <1>2, <1>7 DEF T
    <3>2. f[j] = SolveColumn(A, f[j - 1], j - 1)
      BY <3>1, <1>6, <1>7 DEF step, T
    <3>3. SolvedTo(A, B, f[j], (j - 1) + 1)
      BY <3>1, <3>2, ColumnSolved
    <3> QED
      BY <3>1, <3>3
  <2> HIDE DEF P
  <2>3. \A j \in 1 .. N : j - 1 \in P => j \in P
    BY <2>2
  <2>4. \A j \in 0 .. N : j \in P
    BY <1>2, <2>1, <2>3, Induct
  <2> QED
    BY <2>4 DEF P
<1>9. \A j \in 1 .. N : f[j] = SolveColumn(A, f[j - 1], j - 1)
  <2> TAKE j \in 1 .. N
  <2>1. j - 1 \in 0 .. N /\ f[j - 1] \in T
    BY <1>2, <1>7
  <2> QED
    BY <2>1, <1>6, <1>7, <1>8 DEF step
<1>10. Q(f)
  <2> DEFINE next(j) == IF j = 0 THEN z ELSE SolveColumn(A, f[j - 1], j - 1)
  <2>1. ASSUME NEW j \in 0 .. N PROVE f[j] = next(j)
    <3>1. j = 0 \/ j \in 1 .. N
      BY <1>2
    <3>2. j \in 1 .. N => j # 0
      OBVIOUS
    <3> QED
      BY <3>1, <3>2, <1>7, <1>9, Zenon
  <2> HIDE DEF next
  <2>2. f = [j \in 0 .. N |-> next(j)]
    BY <2>1, <1>7
  <2> QED
    BY <2>2 DEF next
<1> DEFINE h == CHOOSE g : Q(g)
<1>11. Q(h)
  <2> HIDE DEF Q
  <2> QED
    BY <1>10
<1>12. lsolve(A, rhsInit(A, b)) = h[N]
  BY <1>1 DEF lsolve, N, z
<1> HIDE DEF h
<1>13. \A j \in 0 .. N : h[j] = f[j]
  <2> DEFINE P == {j \in 0 .. N : h[j] = f[j]}
  <2>1. 0 \in P
    <3>1. 0 \in 0 .. N
      BY <1>2
    <3> QED
      BY <3>1, <1>10, <1>11, Zenon
  <2>2. ASSUME NEW j \in 1 .. N, j - 1 \in P PROVE j \in P
    <3>1. j \in 0 .. N /\ j # 0 /\ h[j - 1] = f[j - 1]
      BY <2>2, <1>2
    <3> QED
      BY <3>1, <1>10, <1>11, Zenon
  <2> HIDE DEF P
  <2>3. \A j \in 1 .. N : j - 1 \in P => j \in P
    BY <2>2
  <2>4. \A j \in 0 .. N : j \in P
    BY <1>2, <2>1, <2>3, Induct
  <2> QED
    BY <2>4 DEF P
<1>14. N \in 0 .. N /\ \A r \in Rows(A) : r < N
  BY <1>2, NumberFacts DEF Rows, N
<1> QED
  BY <1>8, <1>12, <1>13, <1>14 DEF SolvedTo

\* A line with a lower triangular matrix.
LowerLine(k) ==
  k \in DOMAIN list /\ list[k] \notin {Blank, Unreadable} /\ LowerTriangular(list[k])

SolvesInv ==
  /\ list \in Lists
  /\ program = "solve" =>
       /\ \A c \in complaints : ~ LowerLine(c[1])
       /\ LowerLine(line) /\ pc = "kernel" /\ l > 0 =>
            \A v \in x, r \in Rows(Matrix) : v[r] = 1

\* ForwardSolveCSC.cc:88-92: rhsInit, lsolve and the test.
LEMMA SolvesKept ==
  ASSUME CountersInv, SolvesInv, [Next]_vars
  PROVE  SolvesInv'
<1> USE DEF SolvesInv, LowerLine, Matrix
<1>1. CASE ReadParameters \/ NextMatrix \/ EndOfList \/ RefuseMatrix \/ NoRuns \/ Summarise
           \/ NextThreads \/ EndThreads \/ EndRun \/ Spin
  BY <1>1 DEF ReadParameters, NextMatrix, EndOfList, RefuseMatrix, NoRuns, Summarise,
              NextThreads, EndThreads, EndRun, Spin, NextTest, inputs, results
<1>2. CASE StartRun
  BY <1>2 DEF StartRun, inputs, results
<1>3. CASE Solve
  <2>1. /\ program = "solve" /\ list' = list /\ program' = program /\ line' = line
        /\ x' = {lsolve(Matrix, rhsInit(Matrix, b)) : b \in x}
        /\ complaints' = IF \A v \in x' : testTriangular(Matrix, v) THEN complaints
                         ELSE complaints \cup {<<line, tc>>}
    BY <1>3 DEF Solve, inputs
  <2>2. ASSUME LowerLine(line) PROVE \A v \in x', r \in Rows(Matrix) : v[r] = 1
    <3>1. LowerTriangular(Matrix) /\ Numbers(Matrix)
      BY <2>2, MatrixNumbers
    <3> QED
      BY <3>1, <2>1, SolveGivesOnes
  <2>3. LowerLine(line) => complaints' = complaints
    BY <2>1, <2>2 DEF testTriangular
  <2>4. \A c \in complaints' : ~ LowerLine(c[1])
    BY <2>1, <2>3
  <2> QED
    BY <2>1, <2>2, <2>4
<1>4. CASE Factor \/ Compare
  <2>1. program = "chol" /\ program' = program /\ list' = list
    BY <1>4 DEF Factor, Compare, CountersInv, inputs
  <2> QED
    BY <2>1
<1>5. CASE UNCHANGED vars
  BY <1>5 DEF vars, inputs, arrays, results
<1> QED
  BY <1>1, <1>2, <1>3, <1>4, <1>5 DEF Next

\* ForwardSolveCSC.cc:88-92 with triangularSolve.h: every solve of a lower
\* triangular matrix ends in ones, however many went before it in the same
\* array, and the test complains of none.
THEOREM EverySolveEndsInOnes == Spec => []SolvesEndInOnes
<1>1. Init => CountersInv /\ SolvesInv
  <2> SUFFICES ASSUME Init PROVE CountersInv /\ SolvesInv
    OBVIOUS
  <2>1. CountersInv
    BY TimingConstants DEF Init, CountersInv
  <2> QED
    BY <2>1 DEF Init, SolvesInv
<1>2. CountersInv /\ [Next]_vars => CountersInv'
  BY CountersKept
<1>3. CountersInv /\ SolvesInv /\ [Next]_vars => SolvesInv'
  BY SolvesKept
<1>4. SolvesInv => SolvesEndInOnes
  BY DEF SolvesInv, SolvesEndInOnes, LowerLine, Matrix
<1> QED
  BY <1>1, <1>2, <1>3, <1>4, PTL DEF Spec

-----------------------------------------------------------------------------
(***************************************************************************)
(* The thread counts: 1 and its doublings.                                 *)
(***************************************************************************)
Doubling(n, f) ==
  f \in [0 .. n -> Nat] /\ f[0] = 1 /\ \A k \in 1 .. n : f[k] = 2 * f[k - 1]

\* PowersOfTwo goes through the doublings.
LEMMA PowerSteps ==
  ASSUME NEW n \in Nat
  PROVE  \E f : Doubling(n, f) /\ PowersOfTwo(n) = {f[k] : k \in 0 .. n}
<1> DEFINE S == [k \in 1 .. n |-> [a \in Nat |-> 2 * a]]
           Q(g) == g = [k \in 0 .. n |-> IF k = 0 THEN 1 ELSE 2 * g[k - 1]]
<1>1. S \in Steps(n, Nat)
  BY DEF Steps
<1>2. \A k \in 1 .. n : \A a \in Nat : S[k][a] = 2 * a
  OBVIOUS
<1> HIDE DEF S
<1>3. PICK f \in [0 .. n -> Nat] : f[0] = 1 /\ \A k \in 1 .. n : f[k] = S[k][f[k - 1]]
  <2>1. Iterates(n, Nat, 1, S) # {}
    BY <1>1, Recursion
  <2> QED
    BY <2>1 DEF Iterates
<1>4. \A k \in 1 .. n : f[k] = 2 * f[k - 1]
  <2>1. \A k \in 1 .. n : k - 1 \in 0 .. n /\ f[k - 1] \in Nat
    OBVIOUS
  <2> QED
    BY <2>1, <1>2, <1>3
<1>5. Q(f)
  BY <1>3, <1>4
<1> DEFINE h == CHOOSE g : Q(g)
<1>6. Q(h)
  <2> HIDE DEF Q
  <2> QED
    BY <1>5
<1>7. PowersOfTwo(n) = {h[k] : k \in 0 .. n}
  BY DEF PowersOfTwo
<1> HIDE DEF h
<1>8. \A k \in 0 .. n : h[k] = f[k]
  <2> DEFINE P == {k \in 0 .. n : h[k] = f[k]}
  <2>1. 0 \in P
    <3>1. 0 \in 0 .. n
      OBVIOUS
    <3> QED
      BY <3>1, <1>5, <1>6, Zenon
  <2>2. ASSUME NEW k \in 1 .. n, k - 1 \in P PROVE k \in P
    <3>1. k \in 0 .. n /\ k # 0 /\ h[k - 1] = f[k - 1]
      BY <2>2
    <3> QED
      BY <3>1, <1>5, <1>6, Zenon
  <2> HIDE DEF P
  <2>3. \A k \in 1 .. n : k - 1 \in P => k \in P
    BY <2>2
  <2>4. \A k \in 0 .. n : k \in P
    BY <2>1, <2>3, Induct
  <2> QED
    BY <2>4 DEF P
<1>9. PowersOfTwo(n) = {f[k] : k \in 0 .. n}
  BY <1>7, <1>8
<1> QED
  BY <1>3, <1>4, <1>9 DEF Doubling

\* Doublings go the same way as far as they go.
LEMMA DoublingsAgree ==
  ASSUME NEW n \in Nat, NEW m \in Nat, n <= m, NEW f, NEW g, Doubling(n, f), Doubling(m, g)
  PROVE  \A k \in 0 .. n : f[k] = g[k]
<1> DEFINE P == {k \in 0 .. n : f[k] = g[k]}
<1>1. 0 \in P
  BY DEF Doubling
<1>2. ASSUME NEW k \in 1 .. n, k - 1 \in P PROVE k \in P
  <2>1. k \in 1 .. m /\ k \in 0 .. n
    OBVIOUS
  <2> QED
    BY <2>1, <1>2 DEF Doubling
<1> HIDE DEF P
<1>3. \A k \in 0 .. n : k \in P
  BY <1>1, <1>2, Induct
<1> QED
  BY <1>3 DEF P

\* Each is more than its number and at least twice every one before it.
LEMMA DoublingGrows ==
  ASSUME NEW n \in Nat, NEW f, Doubling(n, f)
  PROVE  \A b \in 0 .. n : f[b] >= b + 1 /\ \A a \in 0 .. b - 1 : 2 * f[a] <= f[b]
<1> DEFINE P == {b \in 0 .. n : f[b] >= b + 1 /\ \A a \in 0 .. b - 1 : 2 * f[a] <= f[b]}
<1>0. f \in [0 .. n -> Nat] /\ f[0] = 1 /\ \A k \in 1 .. n : f[k] = 2 * f[k - 1]
  BY DEF Doubling
<1>1. 0 \in P
  BY <1>0
<1>2. ASSUME NEW b \in 1 .. n, b - 1 \in P PROVE b \in P
  <2>1. b \in 0 .. n /\ b - 1 \in 0 .. n /\ f[b] = 2 * f[b - 1] /\ f[b - 1] \in Nat
        /\ f[b - 1] >= b
    BY <1>0, <1>2
  <2>2. ASSUME NEW a \in 0 .. b - 1 PROVE 2 * f[a] <= f[b]
    <3>1. a \in 0 .. n /\ f[a] \in Nat
      BY <1>0
    <3>2. CASE a = b - 1
      BY <3>2, <2>1
    <3>3. CASE a # b - 1
      <4>1. a \in 0 .. (b - 1) - 1
        BY <3>3
      <4>2. 2 * f[a] <= f[b - 1]
        BY <4>1, <1>2
      <4> QED
        BY <4>2, <3>1, <2>1
    <3> QED
      BY <3>2, <3>3
  <2> QED
    BY <2>1, <2>2
<1> HIDE DEF P
<1>3. \A k \in 0 .. n : k \in P
  BY <1>1, <1>2, Induct
<1> QED
  BY <1>3 DEF P

Power(t) == t \in Nat /\ t \in PowersOfTwo(t)

\* A power of two among the first n + 1 doublings.
LEMMA PowerAmong ==
  ASSUME NEW n \in Nat, NEW t, Power(t), t <= n, NEW g, Doubling(n, g)
  PROVE  t >= 1 /\ \E k \in 0 .. t : k < t /\ g[k] = t
<1>1. t \in Nat /\ t \in PowersOfTwo(t)
  BY DEF Power
<1>2. PICK f : Doubling(t, f) /\ PowersOfTwo(t) = {f[k] : k \in 0 .. t}
  BY <1>1, PowerSteps
<1>3. PICK k \in 0 .. t : f[k] = t
  BY <1>1, <1>2
<1>4. g[k] = t
  BY <1>1, <1>2, <1>3, DoublingsAgree
<1>5. f[k] >= k + 1
  BY <1>1, <1>2, DoublingGrows
<1> QED
  BY <1>1, <1>3, <1>4, <1>5

\* tc * 2: the next power, and none is between.
LEMMA PowerFacts ==
  /\ Power(1)
  /\ \A t : Power(t) => t \in Nat /\ t >= 1 /\ Power(2 * t)
  /\ \A t, u : Power(t) /\ Power(u) /\ u < 2 * t => u <= t
<1>1. Power(1)
  <2>1. PICK f : Doubling(1, f) /\ PowersOfTwo(1) = {f[k] : k \in 0 .. 1}
    BY PowerSteps
  <2>2. f[0] = 1 /\ 0 \in 0 .. 1
    BY <2>1 DEF Doubling
  <2> QED
    BY <2>1, <2>2 DEF Power
<1>2. ASSUME NEW t, Power(t) PROVE t \in Nat /\ t >= 1 /\ Power(2 * t)
  <2>1. t \in Nat
    BY <1>2 DEF Power
  <2>2. PICK g : Doubling(2 * t, g) /\ PowersOfTwo(2 * t) = {g[k] : k \in 0 .. 2 * t}
    BY <2>1, PowerSteps
  <2>3. t <= 2 * t /\ 2 * t \in Nat
    BY <2>1
  <2>4. t >= 1 /\ \E k \in 0 .. t : k < t /\ g[k] = t
    BY <1>2, <2>2, <2>3, PowerAmong
  <2>5. PICK k \in 0 .. t : k < t /\ g[k] = t
    BY <2>4
  <2>6. k + 1 \in 1 .. 2 * t /\ (k + 1) - 1 = k /\ k + 1 \in 0 .. 2 * t
    BY <2>1, <2>5
  <2>7. g[k + 1] = 2 * t
    BY <2>2, <2>5, <2>6 DEF Doubling
  <2> QED
    BY <2>1, <2>2, <2>3, <2>4, <2>6, <2>7 DEF Power
<1>3. ASSUME NEW t, NEW u, Power(t), Power(u), u < 2 * t PROVE u <= t
  <2>1. t \in Nat /\ u \in Nat /\ t + u \in Nat /\ t <= t + u /\ u <= t + u
    BY <1>3 DEF Power
  <2>2. PICK g : Doubling(t + u, g)
    BY <2>1, PowerSteps
  <2>3. PICK a \in 0 .. t : g[a] = t
    BY <1>3, <2>1, <2>2, PowerAmong
  <2>4. PICK b \in 0 .. u : g[b] = u
    BY <1>3, <2>1, <2>2, PowerAmong
  <2>5. a \in 0 .. t + u /\ b \in 0 .. t + u /\ a \in Int /\ b \in Int
    BY <2>1
  <2>6. CASE a < b
    <3>1. a \in 0 .. b - 1
      BY <2>5, <2>6
    <3>2. 2 * t <= u
      BY <3>1, <2>1, <2>2, <2>3, <2>4, <2>5, DoublingGrows
    <3> QED
      BY <3>2, <1>3, <2>1
  <2>7. CASE b < a
    <3>1. b \in 0 .. a - 1
      BY <2>5, <2>7
    <3>2. 2 * u <= t
      BY <3>1, <2>1, <2>2, <2>3, <2>4, <2>5, DoublingGrows
    <3> QED
      BY <3>2, <2>1
  <2> QED
    BY <2>1, <2>3, <2>4, <2>5, <2>6, <2>7
<1> QED
  BY <1>1, <1>2, <1>3

\* The thread counts by the numbers themselves.
LEMMA CountFacts ==
  ASSUME maxTC \in Int
  PROVE  ThreadCounts = {1} \cup {u \in 2 .. maxTC : Power(u)}
<1>1. ASSUME NEW u \in 2 .. maxTC PROVE u \in PowersOfTwo(maxTC) <=> Power(u)
  <2>1. maxTC \in Nat /\ u \in Nat /\ u <= maxTC
    BY <1>1
  <2>2. PICK g : Doubling(maxTC, g) /\ PowersOfTwo(maxTC) = {g[k] : k \in 0 .. maxTC}
    BY <2>1, PowerSteps
  <2>3. ASSUME Power(u) PROVE u \in PowersOfTwo(maxTC)
    <3>1. PICK k \in 0 .. u : g[k] = u
      BY <2>1, <2>2, <2>3, PowerAmong
    <3>2. k \in 0 .. maxTC
      BY <2>1
    <3> QED
      BY <3>1, <3>2, <2>2
  <2>4. ASSUME u \in PowersOfTwo(maxTC) PROVE Power(u)
    <3>1. PICK k \in 0 .. maxTC : g[k] = u
      BY <2>2, <2>4
    <3>2. k + 1 <= u
      BY <2>1, <2>2, <3>1, DoublingGrows
    <3>3. PICK f : Doubling(u, f) /\ PowersOfTwo(u) = {f[a] : a \in 0 .. u}
      BY <2>1, PowerSteps
    <3>4. k \in 0 .. u
      BY <2>1, <3>2
    <3>5. f[k] = g[k]
      BY <2>1, <2>2, <3>3, <3>4, DoublingsAgree
    <3> QED
      BY <2>1, <3>1, <3>3, <3>4, <3>5 DEF Power
  <2> QED
    BY <2>3, <2>4
<1> QED
  BY <1>1 DEF ThreadCounts

-----------------------------------------------------------------------------
(***************************************************************************)
(* What has been reported: all counts of the lines before, and of this     *)
(* line those below tc.                                                    *)
(***************************************************************************)
Before(t) == {u \in 1 .. t - 1 : Power(u)}

Reported == {<<report[k].line, report[k].tc>> : k \in DOMAIN report}

Earlier(n) == (1 .. n - 1) \X ThreadCounts

ReportsInv ==
  /\ maxTC \in Int /\ list \in Lists
  /\ line <= Len(list) /\ \A k \in 1 .. line : list[k] # Blank
  /\ pc \in {"header", "list", "run", "kernel", "compare", "threads", "returned",
             "refused", "overrun", "dangling", "spinning"}
  /\ pc \in {"run", "kernel", "compare"} => tc \in ThreadCounts
  /\ pc = "threads" => \E h \in ThreadCounts : tc = 2 * h
  /\ pc \in {"run", "kernel", "compare", "threads"} => line >= 1
  /\ \A a, b \in DOMAIN report :
       report[a].line = report[b].line /\ report[a].tc = report[b].tc => a = b
  /\ pc = "header" => line = 0
  /\ pc \in {"header", "list", "returned"} => Reported = (1 .. line) \X ThreadCounts
  /\ pc \in {"run", "kernel", "threads"} => Reported = Earlier(line) \cup ({line} \X Before(tc))
  /\ pc = "compare" => Reported = Earlier(line) \cup ({line} \X (Before(tc) \cup {tc}))
  /\ pc = "returned" => ~ AnotherMatrix

\* Thread counts double, and the counts gone through grow by one.
LEMMA CountSteps ==
  ASSUME maxTC \in Int, NEW h \in ThreadCounts
  PROVE  /\ h \in Nat /\ h >= 1 /\ Power(h) /\ h \notin Before(h)
         /\ Before(2 * h) = Before(h) \cup {h}
         /\ 2 * h <= maxTC => 2 * h \in ThreadCounts
         /\ ~ (2 * h <= maxTC) => Before(2 * h) = ThreadCounts
<1>1. ThreadCounts = {1} \cup {u \in 2 .. maxTC : Power(u)}
  BY CountFacts
<1>2. Power(h) /\ h \in Nat /\ h >= 1 /\ Power(2 * h)
  BY <1>1, PowerFacts
<1>3. h = 1 \/ h <= maxTC
  BY <1>1
<1>4. \A u : Power(u) => u \in Nat /\ u >= 1 /\ (u < 2 * h => u <= h)
  BY <1>2, PowerFacts
<1>5. Before(2 * h) = Before(h) \cup {h}
  BY <1>2, <1>4 DEF Before
<1>6. 2 * h <= maxTC => 2 * h \in ThreadCounts
  BY <1>1, <1>2
<1>7. ASSUME ~ (2 * h <= maxTC) PROVE Before(2 * h) = ThreadCounts
  <2>1. ASSUME NEW u \in Before(2 * h) PROVE u \in ThreadCounts
    <3>1. Power(u) /\ u \in Nat /\ u >= 1 /\ u <= h
      BY <1>2, <1>4 DEF Before
    <3> QED
      BY <3>1, <1>1, <1>2, <1>3
  <2>2. ASSUME NEW u \in ThreadCounts PROVE u \in Before(2 * h)
    <3>1. Power(u) /\ u \in Nat /\ u >= 1 /\ (u = 1 \/ u <= maxTC)
      BY <1>1, PowerFacts
    <3> QED
      BY <3>1, <1>2, <1>7 DEF Before
  <2> QED
    BY <2>1, <2>2
<1>8. h \notin Before(h)
  BY <1>2 DEF Before
<1> QED
  BY <1>2, <1>5, <1>6, <1>7, <1>8

\* ForwardSolveCSC.cc:110-135: another report.
LEMMA ReportOne ==
  ASSUME CountersInv, RunsInv, ReportsInv, Summarise
  PROVE  /\ Reported' = Earlier(line) \cup ({line} \X (Before(tc) \cup {tc}))
         /\ \A a, b \in DOMAIN report' :
              report'[a].line = report'[b].line /\ report'[a].tc = report'[b].tc => a = b
<1> DEFINE n == Len(report)
           e == [line |-> line, tc |-> tc, med |-> Median(durationE', nRuns), base |-> serialMed']
<1>1. pc = "run" /\ tc \in ThreadCounts /\ maxTC \in Int /\ line \in Nat /\ line >= 1
  BY DEF Summarise, ReportsInv, RunsInv
<1>2. report' = Append(report, e) /\ report \in Seq(Reports)
  BY DEF Summarise, RunsInv
<1>3. e \in Reports
  <2>1. tc \in Nat /\ line \in Nat
    BY <1>1 DEF CountersInv
  <2> QED
    BY <2>1, SummariseMedians DEF Reports
<1>4. /\ n \in Nat /\ DOMAIN report = 1 .. n /\ DOMAIN report' = 1 .. n + 1
      /\ report'[n + 1] = e /\ \A k \in 1 .. n : report'[k] = report[k]
  BY <1>2, <1>3, AppendProperties, LenProperties
<1>5. e.line = line /\ e.tc = tc
  OBVIOUS
<1> HIDE DEF e, n
<1>6. Reported = Earlier(line) \cup ({line} \X Before(tc))
  BY <1>1 DEF ReportsInv
<1>7. Reported' = Reported \cup {<<line, tc>>}
  <2>1. \A k \in 1 .. n : k \in 1 .. n + 1
    BY <1>4
  <2>2. \A k \in 1 .. n + 1 : k \in 1 .. n \/ k = n + 1
    BY <1>4
  <2>3. n + 1 \in 1 .. n + 1
    BY <1>4
  <2>4. Reported' = {<<report'[k].line, report'[k].tc>> : k \in 1 .. n + 1}
    BY <1>4 DEF Reported
  <2>5. Reported = {<<report[k].line, report[k].tc>> : k \in 1 .. n}
    BY <1>4 DEF Reported
  <2> QED
    BY <2>1, <2>2, <2>3, <2>4, <2>5, <1>4, <1>5
<1>8. <<line, tc>> \notin Reported
  <2>1. line \notin 1 .. line - 1
    BY <1>1
  <2>2. tc \notin Before(tc)
    BY <1>1, CountSteps
  <2> QED
    BY <2>1, <2>2, <1>6 DEF Earlier
<1>9. \A k \in 1 .. n : ~ (report[k].line = line /\ report[k].tc = tc)
  BY <1>4, <1>8 DEF Reported
<1>10. ASSUME NEW a \in DOMAIN report', NEW b \in DOMAIN report',
              report'[a].line = report'[b].line, report'[a].tc = report'[b].tc
       PROVE  a = b
  <2>1. (a \in 1 .. n \/ a = n + 1) /\ (b \in 1 .. n \/ b = n + 1)
    BY <1>4
  <2>2. CASE a \in 1 .. n /\ b \in 1 .. n
    BY <2>2, <1>4, <1>10 DEF ReportsInv
  <2> QED
    BY <2>1, <2>2, <1>4, <1>5, <1>9, <1>10
<1>11. Reported' = Earlier(line) \cup ({line} \X (Before(tc) \cup {tc}))
  BY <1>6, <1>7
<1> QED
  BY <1>10, <1>11

\* The lines and thread counts gone through, step by step.
LEMMA ReportsKept ==
  ASSUME CountersInv, RunsInv, ReportsInv, [Next]_vars
  PROVE  ReportsInv'
<1>0. line \in Nat /\ tc \in Int
  BY DEF CountersInv, RunsInv
<1>1. CASE ReadParameters
  <2>1. header \in Seq(Int)
    BY TimingConstants DEF CountersInv
  <2>2. Len(header) >= 1 => header[1] \in Int
    <3>1. Len(header) \in Nat
      BY <2>1, LenProperties
    <3>2. Len(header) >= 1 => 1 \in 1 .. Len(header)
      BY <3>1
    <3> QED
      BY <2>1, <3>2, ElementOfSeq
  <2>3. maxTC' \in Int
    BY <1>1, <2>2 DEF ReadParameters, ReportsInv
  <2>4. /\ pc = "header" /\ pc' = "list" /\ line' = line /\ list' = list /\ report' = report
        /\ report = <<>> /\ line = 0
    BY <1>1 DEF ReadParameters, RunsInv, ReportsInv, inputs, results
  <2>5. Reported' = {} /\ 1 .. line' = {}
    BY <2>4 DEF Reported
  <2> QED
    BY <2>3, <2>4, <2>5 DEF ReportsInv
<1>2. CASE NextMatrix
  <2>1. /\ pc = "list" /\ pc' = "run" /\ line' = line + 1 /\ tc' = 1 /\ maxTC' = maxTC
        /\ list' = list /\ report' = report /\ line < Len(list) /\ list[line + 1] # Blank
    BY <1>2 DEF NextMatrix, AnotherMatrix, inputs, params
  <2>2. Reported' = Reported /\ ThreadCounts' = ThreadCounts
    BY <2>1 DEF Reported, ThreadCounts
  <2>3. Before(1) = {}
    BY DEF Before
  <2>4. (line + 1) - 1 = line /\ 1 \in ThreadCounts
    BY <1>0 DEF ThreadCounts
  <2>5. Reported = (1 .. line) \X ThreadCounts
    BY <2>1 DEF ReportsInv
  <2>6. Reported' = (Earlier(line) \cup ({line} \X Before(tc)))'
    <3>1. Earlier(line)' = (1 .. line) \X ThreadCounts
      BY <2>1, <2>2, <2>4 DEF Earlier
    <3>2. ({line} \X Before(tc))' = {}
      <4>1. ({line} \X Before(tc))' = {line'} \X Before(1)
        BY <2>1 DEF Before, Power
      <4> QED
        BY <4>1, <2>3
    <3> QED
      BY <3>1, <3>2, <2>2, <2>5
  <2>7. line + 1 <= Len(list) /\ \A k \in 1 .. line + 1 : list[k] # Blank
    <3>1. Len(list) \in Nat
      BY TimingConstants, LenProperties DEF ReportsInv
    <3>2. \A k \in 1 .. line + 1 : k \in 1 .. line \/ k = line + 1
      BY <1>0
    <3> QED
      BY <3>1, <3>2, <2>1, <1>0 DEF ReportsInv
  <2>8. line + 1 >= 1
    BY <1>0
  <2> QED
    BY <2>1, <2>2, <2>4, <2>6, <2>7, <2>8 DEF ReportsInv
<1>3. CASE EndOfList \/ RefuseMatrix \/ NoRuns \/ Solve \/ Factor \/ EndRun \/ StartRun
  <2>1. /\ maxTC' = maxTC /\ list' = list /\ line' = line /\ report' = report /\ tc' = tc
        /\ \/ pc' = pc
           \/ pc = "list" /\ pc' = "returned" /\ ~ AnotherMatrix
           \/ pc' \in {"refused", "overrun"}
           \/ pc = "run" /\ pc' = "kernel"
           \/ pc = "kernel" /\ pc' = "run"
    BY <1>3 DEF EndOfList, RefuseMatrix, NoRuns, Solve, Factor, EndRun, StartRun, inputs,
                params, results
  <2>2. /\ Reported' = Reported /\ ThreadCounts' = ThreadCounts
        /\ Earlier(line)' = Earlier(line) /\ AnotherMatrix' = AnotherMatrix
        /\ Before(tc)' = Before(tc)
    BY <2>1 DEF Reported, ThreadCounts, Earlier, AnotherMatrix, Before, Power
  <2> QED
    BY <2>1, <2>2 DEF ReportsInv
<1>4. CASE Summarise
  <2>1. /\ pc = "run" /\ maxTC' = maxTC /\ list' = list /\ line' = line
        /\ \/ pc' = "compare" /\ tc' = tc
           \/ pc' = "threads" /\ tc' = 2 * tc
           \/ pc' = "spinning"
    BY <1>4, DoublingStep DEF Summarise, CountersInv, inputs, params
  <2>2. ThreadCounts' = ThreadCounts /\ Earlier(line)' = Earlier(line)
    BY <2>1 DEF ThreadCounts, Earlier
  <2>3. tc \in ThreadCounts /\ maxTC \in Int
    BY <2>1 DEF ReportsInv
  <2>4. Before(2 * tc) = Before(tc) \cup {tc}
    BY <2>3, CountSteps
  <2>5. Before(tc)' = Before(tc')
    BY DEF Before, Power
  <2>6. /\ Reported' = Earlier(line) \cup ({line} \X (Before(tc) \cup {tc}))
        /\ \A a, b \in DOMAIN report' :
              report'[a].line = report'[b].line /\ report'[a].tc = report'[b].tc => a = b
    BY <1>4, ReportOne
  <2>7. CASE pc' = "compare" /\ tc' = tc
    BY <2>1, <2>2, <2>3, <2>5, <2>6, <2>7 DEF ReportsInv
  <2>8. CASE pc' = "threads" /\ tc' = 2 * tc
    <3>1. Before(tc)' = Before(tc) \cup {tc}
      BY <2>4, <2>5, <2>8
    <3> QED
      BY <2>1, <2>2, <2>3, <2>6, <2>8, <3>1 DEF ReportsInv
  <2>9. CASE pc' = "spinning"
    BY <2>1, <2>2, <2>6, <2>9 DEF ReportsInv
  <2> QED
    BY <2>1, <2>7, <2>8, <2>9
<1>5. CASE NextThreads
  <2>1. /\ maxTC' = maxTC /\ list' = list /\ line' = line /\ report' = report /\ tc' = tc
        /\ pc = "threads" /\ pc' = "run" /\ tc <= maxTC
    BY <1>5 DEF NextThreads, MoreThreads, inputs, params
  <2>2. /\ Reported' = Reported /\ ThreadCounts' = ThreadCounts
        /\ Earlier(line)' = Earlier(line) /\ Before(tc)' = Before(tc)
    BY <2>1 DEF Reported, ThreadCounts, Earlier, Before, Power
  <2>3. tc \in ThreadCounts
    <3>1. PICK h \in ThreadCounts : tc = 2 * h
      BY <2>1 DEF ReportsInv
    <3> QED
      BY <3>1, <2>1, CountSteps DEF ReportsInv
  <2> QED
    BY <2>1, <2>2, <2>3 DEF ReportsInv
<1>6. CASE Compare
  <2>1. /\ maxTC' = maxTC /\ list' = list /\ line' = line /\ report' = report
        /\ pc = "compare"
        /\ \/ pc' \in {"dangling", "spinning"}
           \/ pc' = "threads" /\ tc' = 2 * tc
    BY <1>6, DoublingStep DEF Compare, CountersInv, inputs, params
  <2>2. Reported' = Reported /\ ThreadCounts' = ThreadCounts /\ Earlier(line)' = Earlier(line)
    BY <2>1 DEF Reported, ThreadCounts, Earlier
  <2>3. tc \in ThreadCounts /\ maxTC \in Int
    BY <2>1 DEF ReportsInv
  <2>4. CASE pc' \in {"dangling", "spinning"}
    BY <2>1, <2>2, <2>4 DEF ReportsInv
  <2>5. CASE pc' = "threads" /\ tc' = 2 * tc
    <3>1. Before(tc)' = Before(tc) \cup {tc}
      <4>1. Before(tc)' = Before(2 * tc)
        BY <2>5 DEF Before, Power
      <4> QED
        BY <4>1, <2>3, CountSteps
    <3> QED
      BY <2>1, <2>2, <2>3, <2>5, <3>1 DEF ReportsInv
  <2> QED
    BY <2>1, <2>4, <2>5
<1>7. CASE EndThreads
  <2>1. /\ maxTC' = maxTC /\ list' = list /\ line' = line /\ report' = report /\ tc' = tc
        /\ pc = "threads" /\ pc' \in {"dangling", "list"} /\ ~ (tc <= maxTC)
    BY <1>7 DEF EndThreads, MoreThreads, inputs, params, results
  <2>2. Reported' = Reported /\ ThreadCounts' = ThreadCounts
    BY <2>1 DEF Reported, ThreadCounts
  <2>3. Before(tc) = ThreadCounts
    <3>1. PICK h \in ThreadCounts : tc = 2 * h
      BY <2>1 DEF ReportsInv
    <3> QED
      BY <3>1, <2>1, CountSteps DEF ReportsInv
  <2>4. Reported = (1 .. line) \X ThreadCounts
    <3>1. Reported = Earlier(line) \cup ({line} \X Before(tc)) /\ line >= 1
      BY <2>1 DEF ReportsInv
    <3>2. 1 .. line = (1 .. line - 1) \cup {line}
      BY <3>1, <1>0
    <3> QED
      BY <3>1, <3>2, <2>3 DEF Earlier
  <2> QED
    BY <2>1, <2>2, <2>4 DEF ReportsInv
<1>8. CASE Spin
  <2>1. /\ maxTC' = maxTC /\ list' = list /\ line' = line /\ report' = report
        /\ pc = "spinning" /\ pc' = "spinning"
    BY <1>8 DEF Spin, inputs, params, results
  <2> QED
    BY <2>1 DEF ReportsInv
<1>9. CASE UNCHANGED vars
  <2>1. /\ maxTC' = maxTC /\ list' = list /\ line' = line /\ report' = report /\ tc' = tc
        /\ pc' = pc
    BY <1>9 DEF vars, inputs, params, results
  <2>2. /\ Reported' = Reported /\ ThreadCounts' = ThreadCounts
        /\ Earlier(line)' = Earlier(line) /\ AnotherMatrix' = AnotherMatrix
        /\ Before(tc)' = Before(tc)
    BY <2>1 DEF Reported, ThreadCounts, Earlier, AnotherMatrix, Before, Power
  <2> QED
    BY <2>1, <2>2 DEF ReportsInv
<1> QED
  BY <1>1, <1>2, <1>3, <1>4, <1>5, <1>6, <1>7, <1>8, <1>9 DEF Next

\* The first empty line, or the end of the list.
LEMMA WantedLines ==
  ASSUME list \in Lists, line \in Nat, line <= Len(list), \A k \in 1 .. line : list[k] # Blank,
         ~ AnotherMatrix
  PROVE  Wanted = line
<1> DEFINE ok(n) == /\ \A k \in 1 .. n : list[k] # Blank
                    /\ n < Len(list) => list[n + 1] = Blank
<1>1. Len(list) \in Nat
  BY TimingConstants, LenProperties
<1>2. line \in 0 .. Len(list) /\ ok(line)
  BY <1>1 DEF AnotherMatrix
<1>3. ASSUME NEW n \in 0 .. Len(list), ok(n) PROVE n = line
  <2>1. CASE n < line
    <3>1. n + 1 \in 1 .. line /\ n < Len(list)
      BY <2>1, <1>1
    <3> QED
      BY <3>1, <1>3
  <2>2. CASE line < n
    <3>1. line + 1 \in 1 .. n /\ line < Len(list)
      BY <2>2, <1>1
    <3> QED
      BY <3>1, <1>2, <1>3
  <2> QED
    BY <2>1, <2>2
<1>4. Wanted = CHOOSE n \in 0 .. Len(list) : ok(n)
  BY DEF Wanted
<1> HIDE DEF ok
<1> QED
  BY <1>2, <1>3, <1>4

\* ForwardSolveCSC.cc:55-216 and the other mains: returning 0, a program has
\* reported each line up to the first empty one once for each thread count.
THEOREM ListsAreWorkedThrough == Spec => []WorkedThrough
<1>1. Init => CountersInv /\ RunsInv /\ ReportsInv
  <2> SUFFICES ASSUME Init PROVE CountersInv /\ RunsInv /\ ReportsInv
    OBVIOUS
  <2>1. CountersInv
    BY TimingConstants DEF Init, CountersInv
  <2>2. RunsInv
    <3>1. <<>> \in Seq(Durations) /\ <<>> \in Seq(Reports)
      BY EmptySeq
    <3>2. pc = "header" /\ line = 0 /\ serialMed = 0 /\ report = <<>>
      BY DEF Init
    <3>3. measured \in Seq(Durations) \X Seq(Durations)
      BY <3>1 DEF Init
    <3> QED
      BY <3>1, <3>2, <3>3 DEF RunsInv
  <2>3. ReportsInv
    <3>1. /\ pc = "header" /\ line = 0 /\ report = <<>> /\ maxTC \in Int /\ list \in Lists
      BY TimingConstants DEF Init
    <3>2. Len(list) \in Nat
      BY <3>1, TimingConstants, LenProperties
    <3>3. Reported = {} /\ 1 .. line = {}
      BY <3>1 DEF Reported
    <3> QED
      BY <3>1, <3>2, <3>3 DEF ReportsInv
  <2> QED
    BY <2>1, <2>2, <2>3
<1>2. CountersInv /\ [Next]_vars => CountersInv'
  BY CountersKept
<1>3. CountersInv /\ RunsInv /\ [Next]_vars => RunsInv'
  BY RunsKept
<1>4. CountersInv /\ RunsInv /\ ReportsInv /\ [Next]_vars => ReportsInv'
  BY ReportsKept
<1>5. RunsInv /\ ReportsInv => WorkedThrough
  <2> SUFFICES ASSUME RunsInv, ReportsInv, pc = "returned"
               PROVE  LET wanted == (1 .. Wanted) \X ThreadCounts
                      IN Reported = wanted /\ Len(report) = Cardinality(wanted)
    BY DEF WorkedThrough, Reported
  <2> DEFINE n == Len(report)
             f == [k \in 1 .. n |-> <<report[k].line, report[k].tc>>]
  <2>1. Wanted = line
    BY WantedLines DEF RunsInv, ReportsInv
  <2>2. Reported = (1 .. line) \X ThreadCounts
    BY DEF ReportsInv
  <2>3. n \in Nat /\ DOMAIN report = 1 .. n
    BY LenProperties DEF RunsInv
  <2>4. Reported = {<<report[k].line, report[k].tc>> : k \in 1 .. n}
    BY <2>3 DEF Reported
  <2>5. f \in Bijection(1 .. n, Reported)
    <3>1. f \in [1 .. n -> Reported]
      BY <2>4
    <3>2. \A a, b \in 1 .. n : f[a] = f[b] => a = b
      BY <2>3 DEF ReportsInv
    <3>3. \A y \in Reported : \E k \in 1 .. n : f[k] = y
      BY <2>4
    <3> QED
      BY <3>1, <3>2, <3>3 DEF Bijection, Injection, Surjection, IsInjective
  <2>6. IsFiniteSet(1 .. n) /\ Cardinality(1 .. n) = n
    <3> HIDE DEF n
    <3>1. 1 \in Int /\ n \in Int
      BY <2>3
    <3>2. IsFiniteSet(1 .. n) /\ Cardinality(1 .. n) = IF 1 > n THEN 0 ELSE n - 1 + 1
      BY <3>1, FS_Interval, Zenon
    <3> QED
      BY <3>2, <2>3
  <2>7. Cardinality(Reported) = n
    <3> HIDE DEF f, n
    <3> QED
      BY <2>5, <2>6, FS_Bijection DEF ExistsBijection
  <2> QED
    BY <2>1, <2>2, <2>7
<1> QED
  BY <1>1, <1>2, <1>3, <1>4, <1>5, PTL DEF Spec
=============================================================================
