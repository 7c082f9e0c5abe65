-------------------------- MODULE Relations_proofs --------------------------
(***************************************************************************)
(* What the operations of IEGenLib's sets and relations keep, for every    *)
(* library of values, number of operations, meaning of the functions and   *)
(* range of tuples.                                                        *)
(*                                                                         *)
(* From below: an expression is a sum of terms, and adding, multiplying,   *)
(* dividing, substituting and collapsing f(f_inv(x)) do to its worth what  *)
(* they should; solving an equality for a location gives what the location *)
(* is worth.  So the operations on conjunctions keep the tuples that       *)
(* satisfy them.  Conjunctions are listed in an order, and addConjunction, *)
(* which drops a TRUE, loses none that has constraints.  The operations on *)
(* values follow, and AlgebraInv says that the value held is what the last *)
(* operation makes of the value before.                                    *)
(***************************************************************************)
EXTENDS Relations, Lemmas

-----------------------------------------------------------------------------
(* Finite sets and sums                                                    *)

\* Induction over the subsets of a finite set: what holds of a set when it
\* holds of all that lack one of its elements holds of every set.
LEMMA FiniteInduct ==
  ASSUME NEW S, IsFiniteSet(S), NEW P,
         \A T \in SUBSET S : (\A x \in T : T \ {x} \in P) => T \in P
  PROVE  \A T \in SUBSET S : T \in P
<1> DEFINE m == Cardinality(S)
           Q == {n \in 0 .. m : \A T \in SUBSET S : Cardinality(T) = n => T \in P}
<1>0. m \in Nat
  BY FS_CardinalityType
<1>1. \A T \in SUBSET S : IsFiniteSet(T) /\ Cardinality(T) \in 0 .. m
  BY FS_Subset, FS_CardinalityType, <1>0
<1>2. 0 \in Q
  <2> SUFFICES ASSUME NEW T \in SUBSET S, Cardinality(T) = 0 PROVE T \in P
    BY <1>0
  <2>1. T = {}
    BY <1>1, FS_EmptySet
  <2> QED
    BY <2>1
<1>3. ASSUME NEW n \in 1 .. m, n - 1 \in Q PROVE n \in Q
  <2> SUFFICES ASSUME NEW T \in SUBSET S, Cardinality(T) = n PROVE T \in P
    BY <1>0
  <2>1. ASSUME NEW x \in T PROVE T \ {x} \in P
    <3>1. T \ {x} \in SUBSET S /\ Cardinality(T \ {x}) = n - 1
      BY <1>1, FS_RemoveElement
    <3> QED
      BY <3>1, <1>3
  <2> QED
    BY <2>1
<1> HIDE DEF m, Q
<1>4. \A n \in 0 .. m : n \in Q
  BY <1>0, <1>2, <1>3, Induct
<1>5. ASSUME NEW T \in SUBSET S PROVE T \in P
  <2>1. Cardinality(T) \in Q
    BY <1>1, <1>4
  <2> QED
    BY <2>1 DEF Q
<1> QED
  BY <1>5

\* A finite set of numbers has a greatest one.
LEMMA FiniteMax ==
  ASSUME NEW S, IsFiniteSet(S), S \subseteq Nat, S # {}
  PROVE  Max(S) \in S /\ \A y \in S : Max(S) >= y
<1> DEFINE P == {T \in SUBSET S : T # {} => \E x \in T : \A y \in T : x >= y}
<1>1. ASSUME NEW T \in SUBSET S, \A x \in T : T \ {x} \in P PROVE T \in P
  <2> SUFFICES ASSUME NEW x \in T PROVE \E z \in T : \A y \in T : z >= y
    OBVIOUS
  <2>1. CASE T \ {x} = {}
    <3>1. \A y \in T : y = x
      BY <2>1
    <3> QED
      BY <3>1
  <2>2. CASE T \ {x} # {}
    <3>1. PICK z \in T \ {x} : \A y \in T \ {x} : z >= y
      BY <2>2, <1>1
    <3>2. CASE z >= x
      BY <3>1, <3>2
    <3>3. CASE ~ (z >= x)
      <4>1. \A y \in T : x >= y
        BY <3>1, <3>3
      <4> QED
        BY <4>1
    <3> QED
      BY <3>2, <3>3
  <2> QED
    BY <2>1, <2>2
<1> HIDE DEF P
<1>2. S \in P
  BY <1>1, FiniteInduct
<1>3. \E x \in S : \A y \in S : x >= y
  BY <1>2 DEF P
<1> QED
  BY <1>3 DEF Max

\* The least element of a finite set under an order given as a set of pairs.
LEMMA FiniteLeast ==
  ASSUME NEW S, IsFiniteSet(S), S # {}, NEW R,
         \A a, b \in S : <<a, b>> \in R \/ <<b, a>> \in R,
         \A a, b, c \in S : <<a, b>> \in R /\ <<b, c>> \in R => <<a, c>> \in R
  PROVE  \E a \in S : \A b \in S : <<a, b>> \in R
<1> DEFINE P == {T \in SUBSET S : T # {} => \E a \in T : \A b \in T : <<a, b>> \in R}
<1>1. ASSUME NEW T \in SUBSET S, \A x \in T : T \ {x} \in P PROVE T \in P
  <2> SUFFICES ASSUME NEW x \in T PROVE \E a \in T : \A b \in T : <<a, b>> \in R
    OBVIOUS
  <2>1. CASE T \ {x} = {}
    <3>1. \A y \in T : y = x
      BY <2>1
    <3> QED
      BY <3>1
  <2>2. CASE T \ {x} # {}
    <3>1. PICK z \in T \ {x} : \A y \in T \ {x} : <<z, y>> \in R
      BY <2>2, <1>1
    <3>2. CASE <<z, x>> \in R
      BY <3>1, <3>2
    <3>3. CASE <<x, z>> \in R
      <4>1. \A y \in T : <<x, y>> \in R
        BY <3>1, <3>3
      <4> QED
        BY <4>1
    <3> QED
      BY <3>2, <3>3
  <2> QED
    BY <2>1, <2>2
<1> HIDE DEF P
<1>2. \A T \in SUBSET S : T \in P
  BY <1>1, FiniteInduct, Zenon
<1> QED
  BY <1>2 DEF P

-----------------------------------------------------------------------------
\* Sums over finite sets.
Pick(s) == CHOOSE x \in s : TRUE

IsSumFcn(h, S, g) ==
  g = [s \in SUBSET S |-> IF s = {} THEN 0 ELSE h[Pick(s)] + g[s \ {Pick(s)}]]

\* SumFunctionOnSet folds over the subsets of its set, taking elements away.
LEMMA SumUnfolds ==
  ASSUME NEW h, NEW S
  PROVE  SumFunctionOnSet(h, S) = (CHOOSE g : IsSumFcn(h, S, g))[S]
BY DEF SumFunctionOnSet, FoldFunctionOnSet, MapThenFoldSet, IsSumFcn, Pick

\* The function the fold is defined by exists.
LEMMA SumFcnExists ==
  ASSUME NEW h, NEW S, IsFiniteSet(S)
  PROVE  \E g : IsSumFcn(h, S, g)
<1> DEFINE U(n) == {s \in SUBSET S : Cardinality(s) <= n}
           Upto(g, n) == g = [s \in U(n) |-> IF s = {} THEN 0 ELSE h[Pick(s)] + g[s \ {Pick(s)}]]
           m == Cardinality(S)
           P == {n \in 0 .. m : \E g : Upto(g, n)}
<1>0. m \in Nat /\ \A s \in SUBSET S : IsFiniteSet(s) /\ Cardinality(s) \in Nat /\ Cardinality(s) <= m
  BY FS_CardinalityType, FS_Subset
<1>1. 0 \in P
  <2> DEFINE g == [s \in U(0) |-> 0]
  <2>1. \A s \in U(0) : s = {}
    BY <1>0, FS_EmptySet
  <2>2. Upto(g, 0)
    BY <2>1
  <2> HIDE DEF g, Upto
  <2> QED
    BY <2>2, <1>0
<1>2. ASSUME NEW n \in 1 .. m, n - 1 \in P PROVE n \in P
  <2>1. PICK g : Upto(g, n - 1)
    BY <1>2
  <2> DEFINE f == [s \in U(n) |-> IF s = {} THEN 0 ELSE h[Pick(s)] + g[s \ {Pick(s)}]]
  <2>2. \A s \in U(n) : s # {} => s \ {Pick(s)} \in U(n - 1)
    <3> SUFFICES ASSUME NEW s \in U(n), s # {} PROVE s \ {Pick(s)} \in U(n - 1)
      OBVIOUS
    <3>1. Pick(s) \in s
      BY DEF Pick
    <3>2. Cardinality(s \ {Pick(s)}) = Cardinality(s) - 1
      BY <3>1, <1>0, FS_RemoveElement
    <3> QED
      BY <3>2, <1>0
  <2>3. U(n - 1) \subseteq U(n)
    BY <1>0
  <2>4. \A s \in U(n - 1) : f[s] = g[s]
    <3>1. g = [s \in U(n - 1) |-> IF s = {} THEN 0 ELSE h[Pick(s)] + g[s \ {Pick(s)}]]
      BY <2>1
    <3> HIDE DEF U
    <3>2. \A s \in U(n - 1) : g[s] = IF s = {} THEN 0 ELSE h[Pick(s)] + g[s \ {Pick(s)}]
      BY <3>1, Zenon
    <3>3. \A s \in U(n - 1) : f[s] = IF s = {} THEN 0 ELSE h[Pick(s)] + g[s \ {Pick(s)}]
      BY <2>3
    <3> QED
      BY <3>2, <3>3, Zenon
  <2>5. Upto(f, n)
    <3> HIDE DEF U
    <3>1. \A s \in U(n) : s # {} => f[s \ {Pick(s)}] = g[s \ {Pick(s)}]
      BY <2>2, <2>4
    <3> QED
      BY <3>1
  <2> HIDE DEF f, Upto
  <2> QED
    BY <2>5
<1>3. m \in P
  <2> HIDE DEF P, m
  <2>1. \A n \in 0 .. m : n \in P
    BY <1>0, <1>1, <1>2, Induct
  <2> QED
    BY <2>1, <1>0
<1>4. PICK g : Upto(g, m)
  BY <1>3
<1>5. U(m) = SUBSET S
  BY <1>0
<1> HIDE DEF U
<1> QED
  BY <1>4, <1>5, Zenon DEF IsSumFcn

\* Whichever element is taken out first.
LEMMA SumFcnFacts ==
  ASSUME NEW h, NEW S, IsFiniteSet(S), \A x \in S : h[x] \in Int, NEW g, IsSumFcn(h, S, g)
  PROVE  /\ g[{}] = 0
         /\ \A T \in SUBSET S : g[T] \in Int /\ \A x \in T : g[T] = h[x] + g[T \ {x}]
<1>1. \A T \in SUBSET S : g[T] = IF T = {} THEN 0 ELSE h[Pick(T)] + g[T \ {Pick(T)}]
  BY Zenon DEF IsSumFcn
<1>2. g[{}] = 0
  BY <1>1
<1> DEFINE I == {T \in SUBSET S : g[T] \in Int}
           P == {T \in SUBSET S : \A x \in T : g[T] = h[x] + g[T \ {x}]}
<1>3. \A T \in SUBSET S : T \in I
  <2>1. ASSUME NEW T \in SUBSET S, \A x \in T : T \ {x} \in I PROVE T \in I
    <3>1. CASE T = {}
      BY <3>1, <1>2
    <3>2. CASE T # {}
      <4>1. Pick(T) \in T
        BY <3>2 DEF Pick
      <4>2. g[T] = h[Pick(T)] + g[T \ {Pick(T)}] /\ T \ {Pick(T)} \in I /\ h[Pick(T)] \in Int
        BY <1>1, <2>1, <4>1, <3>2
      <4> QED
        BY <4>2
    <3> QED
      BY <3>1, <3>2
  <2> HIDE DEF I
  <2> QED
    BY <2>1, FiniteInduct
<1>4. ASSUME NEW T \in SUBSET S, \A x \in T : T \ {x} \in P PROVE T \in P
  <2> DEFINE p == Pick(T)
  <2> SUFFICES ASSUME NEW x \in T PROVE g[T] = h[x] + g[T \ {x}]
    OBVIOUS
  <2>1. p \in T
    BY DEF Pick
  <2>2. g[T] = h[p] + g[T \ {p}]
    BY <1>1
  <2> HIDE DEF p
  <2>3. CASE x = p
    BY <2>2, <2>3
  <2>4. CASE x # p
    <3>1. T \ {x} \in P /\ T \ {p} \in P /\ x \in T \ {p} /\ p \in T \ {x}
      BY <1>4, <2>1, <2>4
    <3> DEFINE rest == (T \ {p}) \ {x}
    <3>2. g[T \ {p}] = h[x] + g[rest]
      BY <3>1
    <3>3. rest = (T \ {x}) \ {p}
      OBVIOUS
    <3>4. g[T \ {x}] = h[p] + g[rest]
      BY <3>1, <3>3
    <3>5. g[rest] \in Int
      BY <1>3
    <3>6. h[x] \in Int /\ h[p] \in Int
      BY <2>1
    <3> HIDE DEF rest
    <3> QED
      BY <3>2, <3>4, <3>5, <3>6, <2>2
  <2> QED
    BY <2>3, <2>4
<1>5. \A T \in SUBSET S : T \in P
  <2> HIDE DEF P
  <2> QED
    BY <1>4, FiniteInduct
<1> QED
  BY <1>2, <1>3, <1>5

\* The sum of the values of h over a finite set of integers h is defined on.
LEMMA SumEmpty ==
  ASSUME NEW h
  PROVE  SumFunctionOnSet(h, {}) = 0
<1> DEFINE g == CHOOSE f : IsSumFcn(h, {}, f)
<1>1. IsSumFcn(h, {}, g)
  BY SumFcnExists, FS_EmptySet, Zenon
<1>2. SumFunctionOnSet(h, {}) = g[{}]
  BY SumUnfolds
<1> HIDE DEF g
<1> QED
  BY <1>1, <1>2, SumFcnFacts, FS_EmptySet

\* A sum is an integer, and any one of its elements can be taken out of it.
LEMMA SumAdd ==
  ASSUME NEW S, IsFiniteSet(S), NEW h, \A y \in S : h[y] \in Int
  PROVE  /\ SumFunctionOnSet(h, S) \in Int
         /\ \A x \in S : SumFunctionOnSet(h, S) = h[x] + SumFunctionOnSet(h, S \ {x})
<1> DEFINE G(T) == CHOOSE f : IsSumFcn(h, T, f)
<1>1. \A T \in SUBSET S : IsFiniteSet(T)
  BY FS_Subset
<1>2. \A T \in SUBSET S : IsSumFcn(h, T, G(T)) /\ SumFunctionOnSet(h, T) = G(T)[T]
  BY <1>1, SumFcnExists, SumUnfolds, Zenon
<1> HIDE DEF G
<1>3. \A T \in SUBSET S : /\ G(T)[{}] = 0
                          /\ \A U \in SUBSET T : G(T)[U] \in Int /\ \A x \in U : G(T)[U] = h[x] + G(T)[U \ {x}]
  <2> SUFFICES ASSUME NEW T \in SUBSET S
               PROVE  /\ G(T)[{}] = 0
                      /\ \A U \in SUBSET T : G(T)[U] \in Int /\ \A x \in U : G(T)[U] = h[x] + G(T)[U \ {x}]
    OBVIOUS
  <2>1. PICK g : g = G(T)
    OBVIOUS
  <2>2. IsFiniteSet(T) /\ (\A x \in T : h[x] \in Int) /\ IsSumFcn(h, T, g)
    BY <1>1, <1>2, <2>1
  <2>3. g[{}] = 0
    BY <2>2, SumFcnFacts
  <2>4. \A U \in SUBSET T : g[U] \in Int
    BY <2>2, SumFcnFacts
  <2>5. ASSUME NEW U \in SUBSET T, NEW x \in U PROVE g[U] = h[x] + g[U \ {x}]
    BY <2>2, SumFcnFacts
  <2> QED
    BY <2>1, <2>3, <2>4, <2>5
<1>4. SumFunctionOnSet(h, S) \in Int
  BY <1>2, <1>3
<1>5. ASSUME NEW x \in S PROVE SumFunctionOnSet(h, S) = h[x] + SumFunctionOnSet(h, S \ {x})
  <2> DEFINE R == S \ {x}
             P == {T \in SUBSET R : G(R)[T] = G(S)[T]}
  <2>0. R \in SUBSET S /\ IsFiniteSet(R)
    BY <1>1
  <2>1. ASSUME NEW T \in SUBSET R, \A y \in T : T \ {y} \in P PROVE T \in P
    <3>1. CASE T = {}
      BY <3>1, <1>3, <2>0
    <3>2. CASE T # {}
      <4>1. PICK y \in T : TRUE
        BY <3>2
      <4>2. G(R)[T] = h[y] + G(R)[T \ {y}]
        BY <1>3, <2>0
      <4>3. T \in SUBSET S
        OBVIOUS
      <4>4. G(S)[T] = h[y] + G(S)[T \ {y}]
        BY <1>3, <4>3
      <4>5. G(R)[T \ {y}] = G(S)[T \ {y}]
        BY <2>1
      <4> QED
        BY <4>2, <4>4, <4>5
    <3> QED
      BY <3>1, <3>2
  <2> HIDE DEF P
  <2>2. \A T \in SUBSET R : T \in P
    BY <2>0, <2>1, FiniteInduct
  <2>3. G(R)[R] = G(S)[R]
    BY <2>2 DEF P
  <2>4. G(S)[S] = h[x] + G(S)[S \ {x}]
    BY <1>3
  <2> QED
    BY <2>0, <2>3, <2>4, <1>2
<1> QED
  BY <1>4, <1>5

Sum(h, S) == SumFunctionOnSet(h, S)
IntsOn(h, S) == \A x \in S : h[x] \in Int

\* The same of Sum, with its subsets.
LEMMA SumFacts ==
  ASSUME NEW S, IsFiniteSet(S), NEW h, IntsOn(h, S)
  PROVE  /\ Sum(h, S) \in Int /\ Sum(h, {}) = 0
         /\ \A x \in S : Sum(h, S) = h[x] + Sum(h, S \ {x})
         /\ \A T \in SUBSET S : IsFiniteSet(T) /\ IntsOn(h, T) /\ Sum(h, T) \in Int
<1>1. \A T \in SUBSET S : IsFiniteSet(T) /\ (\A x \in T : h[x] \in Int)
  BY FS_Subset DEF IntsOn
<1>2. \A T \in SUBSET S : Sum(h, T) \in Int
  BY <1>1, SumAdd DEF Sum
<1> QED
  BY <1>1, <1>2, SumAdd, SumEmpty DEF Sum, IntsOn

\* Equal values have equal sums.
LEMMA SumSame ==
  ASSUME NEW S, IsFiniteSet(S), NEW g, NEW h, IntsOn(g, S), \A x \in S : g[x] = h[x]
  PROVE  Sum(g, S) = Sum(h, S)
<1> DEFINE P == {T \in SUBSET S : Sum(g, T) = Sum(h, T)}
<1>0. IntsOn(h, S)
  BY DEF IntsOn
<1>1. ASSUME NEW T \in SUBSET S, \A x \in T : T \ {x} \in P PROVE T \in P
  <2>0. IsFiniteSet(T) /\ IntsOn(g, T) /\ IntsOn(h, T)
    BY <1>0, SumFacts
  <2>1. CASE T = {}
    BY <2>0, <2>1, SumFacts
  <2>2. CASE T # {}
    <3>1. PICK x \in T : TRUE
      BY <2>2
    <3>2. Sum(g, T) = g[x] + Sum(g, T \ {x}) /\ Sum(h, T) = h[x] + Sum(h, T \ {x})
      BY <2>0, SumFacts
    <3>3. Sum(g, T \ {x}) = Sum(h, T \ {x}) /\ g[x] = h[x]
      BY <1>1
    <3> QED
      BY <3>2, <3>3
  <2> QED
    BY <2>1, <2>2
<1> HIDE DEF P
<1>2. \A T \in SUBSET S : T \in P
  BY <1>1, FiniteInduct
<1> QED
  BY <1>2 DEF P

Combines(f, g, k, h, S) == \A x \in S : f[x] = g[x] + k * h[x]

\* A sum of sums, and a multiple of one.
LEMMA SumLinear ==
  ASSUME NEW S, IsFiniteSet(S), NEW f, NEW g, NEW h, IntsOn(g, S), IntsOn(h, S), NEW k \in Int,
         Combines(f, g, k, h, S)
  PROVE  Sum(f, S) = Sum(g, S) + k * Sum(h, S)
<1> DEFINE P == {T \in SUBSET S : Sum(f, T) = Sum(g, T) + k * Sum(h, T)}
<1>0. IntsOn(f, S)
  BY DEF IntsOn, Combines
<1>1. ASSUME NEW T \in SUBSET S, \A x \in T : T \ {x} \in P PROVE T \in P
  <2>0. IsFiniteSet(T) /\ IntsOn(f, T) /\ IntsOn(g, T) /\ IntsOn(h, T)
    BY <1>0, SumFacts
  <2>1. CASE T = {}
    <3>1. Sum(f, T) = 0 /\ Sum(g, T) = 0 /\ Sum(h, T) = 0
      BY <2>0, <2>1, SumFacts
    <3> QED
      BY <3>1
  <2>2. CASE T # {}
    <3>1. PICK x \in T : TRUE
      BY <2>2
    <3> DEFINE R == T \ {x}
    <3>2. Sum(f, T) = f[x] + Sum(f, R) /\ Sum(g, T) = g[x] + Sum(g, R) /\ Sum(h, T) = h[x] + Sum(h, R)
      BY <2>0, SumFacts
    <3>3. Sum(f, R) = Sum(g, R) + k * Sum(h, R) /\ f[x] = g[x] + k * h[x]
      BY <1>1 DEF Combines
    <3>4. Sum(g, R) \in Int /\ Sum(h, R) \in Int /\ g[x] \in Int /\ h[x] \in Int
      BY <2>0, SumFacts DEF IntsOn
    <3> HIDE DEF R
    <3>5. k * (h[x] + Sum(h, R)) = k * h[x] + k * Sum(h, R)
      BY <3>4
    <3>6. k * h[x] \in Int /\ k * Sum(h, R) \in Int
      BY <3>4
    <3>7. Sum(f, T) = Sum(g, T) + k * Sum(h, T)
      BY <3>2, <3>3, <3>4, <3>5, <3>6
    <3> QED
      BY <3>7
  <2> QED
    BY <2>1, <2>2
<1> HIDE DEF P
<1>2. \A T \in SUBSET S : T \in P
  BY <1>1, FiniteInduct
<1> QED
  BY <1>2 DEF P

\* Zeros do not count.
LEMMA SumExtended ==
  ASSUME NEW S, IsFiniteSet(S), NEW h, IntsOn(h, S), NEW R \in SUBSET S, \A x \in S \ R : h[x] = 0
  PROVE  Sum(h, S) = Sum(h, R)
<1> DEFINE D == S \ R
           P == {T \in SUBSET D : Sum(h, R \cup T) = Sum(h, R)}
<1>0. IsFiniteSet(D)
  BY FS_Subset
<1>1. ASSUME NEW T \in SUBSET D, \A x \in T : T \ {x} \in P PROVE T \in P
  <2>1. CASE T = {}
    <3>1. R \cup T = R
      BY <2>1
    <3> QED
      BY <3>1
  <2>2. CASE T # {}
    <3>1. PICK x \in T : TRUE
      BY <2>2
    <3>2. R \cup T \in SUBSET S /\ (R \cup T) \ {x} = R \cup (T \ {x}) /\ x \in R \cup T
      OBVIOUS
    <3>3. Sum(h, R \cup T) = h[x] + Sum(h, R \cup (T \ {x}))
      <4>1. IsFiniteSet(R \cup T) /\ IntsOn(h, R \cup T)
        BY <3>2, SumFacts
      <4>2. \A y \in R \cup T : Sum(h, R \cup T) = h[y] + Sum(h, (R \cup T) \ {y})
        BY <4>1, SumFacts
      <4> QED
        BY <4>2, <3>2
    <3>4. Sum(h, R \cup (T \ {x})) = Sum(h, R) /\ h[x] = 0
      BY <1>1
    <3>5. Sum(h, R) \in Int
      BY SumFacts
    <3> QED
      BY <3>3, <3>4, <3>5
  <2> QED
    BY <2>1, <2>2
<1>3. D \in SUBSET D /\ R \cup D = S
  OBVIOUS
<1>5. \A T \in SUBSET D : (\A x \in T : T \ {x} \in P) => T \in P
  BY <1>1
<1> HIDE DEF P, D
<1>2. \A T \in SUBSET D : T \in P
  BY <1>0, <1>5, FiniteInduct
<1>4. D \in P
  BY <1>2, <1>3
<1> QED
  BY <1>3, <1>4 DEF P

-----------------------------------------------------------------------------
(* Expressions as sums of terms                                            *)

SumOver(e, F) ==
  /\ e.const \in Int /\ IsFiniteSet(DOMAIN e.terms) /\ DOMAIN e.terms \subseteq F
  /\ \A f \in DOMAIN e.terms : e.terms[f] \in Int \ {0}

\* What an expression is worth if each factor f is worth w[f].
Lin(e, w) == e.const + Sum([f \in DOMAIN e.terms |-> e.terms[f] * w[f]], DOMAIN e.terms)

Spread(e, w, G) == Sum([f \in G |-> Coefficient(e, f) * w[f]], G)

\* A coefficient is an integer, and is 0 exactly for the factors that do not
\* occur.
LEMMA CoefficientInt ==
  ASSUME NEW F, NEW e, SumOver(e, F)
  PROVE  \A f : Coefficient(e, f) \in Int /\ (Coefficient(e, f) # 0 <=> f \in DOMAIN e.terms)
BY DEF Coefficient, SumOver

\* The sum may run over more factors than the expression has.
LEMMA LinSpread ==
  ASSUME NEW F, NEW e, SumOver(e, F), NEW w, IntsOn(w, F),
         NEW G, IsFiniteSet(G), DOMAIN e.terms \subseteq G, G \subseteq F
  PROVE  Lin(e, w) \in Int /\ Spread(e, w, G) \in Int /\ Lin(e, w) = e.const + Spread(e, w, G)
<1> DEFINE h == [f \in G |-> Coefficient(e, f) * w[f]]
           g == [f \in DOMAIN e.terms |-> e.terms[f] * w[f]]
           D == DOMAIN e.terms
<1>1. IntsOn(h, G)
  <2>1. \A f \in G : w[f] \in Int /\ Coefficient(e, f) \in Int
    BY CoefficientInt DEF IntsOn
  <2>2. \A f \in G : h[f] = Coefficient(e, f) * w[f]
    OBVIOUS
  <2> HIDE DEF h
  <2> QED
    BY <2>1, <2>2 DEF IntsOn
<1>2. \A f \in G \ D : h[f] = 0
  BY DEF Coefficient, IntsOn
<1>3. \A f \in D : h[f] = g[f]
  BY DEF Coefficient
<1>4. IsFiniteSet(D) /\ IntsOn(h, D) /\ e.const \in Int
  BY <1>1 DEF SumOver, IntsOn
<1> HIDE DEF h, g
<1>5. Sum(h, G) = Sum(h, D)
  <2> HIDE DEF D
  <2>1. D \in SUBSET G
    BY DEF D
  <2> QED
    BY <1>1, <1>2, <2>1, SumExtended
<1>6. Sum(h, D) = Sum(g, D)
  BY <1>3, <1>4, SumSame
<1>7. Sum(h, G) \in Int
  BY <1>1, SumFacts
<1> QED
  BY <1>4, <1>5, <1>6, <1>7 DEF Lin, Spread, h, g

\* A constant has no terms and is worth its number.
LEMMA ConstFacts ==
  ASSUME NEW k \in Int, NEW F
  PROVE  SumOver(Const(k), F) /\ DOMAIN Const(k).terms = {} /\ Const(k).const = k
         /\ \A w : Lin(Const(k), w) = k
<1>1. DOMAIN Const(k).terms = {} /\ Const(k).const = k
  BY DEF Const
<1>2. SumOver(Const(k), F)
  BY <1>1, FS_EmptySet DEF SumOver
<1>3. ASSUME NEW w PROVE Lin(Const(k), w) = k
  <2>1. Sum([f \in DOMAIN Const(k).terms |-> Const(k).terms[f] * w[f]], DOMAIN Const(k).terms) = 0
    BY <1>1, SumEmpty DEF Sum
  <2> QED
    BY <2>1, <1>1 DEF Lin
<1> QED
  BY <1>1, <1>2, <1>3

\* One factor alone is worth what the factor is worth.
LEMMA SingleFacts ==
  ASSUME NEW F, NEW f \in F
  PROVE  SumOver(Single(f), F) /\ DOMAIN Single(f).terms = {f} /\ Single(f).const = 0
         /\ Single(f).terms[f] = 1
         /\ \A w : w[f] \in Int => Lin(Single(f), w) = w[f]
<1>1. DOMAIN Single(f).terms = {f} /\ Single(f).const = 0 /\ Single(f).terms[f] = 1
  BY DEF Single
<1>2. SumOver(Single(f), F)
  BY <1>1, FS_Singleton DEF SumOver
<1>3. ASSUME NEW w, w[f] \in Int PROVE Lin(Single(f), w) = w[f]
  <2> DEFINE g == [x \in {f} |-> Single(f).terms[x] * w[x]]
  <2>1. g[f] = w[f] /\ IntsOn(g, {f})
    BY <1>1, <1>3 DEF IntsOn
  <2>2. IsFiniteSet({f}) /\ {f} \ {f} = {} /\ f \in {f}
    BY FS_Singleton
  <2> HIDE DEF g
  <2>3. Sum(g, {f}) = g[f] + Sum(g, {})
    BY <2>1, <2>2, SumFacts
  <2>4. Sum(g, {}) = 0
    BY <2>1, <2>2, SumFacts
  <2>5. Sum(g, {f}) = w[f]
    BY <2>1, <2>3, <2>4, <1>3
  <2> QED
    BY <2>5, <1>1, <1>3 DEF Lin, g
<1> QED
  BY <1>1, <1>2, <1>3

\* Exp::addExp adds no factor, and adds the constants.
LEMMA AddFacts ==
  ASSUME NEW F, NEW a, NEW b, SumOver(a, F), SumOver(b, F)
  PROVE  /\ SumOver(addExp(a, b), F)
         /\ DOMAIN addExp(a, b).terms \subseteq DOMAIN a.terms \cup DOMAIN b.terms
         /\ addExp(a, b).const = a.const + b.const
<1> DEFINE s == addExp(a, b)
           G == DOMAIN a.terms \cup DOMAIN b.terms
           sum(f) == Coefficient(a, f) + Coefficient(b, f)
<1>0. \A f : sum(f) \in Int
  BY CoefficientInt
<1>1. s.const = a.const + b.const /\ DOMAIN s.terms = {f \in G : sum(f) # 0}
      /\ \A f \in DOMAIN s.terms : s.terms[f] = sum(f)
  BY DEF addExp
<1>2. IsFiniteSet(G)
  BY FS_Union DEF SumOver
<1>3. SumOver(s, F)
  <2>1. IsFiniteSet(DOMAIN s.terms) /\ DOMAIN s.terms \subseteq F
    BY <1>1, <1>2, FS_Subset DEF SumOver
  <2> HIDE DEF s
  <2> QED
    BY <1>0, <1>1, <2>1 DEF SumOver
<1> HIDE DEF s
<1> QED
  BY <1>1, <1>3 DEF s

\* It adds the coefficients, those that become 0 included.
LEMMA AddCoefficient ==
  ASSUME NEW F, NEW a, NEW b, SumOver(a, F), SumOver(b, F), NEW f
  PROVE  Coefficient(addExp(a, b), f) = Coefficient(a, f) + Coefficient(b, f)
<1> DEFINE s == addExp(a, b)
           G == DOMAIN a.terms \cup DOMAIN b.terms
           sum(x) == Coefficient(a, x) + Coefficient(b, x)
<1>1. DOMAIN s.terms = {x \in G : sum(x) # 0} /\ \A x \in DOMAIN s.terms : s.terms[x] = sum(x)
  BY DEF addExp
<1> HIDE DEF s
<1>2. CASE f \in DOMAIN s.terms
  BY <1>1, <1>2 DEF Coefficient, s
<1>3. CASE f \notin DOMAIN s.terms
  <2>1. Coefficient(s, f) = 0
    BY <1>3 DEF Coefficient
  <2>2. CASE f \in G
    BY <2>1, <2>2, <1>3, <1>1 DEF s
  <2>3. CASE f \notin G
    BY <2>1, <2>3 DEF Coefficient, s
  <2> QED
    BY <2>2, <2>3
<1> QED
  BY <1>2, <1>3

\* It adds what the expressions are worth.
LEMMA AddLin ==
  ASSUME NEW F, NEW a, NEW b, SumOver(a, F), SumOver(b, F), NEW w, IntsOn(w, F)
  PROVE  Lin(addExp(a, b), w) = Lin(a, w) + Lin(b, w)
<1> DEFINE s == addExp(a, b)
           G == DOMAIN a.terms \cup DOMAIN b.terms
<1>a. \A f : Coefficient(a, f) \in Int /\ Coefficient(b, f) \in Int
  BY CoefficientInt
<1>b. s.const = a.const + b.const /\ DOMAIN s.terms \subseteq G
  BY AddFacts
<1>c. IsFiniteSet(G)
  BY FS_Union DEF SumOver
<1>d. SumOver(s, F)
  BY AddFacts
<1>e. \A f : Coefficient(s, f) = Coefficient(a, f) + Coefficient(b, f)
  BY AddCoefficient
<1> DEFINE f == [x \in G |-> Coefficient(s, x) * w[x]]
           g == [x \in G |-> Coefficient(a, x) * w[x]]
           h == [x \in G |-> Coefficient(b, x) * w[x]]
<1>0. G \subseteq F /\ DOMAIN a.terms \subseteq G /\ DOMAIN b.terms \subseteq G /\ DOMAIN s.terms \subseteq G
  BY <1>b DEF SumOver
<1>1. /\ Lin(s, w) = s.const + Sum(f, G)
      /\ Lin(a, w) = a.const + Sum(g, G) /\ Lin(b, w) = b.const + Sum(h, G)
      /\ Sum(g, G) \in Int /\ Sum(h, G) \in Int
  <2> HIDE DEF s, G
  <2> QED
    BY <1>c, <1>d, <1>0, LinSpread DEF Spread
<1>2. IntsOn(g, G) /\ IntsOn(h, G) /\ Combines(f, g, 1, h, G)
  <2> HIDE DEF s
  <2>1. ASSUME NEW x \in G PROVE g[x] \in Int /\ h[x] \in Int /\ f[x] = g[x] + 1 * h[x]
    <3>1. w[x] \in Int /\ Coefficient(s, x) = Coefficient(a, x) + Coefficient(b, x)
      BY <1>e, <1>0 DEF IntsOn
    <3>2. \A p, q, r \in Int : p * r \in Int /\ q * r \in Int /\ (p + q) * r = p * r + 1 * (q * r)
      OBVIOUS
    <3>3. f[x] = (Coefficient(a, x) + Coefficient(b, x)) * w[x] /\ g[x] = Coefficient(a, x) * w[x] /\ h[x] = Coefficient(b, x) * w[x]
      BY <3>1
    <3> HIDE DEF f, g, h
    <3> QED
      BY <3>1, <3>2, <3>3, <1>a
  <2> QED
    BY <2>1 DEF IntsOn, Combines
<1> HIDE DEF f, g, h, G, s
<1>3. Sum(f, G) = Sum(g, G) + 1 * Sum(h, G)
  BY <1>c, <1>2, SumLinear
<1>4. a.const \in Int /\ b.const \in Int
  BY DEF SumOver
<1>5. Lin(s, w) = (a.const + b.const) + (Sum(g, G) + 1 * Sum(h, G))
  BY <1>b, <1>1, <1>3
<1>6. Lin(s, w) = (a.const + Sum(g, G)) + (b.const + Sum(h, G))
  BY <1>1, <1>4, <1>5
<1> QED
  BY <1>1, <1>6 DEF s

\* A product of numbers other than 0 is not 0.
LEMMA NonZero ==
  ASSUME NEW a \in Int, NEW b \in Int, a # 0, b # 0
  PROVE  a * b # 0
OBVIOUS

\* Exp::multiplyBy multiplies the coefficients, the constant and the worth.
LEMMA MultiplyFacts ==
  ASSUME NEW F, NEW e, SumOver(e, F), NEW k \in Int
  PROVE  /\ SumOver(multiplyBy(e, k), F)
         /\ DOMAIN multiplyBy(e, k).terms \subseteq DOMAIN e.terms
         /\ k # 0 => DOMAIN multiplyBy(e, k).terms = DOMAIN e.terms
         /\ multiplyBy(e, k).const = k * e.const
         /\ \A f : Coefficient(multiplyBy(e, k), f) = k * Coefficient(e, f)
         /\ \A w : IntsOn(w, F) => Lin(multiplyBy(e, k), w) = k * Lin(e, w)
<1>0. e.const \in Int /\ \A f : Coefficient(e, f) \in Int
  BY CoefficientInt DEF SumOver
<1>1. CASE k = 0
  <2>1. multiplyBy(e, k) = Const(0)
    BY <1>1 DEF multiplyBy, Zero
  <2>2. SumOver(Const(0), F) /\ DOMAIN Const(0).terms = {} /\ Const(0).const = 0 /\ \A w : Lin(Const(0), w) = 0
    BY ConstFacts
  <2>3. \A f : Coefficient(Const(0), f) = 0
    BY <2>2 DEF Coefficient
  <2>4. \A w : IntsOn(w, F) => Lin(e, w) \in Int
    BY LinSpread DEF SumOver
  <2> QED
    BY <1>0, <1>1, <2>1, <2>2, <2>3, <2>4
<1>2. CASE k # 0
  <2> DEFINE s == multiplyBy(e, k)
             D == DOMAIN e.terms
  <2>1. s.const = e.const * k /\ DOMAIN s.terms = D /\ \A f \in D : s.terms[f] = e.terms[f] * k
    BY <1>2 DEF multiplyBy
  <2>2. IsFiniteSet(D) /\ D \subseteq F /\ \A f \in D : e.terms[f] \in Int /\ e.terms[f] # 0
    BY DEF SumOver
  <2> HIDE DEF s, D
  <2>3. \A f \in D : s.terms[f] \in Int /\ s.terms[f] # 0
    <3> SUFFICES ASSUME NEW f \in D PROVE s.terms[f] \in Int /\ s.terms[f] # 0
      OBVIOUS
    <3>1. e.terms[f] \in Int /\ e.terms[f] # 0
      BY <2>2
    <3>2. e.terms[f] * k # 0 /\ e.terms[f] * k \in Int
      BY <3>1, <1>2, NonZero
    <3> QED
      BY <3>2, <2>1
  <2>4. SumOver(s, F)
    BY <1>0, <2>1, <2>2, <2>3 DEF SumOver
  <2>5. \A f : Coefficient(s, f) = k * Coefficient(e, f)
    <3> SUFFICES ASSUME NEW f PROVE Coefficient(s, f) = k * Coefficient(e, f)
      OBVIOUS
    <3>1. CASE f \in D
      <4>1. Coefficient(s, f) = e.terms[f] * k /\ Coefficient(e, f) = e.terms[f] /\ e.terms[f] \in Int
        BY <3>1, <2>1, <2>2 DEF Coefficient, D
      <4> QED
        BY <4>1
    <3>2. CASE f \notin D
      <4>1. Coefficient(s, f) = 0 /\ Coefficient(e, f) = 0
        BY <3>2, <2>1 DEF Coefficient, D
      <4> QED
        BY <4>1
    <3> QED
      BY <3>1, <3>2
  <2>6. ASSUME NEW w, IntsOn(w, F) PROVE Lin(s, w) = k * Lin(e, w)
    <3> DEFINE f == [x \in D |-> s.terms[x] * w[x]]
               h == [x \in D |-> e.terms[x] * w[x]]
               g == [x \in D |-> 0]
    <3>1. IntsOn(h, D) /\ IntsOn(g, D) /\ Combines(f, g, k, h, D)
      <4>1. ASSUME NEW x \in D PROVE h[x] \in Int /\ f[x] = g[x] + k * h[x]
        <5>1. w[x] \in Int /\ e.terms[x] \in Int /\ s.terms[x] = e.terms[x] * k
          BY <2>1, <2>2, <2>6 DEF IntsOn
        <5>2. \A p, q \in Int : p * q \in Int /\ (p * k) * q = 0 + k * (p * q)
          OBVIOUS
        <5>3. f[x] = (e.terms[x] * k) * w[x] /\ h[x] = e.terms[x] * w[x] /\ g[x] = 0
          BY <5>1
        <5>4. /\ e.terms[x] * w[x] \in Int
              /\ (e.terms[x] * k) * w[x] = 0 + k * (e.terms[x] * w[x])
          BY <5>1, <5>2, Zenon
        <5> HIDE DEF f, g, h
        <5> QED
          BY <5>3, <5>4, Zenon
      <4> QED
        BY <4>1 DEF IntsOn, Combines
    <3>2. Sum(g, D) = 0
      <4>1. \A x \in D \ {} : g[x] = 0
        OBVIOUS
      <4> HIDE DEF g
      <4>2. Sum(g, D) = Sum(g, {})
        BY <3>1, <2>2, <4>1, SumExtended
      <4> QED
        BY <4>2, SumEmpty DEF Sum
    <3> HIDE DEF f, g, h
    <3>3. Sum(f, D) = Sum(g, D) + k * Sum(h, D)
      <4>1. IsFiniteSet(D) /\ k \in Int
        BY <2>2
      <4> QED
        BY <4>1, <3>1, SumLinear
    <3>4. Sum(h, D) \in Int
      BY <2>2, <3>1, SumFacts
    <3>5. Lin(s, w) = s.const + Sum(f, D) /\ Lin(e, w) = e.const + Sum(h, D)
      BY <2>1 DEF Lin, f, h, D
    <3>6. \A p, q \in Int : p * k + (0 + k * q) = k * (p + q)
      OBVIOUS
    <3>7. Lin(s, w) = e.const * k + (0 + k * Sum(h, D))
      BY <2>1, <3>2, <3>3, <3>5
    <3>8. e.const * k + (0 + k * Sum(h, D)) = k * (e.const + Sum(h, D))
      BY <1>0, <3>4, <3>6
    <3> QED
      BY <3>5, <3>7, <3>8
  <2>7. s.const = k * e.const
    BY <2>1, <1>0
  <2> QED
    BY <2>1, <2>4, <2>5, <2>6, <2>7 DEF s, D
<1> QED
  BY <1>1, <1>2

\* The same for one worth of factors.
LEMMA LinearFacts ==
  ASSUME NEW F, NEW a, SumOver(a, F), NEW w, IntsOn(w, F)
  PROVE  /\ Lin(a, w) \in Int
         /\ \A b : SumOver(b, F) => Lin(addExp(a, b), w) = Lin(a, w) + Lin(b, w)
         /\ \A k \in Int : Lin(multiplyBy(a, k), w) = k * Lin(a, w)
<1>1. Lin(a, w) \in Int
  BY LinSpread DEF SumOver
<1>2. ASSUME NEW b, SumOver(b, F) PROVE Lin(addExp(a, b), w) = Lin(a, w) + Lin(b, w)
  BY <1>2, AddLin
<1>3. ASSUME NEW k \in Int PROVE Lin(multiplyBy(a, k), w) = k * Lin(a, w)
  <2>1. \A v : IntsOn(v, F) => Lin(multiplyBy(a, k), v) = k * Lin(a, v)
    BY MultiplyFacts
  <2> QED
    BY <2>1
<1> QED
  BY <1>1, <1>2, <1>3

-----------------------------------------------------------------------------
(* Replacing factors                                                       *)

IsMapFcn(e, image, g) ==
  g = [s \in SUBSET DOMAIN e.terms |->
         IF s = {} THEN Const(e.const)
         ELSE addExp(g[s \ {Pick(s)}], multiplyBy(image[Pick(s)], e.terms[Pick(s)]))]

\* MapFactors takes the factors in turn.
LEMMA MapUnfolds ==
  ASSUME NEW e, NEW image
  PROVE  MapFactors(e, image) = (CHOOSE g : IsMapFcn(e, image, g))[DOMAIN e.terms]
BY DEF MapFactors, FoldSet, MapThenFoldSet, IsMapFcn, Pick

\* There is a function that MapFactors' recursion defines.
LEMMA MapFcnExists ==
  ASSUME NEW e, NEW image, IsFiniteSet(DOMAIN e.terms)
  PROVE  \E g : IsMapFcn(e, image, g)
<1> DEFINE S == DOMAIN e.terms
           Step(s, r) == addExp(r, multiplyBy(image[Pick(s)], e.terms[Pick(s)]))
           U(n) == {s \in SUBSET S : Cardinality(s) <= n}
           Upto(g, n) == g = [s \in U(n) |-> IF s = {} THEN Const(e.const) ELSE Step(s, g[s \ {Pick(s)}])]
           m == Cardinality(S)
           P == {n \in 0 .. m : \E g : Upto(g, n)}
<1>0. m \in Nat /\ \A s \in SUBSET S : IsFiniteSet(s) /\ Cardinality(s) \in Nat /\ Cardinality(s) <= m
  BY FS_CardinalityType, FS_Subset
<1>1. 0 \in P
  <2> DEFINE g == [s \in U(0) |-> Const(e.const)]
  <2>1. \A s \in U(0) : s = {}
    BY <1>0, FS_EmptySet
  <2> HIDE DEF U, Step
  <2>2. Upto(g, 0)
    BY <2>1
  <2> HIDE DEF g, Upto
  <2> QED
    BY <2>2, <1>0
<1>2. ASSUME NEW n \in 1 .. m, n - 1 \in P PROVE n \in P
  <2>1. PICK g : Upto(g, n - 1)
    BY <1>2
  <2> DEFINE f == [s \in U(n) |-> IF s = {} THEN Const(e.const) ELSE Step(s, g[s \ {Pick(s)}])]
  <2>2. \A s \in U(n) : s # {} => s \ {Pick(s)} \in U(n - 1)
    <3> SUFFICES ASSUME NEW s \in U(n), s # {} PROVE s \ {Pick(s)} \in U(n - 1)
      OBVIOUS
    <3>1. Pick(s) \in s
      BY DEF Pick
    <3>2. Cardinality(s \ {Pick(s)}) = Cardinality(s) - 1
      BY <3>1, <1>0, FS_RemoveElement
    <3> QED
      BY <3>2, <1>0
  <2>3. U(n - 1) \subseteq U(n)
    BY <1>0
  <2> HIDE DEF Step
  <2>4. \A s \in U(n - 1) : f[s] = g[s]
    <3>1. g = [s \in U(n - 1) |-> IF s = {} THEN Const(e.const) ELSE Step(s, g[s \ {Pick(s)}])]
      BY <2>1
    <3> HIDE DEF U
    <3>2. \A s \in U(n - 1) : g[s] = IF s = {} THEN Const(e.const) ELSE Step(s, g[s \ {Pick(s)}])
      BY <3>1, Zenon
    <3>3. \A s \in U(n - 1) : f[s] = IF s = {} THEN Const(e.const) ELSE Step(s, g[s \ {Pick(s)}])
      BY <2>3
    <3> QED
      BY <3>2, <3>3, Zenon
  <2>5. Upto(f, n)
    <3> HIDE DEF U
    <3>1. \A s \in U(n) : s # {} => f[s \ {Pick(s)}] = g[s \ {Pick(s)}]
      BY <2>2, <2>4
    <3> QED
      BY <3>1
  <2> HIDE DEF f, Upto
  <2> QED
    BY <2>5
<1>3. m \in P
  <2> HIDE DEF P, m
  <2>1. \A n \in 0 .. m : n \in P
    BY <1>0, <1>1, <1>2, Induct
  <2> QED
    BY <2>1, <1>0
<1>4. PICK g : Upto(g, m)
  BY <1>3
<1>5. U(m) = SUBSET S
  BY <1>0
<1>6. g = [s \in SUBSET S |-> IF s = {} THEN Const(e.const) ELSE Step(s, g[s \ {Pick(s)}])]
  <2> HIDE DEF U, Step
  <2> QED
    BY <1>4, <1>5
<1> QED
  BY <1>6, Zenon DEF IsMapFcn

MapsLin(e, image, F) ==
  \A w : IntsOn(w, F) =>
    Lin(MapFactors(e, image), w) = Lin(e, [f \in DOMAIN e.terms |-> Lin(image[f], w)])

\* Mapping factors replaces what they are worth.
LEMMA MapFacts ==
  ASSUME NEW e, NEW D, SumOver(e, D), NEW image, NEW F,
         \A f \in DOMAIN e.terms : SumOver(image[f], F)
  PROVE  /\ SumOver(MapFactors(e, image), F)
         /\ MapsLin(e, image, F)
<1> DEFINE S == DOMAIN e.terms
           part(f) == multiplyBy(image[f], e.terms[f])
<1>0. IsFiniteSet(S) /\ e.const \in Int /\ \A f \in S : e.terms[f] \in Int
  BY DEF SumOver
<1>1. PICK g : IsMapFcn(e, image, g) /\ MapFactors(e, image) = g[S]
  BY <1>0, MapFcnExists, MapUnfolds, Zenon
<1>2. \A s \in SUBSET S : g[s] = IF s = {} THEN Const(e.const) ELSE addExp(g[s \ {Pick(s)}], part(Pick(s)))
  <2>1. \A s \in SUBSET DOMAIN e.terms :
          g[s] = IF s = {} THEN Const(e.const)
                 ELSE addExp(g[s \ {Pick(s)}], multiplyBy(image[Pick(s)], e.terms[Pick(s)]))
    BY <1>1, Zenon DEF IsMapFcn
  <2> QED
    BY <2>1
<1>3. \A f \in S : SumOver(part(f), F) /\ \A w : IntsOn(w, F) => Lin(part(f), w) = e.terms[f] * Lin(image[f], w)
  BY <1>0, MultiplyFacts
<1>4. \A f \in S : \A w : IntsOn(w, F) => Lin(image[f], w) \in Int
  BY LinSpread DEF SumOver
<1> HIDE DEF part
<1>5. \A s \in SUBSET S : SumOver(g[s], F)
  <2> DEFINE P == {s \in SUBSET S : SumOver(g[s], F)}
  <2>1. ASSUME NEW s \in SUBSET S, \A x \in s : s \ {x} \in P PROVE s \in P
    <3>1. CASE s = {}
      <4>1. g[s] = Const(e.const)
        BY <1>2, <3>1
      <4> QED
        BY <4>1, <1>0, ConstFacts
    <3>2. CASE s # {}
      <4>1. Pick(s) \in s
        BY <3>2 DEF Pick
      <4>2. g[s] = addExp(g[s \ {Pick(s)}], part(Pick(s))) /\ SumOver(g[s \ {Pick(s)}], F)
        BY <1>2, <2>1, <3>2, <4>1
      <4> QED
        BY <4>1, <4>2, <1>3, AddFacts
    <3> QED
      BY <3>1, <3>2
  <2> HIDE DEF P
  <2>2. \A s \in SUBSET S : s \in P
    BY <1>0, <2>1, FiniteInduct
  <2> QED
    BY <2>2 DEF P
<1>6. ASSUME NEW w, IntsOn(w, F) PROVE Lin(MapFactors(e, image), w) = Lin(e, [f \in S |-> Lin(image[f], w)])
  <2> DEFINE h == [f \in S |-> e.terms[f] * [x \in S |-> Lin(image[x], w)][f]]
             P == {s \in SUBSET S : Lin(g[s], w) = e.const + Sum(h, s)}
  <2>0. \A f \in S : h[f] = e.terms[f] * Lin(image[f], w) /\ h[f] \in Int
    <3> SUFFICES ASSUME NEW f \in S PROVE h[f] = e.terms[f] * Lin(image[f], w) /\ h[f] \in Int
      OBVIOUS
    <3>1. Lin(image[f], w) \in Int /\ e.terms[f] \in Int
      BY <1>0, <1>4, <1>6
    <3> QED
      BY <3>1
  <2> HIDE DEF h
  <2>1. IntsOn(h, S)
    BY <2>0 DEF IntsOn
  <2>2. ASSUME NEW s \in SUBSET S, \A x \in s : s \ {x} \in P PROVE s \in P
    <3>1. CASE s = {}
      <4>1. g[s] = Const(e.const)
        BY <1>2, <3>1
      <4>2. Lin(g[s], w) = e.const
        BY <4>1, <1>0, ConstFacts
      <4>3. Sum(h, s) = 0
        BY <3>1, SumEmpty DEF Sum
      <4> QED
        BY <4>2, <4>3, <1>0
    <3>2. CASE s # {}
      <4> DEFINE p == Pick(s)
      <4>1. p \in s
        BY <3>2 DEF Pick
      <4>2. g[s] = addExp(g[s \ {p}], part(p)) /\ s \ {p} \in P
        BY <1>2, <2>2, <3>2, <4>1
      <4> HIDE DEF p
      <4>3. SumOver(g[s \ {p}], F) /\ SumOver(part(p), F) /\ Lin(part(p), w) = h[p] /\ h[p] \in Int
        BY <4>1, <1>3, <1>5, <1>6, <2>0
      <4>4. Lin(g[s], w) = Lin(g[s \ {p}], w) + h[p]
        BY <4>2, <4>3, <1>6, LinearFacts
      <4>5. IsFiniteSet(s) /\ IntsOn(h, s) /\ Sum(h, s \ {p}) \in Int
        <5>1. s \ {p} \in SUBSET S
          OBVIOUS
        <5> QED
          BY <5>1, <1>0, <2>1, SumFacts
      <4>6. Sum(h, s) = h[p] + Sum(h, s \ {p})
        <5>1. \A x \in s : Sum(h, s) = h[x] + Sum(h, s \ {x})
          BY <4>5, SumFacts
        <5> QED
          BY <4>1, <5>1
      <4>7. Lin(g[s \ {p}], w) = e.const + Sum(h, s \ {p})
        BY <4>2
      <4>8. Lin(g[s], w) = e.const + Sum(h, s)
        BY <4>3, <4>4, <4>5, <4>6, <4>7, <1>0
      <4> QED
        BY <4>8
    <3> QED
      BY <3>1, <3>2
  <2> HIDE DEF P
  <2>3. \A s \in SUBSET S : s \in P
    BY <1>0, <2>2, FiniteInduct
  <2>4. Lin(g[S], w) = e.const + Sum(h, S)
    BY <2>3 DEF P
  <2> QED
    BY <2>4, <1>1 DEF Lin, h
<1>7. MapsLin(e, image, F)
  BY <1>6 DEF MapsLin
<1> QED
  BY <1>1, <1>5, <1>7

-----------------------------------------------------------------------------
(* Division and solving for a factor                                       *)

\* A multiple divides back exactly.
LEMMA FloorOfMultiple ==
  ASSUME NEW d \in Nat \ {0}, NEW x \in Int
  PROVE  (d * x) \div d = x
<1> DEFINE q == (d * x) \div d
           r == (d * x) % d
<1>1. q \in Int /\ r \in 0 .. d - 1 /\ d * x = d * q + r
  OBVIOUS
<1> HIDE DEF q, r
<1>2. CASE x - q >= 1
  <2>1. d * (x - q) >= d * 1
    BY <1>1, <1>2
  <2>2. d * (x - q) = d * x - d * q
    BY <1>1
  <2> QED
    BY <1>1, <2>1, <2>2
<1>3. CASE x - q <= -1
  <2>1. d * (q - x) >= d * 1
    BY <1>1, <1>3
  <2>2. d * (q - x) = d * q - d * x
    BY <1>1
  <2> QED
    BY <1>1, <2>1, <2>2
<1>4. CASE x = q
  BY <1>4 DEF q
<1> QED
  BY <1>1, <1>2, <1>3, <1>4

Quotient(c, k) == IF k < 0 THEN (-c) \div (-k) ELSE c \div k

\* C's division of a multiple is exact, whatever the signs.
LEMMA ExactQuotient ==
  ASSUME NEW c \in Int, NEW k \in Int, k # 0, Magnitude(c) % Magnitude(k) = 0
  PROVE  Quotient(c, k) \in Int /\ Quotient(c, k) * k = c
<1> DEFINE d == Magnitude(k)
           b == Magnitude(c)
           q == b \div d
<1>1. d \in Nat \ {0} /\ b \in Nat
  BY DEF Magnitude
<1>2. q \in Int /\ b = d * q
  <2> HIDE DEF d, b
  <2>1. b % d = 0
    BY DEF d, b
  <2> QED
    BY <1>1, <2>1
<1>3. (d = k \/ d = -k) /\ (b = c \/ b = -c) /\ (k < 0 <=> d = -k) /\ (c < 0 => b = -c) /\ (c >= 0 => b = c)
  BY <1>1 DEF Magnitude
<1> HIDE DEF d, b, q
<1>4. (d * q) \div d = q /\ (d * (-q)) \div d = -q
  <2>1. -q \in Int
    BY <1>2
  <2> QED
    BY <2>1, <1>1, <1>2, FloorOfMultiple
<1>5. d * (-q) = - (d * q)
  BY <1>1, <1>2
<1>6. CASE k < 0
  <2>1. Quotient(c, k) = (-c) \div d /\ k = -d
    BY <1>6, <1>3, <1>1 DEF Quotient
  <2>2. CASE b = -c
    <3>1. Quotient(c, k) = q
      BY <2>1, <2>2, <1>2, <1>4
    <3>2. q * k = -(d * q)
      BY <2>1, <1>1, <1>2
    <3> QED
      BY <3>1, <3>2, <2>2, <1>2
  <2>3. CASE b = c
    <3>1. -c = d * (-q)
      BY <2>3, <1>2, <1>5
    <3>2. Quotient(c, k) = -q
      BY <3>1, <2>1, <1>4
    <3>3. (-q) * k = d * q
      BY <2>1, <1>1, <1>2
    <3> QED
      BY <3>2, <3>3, <2>3, <1>2
  <2> QED
    BY <2>2, <2>3, <1>3
<1>7. CASE ~ (k < 0)
  <2>1. Quotient(c, k) = c \div d /\ k = d
    BY <1>7, <1>3, <1>1 DEF Quotient
  <2>2. CASE b = c
    <3>1. Quotient(c, k) = q
      BY <2>1, <2>2, <1>2, <1>4
    <3>2. q * k = d * q
      BY <2>1, <1>1, <1>2
    <3> QED
      BY <3>1, <3>2, <2>2, <1>2
  <2>3. CASE b = -c
    <3>1. c = d * (-q)
      BY <2>3, <1>2, <1>5
    <3>2. Quotient(c, k) = -q
      BY <3>1, <2>1, <1>4
    <3>3. (-q) * k = - (d * q)
      BY <2>1, <1>1, <1>2
    <3> QED
      BY <3>2, <3>3, <2>3, <1>2
  <2> QED
    BY <2>2, <2>3, <1>3
<1> QED
  BY <1>6, <1>7

\* Only what is left of an expression counts.
LEMMA LinSame ==
  ASSUME NEW F, NEW a, SumOver(a, F), NEW w, IntsOn(w, F), NEW b,
         b.const = a.const, DOMAIN b.terms = DOMAIN a.terms, \A f \in DOMAIN a.terms : b.terms[f] = a.terms[f]
  PROVE  Lin(b, w) = Lin(a, w)
<1> DEFINE g == [f \in DOMAIN a.terms |-> a.terms[f] * w[f]]
           h == [f \in DOMAIN a.terms |-> b.terms[f] * w[f]]
<1>1. g = h
  OBVIOUS
<1>2. Lin(b, w) = b.const + Sum(h, DOMAIN a.terms) /\ Lin(a, w) = a.const + Sum(g, DOMAIN a.terms)
  BY DEF Lin
<1> QED
  BY <1>1, <1>2

\* Exp::divideBy, where isDivisible says yes, keeps the factors.
LEMMA DivideFacts ==
  ASSUME NEW F, NEW e, SumOver(e, F), NEW k \in Int, k # 0, isDivisible(e, k)
  PROVE  /\ SumOver(divideBy(e, k), F)
         /\ DOMAIN divideBy(e, k).terms = DOMAIN e.terms
<1> DEFINE s == divideBy(e, k)
<1>1. s.const = Quotient(e.const, k) /\ DOMAIN s.terms = DOMAIN e.terms
      /\ \A f \in DOMAIN e.terms : s.terms[f] = Quotient(e.terms[f], k)
  BY DEF divideBy, Quotient
<1>2. Magnitude(e.const) % Magnitude(k) = 0 /\ \A f \in DOMAIN e.terms : Magnitude(e.terms[f]) % Magnitude(k) = 0
  BY DEF isDivisible
<1>3. s.const \in Int
  BY <1>1, <1>2, ExactQuotient DEF SumOver
<1>4. ASSUME NEW f \in DOMAIN e.terms PROVE s.terms[f] \in Int \ {0}
  <2>1. e.terms[f] \in Int /\ e.terms[f] # 0
    BY DEF SumOver
  <2>2. s.terms[f] \in Int /\ s.terms[f] * k = e.terms[f]
    BY <1>1, <1>2, <2>1, ExactQuotient
  <2>3. s.terms[f] # 0
    BY <2>1, <2>2
  <2> QED
    BY <2>2, <2>3
<1> HIDE DEF s
<1>5. SumOver(s, F)
  BY <1>1, <1>3, <1>4 DEF SumOver
<1> QED
  BY <1>1, <1>5 DEF s

\* What it leaves is worth the k-th part.
LEMMA DivideLin ==
  ASSUME NEW F, NEW e, SumOver(e, F), NEW k \in Int, k # 0, isDivisible(e, k), NEW w, IntsOn(w, F)
  PROVE  Lin(divideBy(e, k), w) \in Int /\ k * Lin(divideBy(e, k), w) = Lin(e, w)
<1> DEFINE s == divideBy(e, k)
           r == multiplyBy(s, k)
<1>0. SumOver(s, F)
  BY DivideFacts
<1>1. s.const = Quotient(e.const, k) /\ DOMAIN s.terms = DOMAIN e.terms
      /\ \A f \in DOMAIN e.terms : s.terms[f] = Quotient(e.terms[f], k)
  BY DEF divideBy, Quotient
<1>2. Magnitude(e.const) % Magnitude(k) = 0 /\ \A f \in DOMAIN e.terms : Magnitude(e.terms[f]) % Magnitude(k) = 0
  BY DEF isDivisible
<1> HIDE DEF s
<1>3. r.const = s.const * k /\ DOMAIN r.terms = DOMAIN s.terms /\ \A f \in DOMAIN s.terms : r.terms[f] = s.terms[f] * k
  BY DEF multiplyBy
<1> HIDE DEF r
<1>4. r.const = e.const
  <2>1. e.const \in Int
    BY DEF SumOver
  <2> QED
    BY <2>1, <1>1, <1>2, <1>3, ExactQuotient
<1>5. \A f \in DOMAIN e.terms : r.terms[f] = e.terms[f]
  <2> SUFFICES ASSUME NEW f \in DOMAIN e.terms PROVE r.terms[f] = e.terms[f]
    OBVIOUS
  <2>1. e.terms[f] \in Int
    BY DEF SumOver
  <2> QED
    BY <2>1, <1>1, <1>2, <1>3, ExactQuotient
<1>6. Lin(r, w) = Lin(e, w)
  BY <1>1, <1>3, <1>4, <1>5, LinSame
<1>7. Lin(s, w) \in Int /\ Lin(r, w) = k * Lin(s, w)
  BY <1>0, LinearFacts DEF r
<1> QED
  BY <1>6, <1>7 DEF s

\* An expression is what it is without a factor, and that factor's term.
LEMMA WithoutFacts ==
  ASSUME NEW F, NEW e, SumOver(e, F), NEW f \in DOMAIN e.terms
  PROVE  /\ SumOver(Without(e, f), F)
         /\ DOMAIN Without(e, f).terms = DOMAIN e.terms \ {f}
         /\ \A w : IntsOn(w, F) => Lin(e, w) = Lin(Without(e, f), w) + e.terms[f] * w[f]
<1> DEFINE s == Without(e, f)
           D == DOMAIN e.terms
<1>1. s.const = e.const /\ DOMAIN s.terms = D \ {f} /\ \A x \in D \ {f} : s.terms[x] = e.terms[x]
  BY DEF Without
<1>2. SumOver(s, F)
  <2>1. IsFiniteSet(D \ {f})
    BY FS_RemoveElement DEF SumOver
  <2> HIDE DEF s
  <2> QED
    BY <1>1, <2>1 DEF SumOver
<1> HIDE DEF s
<1>3. ASSUME NEW w, IntsOn(w, F) PROVE Lin(e, w) = Lin(s, w) + e.terms[f] * w[f]
  <2> DEFINE g == [x \in D |-> e.terms[x] * w[x]]
             h == [x \in D \ {f} |-> s.terms[x] * w[x]]
  <2>1. IsFiniteSet(D) /\ \A x \in D : e.terms[x] \in Int /\ w[x] \in Int
    BY <1>3 DEF SumOver, IntsOn
  <2>2. IntsOn(g, D) /\ g[f] = e.terms[f] * w[f]
    BY <2>1 DEF IntsOn
  <2>3. \A x \in D \ {f} : g[x] = h[x]
    BY <1>1
  <2>4. Lin(e, w) = e.const + Sum(g, D) /\ Lin(s, w) = s.const + Sum(h, D \ {f})
    BY <1>1 DEF Lin
  <2> HIDE DEF g, h
  <2>5. Sum(g, D) = g[f] + Sum(g, D \ {f})
    <3>1. \A x \in D : Sum(g, D) = g[x] + Sum(g, D \ {x})
      BY <2>1, <2>2, SumFacts
    <3> QED
      BY <3>1
  <2>6. Sum(g, D \ {f}) = Sum(h, D \ {f}) /\ Sum(g, D \ {f}) \in Int
    <3>1. IsFiniteSet(D \ {f}) /\ IntsOn(g, D \ {f}) /\ Sum(g, D \ {f}) \in Int
      <4>1. D \ {f} \in SUBSET D
        OBVIOUS
      <4> QED
        BY <2>1, <2>2, <4>1, SumFacts
    <3> QED
      BY <3>1, <2>3, SumSame
  <2>7. e.const \in Int /\ g[f] \in Int
    BY <2>2 DEF SumOver, IntsOn
  <2> QED
    BY <1>1, <2>2, <2>4, <2>5, <2>6, <2>7
<1> QED
  BY <1>1, <1>2, <1>3 DEF s

\* Solving e = 0 for a factor whose coefficient divides the others.
LEMMA IsolateFacts ==
  ASSUME NEW F, NEW e, SumOver(e, F), NEW f, findMatchingFactor(e, f)
  PROVE  SumOver(Isolate(e, f), F) /\ DOMAIN Isolate(e, f).terms = DOMAIN e.terms \ {f} /\ f \in DOMAIN e.terms
<1> DEFINE k == - e.terms[f]
           s == Without(e, f)
<1>1. f \in DOMAIN e.terms /\ isDivisible(e, e.terms[f])
  BY DEF findMatchingFactor
<1>2. e.terms[f] \in Int /\ e.terms[f] # 0 /\ k \in Int /\ k # 0
  BY <1>1 DEF SumOver
<1>3. SumOver(s, F) /\ DOMAIN s.terms = DOMAIN e.terms \ {f}
  BY <1>1, WithoutFacts
<1>4. isDivisible(s, k)
  <2>1. Magnitude(k) = Magnitude(e.terms[f])
    BY <1>2 DEF Magnitude
  <2>2. s.const = e.const /\ \A x \in DOMAIN s.terms : s.terms[x] = e.terms[x]
    BY DEF Without
  <2> HIDE DEF s, k
  <2> QED
    BY <1>1, <1>3, <2>1, <2>2 DEF isDivisible
<1> HIDE DEF s, k
<1>5. SumOver(divideBy(s, k), F) /\ DOMAIN divideBy(s, k).terms = DOMAIN s.terms
  BY <1>2, <1>3, <1>4, DivideFacts
<1> QED
  BY <1>1, <1>3, <1>5 DEF Isolate, s, k

\* The expression a factor is isolated to is worth the factor exactly where
\* the equality holds.
LEMMA IsolateLin ==
  ASSUME NEW F, NEW e, SumOver(e, F), NEW f, findMatchingFactor(e, f), NEW w, IntsOn(w, F)
  PROVE  Lin(Isolate(e, f), w) \in Int /\ (Lin(e, w) = 0 <=> w[f] = Lin(Isolate(e, f), w))
<1> DEFINE k == - e.terms[f]
           s == Without(e, f)
           v == Lin(divideBy(s, k), w)
<1>1. f \in DOMAIN e.terms /\ isDivisible(e, e.terms[f])
  BY DEF findMatchingFactor
<1>2. e.terms[f] \in Int /\ e.terms[f] # 0 /\ k \in Int /\ k # 0 /\ w[f] \in Int
  BY <1>1 DEF SumOver, IntsOn
<1>3. SumOver(s, F) /\ DOMAIN s.terms = DOMAIN e.terms \ {f} /\ Lin(e, w) = Lin(s, w) + e.terms[f] * w[f]
  <2>1. \A u : IntsOn(u, F) => Lin(e, u) = Lin(s, u) + e.terms[f] * u[f]
    BY <1>1, WithoutFacts
  <2> QED
    BY <1>1, <2>1, WithoutFacts
<1>4. isDivisible(s, k)
  <2>1. Magnitude(k) = Magnitude(e.terms[f])
    BY <1>2 DEF Magnitude
  <2>2. s.const = e.const /\ \A x \in DOMAIN s.terms : s.terms[x] = e.terms[x]
    BY DEF Without
  <2> HIDE DEF s, k
  <2> QED
    BY <1>1, <1>3, <2>1, <2>2 DEF isDivisible
<1>5. v \in Int /\ k * v = Lin(s, w)
  <2> HIDE DEF s, k
  <2> QED
    BY <1>2, <1>3, <1>4, DivideLin
<1>6. Isolate(e, f) = divideBy(s, k)
  BY DEF Isolate
<1> HIDE DEF s, v
<1>7. k = - e.terms[f]
  OBVIOUS
<1> HIDE DEF k
<1>8. Lin(e, w) = e.terms[f] * (w[f] - v)
  <2>1. Lin(e, w) = k * v + e.terms[f] * w[f]
    BY <1>3, <1>5
  <2>2. \A p, q, r \in Int : (-p) * q + p * r = p * (r - q)
    OBVIOUS
  <2> QED
    BY <2>1, <2>2, <1>2, <1>5, <1>7
<1>9. Lin(e, w) = 0 <=> w[f] - v = 0
  <2>1. w[f] - v \in Int
    BY <1>2, <1>5
  <2>2. \A p, q \in Int : p # 0 => (p * q = 0 <=> q = 0)
    BY NonZero
  <2> QED
    BY <2>1, <2>2, <1>2, <1>8
<1> QED
  BY <1>2, <1>5, <1>6, <1>9 DEF v

-----------------------------------------------------------------------------
(* What is within an expression                                            *)

\* The image of a finite set is finite.
LEMMA ImageFinite ==
  ASSUME NEW S, IsFiniteSet(S), NEW h
  PROVE  IsFiniteSet({h[x] : x \in S})
<1> DEFINE T == {h[x] : x \in S}
           g == [x \in S |-> h[x]]
<1>1. g \in Surjection(S, T)
  BY DEF Surjection
<1> HIDE DEF T, g
<1>2. IsFiniteSet(T)
  BY <1>1, FS_Surjection
<1> QED
  BY <1>2 DEF T

Arguments(s) == {f[3] : f \in UNION {Calls(x) : x \in s}}

\* The levels of nesting that Within unites.
IsLevels(e, n, g) == g = [d \in 0 .. n |-> IF d = 0 THEN {e} ELSE Arguments(g[d - 1])]

\* Within gathers the levels of nesting.
LEMMA WithinUnfolds ==
  ASSUME NEW e
  PROVE  Within(e) = UNION {(CHOOSE g : IsLevels(e, Nesting(e), g))[d] : d \in 0 .. Nesting(e)}
BY DEF Within, IsLevels, Arguments

\* There are such levels.
LEMMA LevelsExist ==
  ASSUME NEW e, NEW m \in Nat
  PROVE  \E g : IsLevels(e, m, g)
<1> DEFINE P == {n \in 0 .. m : \E g : IsLevels(e, n, g)}
<1>1. 0 \in P
  <2> DEFINE g == [d \in 0 .. 0 |-> {e}]
  <2>1. IsLevels(e, 0, g)
    BY DEF IsLevels
  <2> HIDE DEF g
  <2> QED
    BY <2>1
<1>2. ASSUME NEW n \in 1 .. m, n - 1 \in P PROVE n \in P
  <2>1. PICK g : IsLevels(e, n - 1, g)
    BY <1>2
  <2> DEFINE f == [d \in 0 .. n |-> IF d = 0 THEN {e} ELSE Arguments(g[d - 1])]
  <2>2. \A d \in 0 .. n - 1 : g[d] = IF d = 0 THEN {e} ELSE Arguments(g[d - 1])
    BY <2>1, Zenon DEF IsLevels
  <2>a. \A d \in 0 .. n - 1 : f[d] = IF d = 0 THEN {e} ELSE Arguments(g[d - 1])
    OBVIOUS
  <2>3. \A d \in 0 .. n - 1 : f[d] = g[d]
    BY <2>2, <2>a, Zenon
  <2>4. \A d \in 0 .. n : d # 0 => d - 1 \in 0 .. n - 1
    OBVIOUS
  <2>5. \A d \in 0 .. n : d # 0 => f[d - 1] = g[d - 1]
    BY <2>3, <2>4, Zenon
  <2>6. IsLevels(e, n, f)
    BY <2>5 DEF IsLevels
  <2> HIDE DEF f
  <2> QED
    BY <2>6
<1> HIDE DEF P
<1>3. \A n \in 0 .. m : n \in P
  BY <1>1, <1>2, Induct
<1> QED
  BY <1>3 DEF P

\* A call is one level deeper than its argument.
LEMMA NestingFacts ==
  ASSUME NEW L, NEW e, IsSum(e, L)
  PROVE  Nesting(e) \in Nat /\ \A f \in Calls(e) : f[4] \in Nat \ {0} /\ f[4] <= Nesting(e)
<1> DEFINE S == {0} \cup {f[4] : f \in Calls(e)}
<1>1. \A f \in Calls(e) : f[4] \in Nat \ {0}
  BY DEF Calls, IsSum, IsFactor, IsCall, TupleVar
<1>2. IsFiniteSet(S) /\ S \subseteq Nat /\ S # {}
  <2>1. IsFiniteSet(Calls(e))
    BY FS_Subset DEF Calls, IsSum
  <2>2. IsFiniteSet({f[4] : f \in Calls(e)})
    <3> DEFINE h == [f \in Calls(e) |-> f[4]]
    <3>1. \A f \in Calls(e) : h[f] = f[4]
      OBVIOUS
    <3>2. {h[f] : f \in Calls(e)} = {f[4] : f \in Calls(e)}
      BY <3>1
    <3> HIDE DEF h
    <3>3. IsFiniteSet({h[f] : f \in Calls(e)})
      BY <2>1, ImageFinite
    <3> QED
      BY <3>2, <3>3
  <2>3. IsFiniteSet(S)
    BY <2>2, FS_Singleton, FS_Union
  <2> QED
    BY <2>3, <1>1
<1>3. Max(S) \in S /\ \A y \in S : Max(S) >= y
  <2> HIDE DEF S
  <2> QED
    BY <1>2, FiniteMax
<1>4. Nesting(e) = Max(S)
  BY DEF Nesting
<1> HIDE DEF S
<1>5. Nesting(e) \in Nat
  BY <1>2, <1>3, <1>4
<1>6. ASSUME NEW f \in Calls(e) PROVE f[4] <= Nesting(e)
  BY <1>1, <1>2, <1>3, <1>4 DEF S
<1> QED
  BY <1>1, <1>5, <1>6

\* A set of expressions over the locations that has the arguments of its members.
Closed(W, L) == \A x \in W : IsSum(x, L) /\ \A f \in Calls(x) : f[3] \in W

\* In one, the argument of a call is nested less deeply than the call.
LEMMA ClosedNesting ==
  ASSUME NEW L, NEW W, Closed(W, L), NEW x \in W, NEW f \in Calls(x)
  PROVE  /\ f[3] \in W /\ Nesting(f[3]) \in Nat /\ Nesting(x) \in Nat
         /\ f[4] = Nesting(f[3]) + 1 /\ f[4] <= Nesting(x) /\ Nesting(f[3]) < Nesting(x)
         /\ f[2] \in Names /\ f = UFCall(f[2], f[3]) /\ f \in DOMAIN x.terms /\ IsCall(f)
<1>1. IsSum(x, L) /\ f[3] \in W /\ f \in DOMAIN x.terms /\ IsCall(f)
  BY DEF Closed, Calls
<1>2. IsSum(f[3], L)
  BY <1>1 DEF Closed
<1>3. f[2] \in Names /\ f = UFCall(f[2], f[3])
  BY <1>1 DEF IsSum, IsFactor, IsCall, TupleVar
<1>4. f[4] = Nesting(f[3]) + 1
  <2>1. UFCall(f[2], f[3])[4] = Nesting(f[3]) + 1
    BY DEF UFCall
  <2> QED
    BY <2>1, <1>3
<1>5. Nesting(f[3]) \in Nat /\ Nesting(x) \in Nat /\ f[4] <= Nesting(x)
  BY <1>1, <1>2, NestingFacts
<1> QED
  BY <1>1, <1>3, <1>4, <1>5

\* Within is the least closed set.
LEMMA WithinLeast ==
  ASSUME NEW e, Nesting(e) \in Nat, NEW W, e \in W, \A x \in W : \A f \in Calls(x) : f[3] \in W
  PROVE  Within(e) \subseteq W
<1> DEFINE n == Nesting(e)
           g == CHOOSE h : IsLevels(e, n, h)
<1>1. IsLevels(e, n, g)
  BY LevelsExist, Zenon
<1>2. Within(e) = UNION {g[d] : d \in 0 .. n}
  BY WithinUnfolds
<1> HIDE DEF g, n
<1>3. \A d \in 0 .. n : g[d] = IF d = 0 THEN {e} ELSE Arguments(g[d - 1])
  BY <1>1, Zenon DEF IsLevels
<1>4. n \in Nat
  BY DEF n
<1> DEFINE P == {d \in 0 .. n : g[d] \subseteq W}
<1>5. 0 \in P
  BY <1>3, <1>4
<1>6. ASSUME NEW d \in 1 .. n, d - 1 \in P PROVE d \in P
  <2>1. d \in 0 .. n /\ d # 0
    BY <1>4
  <2>2. g[d] = Arguments(g[d - 1])
    BY <1>3, <2>1
  <2>3. g[d - 1] \subseteq W
    BY <1>6
  <2>4. Arguments(g[d - 1]) \subseteq W
    BY <2>3 DEF Arguments
  <2> QED
    BY <2>1, <2>2, <2>4
<1> HIDE DEF P
<1>7. \A d \in 0 .. n : d \in P
  BY <1>4, <1>5, <1>6, Induct
<1>8. \A d \in 0 .. n : g[d] \subseteq W
  BY <1>7 DEF P
<1> QED
  BY <1>2, <1>8

\* It is closed where the levels hold expressions only.
LEMMA WithinClosed ==
  ASSUME NEW L, NEW e, IsExp(e, L)
  PROVE  Closed(Within(e), L)
<1> DEFINE n == Nesting(e)
           g == CHOOSE h : IsLevels(e, n, h)
<1>0. n \in Nat
  BY NestingFacts DEF IsExp
<1>1. IsLevels(e, n, g)
  BY <1>0, LevelsExist, Zenon
<1>2. Within(e) = UNION {g[d] : d \in 0 .. n}
  BY WithinUnfolds
<1>a. n = Nesting(e)
  OBVIOUS
<1> HIDE DEF g, n
<1>3. \A d \in 0 .. n : g[d] = IF d = 0 THEN {e} ELSE Arguments(g[d - 1])
  BY <1>1, Zenon DEF IsLevels
<1>4. \A d \in 0 .. n : \A x \in g[d] : IsSum(x, L) /\ Nesting(x) \in Nat
  BY <1>2, NestingFacts DEF IsExp
<1> DEFINE P == {d \in 0 .. n : \A x \in g[d] : Nesting(x) <= n - d}
<1>5. 0 \in P
  BY <1>0, <1>3, <1>a
<1>6. ASSUME NEW d \in 1 .. n, d - 1 \in P PROVE d \in P
  <2>0. d \in 0 .. n /\ d # 0 /\ d - 1 \in 0 .. n
    BY <1>0
  <2> SUFFICES ASSUME NEW y \in g[d] PROVE Nesting(y) <= n - d
    BY <2>0
  <2>1. g[d] = Arguments(g[d - 1])
    BY <1>3, <2>0
  <2>a. PICK x \in g[d - 1] : \E f \in Calls(x) : y = f[3]
    BY <2>1 DEF Arguments
  <2>2. PICK f \in Calls(x) : y = f[3]
    BY <2>a
  <2>3. IsSum(x, L) /\ Nesting(x) \in Nat /\ Nesting(x) <= n - (d - 1) /\ Nesting(y) \in Nat
    BY <1>4, <2>0, <2>2, <1>6
  <2>4. f[4] <= Nesting(x) /\ f[4] \in Nat
    BY <2>3, NestingFacts
  <2>5. f[4] = Nesting(y) + 1
    <3>1. f = UFCall(f[2], f[3])
      BY <2>2, <2>3 DEF Calls, IsSum, IsFactor, IsCall, TupleVar
    <3>2. UFCall(f[2], f[3])[4] = Nesting(f[3]) + 1
      BY DEF UFCall
    <3> QED
      BY <3>1, <3>2, <2>2
  <2> QED
    BY <2>3, <2>4, <2>5, <1>0
<1> HIDE DEF P
<1>7. \A d \in 0 .. n : d \in P
  BY <1>0, <1>5, <1>6, Induct
<1>8. ASSUME NEW x \in Within(e), NEW f \in Calls(x) PROVE f[3] \in Within(e)
  <2>1. PICK d \in 0 .. n : x \in g[d]
    BY <1>2
  <2>2. Nesting(x) <= n - d /\ Nesting(x) \in Nat /\ IsSum(x, L)
    BY <2>1, <1>4, <1>7 DEF P
  <2>3. f[4] <= Nesting(x) /\ f[4] \in Nat \ {0}
    BY <2>2, NestingFacts
  <2>4. d + 1 \in 0 .. n /\ d + 1 # 0 /\ (d + 1) - 1 = d
    BY <2>2, <2>3, <1>0
  <2>5. g[d + 1] = Arguments(g[d])
    BY <2>4, <1>3
  <2>6. f[3] \in g[d + 1]
    BY <2>1, <2>5 DEF Arguments
  <2> QED
    BY <2>4, <2>6, <1>2
<1> QED
  BY <1>8 DEF Closed, IsExp

\* What makes an expression, and what lies within it.
LEMMA ExpByWitness ==
  ASSUME NEW L, NEW W, Closed(W, L), NEW e \in W
  PROVE  IsExp(e, L)
<1>1. IsSum(e, L)
  BY DEF Closed
<1>2. Nesting(e) \in Nat
  BY <1>1, NestingFacts
<1>3. Within(e) \subseteq W
  BY <1>2, WithinLeast DEF Closed
<1> QED
  BY <1>1, <1>3 DEF Closed, IsExp

\* An expression is within itself.
LEMMA WithinItself ==
  ASSUME NEW e, Nesting(e) \in Nat
  PROVE  e \in Within(e)
<1> DEFINE n == Nesting(e)
           g == CHOOSE h : IsLevels(e, n, h)
<1>1. IsLevels(e, n, g)
  BY LevelsExist, Zenon
<1>2. Within(e) = UNION {g[d] : d \in 0 .. n}
  BY WithinUnfolds
<1> HIDE DEF g
<1>3. \A d \in 0 .. n : g[d] = IF d = 0 THEN {e} ELSE Arguments(g[d - 1])
  BY <1>1, Zenon DEF IsLevels
<1>4. 0 \in 0 .. n
  OBVIOUS
<1> QED
  BY <1>2, <1>3, <1>4

\* Everything within an expression is an expression.
LEMMA ExpFacts ==
  ASSUME NEW L, NEW e, IsExp(e, L)
  PROVE  Closed(Within(e), L) /\ e \in Within(e) /\ Nesting(e) \in Nat /\ IsSum(e, L)
<1>1. Closed(Within(e), L)
  BY WithinClosed
<1>2. Nesting(e) \in Nat /\ IsSum(e, L)
  BY NestingFacts DEF IsExp
<1>3. e \in Within(e)
  BY <1>2, WithinItself
<1> QED
  BY <1>1, <1>2, <1>3

\* What lies within an expression is one, and has less within it.
LEMMA ExpWithin ==
  ASSUME NEW L, NEW e, IsExp(e, L), NEW x \in Within(e)
  PROVE  IsExp(x, L) /\ Within(x) \subseteq Within(e)
<1>1. Closed(Within(e), L)
  BY ExpFacts
<1>2. IsExp(x, L)
  BY <1>1, ExpByWitness
<1>3. Nesting(x) \in Nat
  BY <1>2, ExpFacts
<1>4. \A y \in Within(e) : \A f \in Calls(y) : f[3] \in Within(e)
  BY <1>1 DEF Closed
<1> QED
  BY <1>2, <1>3, <1>4, WithinLeast

\* The arguments of an expression's calls.
LEMMA ExpCall ==
  ASSUME NEW L, NEW e, IsExp(e, L), NEW f \in Calls(e)
  PROVE  /\ IsExp(f[3], L) /\ f[3] \in Within(e) /\ Nesting(f[3]) < Nesting(e)
         /\ f[2] \in Names /\ f = UFCall(f[2], f[3]) /\ f \in DOMAIN e.terms /\ IsCall(f)
         /\ f[4] = Nesting(f[3]) + 1
<1>1. Closed(Within(e), L) /\ e \in Within(e)
  BY ExpFacts
<1>2. f[3] \in Within(e)
  BY <1>1 DEF Closed
<1> QED
  BY <1>1, <1>2, ClosedNesting, ExpWithin

\* The recursive reading of both notions.
IsGoodFactor(f, L) ==
  \/ \E i \in L : f = TupleVar(i)
  \/ IsCall(f) /\ f[2] \in Names /\ f = UFCall(f[2], f[3]) /\ IsExp(f[3], L)

\* The factors of an expression are locations and calls on expressions.
LEMMA ExpFactors ==
  ASSUME NEW L, NEW e, IsExp(e, L)
  PROVE  SumOver(e, DOMAIN e.terms) /\ \A f \in DOMAIN e.terms : IsGoodFactor(f, L)
<1>1. IsSum(e, L)
  BY DEF IsExp
<1>2. SumOver(e, DOMAIN e.terms)
  BY <1>1 DEF IsSum, SumOver
<1>3. ASSUME NEW f \in DOMAIN e.terms PROVE IsGoodFactor(f, L)
  <2>1. CASE IsCall(f)
    <3>1. f \in Calls(e)
      BY <2>1 DEF Calls
    <3> QED
      BY <3>1, ExpCall DEF IsGoodFactor
  <2>2. CASE ~ IsCall(f)
    <3>1. IsFactor(f, L)
      BY <1>1 DEF IsSum
    <3> QED
      BY <3>1, <2>2 DEF IsFactor, IsGoodFactor
  <2> QED
    BY <2>1, <2>2
<1> QED
  BY <1>2, <1>3

\* A sum of such factors is an expression.
LEMMA ExpMade ==
  ASSUME NEW L, NEW F, NEW e, SumOver(e, F), \A f \in F : IsGoodFactor(f, L)
  PROVE  IsExp(e, L)
<1> DEFINE W == {e} \cup UNION {Within(f[3]) : f \in Calls(e)}
<1>1. \A f \in DOMAIN e.terms : IsGoodFactor(f, L) /\ e.terms[f] \in Int \ {0}
  BY DEF SumOver
<1>2. ASSUME NEW f \in Calls(e) PROVE IsExp(f[3], L) /\ f[2] \in Names /\ f = UFCall(f[2], f[3]) /\ IsCall(f)
  BY <1>1 DEF Calls, IsGoodFactor, IsCall, TupleVar
<1>3. IsSum(e, L)
  <2>1. ASSUME NEW f \in DOMAIN e.terms PROVE IsFactor(f, L)
    <3>1. CASE f \in Calls(e)
      <4>1. Nesting(f[3]) \in Nat
        BY <3>1, <1>2, ExpFacts
      <4>2. UFCall(f[2], f[3])[4] = Nesting(f[3]) + 1
        BY DEF UFCall
      <4>3. f[4] = Nesting(f[3]) + 1
        BY <4>2, <3>1, <1>2
      <4>4. f[4] \in Nat \ {0}
        BY <4>1, <4>3
      <4> QED
        BY <4>4, <3>1, <1>2 DEF IsFactor
    <3>2. CASE f \notin Calls(e)
      BY <3>2, <1>1 DEF Calls, IsGoodFactor, IsFactor
    <3> QED
      BY <3>1, <3>2
  <2> QED
    BY <1>1, <2>1 DEF IsSum, SumOver
<1>4. Closed(W, L)
  <2> SUFFICES ASSUME NEW x \in W PROVE IsSum(x, L) /\ \A f \in Calls(x) : f[3] \in W
    BY DEF Closed
  <2>1. CASE x = e
    <3>1. ASSUME NEW f \in Calls(e) PROVE f[3] \in W
      BY <1>2, ExpFacts
    <3> QED
      BY <2>1, <3>1, <1>3
  <2>2. CASE x # e
    <3>1. PICK f \in Calls(e) : x \in Within(f[3])
      BY <2>2
    <3>2. Closed(Within(f[3]), L)
      BY <1>2, ExpFacts
    <3> QED
      BY <3>1, <3>2 DEF Closed
  <2> QED
    BY <2>1, <2>2
<1>5. e \in W
  OBVIOUS
<1> QED
  BY <1>4, <1>5, ExpByWitness

\* Induction over what lies within an expression.
LEMMA ExpInduct ==
  ASSUME NEW L, NEW e, IsExp(e, L), NEW P,
         \A x \in Within(e) :
           (\A y \in Within(e) : Nesting(y) < Nesting(x) => y \in P) => x \in P
  PROVE  \A x \in Within(e) : x \in P
<1> DEFINE T == {Nesting(x) : x \in {y \in Within(e) : y \notin P}}
<1>1. \A x \in Within(e) : Nesting(x) \in Nat
  BY ExpWithin, ExpFacts
<1> SUFFICES ASSUME T # {} PROVE FALSE
  OBVIOUS
<1>2. T \in SUBSET Nat
  BY <1>1
<1>3. PICK m \in T : \A k \in T : m <= k
  BY <1>2, LeastNumber
<1>4. PICK x \in Within(e) : x \notin P /\ m = Nesting(x)
  BY <1>3
<1>5. ASSUME NEW y \in Within(e), Nesting(y) < Nesting(x) PROVE y \in P
  <2>1. CASE y \notin P
    <3>1. Nesting(y) \in T
      BY <2>1
    <3>2. Nesting(x) <= Nesting(y) /\ Nesting(x) \in Nat /\ Nesting(y) \in Nat
      BY <3>1, <1>1, <1>3, <1>4
    <3> QED
      BY <3>2, <1>5
  <2> QED
    BY <2>1
<1> QED
  BY <1>4, <1>5

-----------------------------------------------------------------------------
(* Recursion over nested calls                                             *)

\* Nothing within an expression is nested more deeply than it.
LEMMA NestingBound ==
  ASSUME NEW L, NEW e, IsExp(e, L)
  PROVE  \A x \in Within(e) : Nesting(x) \in Nat /\ Nesting(x) <= Nesting(e)
<1> DEFINE W == {x \in Within(e) : Nesting(x) \in Nat /\ Nesting(x) <= Nesting(e)}
<1>1. Closed(Within(e), L) /\ e \in Within(e) /\ Nesting(e) \in Nat
  BY ExpFacts
<1>2. e \in W
  BY <1>1
<1>3. ASSUME NEW x \in W, NEW f \in Calls(x) PROVE f[3] \in W
  <2>1. f[3] \in Within(e) /\ Nesting(f[3]) \in Nat /\ Nesting(f[3]) < Nesting(x) /\ Nesting(x) \in Nat
    BY <1>1, ClosedNesting
  <2> QED
    BY <1>1, <2>1
<1> HIDE DEF W
<1>4. Within(e) \subseteq W
  BY <1>1, <1>2, <1>3, WithinLeast
<1> QED
  BY <1>4 DEF W

-----------------------------------------------------------------------------
\* What a call is worth, and the recursion of Value.
Called(m, name, v) == IF v \in DOMAIN m[name] THEN m[name][v] ELSE v

ValueStep(x, t, m, g) ==
  x.const + SumFunction([f \in DOMAIN x.terms |-> x.terms[f] *
              (IF IsCall(f) THEN Called(m, f[2], g[f[3]]) ELSE t[f[2]])])

IsValueFcn(W, t, m, g) == g = [x \in W |-> ValueStep(x, t, m, g)]

\* Value is what its recursive function gives.
LEMMA ValueUnfolds ==
  ASSUME NEW t, NEW m
  PROVE  \A x : Value(x, t, m) = (CHOOSE g : IsValueFcn(Within(x), t, m, g))[x]
BY DEF Value, IsValueFcn, ValueStep, Called

\* It looks at less nested expressions only.
LEMMA ValueAgree ==
  ASSUME NEW L, NEW W, Closed(W, L), NEW t, NEW m, NEW x \in W, NEW g, NEW h,
         \A y \in W : Nesting(y) < Nesting(x) => g[y] = h[y]
  PROVE  ValueStep(x, t, m, g) = ValueStep(x, t, m, h)
<1>1. \A f \in DOMAIN x.terms : IsCall(f) => g[f[3]] = h[f[3]]
  BY ClosedNesting DEF Calls
<1> DEFINE a == [f \in DOMAIN x.terms |-> x.terms[f] * (IF IsCall(f) THEN Called(m, f[2], g[f[3]]) ELSE t[f[2]])]
           b == [f \in DOMAIN x.terms |-> x.terms[f] * (IF IsCall(f) THEN Called(m, f[2], h[f[3]]) ELSE t[f[2]])]
<1>2. a = b
  BY <1>1
<1>3. ValueStep(x, t, m, g) = x.const + SumFunction(a) /\ ValueStep(x, t, m, h) = x.const + SumFunction(b)
  BY DEF ValueStep
<1> QED
  BY <1>2, <1>3

\* There is a function that Value is defined by.
LEMMA ValueExists ==
  ASSUME NEW L, NEW e, IsExp(e, L), NEW t, NEW m
  PROVE  \E g : IsValueFcn(Within(e), t, m, g)
<1> DEFINE W == Within(e)
           N == Nesting(e) + 1
           U(n) == {x \in W : Nesting(x) < n}
           P == {n \in 0 .. N : \E g : IsValueFcn(U(n), t, m, g)}
<1>0. Closed(W, L) /\ N \in Nat /\ \A x \in W : Nesting(x) \in Nat /\ Nesting(x) < N
  BY ExpFacts, NestingBound
<1>1. 0 \in P
  <2> DEFINE g == [x \in U(0) |-> 0]
  <2>1. U(0) = {}
    BY <1>0
  <2>2. IsValueFcn(U(0), t, m, g)
    BY <2>1 DEF IsValueFcn
  <2>3. 0 \in 0 .. N
    BY <1>0
  <2> HIDE DEF g, U, N
  <2> QED
    BY <2>2, <2>3
<1>2. ASSUME NEW n \in 1 .. N, n - 1 \in P PROVE n \in P
  <2>1. PICK g : IsValueFcn(U(n - 1), t, m, g)
    BY <1>2
  <2> DEFINE f == [x \in U(n) |-> ValueStep(x, t, m, g)]
  <2>2. U(n - 1) \subseteq U(n) /\ U(n) \subseteq W
    BY <1>0
  <2>3. \A x \in U(n), y \in W : Nesting(y) < Nesting(x) => y \in U(n - 1)
    BY <1>0
  <2>4. U(n) = {x \in W : Nesting(x) < n}
    OBVIOUS
  <2> HIDE DEF U
  <2>5. \A x \in U(n - 1) : g[x] = ValueStep(x, t, m, g)
    BY <2>1, Zenon DEF IsValueFcn
  <2>6. \A x \in U(n) : f[x] = ValueStep(x, t, m, g)
    OBVIOUS
  <2>7. \A x \in U(n - 1) : f[x] = g[x]
    BY <2>2, <2>5, <2>6
  <2>a. f = [x \in U(n) |-> ValueStep(x, t, m, g)]
    OBVIOUS
  <2> HIDE DEF f
  <2>8. ASSUME NEW x \in U(n) PROVE ValueStep(x, t, m, g) = ValueStep(x, t, m, f)
    <3>1. \A y \in W : Nesting(y) < Nesting(x) => g[y] = f[y]
      BY <2>3, <2>7
    <3>2. x \in W
      BY <2>2
    <3> HIDE DEF W
    <3> QED
      BY <1>0, <3>1, <3>2, ValueAgree
  <2>9. IsValueFcn(U(n), t, m, f)
    BY <2>8, <2>a DEF IsValueFcn
  <2> QED
    BY <2>9
<1>3. N \in P
  <2> HIDE DEF P, N
  <2>1. \A n \in 0 .. N : n \in P
    BY <1>0, <1>1, <1>2, Induct
  <2> QED
    BY <2>1, <1>0
<1>4. U(N) = W
  BY <1>0
<1> HIDE DEF U
<1> QED
  BY <1>3, <1>4

\* It is the same for every part of the expression.
LEMMA ValueUnique ==
  ASSUME NEW L, NEW e, IsExp(e, L), NEW t, NEW m, NEW g, IsValueFcn(Within(e), t, m, g),
         NEW x \in Within(e), NEW h, IsValueFcn(Within(x), t, m, h)
  PROVE  g[x] = h[x]
<1> DEFINE P == {y \in Within(x) : g[y] = h[y]}
<1>1. IsExp(x, L) /\ Within(x) \subseteq Within(e)
  BY ExpWithin
<1>2. x \in Within(x) /\ Closed(Within(x), L)
  BY <1>1, ExpFacts
<1>3. ASSUME NEW y \in Within(x), \A z \in Within(x) : Nesting(z) < Nesting(y) => z \in P
      PROVE  y \in P
  <2>1. g[y] = ValueStep(y, t, m, g)
    <3>1. y \in Within(e)
      BY <1>1
    <3> QED
      BY <3>1, Zenon DEF IsValueFcn
  <2>2. h[y] = ValueStep(y, t, m, h)
    BY Zenon DEF IsValueFcn
  <2>3. \A z \in Within(x) : Nesting(z) < Nesting(y) => g[z] = h[z]
    BY <1>3
  <2>4. ValueStep(y, t, m, g) = ValueStep(y, t, m, h)
    BY <1>2, <2>3, ValueAgree
  <2> QED
    BY <2>1, <2>2, <2>4
<1> HIDE DEF P
<1>4. \A y \in Within(x) : y \in P
  BY <1>1, <1>3, ExpInduct
<1> QED
  BY <1>2, <1>4 DEF P

\* The recursion of Value(e, t, m).
LEMMA ValueEquation ==
  ASSUME NEW L, NEW e, IsExp(e, L), NEW t, NEW m
  PROVE  Value(e, t, m) = ValueStep(e, t, m, [x \in Within(e) |-> Value(x, t, m)])
<1> DEFINE G(x) == CHOOSE g : IsValueFcn(Within(x), t, m, g)
           h == [x \in Within(e) |-> Value(x, t, m)]
<1>1. \A x \in Within(e) : IsValueFcn(Within(x), t, m, G(x))
  <2> SUFFICES ASSUME NEW x \in Within(e) PROVE \E g : IsValueFcn(Within(x), t, m, g)
    BY Zenon
  <2> QED
    BY ExpWithin, ValueExists
<1>2. \A x : Value(x, t, m) = G(x)[x]
  BY ValueUnfolds
<1> HIDE DEF G
<1>3. e \in Within(e) /\ Closed(Within(e), L)
  BY ExpFacts
<1>4. PICK g : g = G(e)
  OBVIOUS
<1>5. IsValueFcn(Within(e), t, m, g)
  BY <1>1, <1>3, <1>4
<1>6. \A x \in Within(e) : g[x] = h[x]
  <2> SUFFICES ASSUME NEW x \in Within(e) PROVE g[x] = Value(x, t, m)
    OBVIOUS
  <2>1. PICK k : k = G(x)
    OBVIOUS
  <2>2. IsValueFcn(Within(x), t, m, k)
    BY <1>1, <2>1
  <2>3. g[x] = k[x]
    BY <1>5, <2>2, ValueUnique
  <2> QED
    BY <2>1, <2>3, <1>2
<1> HIDE DEF h
<1>7. g[e] = ValueStep(e, t, m, g)
  BY <1>3, <1>5, Zenon DEF IsValueFcn
<1>8. ValueStep(e, t, m, g) = ValueStep(e, t, m, h)
  <2>1. \A y \in Within(e) : Nesting(y) < Nesting(e) => g[y] = h[y]
    BY <1>6
  <2> QED
    BY <1>3, <2>1, ValueAgree
<1> QED
  BY <1>2, <1>4, <1>7, <1>8 DEF h

-----------------------------------------------------------------------------
\* What a factor becomes, given what becomes of the arguments.
SubstituteImage(f, sub, g) ==
  IF f \in DOMAIN sub THEN sub[f]
  ELSE IF IsCall(f) THEN Single(UFCall(f[2], g[f[3]])) ELSE Single(f)

SubstituteStep(x, sub, g) ==
  MapFactors(x, [f \in DOMAIN x.terms |-> SubstituteImage(f, sub, g)])

IsSubstituteFcn(W, sub, g) == g = [x \in W |-> SubstituteStep(x, sub, g)]

\* substitute is what its recursive function gives.
LEMMA SubstituteUnfolds ==
  ASSUME NEW sub
  PROVE  \A x : substitute(x, sub) = (CHOOSE g : IsSubstituteFcn(Within(x), sub, g))[x]
BY DEF substitute, IsSubstituteFcn, SubstituteStep, SubstituteImage

\* It looks at less nested expressions only.
LEMMA SubstituteAgree ==
  ASSUME NEW L, NEW W, Closed(W, L), NEW sub, NEW x \in W, NEW g, NEW h,
         \A y \in W : Nesting(y) < Nesting(x) => g[y] = h[y]
  PROVE  SubstituteStep(x, sub, g) = SubstituteStep(x, sub, h)
<1>1. \A f \in DOMAIN x.terms : IsCall(f) => g[f[3]] = h[f[3]]
  BY ClosedNesting DEF Calls
<1>2. \A f \in DOMAIN x.terms : SubstituteImage(f, sub, g) = SubstituteImage(f, sub, h)
  BY <1>1 DEF SubstituteImage
<1>3. [f \in DOMAIN x.terms |-> SubstituteImage(f, sub, g)] = [f \in DOMAIN x.terms |-> SubstituteImage(f, sub, h)]
  BY <1>2
<1> QED
  BY <1>3 DEF SubstituteStep

\* There is a function that substitute is defined by.
LEMMA SubstituteExists ==
  ASSUME NEW L, NEW e, IsExp(e, L), NEW sub
  PROVE  \E g : IsSubstituteFcn(Within(e), sub, g)
<1> DEFINE W == Within(e)
           N == Nesting(e) + 1
           U(n) == {x \in W : Nesting(x) < n}
           P == {n \in 0 .. N : \E g : IsSubstituteFcn(U(n), sub, g)}
<1>0. Closed(W, L) /\ N \in Nat /\ \A x \in W : Nesting(x) \in Nat /\ Nesting(x) < N
  BY ExpFacts, NestingBound
<1>1. 0 \in P
  <2> DEFINE g == [x \in U(0) |-> 0]
  <2>1. U(0) = {}
    BY <1>0
  <2>2. IsSubstituteFcn(U(0), sub, g)
    BY <2>1 DEF IsSubstituteFcn
  <2>3. 0 \in 0 .. N
    BY <1>0
  <2> HIDE DEF g, U, N
  <2> QED
    BY <2>2, <2>3
<1>2. ASSUME NEW n \in 1 .. N, n - 1 \in P PROVE n \in P
  <2>1. PICK g : IsSubstituteFcn(U(n - 1), sub, g)
    BY <1>2
  <2> DEFINE f == [x \in U(n) |-> SubstituteStep(x, sub, g)]
  <2>2. U(n - 1) \subseteq U(n) /\ U(n) \subseteq W
    BY <1>0
  <2>3. \A x \in U(n), y \in W : Nesting(y) < Nesting(x) => y \in U(n - 1)
    BY <1>0
  <2>4. U(n) = {x \in W : Nesting(x) < n}
    OBVIOUS
  <2> HIDE DEF U
  <2>5. \A x \in U(n - 1) : g[x] = SubstituteStep(x, sub, g)
    BY <2>1, Zenon DEF IsSubstituteFcn
  <2>6. \A x \in U(n) : f[x] = SubstituteStep(x, sub, g)
    OBVIOUS
  <2>7. \A x \in U(n - 1) : f[x] = g[x]
    BY <2>2, <2>5, <2>6
  <2>a. f = [x \in U(n) |-> SubstituteStep(x, sub, g)]
    OBVIOUS
  <2> HIDE DEF f
  <2>8. ASSUME NEW x \in U(n) PROVE SubstituteStep(x, sub, g) = SubstituteStep(x, sub, f)
    <3>1. \A y \in W : Nesting(y) < Nesting(x) => g[y] = f[y]
      BY <2>3, <2>7
    <3>2. x \in W
      BY <2>2
    <3> HIDE DEF W
    <3> QED
      BY <1>0, <3>1, <3>2, SubstituteAgree
  <2>9. IsSubstituteFcn(U(n), sub, f)
    BY <2>8, <2>a DEF IsSubstituteFcn
  <2> QED
    BY <2>9
<1>3. N \in P
  <2> HIDE DEF P, N
  <2>1. \A n \in 0 .. N : n \in P
    BY <1>0, <1>1, <1>2, Induct
  <2> QED
    BY <2>1, <1>0
<1>4. U(N) = W
  BY <1>0
<1> HIDE DEF U
<1> QED
  BY <1>3, <1>4

\* It is the same for every part of the expression.
LEMMA SubstituteUnique ==
  ASSUME NEW L, NEW e, IsExp(e, L), NEW sub, NEW g, IsSubstituteFcn(Within(e), sub, g),
         NEW x \in Within(e), NEW h, IsSubstituteFcn(Within(x), sub, h)
  PROVE  g[x] = h[x]
<1> DEFINE P == {y \in Within(x) : g[y] = h[y]}
<1>1. IsExp(x, L) /\ Within(x) \subseteq Within(e)
  BY ExpWithin
<1>2. x \in Within(x) /\ Closed(Within(x), L)
  BY <1>1, ExpFacts
<1>3. ASSUME NEW y \in Within(x), \A z \in Within(x) : Nesting(z) < Nesting(y) => z \in P
      PROVE  y \in P
  <2>1. g[y] = SubstituteStep(y, sub, g)
    <3>1. y \in Within(e)
      BY <1>1
    <3> QED
      BY <3>1, Zenon DEF IsSubstituteFcn
  <2>2. h[y] = SubstituteStep(y, sub, h)
    BY Zenon DEF IsSubstituteFcn
  <2>3. \A z \in Within(x) : Nesting(z) < Nesting(y) => g[z] = h[z]
    BY <1>3
  <2>4. SubstituteStep(y, sub, g) = SubstituteStep(y, sub, h)
    BY <1>2, <2>3, SubstituteAgree
  <2> QED
    BY <2>1, <2>2, <2>4
<1> HIDE DEF P
<1>4. \A y \in Within(x) : y \in P
  BY <1>1, <1>3, ExpInduct
<1> QED
  BY <1>2, <1>4 DEF P

\* The recursion of substitute(e, sub).
LEMMA SubstituteEquation ==
  ASSUME NEW L, NEW e, IsExp(e, L), NEW sub
  PROVE  substitute(e, sub) = SubstituteStep(e, sub, [x \in Within(e) |-> substitute(x, sub)])
<1> DEFINE G(x) == CHOOSE g : IsSubstituteFcn(Within(x), sub, g)
           h == [x \in Within(e) |-> substitute(x, sub)]
<1>1. \A x \in Within(e) : IsSubstituteFcn(Within(x), sub, G(x))
  <2> SUFFICES ASSUME NEW x \in Within(e) PROVE \E g : IsSubstituteFcn(Within(x), sub, g)
    BY Zenon
  <2> QED
    BY ExpWithin, SubstituteExists
<1>2. \A x : substitute(x, sub) = G(x)[x]
  BY SubstituteUnfolds
<1> HIDE DEF G
<1>3. e \in Within(e) /\ Closed(Within(e), L)
  BY ExpFacts
<1>4. PICK g : g = G(e)
  OBVIOUS
<1>5. IsSubstituteFcn(Within(e), sub, g)
  BY <1>1, <1>3, <1>4
<1>6. \A x \in Within(e) : g[x] = h[x]
  <2> SUFFICES ASSUME NEW x \in Within(e) PROVE g[x] = substitute(x, sub)
    OBVIOUS
  <2>1. PICK k : k = G(x)
    OBVIOUS
  <2>2. IsSubstituteFcn(Within(x), sub, k)
    BY <1>1, <2>1
  <2>3. g[x] = k[x]
    BY <1>5, <2>2, SubstituteUnique
  <2> QED
    BY <2>1, <2>3, <1>2
<1> HIDE DEF h
<1>7. g[e] = SubstituteStep(e, sub, g)
  BY <1>3, <1>5, Zenon DEF IsSubstituteFcn
<1>8. SubstituteStep(e, sub, g) = SubstituteStep(e, sub, h)
  <2>1. \A y \in Within(e) : Nesting(y) < Nesting(e) => g[y] = h[y]
    BY <1>6
  <2> QED
    BY <1>3, <2>1, SubstituteAgree
<1> QED
  BY <1>2, <1>4, <1>7, <1>8 DEF h

-----------------------------------------------------------------------------
\* The call within a call of its inverse.
InnerCall(f) == CHOOSE g \in DOMAIN f[3].terms : TRUE

CollapseImage(f, g) ==
  IF ~ IsCall(f) THEN Single(f)
  ELSE IF OfInverse(f) THEN g[InnerCall(f)[3]]
  ELSE Single(UFCall(f[2], g[f[3]]))

CollapseStep(x, g) ==
  MapFactors(x, [f \in DOMAIN x.terms |-> CollapseImage(f, g)])

IsCollapseFcn(W, g) == g = [x \in W |-> CollapseStep(x, g)]

\* collapseNestedInvertibleFunctions is what its recursive function gives.
LEMMA CollapseUnfolds ==
  \A x : collapseNestedInvertibleFunctions(x) = (CHOOSE g : IsCollapseFcn(Within(x), g))[x]
BY DEF collapseNestedInvertibleFunctions, IsCollapseFcn, CollapseStep, CollapseImage, InnerCall

\* The inner call of a function's call on its inverse.
LEMMA InnerCallFacts ==
  ASSUME NEW f, OfInverse(f)
  PROVE  /\ DOMAIN f[3].terms = {InnerCall(f)} /\ IsCall(InnerCall(f)) /\ InnerCall(f) \in Calls(f[3])
         /\ InnerCall(f)[2] = Inverses[f[2]] /\ f[2] \in DOMAIN Inverses /\ f[3].const = 0
<1>1. PICK g \in DOMAIN f[3].terms : DOMAIN f[3].terms = {g} /\ IsCall(g) /\ g[2] = Inverses[f[2]]
  BY DEF OfInverse
<1>2. InnerCall(f) = g
  BY <1>1 DEF InnerCall
<1> QED
  BY <1>1, <1>2 DEF OfInverse, Calls

\* The collapse looks at less nested expressions only.
LEMMA CollapseAgree ==
  ASSUME NEW L, NEW W, Closed(W, L), NEW x \in W, NEW g, NEW h,
         \A y \in W : Nesting(y) < Nesting(x) => g[y] = h[y]
  PROVE  CollapseStep(x, g) = CollapseStep(x, h)
<1>1. ASSUME NEW f \in DOMAIN x.terms, IsCall(f) PROVE g[f[3]] = h[f[3]]
  BY <1>1, ClosedNesting DEF Calls
<1>2. ASSUME NEW f \in DOMAIN x.terms, IsCall(f), OfInverse(f)
      PROVE  g[InnerCall(f)[3]] = h[InnerCall(f)[3]]
  <2>1. f \in Calls(x)
    BY <1>2 DEF Calls
  <2>2. f[3] \in W /\ Nesting(f[3]) < Nesting(x) /\ Nesting(x) \in Nat /\ Nesting(f[3]) \in Nat
    BY <2>1, ClosedNesting
  <2>3. InnerCall(f) \in Calls(f[3])
    BY <1>2, InnerCallFacts
  <2>4. InnerCall(f)[3] \in W /\ Nesting(InnerCall(f)[3]) < Nesting(f[3]) /\ Nesting(InnerCall(f)[3]) \in Nat
    BY <2>2, <2>3, ClosedNesting
  <2>5. Nesting(InnerCall(f)[3]) < Nesting(x)
    BY <2>2, <2>4
  <2> QED
    BY <2>4, <2>5
<1>3. \A f \in DOMAIN x.terms : CollapseImage(f, g) = CollapseImage(f, h)
  BY <1>1, <1>2 DEF CollapseImage
<1>4. [f \in DOMAIN x.terms |-> CollapseImage(f, g)] = [f \in DOMAIN x.terms |-> CollapseImage(f, h)]
  BY <1>3
<1> QED
  BY <1>4 DEF CollapseStep

\* There is a function that collapseNestedInvertibleFunctions is defined by.
LEMMA CollapseExists ==
  ASSUME NEW L, NEW e, IsExp(e, L)
  PROVE  \E g : IsCollapseFcn(Within(e), g)
<1> DEFINE W == Within(e)
           N == Nesting(e) + 1
           U(n) == {x \in W : Nesting(x) < n}
           P == {n \in 0 .. N : \E g : IsCollapseFcn(U(n), g)}
<1>0. Closed(W, L) /\ N \in Nat /\ \A x \in W : Nesting(x) \in Nat /\ Nesting(x) < N
  BY ExpFacts, NestingBound
<1>1. 0 \in P
  <2> DEFINE g == [x \in U(0) |-> 0]
  <2>1. U(0) = {}
    BY <1>0
  <2>2. IsCollapseFcn(U(0), g)
    BY <2>1 DEF IsCollapseFcn
  <2>3. 0 \in 0 .. N
    BY <1>0
  <2> HIDE DEF g, U, N
  <2> QED
    BY <2>2, <2>3
<1>2. ASSUME NEW n \in 1 .. N, n - 1 \in P PROVE n \in P
  <2>1. PICK g : IsCollapseFcn(U(n - 1), g)
    BY <1>2
  <2> DEFINE f == [x \in U(n) |-> CollapseStep(x, g)]
  <2>2. U(n - 1) \subseteq U(n) /\ U(n) \subseteq W
    BY <1>0
  <2>3. \A x \in U(n), y \in W : Nesting(y) < Nesting(x) => y \in U(n - 1)
    BY <1>0
  <2>4. U(n) = {x \in W : Nesting(x) < n}
    OBVIOUS
  <2> HIDE DEF U
  <2>5. \A x \in U(n - 1) : g[x] = CollapseStep(x, g)
    BY <2>1, Zenon DEF IsCollapseFcn
  <2>6. \A x \in U(n) : f[x] = CollapseStep(x, g)
    OBVIOUS
  <2>7. \A x \in U(n - 1) : f[x] = g[x]
    BY <2>2, <2>5, <2>6
  <2>a. f = [x \in U(n) |-> CollapseStep(x, g)]
    OBVIOUS
  <2> HIDE DEF f
  <2>8. ASSUME NEW x \in U(n) PROVE CollapseStep(x, g) = CollapseStep(x, f)
    <3>1. \A y \in W : Nesting(y) < Nesting(x) => g[y] = f[y]
      BY <2>3, <2>7
    <3>2. x \in W
      BY <2>2
    <3> HIDE DEF W
    <3> QED
      BY <1>0, <3>1, <3>2, CollapseAgree
  <2>9. IsCollapseFcn(U(n), f)
    BY <2>8, <2>a DEF IsCollapseFcn
  <2> QED
    BY <2>9
<1>3. N \in P
  <2> HIDE DEF P, N
  <2>1. \A n \in 0 .. N : n \in P
    BY <1>0, <1>1, <1>2, Induct
  <2> QED
    BY <2>1, <1>0
<1>4. U(N) = W
  BY <1>0
<1> HIDE DEF U
<1> QED
  BY <1>3, <1>4

\* It is the same for every part of the expression.
LEMMA CollapseUnique ==
  ASSUME NEW L, NEW e, IsExp(e, L), NEW g, IsCollapseFcn(Within(e), g),
         NEW x \in Within(e), NEW h, IsCollapseFcn(Within(x), h)
  PROVE  g[x] = h[x]
<1> DEFINE P == {y \in Within(x) : g[y] = h[y]}
<1>1. IsExp(x, L) /\ Within(x) \subseteq Within(e)
  BY ExpWithin
<1>2. x \in Within(x) /\ Closed(Within(x), L)
  BY <1>1, ExpFacts
<1>3. ASSUME NEW y \in Within(x), \A z \in Within(x) : Nesting(z) < Nesting(y) => z \in P
      PROVE  y \in P
  <2>1. g[y] = CollapseStep(y, g)
    <3>1. y \in Within(e)
      BY <1>1
    <3> QED
      BY <3>1, Zenon DEF IsCollapseFcn
  <2>2. h[y] = CollapseStep(y, h)
    BY Zenon DEF IsCollapseFcn
  <2>3. \A z \in Within(x) : Nesting(z) < Nesting(y) => g[z] = h[z]
    BY <1>3
  <2>4. CollapseStep(y, g) = CollapseStep(y, h)
    BY <1>2, <2>3, CollapseAgree
  <2> QED
    BY <2>1, <2>2, <2>4
<1> HIDE DEF P
<1>4. \A y \in Within(x) : y \in P
  BY <1>1, <1>3, ExpInduct
<1> QED
  BY <1>2, <1>4 DEF P

\* The recursion of collapseNestedInvertibleFunctions(e).
LEMMA CollapseEquation ==
  ASSUME NEW L, NEW e, IsExp(e, L)
  PROVE  collapseNestedInvertibleFunctions(e) = CollapseStep(e, [x \in Within(e) |-> collapseNestedInvertibleFunctions(x)])
<1> DEFINE G(x) == CHOOSE g : IsCollapseFcn(Within(x), g)
           h == [x \in Within(e) |-> collapseNestedInvertibleFunctions(x)]
<1>1. \A x \in Within(e) : IsCollapseFcn(Within(x), G(x))
  <2> SUFFICES ASSUME NEW x \in Within(e) PROVE \E g : IsCollapseFcn(Within(x), g)
    BY Zenon
  <2> QED
    BY ExpWithin, CollapseExists
<1>2. \A x : collapseNestedInvertibleFunctions(x) = G(x)[x]
  BY CollapseUnfolds
<1> HIDE DEF G
<1>3. e \in Within(e) /\ Closed(Within(e), L)
  BY ExpFacts
<1>4. PICK g : g = G(e)
  OBVIOUS
<1>5. IsCollapseFcn(Within(e), g)
  BY <1>1, <1>3, <1>4
<1>6. \A x \in Within(e) : g[x] = h[x]
  <2> SUFFICES ASSUME NEW x \in Within(e) PROVE g[x] = collapseNestedInvertibleFunctions(x)
    OBVIOUS
  <2>1. PICK k : k = G(x)
    OBVIOUS
  <2>2. IsCollapseFcn(Within(x), k)
    BY <1>1, <2>1
  <2>3. g[x] = k[x]
    BY <1>5, <2>2, CollapseUnique
  <2> QED
    BY <2>1, <2>3, <1>2
<1> HIDE DEF h
<1>7. g[e] = CollapseStep(e, g)
  BY <1>3, <1>5, Zenon DEF IsCollapseFcn
<1>8. CollapseStep(e, g) = CollapseStep(e, h)
  <2>1. \A y \in Within(e) : Nesting(y) < Nesting(e) => g[y] = h[y]
    BY <1>6
  <2> QED
    BY <1>3, <2>1, CollapseAgree
<1> QED
  BY <1>2, <1>4, <1>7, <1>8 DEF h

-----------------------------------------------------------------------------
(* What an expression is worth                                             *)

\* A tuple of numbers for the locations, and a meaning of the functions.
Point(t, L, m) == IntsOn(t, L) /\ IsMeaning(m)

Worth(f, t, m) == IF IsCall(f) THEN Called(m, f[2], Value(f[3], t, m)) ELSE t[f[2]]
Worths(F, t, m) == [f \in F |-> Worth(f, t, m)]

\* A call is a number, and the call of an inverse undoes it.
LEMMA CalledInt ==
  ASSUME NEW m, IsMeaning(m), NEW n \in Names, NEW v \in Int
  PROVE  Called(m, n, v) \in Int
BY DEF Called, IsMeaning

\* A function undoes its inverse and the inverse the function, off their
\* domain too.
LEMMA CalledInverse ==
  ASSUME NEW m, IsMeaning(m), NEW n \in DOMAIN Inverses, NEW v
  PROVE  Called(m, n, Called(m, Inverses[n], v)) = v /\ Called(m, Inverses[n], Called(m, n, v)) = v
<1>1. Inverses[n] \in DOMAIN Inverses /\ Inverses[Inverses[n]] = n
  BY InversesAssumption
<1>2. /\ DOMAIN m[Inverses[n]] = DOMAIN m[n]
      /\ \A x \in DOMAIN m[n] : m[n][x] \in DOMAIN m[n] /\ m[Inverses[n]][m[n][x]] = x
  BY DEF IsMeaning
<1>3. \A x \in DOMAIN m[Inverses[n]] :
         m[Inverses[n]][x] \in DOMAIN m[Inverses[n]] /\ m[n][m[Inverses[n]][x]] = x
  BY <1>1 DEF IsMeaning
<1> QED
  BY <1>2, <1>3 DEF Called

\* An expression is worth the sum of what its factors are worth.
LEMMA ValueLin ==
  ASSUME NEW L, NEW e, IsExp(e, L), NEW t, NEW m, NEW F, DOMAIN e.terms \subseteq F
  PROVE  Value(e, t, m) = Lin(e, Worths(F, t, m))
<1> DEFINE h == [x \in Within(e) |-> Value(x, t, m)]
           D == DOMAIN e.terms
           a == [f \in D |-> e.terms[f] * (IF IsCall(f) THEN Called(m, f[2], h[f[3]]) ELSE t[f[2]])]
           b == [f \in D |-> e.terms[f] * Worths(F, t, m)[f]]
<1>1. Value(e, t, m) = e.const + SumFunction(a)
  BY ValueEquation DEF ValueStep
<1>2. \A f \in D : IsCall(f) => h[f[3]] = Value(f[3], t, m)
  BY ExpCall DEF Calls
<1>3. \A f \in D : Worths(F, t, m)[f] = IF IsCall(f) THEN Called(m, f[2], h[f[3]]) ELSE t[f[2]]
  BY <1>2 DEF Worths, Worth
<1> HIDE DEF h
<1>4. a = b
  BY <1>3
<1>5. SumFunction(a) = Sum(a, D)
  <2>1. DOMAIN a = D
    OBVIOUS
  <2> HIDE DEF a
  <2> QED
    BY <2>1 DEF SumFunction, Sum, SumFunctionOnSet, FoldFunction
<1>6. Lin(e, Worths(F, t, m)) = e.const + Sum(b, D)
  BY DEF Lin
<1> HIDE DEF a, b
<1> QED
  BY <1>1, <1>4, <1>5, <1>6

\* An expression is worth an integer at a tuple of integers.
LEMMA ValueInt ==
  ASSUME NEW L, NEW e, IsExp(e, L), NEW t, NEW m, Point(t, L, m)
  PROVE  Value(e, t, m) \in Int
<1> DEFINE P == {x \in Within(e) : Value(x, t, m) \in Int}
<1>1. ASSUME NEW x \in Within(e), \A y \in Within(e) : Nesting(y) < Nesting(x) => y \in P
      PROVE  x \in P
  <2> DEFINE D == DOMAIN x.terms
             w == Worths(D, t, m)
  <2>1. IsExp(x, L) /\ Closed(Within(e), L)
    BY ExpWithin, ExpFacts
  <2>2. SumOver(x, D) /\ \A f \in D : IsGoodFactor(f, L)
    BY <2>1, ExpFactors
  <2>3. ASSUME NEW f \in D PROVE Worth(f, t, m) \in Int
    <3>1. CASE IsCall(f)
      <4>1. f \in Calls(x)
        BY <3>1 DEF Calls
      <4>2. f[3] \in Within(e) /\ Nesting(f[3]) < Nesting(x) /\ f[2] \in Names
        BY <4>1, <2>1, ClosedNesting
      <4>3. Value(f[3], t, m) \in Int
        BY <4>2, <1>1
      <4>4. Called(m, f[2], Value(f[3], t, m)) \in Int
        BY <4>2, <4>3, CalledInt DEF Point
      <4> QED
        BY <3>1, <4>4 DEF Worth
    <3>2. CASE ~ IsCall(f)
      <4>1. PICK i \in L : f = TupleVar(i)
        BY <2>2, <3>2 DEF IsGoodFactor
      <4>2. f[2] = i
        BY <4>1 DEF TupleVar
      <4> QED
        BY <4>2, <3>2 DEF Worth, Point, IntsOn
    <3> QED
      BY <3>1, <3>2
  <2>4. IntsOn(w, D)
    BY <2>3 DEF Worths, IntsOn
  <2>5. Lin(x, w) \in Int
    <3> HIDE DEF w, D
    <3> QED
      BY <2>2, <2>4, LinearFacts
  <2>6. Value(x, t, m) = Lin(x, w)
    BY <2>1, ValueLin
  <2> QED
    BY <2>5, <2>6
<1> HIDE DEF P
<1>2. \A x \in Within(e) : x \in P
  BY <1>1, ExpInduct
<1>3. e \in Within(e)
  BY ExpFacts
<1> QED
  BY <1>2, <1>3 DEF P

\* So is each of its factors.
LEMMA WorthInt ==
  ASSUME NEW L, NEW t, NEW m, Point(t, L, m), NEW F, \A f \in F : IsGoodFactor(f, L)
  PROVE  IntsOn(Worths(F, t, m), F)
<1> SUFFICES ASSUME NEW f \in F PROVE Worth(f, t, m) \in Int
  BY DEF IntsOn, Worths
<1>1. CASE IsCall(f)
  <2>1. f[2] \in Names /\ IsExp(f[3], L)
    BY <1>1 DEF IsGoodFactor, IsCall, TupleVar
  <2>2. Value(f[3], t, m) \in Int
    BY <2>1, ValueInt
  <2>3. Called(m, f[2], Value(f[3], t, m)) \in Int
    BY <2>1, <2>2, CalledInt DEF Point
  <2> QED
    BY <1>1, <2>3 DEF Worth
<1>2. CASE ~ IsCall(f)
  <2>1. PICK i \in L : f = TupleVar(i)
    BY <1>2 DEF IsGoodFactor
  <2>2. f[2] = i
    BY <2>1 DEF TupleVar
  <2> QED
    BY <2>2, <1>2 DEF Worth, Point, IntsOn
<1> QED
  BY <1>1, <1>2

-----------------------------------------------------------------------------
\* The operations on expressions make expressions, worth what they say.
LEMMA ConstExp ==
  ASSUME NEW L, NEW k \in Int
  PROVE  IsExp(Const(k), L) /\ \A t, m : Value(Const(k), t, m) = k
<1>1. SumOver(Const(k), {}) /\ DOMAIN Const(k).terms = {} /\ \A w : Lin(Const(k), w) = k
  BY ConstFacts
<1>2. IsExp(Const(k), L)
  BY <1>1, ExpMade
<1>3. ASSUME NEW t, NEW m PROVE Value(Const(k), t, m) = k
  <2>1. Value(Const(k), t, m) = Lin(Const(k), Worths({}, t, m))
    BY <1>1, <1>2, ValueLin
  <2> QED
    BY <2>1, <1>1
<1> QED
  BY <1>2, <1>3

\* One factor alone is an expression, worth that factor.
LEMMA SingleExp ==
  ASSUME NEW L, NEW f, IsGoodFactor(f, L)
  PROVE  /\ IsExp(Single(f), L)
         /\ \A t, m : Point(t, L, m) => Value(Single(f), t, m) = Worth(f, t, m)
<1>1. SumOver(Single(f), {f}) /\ DOMAIN Single(f).terms = {f}
  BY SingleFacts
<1>2. IsExp(Single(f), L)
  BY <1>1, ExpMade
<1>3. ASSUME NEW t, NEW m, Point(t, L, m) PROVE Value(Single(f), t, m) = Worth(f, t, m)
  <2> DEFINE w == Worths({f}, t, m)
  <2>1. Value(Single(f), t, m) = Lin(Single(f), w)
    BY <1>1, <1>2, ValueLin
  <2>2. w[f] = Worth(f, t, m)
    BY DEF Worths
  <2>3. w[f] \in Int
    <3>1. IntsOn(w, {f})
      BY <1>3, WorthInt
    <3> QED
      BY <3>1 DEF IntsOn
  <2> HIDE DEF w
  <2>4. f \in {f}
    OBVIOUS
  <2>5. \A v : v[f] \in Int => Lin(Single(f), v) = v[f]
    BY <2>4, SingleFacts
  <2> QED
    BY <2>1, <2>2, <2>3, <2>5
<1> QED
  BY <1>2, <1>3

\* One location alone is an expression, worth that location.
LEMMA VariableExp ==
  ASSUME NEW L, NEW i \in L
  PROVE  /\ IsExp(Single(TupleVar(i)), L)
         /\ \A t, m : Point(t, L, m) => Value(Single(TupleVar(i)), t, m) = t[i]
<1>1. IsGoodFactor(TupleVar(i), L)
  BY DEF IsGoodFactor
<1>2. \A t, m : Worth(TupleVar(i), t, m) = t[i]
  BY DEF Worth, TupleVar, IsCall
<1> QED
  BY <1>1, <1>2, SingleExp

\* A call on an expression is an expression, worth what the call gives.
LEMMA CallExp ==
  ASSUME NEW L, NEW n \in Names, NEW a, IsExp(a, L)
  PROVE  /\ IsExp(Single(UFCall(n, a)), L)
         /\ \A t, m : Point(t, L, m) => Value(Single(UFCall(n, a)), t, m) = Called(m, n, Value(a, t, m))
<1> DEFINE f == UFCall(n, a)
<1>0. f[2] = n /\ f[3] = a /\ IsCall(f) /\ f = UFCall(f[2], f[3])
  BY DEF UFCall, IsCall
<1> HIDE DEF f
<1>1. IsGoodFactor(f, L)
  BY <1>0 DEF IsGoodFactor
<1>2. \A t, m : Worth(f, t, m) = Called(m, n, Value(a, t, m))
  BY <1>0 DEF Worth
<1>3. /\ IsExp(Single(f), L)
      /\ \A t, m : Point(t, L, m) => Value(Single(f), t, m) = Worth(f, t, m)
  BY <1>1, SingleExp
<1> QED
  BY <1>2, <1>3 DEF f

\* The sum of two expressions is an expression.
LEMMA AddExpFacts ==
  ASSUME NEW L, NEW a, NEW b, IsExp(a, L), IsExp(b, L)
  PROVE  IsExp(addExp(a, b), L)
<1> DEFINE F == DOMAIN a.terms \cup DOMAIN b.terms
<1>1. SumOver(a, F) /\ SumOver(b, F) /\ \A f \in F : IsGoodFactor(f, L)
  BY ExpFactors DEF SumOver
<1>2. SumOver(addExp(a, b), F)
  <2> HIDE DEF F
  <2> QED
    BY <1>1, AddFacts
<1> HIDE DEF F
<1> QED
  BY <1>1, <1>2, ExpMade

\* It is worth the sum.
LEMMA AddValue ==
  ASSUME NEW L, NEW a, NEW b, IsExp(a, L), IsExp(b, L), NEW t, NEW m, Point(t, L, m)
  PROVE  Value(addExp(a, b), t, m) = Value(a, t, m) + Value(b, t, m)
<1> DEFINE F == DOMAIN a.terms \cup DOMAIN b.terms
           w == Worths(F, t, m)
<1>1. SumOver(a, F) /\ SumOver(b, F) /\ \A f \in F : IsGoodFactor(f, L)
  BY ExpFactors DEF SumOver
<1>2. DOMAIN a.terms \subseteq F /\ DOMAIN b.terms \subseteq F
  OBVIOUS
<1> HIDE DEF F
<1>3. IntsOn(w, F)
  BY <1>1, WorthInt
<1>4. IsExp(addExp(a, b), L)
  BY AddExpFacts
<1>5. DOMAIN addExp(a, b).terms \subseteq F
  BY <1>1, AddFacts DEF SumOver
<1>6. Value(addExp(a, b), t, m) = Lin(addExp(a, b), w) /\ Value(a, t, m) = Lin(a, w) /\ Value(b, t, m) = Lin(b, w)
  BY <1>2, <1>4, <1>5, ValueLin
<1> HIDE DEF w
<1> QED
  BY <1>1, <1>3, <1>6, AddLin

\* A multiple of an expression is an expression.
LEMMA MultiplyExp ==
  ASSUME NEW L, NEW a, IsExp(a, L), NEW k \in Int
  PROVE  IsExp(multiplyBy(a, k), L)
<1> DEFINE F == DOMAIN a.terms
<1>1. SumOver(a, F) /\ \A f \in F : IsGoodFactor(f, L)
  BY ExpFactors
<1> HIDE DEF F
<1>2. SumOver(multiplyBy(a, k), F)
  BY <1>1, MultiplyFacts
<1> QED
  BY <1>1, <1>2, ExpMade

\* It is worth the multiple.
LEMMA MultiplyValue ==
  ASSUME NEW L, NEW a, IsExp(a, L), NEW k \in Int, NEW t, NEW m, Point(t, L, m)
  PROVE  Value(multiplyBy(a, k), t, m) = k * Value(a, t, m)
<1> DEFINE F == DOMAIN a.terms
           w == Worths(F, t, m)
<1>1. SumOver(a, F) /\ \A f \in F : IsGoodFactor(f, L)
  BY ExpFactors
<1>2. DOMAIN multiplyBy(a, k).terms \subseteq F /\ DOMAIN a.terms \subseteq F
  BY <1>1, MultiplyFacts
<1> HIDE DEF F
<1>3. IntsOn(w, F)
  BY <1>1, WorthInt
<1>4. Value(multiplyBy(a, k), t, m) = Lin(multiplyBy(a, k), w) /\ Value(a, t, m) = Lin(a, w)
  BY <1>2, MultiplyExp, ValueLin
<1> HIDE DEF w
<1>5. \A j \in Int : Lin(multiplyBy(a, j), w) = j * Lin(a, w)
  BY <1>1, <1>3, LinearFacts
<1> QED
  BY <1>4, <1>5

\* Replacing each factor by an expression worth something else.
LEMMA MapExp ==
  ASSUME NEW L, NEW M, NEW e, IsExp(e, L), NEW image, \A f \in DOMAIN e.terms : IsExp(image[f], M)
  PROVE  IsExp(MapFactors(e, image), M)
<1> DEFINE F == UNION {DOMAIN image[f].terms : f \in DOMAIN e.terms}
<1>1. \A f \in DOMAIN e.terms : SumOver(image[f], F) /\ \A x \in DOMAIN image[f].terms : IsGoodFactor(x, M)
  BY ExpFactors DEF SumOver
<1>2. \A x \in F : IsGoodFactor(x, M)
  BY <1>1
<1> HIDE DEF F
<1>3. SumOver(e, DOMAIN e.terms)
  BY ExpFactors
<1>4. SumOver(MapFactors(e, image), F)
  BY <1>1, <1>3, MapFacts
<1> QED
  BY <1>2, <1>4, ExpMade

\* Replacing the factors of an expression replaces what they are worth.
LEMMA MapValue ==
  ASSUME NEW L, NEW M, NEW e, IsExp(e, L), NEW image, \A f \in DOMAIN e.terms : IsExp(image[f], M),
         NEW t, NEW m, Point(t, M, m)
  PROVE  Value(MapFactors(e, image), t, m) = Lin(e, [f \in DOMAIN e.terms |-> Value(image[f], t, m)])
<1> DEFINE F == UNION {DOMAIN image[f].terms : f \in DOMAIN e.terms}
           w == Worths(F, t, m)
<1>1. \A f \in DOMAIN e.terms : SumOver(image[f], F) /\ DOMAIN image[f].terms \subseteq F
                                /\ \A x \in DOMAIN image[f].terms : IsGoodFactor(x, M)
  BY ExpFactors DEF SumOver
<1>2. \A x \in F : IsGoodFactor(x, M)
  BY <1>1
<1> HIDE DEF F
<1>3. SumOver(e, DOMAIN e.terms)
  BY ExpFactors
<1>4. SumOver(MapFactors(e, image), F)
  BY <1>1, <1>3, MapFacts
<1>5. IntsOn(w, F)
  BY <1>2, WorthInt
<1>6. Value(MapFactors(e, image), t, m) = Lin(MapFactors(e, image), w)
  <2>1. IsExp(MapFactors(e, image), M)
    BY MapExp
  <2>2. DOMAIN MapFactors(e, image).terms \subseteq F
    BY <1>4 DEF SumOver
  <2> QED
    BY <2>1, <2>2, ValueLin
<1>7. ASSUME NEW f \in DOMAIN e.terms PROVE Value(image[f], t, m) = Lin(image[f], w)
  <2>1. IsExp(image[f], M) /\ DOMAIN image[f].terms \subseteq F
    BY <1>1
  <2> QED
    BY <2>1, ValueLin
<1> HIDE DEF w
<1>8. Lin(MapFactors(e, image), w) = Lin(e, [f \in DOMAIN e.terms |-> Lin(image[f], w)])
  <2>1. \A f \in DOMAIN e.terms : SumOver(image[f], F)
    BY <1>1
  <2>2. MapsLin(e, image, F)
    BY <2>1, <1>3, MapFacts
  <2> QED
    BY <1>5, <2>2, Zenon DEF MapsLin
<1>9. [f \in DOMAIN e.terms |-> Lin(image[f], w)] = [f \in DOMAIN e.terms |-> Value(image[f], t, m)]
  BY <1>7
<1> QED
  BY <1>6, <1>8, <1>9

-----------------------------------------------------------------------------
(* Substitution, and the collapse of calls on inverses                     *)

\* An expression over fewer locations than it might have.
LEMMA Independent ==
  ASSUME NEW L, NEW R, NEW e, IsExp(e, L), \A i \in L : i \in R \/ ~ dependsOn(e, TupleVar(i))
  PROVE  IsExp(e, R)
<1>1. ASSUME NEW x \in Within(e) PROVE IsSum(x, R)
  <2>1. IsSum(x, L)
    BY DEF IsExp
  <2>2. ASSUME NEW f \in DOMAIN x.terms PROVE IsFactor(f, R)
    <3>1. IsFactor(f, L)
      BY <2>1 DEF IsSum
    <3>2. CASE \E i \in L : f = TupleVar(i)
      BY <3>2 DEF IsFactor, dependsOn
    <3>3. CASE ~ \E i \in L : f = TupleVar(i)
      BY <3>1, <3>3 DEF IsFactor
    <3> QED
      BY <3>2, <3>3
  <2> QED
    BY <2>1, <2>2 DEF IsSum
<1>2. e \in Within(e)
  BY ExpFacts
<1> QED
  BY <1>1, <1>2 DEF IsExp

\* An expression over some locations is one over more.
LEMMA WiderExp ==
  ASSUME NEW L, NEW R, L \subseteq R, NEW e, IsExp(e, L)
  PROVE  IsExp(e, R)
BY Independent

\* An expression is worth the same where its locations have the same values.
LEMMA ValueSame ==
  ASSUME NEW L, NEW e, IsExp(e, L), NEW t, NEW u, NEW m, \A i \in L : t[i] = u[i]
  PROVE  Value(e, t, m) = Value(e, u, m)
<1> DEFINE P == {x \in Within(e) : Value(x, t, m) = Value(x, u, m)}
<1>1. ASSUME NEW x \in Within(e), \A y \in Within(e) : Nesting(y) < Nesting(x) => y \in P
      PROVE  x \in P
  <2> DEFINE D == DOMAIN x.terms
  <2>1. IsExp(x, L) /\ Closed(Within(e), L)
    BY ExpWithin, ExpFacts
  <2>2. \A f \in D : IsGoodFactor(f, L)
    BY <2>1, ExpFactors
  <2>3. ASSUME NEW f \in D PROVE Worth(f, t, m) = Worth(f, u, m)
    <3>1. CASE IsCall(f)
      <4>1. f \in Calls(x)
        BY <3>1 DEF Calls
      <4>2. f[3] \in Within(e) /\ Nesting(f[3]) < Nesting(x)
        BY <4>1, <2>1, ClosedNesting
      <4>3. Value(f[3], t, m) = Value(f[3], u, m)
        BY <4>2, <1>1
      <4> QED
        BY <3>1, <4>3 DEF Worth
    <3>2. CASE ~ IsCall(f)
      <4>1. PICK i \in L : f = TupleVar(i)
        BY <2>2, <3>2 DEF IsGoodFactor
      <4>2. f[2] = i
        BY <4>1 DEF TupleVar
      <4> QED
        BY <4>2, <3>2 DEF Worth
    <3> QED
      BY <3>1, <3>2
  <2>4. Worths(D, t, m) = Worths(D, u, m)
    BY <2>3 DEF Worths
  <2>5. Value(x, t, m) = Lin(x, Worths(D, t, m)) /\ Value(x, u, m) = Lin(x, Worths(D, u, m))
    BY <2>1, ValueLin
  <2> QED
    BY <2>4, <2>5
<1> HIDE DEF P
<1>2. \A x \in Within(e) : x \in P
  BY <1>1, ExpInduct
<1>3. e \in Within(e)
  BY ExpFacts
<1> QED
  BY <1>2, <1>3 DEF P

-----------------------------------------------------------------------------
\* Exp::substitute.
Replaced(f, sub) ==
  IF f \in DOMAIN sub THEN sub[f]
  ELSE IF IsCall(f) THEN Single(UFCall(f[2], substitute(f[3], sub))) ELSE Single(f)

\* Exp::substitute replaces each factor, the arguments of calls first.
LEMMA SubstituteMaps ==
  ASSUME NEW L, NEW e, IsExp(e, L), NEW sub
  PROVE  substitute(e, sub) = MapFactors(e, [f \in DOMAIN e.terms |-> Replaced(f, sub)])
<1> DEFINE h == [x \in Within(e) |-> substitute(x, sub)]
<1>1. substitute(e, sub) = MapFactors(e, [f \in DOMAIN e.terms |-> SubstituteImage(f, sub, h)])
  BY SubstituteEquation DEF SubstituteStep
<1>2. \A f \in DOMAIN e.terms : IsCall(f) => h[f[3]] = substitute(f[3], sub)
  BY ExpCall DEF Calls
<1> HIDE DEF h
<1>3. \A f \in DOMAIN e.terms : SubstituteImage(f, sub, h) = Replaced(f, sub)
  BY <1>2 DEF SubstituteImage, Replaced
<1>4. [f \in DOMAIN e.terms |-> SubstituteImage(f, sub, h)] = [f \in DOMAIN e.terms |-> Replaced(f, sub)]
  BY <1>3
<1> QED
  BY <1>1, <1>4

\* It turns expressions over the locations L into ones over M.
Substitutes(sub, L, M) ==
  /\ \A f \in DOMAIN sub : ~ IsCall(f)
  /\ \A i \in L : IF TupleVar(i) \in DOMAIN sub THEN IsExp(sub[TupleVar(i)], M) ELSE i \in M

\* The tuple it makes of another.
After(sub, L, t, m) ==
  [i \in L |-> IF TupleVar(i) \in DOMAIN sub THEN Value(sub[TupleVar(i)], t, m) ELSE t[i]]

\* What replaces a factor is an expression over the new locations.
LEMMA ReplacedExp ==
  ASSUME NEW L, NEW M, NEW sub, Substitutes(sub, L, M), NEW f, IsGoodFactor(f, L),
         IsCall(f) => IsExp(substitute(f[3], sub), M)
  PROVE  IsExp(Replaced(f, sub), M)
<1>1. CASE IsCall(f)
  <2>1. f \notin DOMAIN sub
    BY <1>1 DEF Substitutes
  <2>2. f[2] \in Names
    BY <1>1 DEF IsGoodFactor, IsCall, TupleVar
  <2>3. IsExp(Single(UFCall(f[2], substitute(f[3], sub))), M)
    BY <1>1, <2>2, CallExp
  <2> QED
    BY <1>1, <2>1, <2>3 DEF Replaced
<1>2. CASE ~ IsCall(f)
  <2>1. PICK i \in L : f = TupleVar(i)
    BY <1>2 DEF IsGoodFactor
  <2>2. CASE f \in DOMAIN sub
    BY <2>1, <2>2 DEF Replaced, Substitutes
  <2>3. CASE f \notin DOMAIN sub
    <3>1. i \in M
      BY <2>1, <2>3 DEF Substitutes
    <3>2. IsExp(Single(TupleVar(i)), M)
      BY <3>1, VariableExp
    <3> QED
      BY <2>1, <2>3, <3>2, <1>2 DEF Replaced
  <2> QED
    BY <2>2, <2>3
<1> QED
  BY <1>1, <1>2

\* So a substitution gives one.
LEMMA SubstituteExp ==
  ASSUME NEW L, NEW M, NEW sub, Substitutes(sub, L, M), NEW e, IsExp(e, L)
  PROVE  IsExp(substitute(e, sub), M)
<1> DEFINE P == {x \in Within(e) : IsExp(substitute(x, sub), M)}
<1>1. ASSUME NEW x \in Within(e), \A y \in Within(e) : Nesting(y) < Nesting(x) => y \in P
      PROVE  x \in P
  <2> DEFINE D == DOMAIN x.terms
             image == [f \in D |-> Replaced(f, sub)]
  <2>1. IsExp(x, L) /\ Closed(Within(e), L)
    BY ExpWithin, ExpFacts
  <2>2. ASSUME NEW f \in D PROVE IsExp(Replaced(f, sub), M)
    <3>1. IsGoodFactor(f, L)
      BY <2>1, ExpFactors
    <3>2. ASSUME IsCall(f) PROVE IsExp(substitute(f[3], sub), M)
      <4>1. f \in Calls(x)
        BY <3>2 DEF Calls
      <4>2. f[3] \in Within(e) /\ Nesting(f[3]) < Nesting(x)
        BY <4>1, <2>1, ClosedNesting
      <4> QED
        BY <4>2, <1>1
    <3> QED
      BY <3>1, <3>2, ReplacedExp
  <2>3. substitute(x, sub) = MapFactors(x, image)
    BY <2>1, SubstituteMaps
  <2>4. \A f \in DOMAIN x.terms : IsExp(image[f], M)
    BY <2>2
  <2> HIDE DEF image
  <2>5. IsExp(MapFactors(x, image), M)
    BY <2>1, <2>4, MapExp
  <2> QED
    BY <2>3, <2>5
<1> HIDE DEF P
<1>2. \A x \in Within(e) : x \in P
  BY <1>1, ExpInduct
<1>3. e \in Within(e)
  BY ExpFacts
<1> QED
  BY <1>2, <1>3 DEF P

\* A tuple after a substitution is a tuple.
LEMMA AfterPoint ==
  ASSUME NEW L, NEW M, NEW sub, Substitutes(sub, L, M), NEW t, NEW m, Point(t, M, m)
  PROVE  Point(After(sub, L, t, m), L, m)
<1>1. ASSUME NEW i \in L PROVE After(sub, L, t, m)[i] \in Int
  <2>1. CASE TupleVar(i) \in DOMAIN sub
    <3>1. Value(sub[TupleVar(i)], t, m) \in Int
      BY <2>1, ValueInt DEF Substitutes
    <3> QED
      BY <2>1, <3>1 DEF After
  <2>2. CASE TupleVar(i) \notin DOMAIN sub
    BY <2>2 DEF After, Substitutes, Point, IntsOn
  <2> QED
    BY <2>1, <2>2
<1> QED
  BY <1>1 DEF Point, IntsOn

\* A substitution is worth what the expression is worth at the tuple that the
\* replacements make.
LEMMA SubstituteValue ==
  ASSUME NEW L, NEW M, NEW sub, Substitutes(sub, L, M), NEW e, IsExp(e, L),
         NEW t, NEW m, Point(t, M, m)
  PROVE  Value(substitute(e, sub), t, m) = Value(e, After(sub, L, t, m), m)
<1> DEFINE u == After(sub, L, t, m)
           P == {x \in Within(e) : Value(substitute(x, sub), t, m) = Value(x, u, m)}
<1>0. \A i \in L : u[i] = IF TupleVar(i) \in DOMAIN sub THEN Value(sub[TupleVar(i)], t, m) ELSE t[i]
  BY DEF After
<1> HIDE DEF u
<1>1. ASSUME NEW x \in Within(e), \A y \in Within(e) : Nesting(y) < Nesting(x) => y \in P
      PROVE  x \in P
  <2> DEFINE D == DOMAIN x.terms
             image == [f \in D |-> Replaced(f, sub)]
  <2>1. IsExp(x, L) /\ Closed(Within(e), L)
    BY ExpWithin, ExpFacts
  <2>2. ASSUME NEW f \in D
        PROVE  IsExp(Replaced(f, sub), M) /\ Value(Replaced(f, sub), t, m) = Worth(f, u, m)
    <3>1. IsGoodFactor(f, L)
      BY <2>1, ExpFactors
    <3>2. CASE IsCall(f)
      <4>1. f \in Calls(x)
        BY <3>2 DEF Calls
      <4>2. f[3] \in Within(e) /\ Nesting(f[3]) < Nesting(x) /\ f[2] \in Names
        BY <4>1, <2>1, ClosedNesting
      <4>3. Value(substitute(f[3], sub), t, m) = Value(f[3], u, m)
        BY <4>2, <1>1
      <4>4. IsExp(f[3], L)
        BY <4>2, ExpWithin
      <4>5. IsExp(substitute(f[3], sub), M)
        BY <4>4, SubstituteExp
      <4>6. IsExp(Replaced(f, sub), M)
        BY <3>1, <4>5, ReplacedExp
      <4>7. Replaced(f, sub) = Single(UFCall(f[2], substitute(f[3], sub)))
        BY <3>2 DEF Replaced, Substitutes
      <4>8. Value(Single(UFCall(f[2], substitute(f[3], sub))), t, m)
              = Called(m, f[2], Value(substitute(f[3], sub), t, m))
        BY <4>2, <4>5, CallExp
      <4> QED
        BY <3>2, <4>3, <4>6, <4>7, <4>8 DEF Worth
    <3>3. CASE ~ IsCall(f)
      <4>1. IsExp(Replaced(f, sub), M)
        BY <3>1, <3>3, ReplacedExp
      <4>2. PICK i \in L : f = TupleVar(i)
        BY <3>1, <3>3 DEF IsGoodFactor
      <4>3. Worth(f, u, m) = u[i]
        BY <4>2, <3>3 DEF Worth, TupleVar
      <4>4. CASE f \in DOMAIN sub
        BY <4>1, <4>2, <4>3, <4>4, <1>0 DEF Replaced
      <4>5. CASE f \notin DOMAIN sub
        <5>1. i \in M
          BY <4>2, <4>5 DEF Substitutes
        <5>2. Value(Single(TupleVar(i)), t, m) = t[i]
          BY <5>1, VariableExp
        <5>3. Replaced(f, sub) = Single(TupleVar(i))
          BY <3>3, <4>2, <4>5 DEF Replaced
        <5> QED
          BY <4>1, <4>2, <4>3, <4>5, <5>2, <5>3, <1>0
      <4> QED
        BY <4>4, <4>5
    <3> QED
      BY <3>2, <3>3
  <2>3. substitute(x, sub) = MapFactors(x, image)
    BY <2>1, SubstituteMaps
  <2>4. \A f \in DOMAIN x.terms : IsExp(image[f], M) /\ Value(image[f], t, m) = Worth(f, u, m)
    BY <2>2
  <2> HIDE DEF image
  <2>5. Value(MapFactors(x, image), t, m) = Lin(x, [f \in DOMAIN x.terms |-> Value(image[f], t, m)])
    BY <2>1, <2>4, MapValue
  <2>6. [f \in DOMAIN x.terms |-> Value(image[f], t, m)] = Worths(D, u, m)
    BY <2>4 DEF Worths
  <2>7. Value(x, u, m) = Lin(x, Worths(D, u, m))
    BY <2>1, ValueLin
  <2> QED
    BY <2>3, <2>5, <2>6, <2>7
<1> HIDE DEF P
<1>2. \A x \in Within(e) : x \in P
  BY <1>1, ExpInduct
<1>3. e \in Within(e)
  BY ExpFacts
<1> QED
  BY <1>2, <1>3 DEF P, u

-----------------------------------------------------------------------------
\* collapseNestedInvertibleFunctions.
Collapsed(f) ==
  IF ~ IsCall(f) THEN Single(f)
  ELSE IF OfInverse(f) THEN collapseNestedInvertibleFunctions(InnerCall(f)[3])
  ELSE Single(UFCall(f[2], collapseNestedInvertibleFunctions(f[3])))

\* The argument of the inner call.
LEMMA InnerWithin ==
  ASSUME NEW L, NEW W, Closed(W, L), NEW x \in W, NEW f \in Calls(x), OfInverse(f)
  PROVE  InnerCall(f)[3] \in W /\ Nesting(InnerCall(f)[3]) < Nesting(x)
<1>2. f[3] \in W /\ Nesting(f[3]) < Nesting(x) /\ Nesting(x) \in Nat /\ Nesting(f[3]) \in Nat
  BY ClosedNesting
<1>3. InnerCall(f) \in Calls(f[3])
  BY InnerCallFacts
<1>4. InnerCall(f)[3] \in W /\ Nesting(InnerCall(f)[3]) < Nesting(f[3]) /\ Nesting(InnerCall(f)[3]) \in Nat
  BY <1>2, <1>3, ClosedNesting
<1> QED
  BY <1>2, <1>4

\* The collapse replaces each factor, the arguments of calls first.
LEMMA CollapseMaps ==
  ASSUME NEW L, NEW e, IsExp(e, L)
  PROVE  collapseNestedInvertibleFunctions(e) = MapFactors(e, [f \in DOMAIN e.terms |-> Collapsed(f)])
<1> DEFINE h == [x \in Within(e) |-> collapseNestedInvertibleFunctions(x)]
<1>1. collapseNestedInvertibleFunctions(e) = MapFactors(e, [f \in DOMAIN e.terms |-> CollapseImage(f, h)])
  BY CollapseEquation DEF CollapseStep
<1>2. \A f \in DOMAIN e.terms : IsCall(f) => h[f[3]] = collapseNestedInvertibleFunctions(f[3])
  BY ExpCall DEF Calls
<1>3. \A f \in DOMAIN e.terms : IsCall(f) /\ OfInverse(f) =>
        h[InnerCall(f)[3]] = collapseNestedInvertibleFunctions(InnerCall(f)[3])
  BY ExpFacts, InnerWithin DEF Calls
<1> HIDE DEF h
<1>4. \A f \in DOMAIN e.terms : CollapseImage(f, h) = Collapsed(f)
  BY <1>2, <1>3 DEF CollapseImage, Collapsed
<1>5. [f \in DOMAIN e.terms |-> CollapseImage(f, h)] = [f \in DOMAIN e.terms |-> Collapsed(f)]
  BY <1>4
<1> QED
  BY <1>1, <1>5

\* It gives an expression over the same locations.
LEMMA CollapseExp ==
  ASSUME NEW L, NEW e, IsExp(e, L)
  PROVE  IsExp(collapseNestedInvertibleFunctions(e), L)
<1> DEFINE P == {x \in Within(e) : IsExp(collapseNestedInvertibleFunctions(x), L)}
<1>1. ASSUME NEW x \in Within(e), \A y \in Within(e) : Nesting(y) < Nesting(x) => y \in P
      PROVE  x \in P
  <2> DEFINE D == DOMAIN x.terms
             image == [f \in D |-> Collapsed(f)]
  <2>1. IsExp(x, L) /\ Closed(Within(e), L)
    BY ExpWithin, ExpFacts
  <2>2. ASSUME NEW f \in D PROVE IsExp(Collapsed(f), L)
    <3>1. IsGoodFactor(f, L)
      BY <2>1, ExpFactors
    <3>2. CASE ~ IsCall(f)
      BY <3>1, <3>2, SingleExp DEF Collapsed
    <3>3. CASE IsCall(f)
      <4>1. f \in Calls(x)
        BY <3>3 DEF Calls
      <4>2. CASE OfInverse(f)
        <5>1. InnerCall(f)[3] \in P
          BY <4>1, <4>2, <2>1, <1>1, InnerWithin
        <5> QED
          BY <5>1, <3>3, <4>2 DEF Collapsed
      <4>3. CASE ~ OfInverse(f)
        <5>1. f[3] \in Within(e) /\ Nesting(f[3]) < Nesting(x) /\ f[2] \in Names
          BY <4>1, <2>1, ClosedNesting
        <5>2. IsExp(collapseNestedInvertibleFunctions(f[3]), L)
          BY <5>1, <1>1
        <5>3. IsExp(Single(UFCall(f[2], collapseNestedInvertibleFunctions(f[3]))), L)
          BY <5>1, <5>2, CallExp
        <5> QED
          BY <5>3, <3>3, <4>3 DEF Collapsed
      <4> QED
        BY <4>2, <4>3
    <3> QED
      BY <3>2, <3>3
  <2>3. collapseNestedInvertibleFunctions(x) = MapFactors(x, image)
    BY <2>1, CollapseMaps
  <2>4. \A f \in DOMAIN x.terms : IsExp(image[f], L)
    BY <2>2
  <2> HIDE DEF image
  <2>5. IsExp(MapFactors(x, image), L)
    BY <2>1, <2>4, MapExp
  <2> QED
    BY <2>3, <2>5
<1> HIDE DEF P
<1>2. \A x \in Within(e) : x \in P
  BY <1>1, ExpInduct
<1>3. e \in Within(e)
  BY ExpFacts
<1> QED
  BY <1>2, <1>3 DEF P

\* f(f_inv(x)) is worth x.
LEMMA CollapseValue ==
  ASSUME NEW L, NEW e, IsExp(e, L), ~ CollapsesTooMuch(e), NEW t, NEW m, Point(t, L, m)
  PROVE  Value(collapseNestedInvertibleFunctions(e), t, m) = Value(e, t, m)
<1> DEFINE P == {x \in Within(e) : Value(collapseNestedInvertibleFunctions(x), t, m) = Value(x, t, m)}
<1>1. ASSUME NEW x \in Within(e), \A y \in Within(e) : Nesting(y) < Nesting(x) => y \in P
      PROVE  x \in P
  <2> DEFINE D == DOMAIN x.terms
             image == [f \in D |-> Collapsed(f)]
  <2>1. IsExp(x, L) /\ Closed(Within(e), L)
    BY ExpWithin, ExpFacts
  <2>2. ASSUME NEW f \in D
        PROVE  IsExp(Collapsed(f), L) /\ Value(Collapsed(f), t, m) = Worth(f, t, m)
    <3>1. IsGoodFactor(f, L)
      BY <2>1, ExpFactors
    <3>2. CASE ~ IsCall(f)
      <4>1. Collapsed(f) = Single(f)
        BY <3>2 DEF Collapsed
      <4> QED
        BY <3>1, <4>1, SingleExp
    <3>3. CASE IsCall(f)
      <4>1. f \in Calls(x)
        BY <3>3 DEF Calls
      <4>0. f[3] \in Within(e) /\ Nesting(f[3]) < Nesting(x) /\ f[2] \in Names
        BY <4>1, <2>1, ClosedNesting
      <4>2. CASE OfInverse(f)
        <5> DEFINE g == InnerCall(f)
        <5>1. g[3] \in Within(e) /\ g[3] \in P
          BY <4>1, <4>2, <2>1, <1>1, InnerWithin
        <5>2. DOMAIN f[3].terms = {g} /\ IsCall(g) /\ g[2] = Inverses[f[2]] /\ f[2] \in DOMAIN Inverses /\ f[3].const = 0
          BY <4>2, InnerCallFacts
        <5>3. f[3].terms[g] = 1
          <6>1. g \in DOMAIN f[3].terms
            BY <5>2
          <6> QED
            BY <6>1, <4>1, <4>2 DEF CollapsesTooMuch
        <5>4. IsExp(f[3], L)
          BY <4>0, ExpWithin
        <5> HIDE DEF g
        <5>5. IsGoodFactor(g, L) /\ SumOver(f[3], {g})
          BY <5>2, <5>4, ExpFactors
        <5>6. Value(f[3], t, m) = Worth(g, t, m)
          <6> DEFINE w == Worths({g}, t, m)
          <6>1. Value(f[3], t, m) = Lin(f[3], w)
            BY <5>2, <5>4, ValueLin
          <6>2. Value(Single(g), t, m) = Worth(g, t, m) /\ IsExp(Single(g), L)
            BY <5>5, SingleExp
          <6>3. g \in {g}
            OBVIOUS
          <6>4. SumOver(Single(g), {g}) /\ DOMAIN Single(g).terms = {g} /\ Single(g).const = 0 /\ Single(g).terms[g] = 1
            BY <6>3, SingleFacts
          <6>5. Value(Single(g), t, m) = Lin(Single(g), w)
            BY <6>2, <6>4, ValueLin
          <6>6. IntsOn(w, {g})
            BY <5>5, WorthInt
          <6> HIDE DEF w
          <6>7. Lin(f[3], w) = Lin(Single(g), w)
            <7>1. PICK a : a = f[3]
              OBVIOUS
            <7>2. PICK b : b = Single(g)
              OBVIOUS
            <7>3. SumOver(b, {g}) /\ a.const = b.const /\ DOMAIN a.terms = DOMAIN b.terms
              BY <7>1, <7>2, <6>4, <5>2
            <7>4. \A h \in DOMAIN b.terms : a.terms[h] = b.terms[h]
              BY <7>1, <7>2, <6>4, <5>2, <5>3
            <7>5. PICK F : F = {g}
              OBVIOUS
            <7>6. SumOver(b, F) /\ IntsOn(w, F)
              BY <7>3, <7>5, <6>6
            <7>7. Lin(a, w) = Lin(b, w)
              BY <7>3, <7>4, <7>6, LinSame
            <7> QED
              BY <7>1, <7>2, <7>7
          <6> QED
            BY <6>1, <6>2, <6>5, <6>7
        <5>7. Worth(g, t, m) = Called(m, Inverses[f[2]], Value(g[3], t, m))
          BY <5>2 DEF Worth
        <5>8. Worth(f, t, m) = Called(m, f[2], Called(m, Inverses[f[2]], Value(g[3], t, m)))
          BY <3>3, <5>6, <5>7 DEF Worth
        <5>9. Worth(f, t, m) = Value(g[3], t, m)
          BY <5>2, <5>8, CalledInverse DEF Point
        <5>10. Collapsed(f) = collapseNestedInvertibleFunctions(g[3])
          BY <3>3, <4>2 DEF Collapsed, g
        <5>11. IsExp(collapseNestedInvertibleFunctions(g[3]), L)
          BY <5>1, ExpWithin, CollapseExp
        <5> QED
          BY <5>1, <5>9, <5>10, <5>11
      <4>3. CASE ~ OfInverse(f)
        <5>1. Value(collapseNestedInvertibleFunctions(f[3]), t, m) = Value(f[3], t, m)
          BY <4>0, <1>1
        <5>2. IsExp(collapseNestedInvertibleFunctions(f[3]), L)
          BY <4>0, ExpWithin, CollapseExp
        <5>3. Collapsed(f) = Single(UFCall(f[2], collapseNestedInvertibleFunctions(f[3])))
          BY <3>3, <4>3 DEF Collapsed
        <5>4. /\ IsExp(Single(UFCall(f[2], collapseNestedInvertibleFunctions(f[3]))), L)
              /\ Value(Single(UFCall(f[2], collapseNestedInvertibleFunctions(f[3]))), t, m)
                   = Called(m, f[2], Value(collapseNestedInvertibleFunctions(f[3]), t, m))
          BY <4>0, <5>2, CallExp
        <5> QED
          BY <5>1, <5>3, <5>4, <3>3 DEF Worth
      <4> QED
        BY <4>2, <4>3
    <3> QED
      BY <3>2, <3>3
  <2>3. collapseNestedInvertibleFunctions(x) = MapFactors(x, image)
    BY <2>1, CollapseMaps
  <2>4. \A f \in DOMAIN x.terms : IsExp(image[f], L) /\ Value(image[f], t, m) = Worth(f, t, m)
    BY <2>2
  <2> HIDE DEF image
  <2>5. Value(MapFactors(x, image), t, m) = Lin(x, [f \in DOMAIN x.terms |-> Value(image[f], t, m)])
    BY <2>1, <2>4, MapValue
  <2>6. [f \in DOMAIN x.terms |-> Value(image[f], t, m)] = Worths(D, t, m)
    BY <2>4 DEF Worths
  <2>7. Value(x, t, m) = Lin(x, Worths(D, t, m))
    BY <2>1, ValueLin
  <2> QED
    BY <2>3, <2>5, <2>6, <2>7
<1> HIDE DEF P
<1>2. \A x \in Within(e) : x \in P
  BY <1>1, ExpInduct
<1>3. e \in Within(e)
  BY ExpFacts
<1> QED
  BY <1>2, <1>3 DEF P

-----------------------------------------------------------------------------
(* Solving an equality for a location                                      *)

\* The first factor of an expression that has factors is one of them.
LEMMA FirstFactorIn ==
  ASSUME NEW L \in SUBSET Nat, NEW e, IsExp(e, L), DOMAIN e.terms # {}
  PROVE  FirstFactor(e) \in DOMAIN e.terms
<1> DEFINE tvs == {f \in DOMAIN e.terms : ~ IsCall(f)}
<1>1. CASE tvs = {}
  <2>1. FirstFactor(e) = CHOOSE f \in DOMAIN e.terms : TRUE
    BY <1>1 DEF FirstFactor
  <2> QED
    BY <2>1
<1>2. CASE tvs # {}
  <2> DEFINE T == {f[2] : f \in tvs}
  <2>1. \A f \in tvs : f[2] \in L
    BY ExpFactors DEF IsGoodFactor, TupleVar
  <2>2. T \in SUBSET Nat /\ T # {}
    BY <1>2, <2>1
  <2>3. PICK k \in T : \A j \in T : k <= j
    <3> HIDE DEF T
    <3> QED
      BY <2>2, LeastNumber
  <2>4. \E f \in tvs : \A g \in tvs : f[2] <= g[2]
    BY <2>3
  <2>5. FirstFactor(e) = CHOOSE f \in tvs : \A g \in tvs : f[2] <= g[2]
    BY <1>2 DEF FirstFactor
  <2> HIDE DEF tvs
  <2>6. FirstFactor(e) \in tvs
    BY <2>4, <2>5
  <2> QED
    BY <2>6 DEF tvs
<1> QED
  BY <1>1, <1>2

\* normalizeForEquality makes the first coefficient positive.
LEMMA NormalExp ==
  ASSUME NEW L \in SUBSET Nat, NEW e, IsExp(e, L)
  PROVE  /\ IsExp(normalizeForEquality(e), L)
         /\ DOMAIN normalizeForEquality(e).terms # {} => FirstCoefficient(normalizeForEquality(e)) > 0
<1> DEFINE s == multiplyBy(e, -1)
           F == DOMAIN e.terms
<1>0. SumOver(e, F)
  BY ExpFactors
<1>1. IsExp(s, L)
  BY MultiplyExp
<1>2. DOMAIN s.terms = DOMAIN e.terms /\ \A f \in DOMAIN e.terms : s.terms[f] = e.terms[f] * (-1)
  BY DEF multiplyBy
<1> HIDE DEF s
<1>3. FirstFactor(s) = FirstFactor(e)
  <2> DEFINE First(D) == LET tvs == {f \in D : ~ IsCall(f)}
                         IN IF tvs # {} THEN CHOOSE f \in tvs : \A g \in tvs : f[2] <= g[2]
                                        ELSE CHOOSE f \in D : TRUE
  <2>1. FirstFactor(s) = First(DOMAIN s.terms) /\ FirstFactor(e) = First(DOMAIN e.terms)
    BY DEF FirstFactor
  <2> HIDE DEF First
  <2> QED
    BY <2>1, <1>2
<1>4. CASE DOMAIN e.terms = {}
  BY <1>1, <1>2, <1>4 DEF normalizeForEquality, s
<1>5. CASE DOMAIN e.terms # {}
  <2>1. FirstFactor(e) \in DOMAIN e.terms
    BY <1>5, FirstFactorIn
  <2> DEFINE k == e.terms[FirstFactor(e)]
  <2>2. k \in Int /\ k # 0
    BY <2>1, <1>0 DEF SumOver
  <2>3. FirstCoefficient(e) = k /\ FirstCoefficient(s) = k * (-1)
    BY <1>2, <1>3, <1>5, <2>1 DEF FirstCoefficient
  <2> HIDE DEF k
  <2>4. CASE k < 0
    <3>1. normalizeForEquality(e) = s
      BY <2>3, <2>4 DEF normalizeForEquality, s
    <3>2. k * (-1) > 0
      BY <2>2, <2>4
    <3> QED
      BY <3>1, <3>2, <2>3, <1>1
  <2>5. CASE ~ (k < 0)
    <3>1. normalizeForEquality(e) = e
      BY <2>3, <2>5 DEF normalizeForEquality
    <3>2. k > 0
      BY <2>2, <2>5
    <3> QED
      BY <3>1, <3>2, <2>3
  <2> QED
    BY <2>4, <2>5
<1> QED
  BY <1>4, <1>5

\* normalizeForEquality keeps where the equality holds.
LEMMA NormalValue ==
  ASSUME NEW L, NEW e, IsExp(e, L), NEW t, NEW m, Point(t, L, m)
  PROVE  Value(normalizeForEquality(e), t, m) = 0 <=> Value(e, t, m) = 0
<1>1. CASE FirstCoefficient(e) < 0
  <2>1. Value(multiplyBy(e, -1), t, m) = (-1) * Value(e, t, m) /\ Value(e, t, m) \in Int
    BY MultiplyValue, ValueInt
  <2>2. Value(multiplyBy(e, -1), t, m) = 0 <=> Value(e, t, m) = 0
    BY <2>1
  <2> QED
    BY <2>2, <1>1 DEF normalizeForEquality
<1>2. CASE ~ (FirstCoefficient(e) < 0)
  BY <1>2 DEF normalizeForEquality
<1> QED
  BY <1>1, <1>2

-----------------------------------------------------------------------------
\* Solving an equality for one of its factors.
LEMMA IsolateExp ==
  ASSUME NEW L, NEW e, IsExp(e, L), NEW f, findMatchingFactor(e, f)
  PROVE  IsExp(Isolate(e, f), L) /\ f \in DOMAIN e.terms
<1> DEFINE F == DOMAIN e.terms
<1>1. SumOver(e, F) /\ \A x \in F : IsGoodFactor(x, L)
  BY ExpFactors
<1> HIDE DEF F
<1>2. SumOver(Isolate(e, f), F) /\ f \in DOMAIN e.terms
  BY <1>1, IsolateFacts
<1> QED
  BY <1>1, <1>2, ExpMade

\* Isolate gives what the factor is worth exactly where the equality holds.
LEMMA IsolateValue ==
  ASSUME NEW L, NEW e, IsExp(e, L), NEW f, findMatchingFactor(e, f), NEW t, NEW m, Point(t, L, m)
  PROVE  Value(e, t, m) = 0 <=> Worth(f, t, m) = Value(Isolate(e, f), t, m)
<1> DEFINE F == DOMAIN e.terms
           w == Worths(F, t, m)
<1>1. SumOver(e, F) /\ \A x \in F : IsGoodFactor(x, L)
  BY ExpFactors
<1>2. DOMAIN Isolate(e, f).terms \subseteq F /\ f \in F /\ DOMAIN e.terms \subseteq F
  BY <1>1, IsolateFacts
<1> HIDE DEF F
<1>3. IntsOn(w, F)
  BY <1>1, WorthInt
<1>4. Value(e, t, m) = Lin(e, w) /\ Value(Isolate(e, f), t, m) = Lin(Isolate(e, f), w)
  BY <1>2, IsolateExp, ValueLin
<1>5. w[f] = Worth(f, t, m)
  BY <1>2 DEF Worths
<1> HIDE DEF w
<1>6. Lin(e, w) = 0 <=> w[f] = Lin(Isolate(e, f), w)
  BY <1>1, <1>3, IsolateLin
<1> QED
  BY <1>4, <1>5, <1>6

\* Inverting a call.
LEMMA ExposedFacts ==
  ASSUME NEW L, NEW e, IsExp(e, L), NEW f \in Calls(e), f[2] \in DOMAIN Inverses,
         isDivisible(e, e.terms[f])
  PROVE  IsExp(Exposed(e, f), L)
         /\ \A t, m : Point(t, L, m) => (Value(Exposed(e, f), t, m) = 0 <=> Value(e, t, m) = 0)
<1> DEFINE n == Inverses[f[2]]
           rest == Isolate(e, f)
           call == Single(UFCall(n, rest))
           minus == multiplyBy(call, -1)
<1>1. findMatchingFactor(e, f) /\ IsCall(f) /\ IsExp(f[3], L)
  BY ExpCall DEF Calls, findMatchingFactor
<1>2. n \in Names
  BY InversesAssumption
<1>3. IsExp(rest, L)
  BY <1>1, IsolateExp
<1>4. Exposed(e, f) = addExp(f[3], minus)
  BY DEF Exposed, Isolate
<1> HIDE DEF rest
<1>5. IsExp(call, L) /\ \A t, m : Point(t, L, m) => Value(call, t, m) = Called(m, n, Value(rest, t, m))
  <2> HIDE DEF n
  <2> QED
    BY <1>2, <1>3, CallExp
<1> HIDE DEF call
<1>6. IsExp(minus, L)
  BY <1>5, MultiplyExp
<1>7. ASSUME NEW t, NEW m, Point(t, L, m) PROVE Value(minus, t, m) = (-1) * Called(m, n, Value(rest, t, m))
  BY <1>5, <1>7, MultiplyValue
<1> HIDE DEF minus
<1>8. IsExp(Exposed(e, f), L)
  BY <1>1, <1>4, <1>6, AddExpFacts
<1>9. ASSUME NEW t, NEW m, Point(t, L, m) PROVE Value(Exposed(e, f), t, m) = 0 <=> Value(e, t, m) = 0
  <2> DEFINE a == Value(f[3], t, m)
             r == Value(rest, t, m)
  <2>1. a \in Int /\ r \in Int
    BY <1>1, <1>3, <1>9, ValueInt
  <2>2. Called(m, n, r) \in Int
    BY <1>2, <1>9, <2>1, CalledInt DEF Point
  <2>3. Value(Exposed(e, f), t, m) = a + Value(minus, t, m)
    BY <1>1, <1>4, <1>6, <1>9, AddValue
  <2>4. Value(minus, t, m) = (-1) * Called(m, n, r)
    BY <1>7, <1>9
  <2>5. Value(e, t, m) = 0 <=> Called(m, f[2], a) = r
    <3>1. Worth(f, t, m) = Called(m, f[2], a)
      BY <1>1 DEF Worth
    <3> QED
      BY <1>1, <1>9, <3>1, IsolateValue DEF rest
  <2> HIDE DEF a, r
  <2>6. Value(Exposed(e, f), t, m) = 0 <=> a = Called(m, n, r)
    BY <2>1, <2>2, <2>3, <2>4
  <2>7. Called(m, f[2], Called(m, n, r)) = r /\ Called(m, n, Called(m, f[2], a)) = a
    BY <1>9, CalledInverse DEF Point
  <2> QED
    BY <2>5, <2>6, <2>7
<1> QED
  BY <1>8, <1>9

\* Exp::solveForFactor, where it does not throw.
Solves(s, e, i, L) ==
  \A t, m : Point(t, L, m) => (Value(e, t, m) = 0 <=> t[i] = Value(s, t, m))

\* What Exp::solveForFactor returns solves the equality for the location.
LEMMA SolveFacts ==
  ASSUME NEW L, NEW e, IsExp(e, L), NEW i \in L, ~ SolveThrows(e, TupleVar(i)),
         NEW s \in solveForFactor(e, TupleVar(i))
  PROVE  IsExp(s, L) /\ Solves(s, e, i, L)
<1> DEFINE v == TupleVar(i)
<1>0. \A t, m : Worth(v, t, m) = t[i]
  BY DEF Worth, TupleVar, IsCall
<1> HIDE DEF v
<1>1. CASE findMatchingFactor(e, v)
  <2>1. s = Isolate(e, v)
    BY <1>1 DEF solveForFactor, v
  <2>2. IsExp(s, L)
    BY <1>1, <2>1, IsolateExp
  <2>3. ASSUME NEW t, NEW m, Point(t, L, m) PROVE Value(e, t, m) = 0 <=> t[i] = Value(s, t, m)
    BY <1>0, <1>1, <2>1, <2>3, IsolateValue
  <2> QED
    BY <2>2, <2>3 DEF Solves
<1>2. CASE ~ findMatchingFactor(e, v)
  <2>1. PICK f \in Invertible(e, v) :
          s = Isolate(Exposed(e, f), v) /\ findMatchingFactor(Exposed(e, f), v)
    BY <1>2 DEF solveForFactor, invertFuncToExposeFactor, v
  <2>2. isDivisible(e, e.terms[f])
    BY <1>2 DEF SolveThrows, v
  <2>3. f \in Calls(e) /\ f[2] \in DOMAIN Inverses
    BY DEF Invertible, Calls
  <2> DEFINE x == Exposed(e, f)
  <2>4. IsExp(x, L)
    BY <2>2, <2>3, ExposedFacts
  <2>a. ASSUME NEW t, NEW m, Point(t, L, m) PROVE Value(x, t, m) = 0 <=> Value(e, t, m) = 0
    BY <2>2, <2>3, <2>a, ExposedFacts
  <2> HIDE DEF x
  <2>b. s = Isolate(x, v) /\ findMatchingFactor(x, v)
    BY <2>1 DEF x
  <2>5. IsExp(s, L)
    BY <2>b, <2>4, IsolateExp
  <2>6. ASSUME NEW t, NEW m, Point(t, L, m) PROVE Value(e, t, m) = 0 <=> t[i] = Value(s, t, m)
    <3>1. Value(x, t, m) = 0 <=> Worth(v, t, m) = Value(s, t, m)
      BY <2>4, <2>6, <2>b, IsolateValue
    <3> QED
      BY <3>1, <2>6, <2>a, <1>0
  <2> QED
    BY <2>5, <2>6 DEF Solves
<1> QED
  BY <1>1, <1>2

\* There is at most one solution.
LEMMA SolveUnique ==
  ASSUME NEW L, NEW e, IsExp(e, L), NEW v, ~ SolveThrows(e, v),
         NEW a \in solveForFactor(e, v), NEW b \in solveForFactor(e, v)
  PROVE  a = b
<1>1. CASE findMatchingFactor(e, v)
  BY <1>1 DEF solveForFactor
<1>2. CASE ~ findMatchingFactor(e, v)
  <2> DEFINE S == Invertible(e, v)
  <2>1. IsFiniteSet(S)
    BY FS_Subset DEF Invertible, IsExp, IsSum
  <2>2. Cardinality(S) \in Nat /\ ~ (Cardinality(S) > 1)
    BY <1>2, <2>1, FS_CardinalityType DEF SolveThrows
  <2>3. (\E f \in S : a = Isolate(Exposed(e, f), v)) /\ (\E f \in S : b = Isolate(Exposed(e, f), v))
    BY <1>2 DEF solveForFactor, invertFuncToExposeFactor
  <2> HIDE DEF S
  <2>4. Cardinality(S) = 0 \/ Cardinality(S) = 1
    BY <2>2
  <2>5. S = {} \/ \E x : S = {x}
    BY <2>1, <2>4, FS_EmptySet, FS_Singleton
  <2> QED
    BY <2>3, <2>5
<1> QED
  BY <1>1, <1>2

-----------------------------------------------------------------------------
\* Finitely many constraints over the given locations, as IsConj wants them,
\* and a declaration.
Over(c, L) ==
  /\ c = [decl |-> c.decl, eqs |-> c.eqs, ineqs |-> c.ineqs]
  /\ IsFiniteSet(c.eqs) /\ IsFiniteSet(c.ineqs)
  /\ \A e \in c.eqs \cup c.ineqs : IsExp(e, L)

Proper(c) ==
  /\ \A e \in c.eqs \cup c.ineqs : e # Zero
  /\ \A e \in c.eqs : DOMAIN e.terms # {} => FirstCoefficient(e) > 0

IsDecl(d, n) ==
  /\ d \in [1 .. n -> SUBSET Int]
  /\ \A i \in 1 .. n : d[i] = {} \/ \E k \in d[i] : d[i] = {k}

IsForm(c, n) == Over(c, 1 .. n) /\ IsDecl(c.decl, n)

\* A conjunction of a value is a well-formed and a cleaned-up one.
LEMMA ConjForm ==
  ASSUME NEW n, NEW c
  PROVE  IsConj(c, n) <=> IsForm(c, n) /\ Proper(c)
BY DEF IsConj, IsForm, Over, Proper, IsDecl

\* What findFunction finds is a function of the locations in range.
LEMMA FunctionFacts ==
  ASSUME NEW n, NEW c, IsForm(c, n), NEW loc \in 1 .. n, NEW range \in SUBSET (1 .. n),
         \A e \in c.eqs : ~ SolveThrows(e, TupleVar(loc)), NEW s \in findFunction(c, loc, range)
  PROVE  /\ IsExp(s, range)
         /\ \A t, m : Point(t, 1 .. n, m) /\ Satisfies(t, c, m) => t[loc] = Value(s, t, m)
<1>1. CASE c.decl[loc] # {}
  <2>1. PICK k \in c.decl[loc] : s = Const(k)
    BY <1>1 DEF findFunction
  <2>2. k \in Int
    <3>1. c.decl[loc] \in SUBSET Int
      BY DEF IsForm, IsDecl
    <3> QED
      BY <3>1, <2>1
  <2>3. IsExp(s, range) /\ \A t, m : Value(s, t, m) = k
    BY <2>1, <2>2, ConstExp
  <2> QED
    BY <2>1, <2>3 DEF Satisfies, IsForm, IsDecl
<1>2. CASE c.decl[loc] = {}
  <2>1. PICK e \in c.eqs : s \in solveForFactor(e, TupleVar(loc))
    BY <1>2 DEF findFunction
  <2>2. \A i \in 1 .. n : i \in range \/ ~ dependsOn(s, TupleVar(i))
    BY <1>2 DEF findFunction, IsForm, IsDecl
  <2>3. IsExp(e, 1 .. n)
    BY DEF IsForm, Over
  <2>4. IsExp(s, 1 .. n) /\ Solves(s, e, loc, 1 .. n)
    BY <2>1, <2>3, SolveFacts
  <2>5. IsExp(s, range)
    BY <2>2, <2>4, Independent
  <2> QED
    BY <2>4, <2>5 DEF Solves, Satisfies
<1> QED
  BY <1>1, <1>2

-----------------------------------------------------------------------------
(* Conjunctions: cleanUp and remapConstraints                              *)

Holds(t, c, m) == (\A e \in c.eqs : Value(e, t, m) = 0) /\ (\A e \in c.ineqs : Value(e, t, m) >= 0)
Declares(t, c) == \A i \in DOMAIN c.decl : \A k \in c.decl[i] : t[i] = k

\* A tuple satisfies a conjunction by its declaration and its constraints.
LEMMA SatisfiesParts ==
  ASSUME NEW t, NEW c, NEW m
  PROVE  Satisfies(t, c, m) <=> Declares(t, c) /\ Holds(t, c, m)
BY DEF Satisfies, Holds, Declares

\* A conjunction with other parts.
Triple(c) == c = [decl |-> c.decl, eqs |-> c.eqs, ineqs |-> c.ineqs]

\* Replacing the constraints of a conjunction.
LEMMA OtherConstraints ==
  ASSUME NEW c, Triple(c), NEW E, NEW I
  PROVE  [c EXCEPT !.eqs = E, !.ineqs = I] = [decl |-> c.decl, eqs |-> E, ineqs |-> I]
<1> DEFINE d == [c EXCEPT !.eqs = E, !.ineqs = I]
<1>1. DOMAIN c = {"decl", "eqs", "ineqs"}
  BY DEF Triple
<1>2. DOMAIN d = {"decl", "eqs", "ineqs"} /\ d.decl = c.decl /\ d.eqs = E /\ d.ineqs = I
  BY <1>1
<1>3. d = [k \in {"decl", "eqs", "ineqs"} |-> d[k]]
  BY <1>1
<1> HIDE DEF d
<1>4. d = [decl |-> d.decl, eqs |-> d.eqs, ineqs |-> d.ineqs]
  BY <1>2, <1>3
<1> QED
  BY <1>2, <1>4 DEF d

\* Replacing its declaration and equalities.
LEMMA OtherDeclEqs ==
  ASSUME NEW c, Triple(c), NEW D, NEW E
  PROVE  [c EXCEPT !.decl = D, !.eqs = E] = [decl |-> D, eqs |-> E, ineqs |-> c.ineqs]
<1> DEFINE d == [c EXCEPT !.decl = D, !.eqs = E]
<1>1. DOMAIN c = {"decl", "eqs", "ineqs"}
  BY DEF Triple
<1>2. DOMAIN d = {"decl", "eqs", "ineqs"} /\ d.decl = D /\ d.eqs = E /\ d.ineqs = c.ineqs
  BY <1>1
<1>3. d = [k \in {"decl", "eqs", "ineqs"} |-> d[k]]
  BY <1>1
<1> HIDE DEF d
<1>4. d = [decl |-> d.decl, eqs |-> d.eqs, ineqs |-> d.ineqs]
  BY <1>2, <1>3
<1> QED
  BY <1>2, <1>4 DEF d

\* Replacing its declaration.
LEMMA OtherDecl ==
  ASSUME NEW c, Triple(c), NEW D
  PROVE  [c EXCEPT !.decl = D] = [decl |-> D, eqs |-> c.eqs, ineqs |-> c.ineqs]
<1> DEFINE d == [c EXCEPT !.decl = D]
<1>1. DOMAIN c = {"decl", "eqs", "ineqs"}
  BY DEF Triple
<1>2. DOMAIN d = {"decl", "eqs", "ineqs"} /\ d.decl = D /\ d.eqs = c.eqs /\ d.ineqs = c.ineqs
  BY <1>1
<1>3. d = [k \in {"decl", "eqs", "ineqs"} |-> d[k]]
  BY <1>1
<1> HIDE DEF d
<1>4. d = [decl |-> d.decl, eqs |-> d.eqs, ineqs |-> d.ineqs]
  BY <1>2, <1>3
<1> QED
  BY <1>2, <1>4 DEF d

\* Conjunction::cleanUp keeps what its constraints say.
Tidied(e) == normalizeForEquality(collapseNestedInvertibleFunctions(e))

\* Conjunction::cleanUp on the parts of a conjunction.
LEMMA CleanUpShape ==
  ASSUME NEW L, NEW c, Over(c, L)
  PROVE  cleanUp(c) = [decl  |-> c.decl,
                       eqs   |-> {Tidied(e) : e \in c.eqs} \ {Zero},
                       ineqs |-> {collapseNestedInvertibleFunctions(e) : e \in c.ineqs} \ {Zero}]
<1> DEFINE E == {Tidied(e) : e \in c.eqs} \ {Zero}
           I == {collapseNestedInvertibleFunctions(e) : e \in c.ineqs} \ {Zero}
<1>1. cleanUp(c) = [c EXCEPT !.eqs = E, !.ineqs = I]
  BY DEF cleanUp, Tidied
<1> HIDE DEF E, I
<1>2. cleanUp(c) = [decl |-> c.decl, eqs |-> E, ineqs |-> I]
  BY <1>1, OtherConstraints DEF Over, Triple
<1> QED
  BY <1>2 DEF E, I

\* It leaves no 0 = 0, and equalities that start with a positive coefficient.
LEMMA CleanUpOver ==
  ASSUME NEW L \in SUBSET Nat, NEW c, Over(c, L)
  PROVE  Over(cleanUp(c), L) /\ Proper(cleanUp(c)) /\ cleanUp(c).decl = c.decl
<1> DEFINE d == cleanUp(c)
           g == [e \in c.eqs |-> Tidied(e)]
           h == [e \in c.ineqs |-> collapseNestedInvertibleFunctions(e)]
<1>1. /\ d = [decl |-> d.decl, eqs |-> d.eqs, ineqs |-> d.ineqs] /\ d.decl = c.decl
      /\ d.eqs = {Tidied(e) : e \in c.eqs} \ {Zero}
      /\ d.ineqs = {collapseNestedInvertibleFunctions(e) : e \in c.ineqs} \ {Zero}
  BY CleanUpShape
<1>2. {g[e] : e \in c.eqs} = {Tidied(e) : e \in c.eqs}
      /\ {h[e] : e \in c.ineqs} = {collapseNestedInvertibleFunctions(e) : e \in c.ineqs}
  OBVIOUS
<1> HIDE DEF d, g, h
<1>3. IsFiniteSet({Tidied(e) : e \in c.eqs}) /\ IsFiniteSet({collapseNestedInvertibleFunctions(e) : e \in c.ineqs})
  <2>1. IsFiniteSet({g[e] : e \in c.eqs})
    BY ImageFinite DEF Over
  <2>2. IsFiniteSet({h[e] : e \in c.ineqs})
    BY ImageFinite DEF Over
  <2> QED
    BY <1>2, <2>1, <2>2
<1>4. IsFiniteSet(d.eqs) /\ IsFiniteSet(d.ineqs)
  BY <1>1, <1>3, FS_Subset
<1>5. ASSUME NEW e \in c.eqs PROVE IsExp(Tidied(e), L) /\ (DOMAIN Tidied(e).terms # {} => FirstCoefficient(Tidied(e)) > 0)
  <2>1. IsExp(collapseNestedInvertibleFunctions(e), L)
    BY CollapseExp DEF Over
  <2> QED
    BY <2>1, NormalExp DEF Tidied
<1>6. ASSUME NEW e \in c.ineqs PROVE IsExp(collapseNestedInvertibleFunctions(e), L)
  BY CollapseExp DEF Over
<1>7. Over(d, L)
  BY <1>1, <1>4, <1>5, <1>6 DEF Over
<1>8. Proper(d)
  BY <1>1, <1>5 DEF Proper
<1> QED
  BY <1>1, <1>7, <1>8 DEF d

\* It keeps the tuples where no call hides a coefficient.
LEMMA CleanUpHolds ==
  ASSUME NEW L, NEW c, Over(c, L), ~ HidesCoefficient(c), NEW t, NEW m, Point(t, L, m)
  PROVE  Holds(t, cleanUp(c), m) <=> Holds(t, c, m)
<1> DEFINE d == cleanUp(c)
<1>1. /\ d.eqs = {Tidied(e) : e \in c.eqs} \ {Zero}
      /\ d.ineqs = {collapseNestedInvertibleFunctions(e) : e \in c.ineqs} \ {Zero}
  BY CleanUpShape
<1> HIDE DEF d
<1>2. ASSUME NEW e \in c.eqs \cup c.ineqs
      PROVE  /\ IsExp(collapseNestedInvertibleFunctions(e), L)
             /\ Value(collapseNestedInvertibleFunctions(e), t, m) = Value(e, t, m)
  <2>1. IsExp(e, L) /\ ~ CollapsesTooMuch(e)
    BY DEF Over, HidesCoefficient
  <2> QED
    BY <2>1, CollapseExp, CollapseValue
<1>3. ASSUME NEW e \in c.eqs PROVE Value(Tidied(e), t, m) = 0 <=> Value(e, t, m) = 0
  BY <1>2, NormalValue DEF Tidied
<1>4. Value(Zero, t, m) = 0
  BY ConstExp DEF Zero
<1>5. (\A e \in d.eqs : Value(e, t, m) = 0) <=> (\A e \in c.eqs : Value(e, t, m) = 0)
  <2>1. ASSUME \A x \in d.eqs : Value(x, t, m) = 0, NEW e \in c.eqs PROVE Value(e, t, m) = 0
    <3>1. Value(Tidied(e), t, m) = 0
      BY <1>1, <1>4, <2>1
    <3> QED
      BY <3>1, <1>3
  <2>2. ASSUME \A x \in c.eqs : Value(x, t, m) = 0, NEW e \in d.eqs PROVE Value(e, t, m) = 0
    BY <1>1, <1>3, <2>2
  <2> QED
    BY <2>1, <2>2
<1>6. (\A e \in d.ineqs : Value(e, t, m) >= 0) <=> (\A e \in c.ineqs : Value(e, t, m) >= 0)
  <2>1. ASSUME \A x \in d.ineqs : Value(x, t, m) >= 0, NEW e \in c.ineqs PROVE Value(e, t, m) >= 0
    <3>0. Value(collapseNestedInvertibleFunctions(e), t, m) = Value(e, t, m)
      BY <1>2
    <3>1. CASE collapseNestedInvertibleFunctions(e) = Zero
      BY <1>4, <3>0, <3>1
    <3>2. CASE collapseNestedInvertibleFunctions(e) # Zero
      BY <1>1, <2>1, <3>0, <3>2
    <3> QED
      BY <3>1, <3>2
  <2>2. ASSUME \A x \in c.ineqs : Value(x, t, m) >= 0, NEW e \in d.ineqs PROVE Value(e, t, m) >= 0
    <3>1. PICK x \in c.ineqs : e = collapseNestedInvertibleFunctions(x)
      BY <1>1
    <3> QED
      BY <1>2, <2>2, <3>1
  <2> QED
    BY <2>1, <2>2
<1> QED
  BY <1>5, <1>6 DEF Holds, d

-----------------------------------------------------------------------------
\* Remapping the locations.
Remapping(newLoc) == [f \in {TupleVar(i) : i \in DOMAIN newLoc} |-> Single(TupleVar(newLoc[f[2]]))]

\* A remapping of locations is a substitution.
LEMMA RemappingFacts ==
  ASSUME NEW L, NEW M, NEW newLoc \in [L -> M]
  PROVE  /\ Substitutes(Remapping(newLoc), L, M)
         /\ \A i \in L : TupleVar(i) \in DOMAIN Remapping(newLoc)
                         /\ Remapping(newLoc)[TupleVar(i)] = Single(TupleVar(newLoc[i]))
<1>1. ASSUME NEW i \in L
      PROVE  TupleVar(i) \in DOMAIN Remapping(newLoc) /\ Remapping(newLoc)[TupleVar(i)] = Single(TupleVar(newLoc[i]))
  <2>1. TupleVar(i)[2] = i
    BY DEF TupleVar
  <2> QED
    BY <2>1 DEF Remapping
<1>2. \A f \in DOMAIN Remapping(newLoc) : ~ IsCall(f)
  BY DEF Remapping, TupleVar, IsCall
<1>3. ASSUME NEW i \in L PROVE IsExp(Remapping(newLoc)[TupleVar(i)], M)
  <2>1. newLoc[i] \in M
    OBVIOUS
  <2>2. IsExp(Single(TupleVar(newLoc[i])), M)
    BY <2>1, VariableExp
  <2> QED
    BY <1>1, <2>2
<1> QED
  BY <1>1, <1>2, <1>3 DEF Substitutes

\* Exp::remapTupleVars gives an expression over the new locations.
LEMMA RemapExp ==
  ASSUME NEW L, NEW M, NEW newLoc \in [L -> M], NEW e, IsExp(e, L)
  PROVE  IsExp(remapTupleVars(e, newLoc), M)
<1>1. remapTupleVars(e, newLoc) = substitute(e, Remapping(newLoc))
  BY DEF remapTupleVars, Remapping
<1>2. Substitutes(Remapping(newLoc), L, M)
  BY RemappingFacts
<1> QED
  BY <1>1, <1>2, SubstituteExp

\* The tuple a constraint over the old locations looks at.
Moved(t, newLoc) == [i \in DOMAIN newLoc |-> t[newLoc[i]]]

\* It is worth what the expression is worth at the tuple moved back.
LEMMA RemapValue ==
  ASSUME NEW L, NEW M, NEW newLoc \in [L -> M], NEW e, IsExp(e, L), NEW t, NEW m, Point(t, M, m)
  PROVE  Value(remapTupleVars(e, newLoc), t, m) = Value(e, Moved(t, newLoc), m)
<1> DEFINE sub == Remapping(newLoc)
           u == After(sub, L, t, m)
<1>1. remapTupleVars(e, newLoc) = substitute(e, sub)
  BY DEF remapTupleVars, Remapping
<1>2. Substitutes(sub, L, M) /\ \A i \in L : TupleVar(i) \in DOMAIN sub /\ sub[TupleVar(i)] = Single(TupleVar(newLoc[i]))
  BY RemappingFacts
<1> HIDE DEF sub
<1>3. Value(substitute(e, sub), t, m) = Value(e, u, m)
  BY <1>2, SubstituteValue
<1>4. ASSUME NEW i \in L PROVE u[i] = Moved(t, newLoc)[i]
  <2>1. newLoc[i] \in M
    OBVIOUS
  <2>2. Value(Single(TupleVar(newLoc[i])), t, m) = t[newLoc[i]]
    BY <2>1, VariableExp
  <2>3. u[i] = Value(sub[TupleVar(i)], t, m)
    BY <1>2 DEF After
  <2> QED
    BY <1>2, <2>2, <2>3 DEF Moved
<1>5. Value(e, u, m) = Value(e, Moved(t, newLoc), m)
  <2> HIDE DEF u
  <2> QED
    BY <1>4, ValueSame
<1> QED
  BY <1>1, <1>3, <1>5

\* A tuple moved back is a tuple.
LEMMA MovedPoint ==
  ASSUME NEW L, NEW M, NEW newLoc \in [L -> M], NEW t, NEW m, Point(t, M, m)
  PROVE  Point(Moved(t, newLoc), L, m)
BY DEF Point, IntsOn, Moved

\* Conjunction::remapConstraints on the parts of a conjunction.
LEMMA RemapShape ==
  ASSUME NEW L, NEW c, Over(c, L), NEW newLoc
  PROVE  remapConstraints(c, newLoc)
           = [decl  |-> c.decl,
              eqs   |-> {normalizeForEquality(remapTupleVars(e, newLoc)) : e \in c.eqs},
              ineqs |-> {remapTupleVars(e, newLoc) : e \in c.ineqs}]
<1> DEFINE E == {normalizeForEquality(remapTupleVars(e, newLoc)) : e \in c.eqs}
           I == {remapTupleVars(e, newLoc) : e \in c.ineqs}
<1>1. remapConstraints(c, newLoc) = [c EXCEPT !.eqs = E, !.ineqs = I]
  BY DEF remapConstraints
<1> HIDE DEF E, I
<1>2. remapConstraints(c, newLoc) = [decl |-> c.decl, eqs |-> E, ineqs |-> I]
  BY <1>1, OtherConstraints DEF Over, Triple
<1> QED
  BY <1>2 DEF E, I

\* It gives constraints over the new locations.
LEMMA RemapOver ==
  ASSUME NEW L, NEW M \in SUBSET Nat, NEW newLoc \in [L -> M], NEW c, Over(c, L)
  PROVE  Over(remapConstraints(c, newLoc), M) /\ remapConstraints(c, newLoc).decl = c.decl
<1> DEFINE d == remapConstraints(c, newLoc)
           g == [e \in c.eqs |-> normalizeForEquality(remapTupleVars(e, newLoc))]
           h == [e \in c.ineqs |-> remapTupleVars(e, newLoc)]
<1>1. /\ d = [decl |-> d.decl, eqs |-> d.eqs, ineqs |-> d.ineqs] /\ d.decl = c.decl
      /\ d.eqs = {normalizeForEquality(remapTupleVars(e, newLoc)) : e \in c.eqs}
      /\ d.ineqs = {remapTupleVars(e, newLoc) : e \in c.ineqs}
  BY RemapShape
<1>2. {g[e] : e \in c.eqs} = {normalizeForEquality(remapTupleVars(e, newLoc)) : e \in c.eqs}
      /\ {h[e] : e \in c.ineqs} = {remapTupleVars(e, newLoc) : e \in c.ineqs}
  OBVIOUS
<1> HIDE DEF d, g, h
<1>3. IsFiniteSet(d.eqs)
  <2>1. IsFiniteSet({g[e] : e \in c.eqs})
    BY ImageFinite DEF Over
  <2> QED
    BY <2>1, <1>1, <1>2
<1>4. IsFiniteSet(d.ineqs)
  <2>1. IsFiniteSet({h[e] : e \in c.ineqs})
    BY ImageFinite DEF Over
  <2> QED
    BY <2>1, <1>1, <1>2
<1>5. ASSUME NEW e \in c.eqs \cup c.ineqs
      PROVE  IsExp(remapTupleVars(e, newLoc), M) /\ IsExp(normalizeForEquality(remapTupleVars(e, newLoc)), M)
  <2>1. IsExp(remapTupleVars(e, newLoc), M)
    BY RemapExp DEF Over
  <2> QED
    BY <2>1, NormalExp
<1>6. Over(d, M)
  BY <1>1, <1>3, <1>4, <1>5 DEF Over
<1> QED
  BY <1>1, <1>6 DEF d

\* They hold of a tuple where the old ones hold of the tuple moved back.
LEMMA RemapHolds ==
  ASSUME NEW L, NEW M, NEW newLoc \in [L -> M], NEW c, Over(c, L), NEW t, NEW m, Point(t, M, m)
  PROVE  Holds(t, remapConstraints(c, newLoc), m) <=> Holds(Moved(t, newLoc), c, m)
<1> DEFINE d == remapConstraints(c, newLoc)
           u == Moved(t, newLoc)
<1>1. /\ d.eqs = {normalizeForEquality(remapTupleVars(e, newLoc)) : e \in c.eqs}
      /\ d.ineqs = {remapTupleVars(e, newLoc) : e \in c.ineqs}
  BY RemapShape
<1> HIDE DEF d, u
<1>2. ASSUME NEW e \in c.eqs \cup c.ineqs
      PROVE  IsExp(remapTupleVars(e, newLoc), M) /\ Value(remapTupleVars(e, newLoc), t, m) = Value(e, u, m)
  BY RemapExp, RemapValue DEF Over, u
<1>3. ASSUME NEW e \in c.eqs
      PROVE  Value(normalizeForEquality(remapTupleVars(e, newLoc)), t, m) = 0 <=> Value(e, u, m) = 0
  BY <1>2, NormalValue
<1>4. (\A e \in d.eqs : Value(e, t, m) = 0) <=> (\A e \in c.eqs : Value(e, u, m) = 0)
  BY <1>1, <1>3
<1>5. (\A e \in d.ineqs : Value(e, t, m) >= 0) <=> (\A e \in c.ineqs : Value(e, u, m) >= 0)
  BY <1>1, <1>2
<1> QED
  BY <1>4, <1>5 DEF Holds, d, u

-----------------------------------------------------------------------------
(* Constants of tuple declarations, and elimination                        *)

\* A function on 1 .. n is a sequence of length n.
LEMMA DeclLength ==
  ASSUME NEW n \in Nat, NEW S, NEW d \in [1 .. n -> S]
  PROVE  d \in Seq(S) /\ Len(d) = n /\ DOMAIN d = 1 .. n
<1>1. d \in Seq(S)
  BY IsASeq
<1>2. Len(d) \in Nat /\ DOMAIN d = 1 .. Len(d)
  BY <1>1, LenProperties
<1> QED
  BY <1>1, <1>2

\* Declaring variables only.
LEMMA VariablesDecl ==
  ASSUME NEW n \in Nat
  PROVE  /\ IsDecl(Variables(n), n)
         /\ \A t, c : c.decl = Variables(n) => Declares(t, c)
BY DEF IsDecl, Variables, Declares

\* The equality that pins a location.
LEMMA PinFacts ==
  ASSUME NEW L \in SUBSET Nat, NEW i \in L, NEW k \in Int
  PROVE  /\ IsExp(Pin(i, k), L)
         /\ \A t, m : Point(t, L, m) => (Value(Pin(i, k), t, m) = 0 <=> t[i] = k)
<1> DEFINE a == Single(TupleVar(i))
           b == Const(-k)
           s == addExp(a, b)
<1>1. IsExp(a, L) /\ IsExp(b, L)
  BY VariableExp, ConstExp
<1>2. ASSUME NEW t, NEW m, Point(t, L, m) PROVE Value(a, t, m) = t[i] /\ Value(b, t, m) = -k /\ t[i] \in Int
  <2>1. -k \in Int /\ t[i] \in Int
    BY <1>2 DEF Point, IntsOn
  <2>2. Value(a, t, m) = t[i]
    BY <1>2, VariableExp
  <2>3. \A j \in Int : Value(Const(j), t, m) = j
    BY ConstExp
  <2> QED
    BY <2>1, <2>2, <2>3
<1> HIDE DEF a, b
<1>3. IsExp(s, L)
  BY <1>1, AddExpFacts
<1>4. ASSUME NEW t, NEW m, Point(t, L, m) PROVE Value(s, t, m) = 0 <=> t[i] = k
  <2>1. Value(s, t, m) = Value(a, t, m) + Value(b, t, m)
    BY <1>1, <1>4, AddValue
  <2> QED
    BY <2>1, <1>2, <1>4
<1>5. Pin(i, k) = normalizeForEquality(s)
  BY DEF Pin, a, b
<1> HIDE DEF s
<1>6. IsExp(Pin(i, k), L)
  BY <1>3, <1>5, NormalExp
<1>7. ASSUME NEW t, NEW m, Point(t, L, m) PROVE Value(Pin(i, k), t, m) = 0 <=> t[i] = k
  BY <1>3, <1>4, <1>5, <1>7, NormalValue
<1> QED
  BY <1>6, <1>7

\* pushConstToConstraints moves the declaration's constants.
Fixed(c) == {i \in DOMAIN c.decl : c.decl[i] # {}}
FixedAt(c, i) == CHOOSE k \in c.decl[i] : TRUE

\* The constants of a tuple declaration.
LEMMA FixedFacts ==
  ASSUME NEW n \in Nat, NEW c, IsDecl(c.decl, n)
  PROVE  /\ Fixed(c) \subseteq 1 .. n /\ IsFiniteSet(Fixed(c))
         /\ \A i \in Fixed(c) : FixedAt(c, i) \in Int /\ c.decl[i] = {FixedAt(c, i)}
         /\ \A i \in 1 .. n : i \notin Fixed(c) => c.decl[i] = {}
<1>1. Fixed(c) \subseteq 1 .. n
  BY DEF Fixed, IsDecl
<1>2. IsFiniteSet(Fixed(c))
  <2>1. IsFiniteSet(1 .. n)
    BY FS_Interval
  <2> QED
    BY <1>1, <2>1, FS_Subset
<1>3. ASSUME NEW i \in Fixed(c) PROVE FixedAt(c, i) \in Int /\ c.decl[i] = {FixedAt(c, i)}
  <2>1. c.decl[i] # {} /\ c.decl[i] \in SUBSET Int
    BY <1>1 DEF Fixed, IsDecl
  <2>2. PICK k \in c.decl[i] : c.decl[i] = {k}
    BY <2>1, <1>1 DEF IsDecl
  <2>3. FixedAt(c, i) \in c.decl[i]
    BY <2>1 DEF FixedAt
  <2> QED
    BY <2>1, <2>2, <2>3
<1> QED
  BY <1>1, <1>2, <1>3 DEF Fixed, IsDecl

\* Conjunction::pushConstToConstraints on the parts of a conjunction.
LEMMA PushShape ==
  ASSUME NEW n \in Nat, NEW c, IsForm(c, n)
  PROVE  pushConstToConstraints(c)
           = [decl |-> Variables(n), eqs |-> c.eqs \cup {Pin(i, FixedAt(c, i)) : i \in Fixed(c)}, ineqs |-> c.ineqs]
<1> DEFINE E == c.eqs \cup {Pin(i, FixedAt(c, i)) : i \in Fixed(c)}
           D == Variables(n)
<1>1. Arity(c) = n
  BY DeclLength DEF Arity, IsForm, IsDecl
<1>2. pushConstToConstraints(c) = [c EXCEPT !.decl = D, !.eqs = E]
  BY <1>1 DEF pushConstToConstraints, Fixed, FixedAt
<1> HIDE DEF D, E
<1>3. pushConstToConstraints(c) = [decl |-> D, eqs |-> E, ineqs |-> c.ineqs]
  BY <1>2, OtherDeclEqs DEF IsForm, Over, Triple
<1> QED
  BY <1>3 DEF D, E

\* It gives a conjunction whose declaration has variables only.
LEMMA PushForm ==
  ASSUME NEW n \in Nat, NEW c, IsForm(c, n)
  PROVE  IsForm(pushConstToConstraints(c), n) /\ pushConstToConstraints(c).decl = Variables(n)
<1> DEFINE d == pushConstToConstraints(c)
           h == [i \in Fixed(c) |-> Pin(i, FixedAt(c, i))]
           pins == {Pin(i, FixedAt(c, i)) : i \in Fixed(c)}
<1>1. d = [decl |-> Variables(n), eqs |-> c.eqs \cup pins, ineqs |-> c.ineqs]
  BY PushShape
<1>2. pins = {h[i] : i \in Fixed(c)}
  OBVIOUS
<1>3. IsFiniteSet(pins)
  <2> HIDE DEF h
  <2>1. IsFiniteSet(Fixed(c))
    BY FixedFacts DEF IsForm
  <2> QED
    BY <1>2, <2>1, ImageFinite
<1>4. ASSUME NEW e \in pins PROVE IsExp(e, 1 .. n)
  <2>1. PICK i \in Fixed(c) : e = Pin(i, FixedAt(c, i))
    OBVIOUS
  <2>2. i \in 1 .. n /\ FixedAt(c, i) \in Int /\ 1 .. n \in SUBSET Nat
    BY FixedFacts DEF IsForm
  <2> QED
    BY <2>1, <2>2, PinFacts
<1> HIDE DEF d, pins
<1>5. d.decl = Variables(n) /\ d.eqs = c.eqs \cup pins /\ d.ineqs = c.ineqs
  BY <1>1
<1>6. IsFiniteSet(d.eqs)
  BY <1>3, <1>5, FS_Union DEF IsForm, Over
<1>7. Over(d, 1 .. n)
  BY <1>1, <1>4, <1>5, <1>6 DEF IsForm, Over
<1> QED
  BY <1>5, <1>7, VariablesDecl DEF IsForm, d

\* Its constraints hold of exactly the tuples that satisfy the conjunction.
LEMMA PushHolds ==
  ASSUME NEW n \in Nat, NEW c, IsForm(c, n), NEW t, NEW m, Point(t, 1 .. n, m)
  PROVE  Holds(t, pushConstToConstraints(c), m) <=> Satisfies(t, c, m)
<1> DEFINE d == pushConstToConstraints(c)
           pins == {Pin(i, FixedAt(c, i)) : i \in Fixed(c)}
<1>1. d.eqs = c.eqs \cup pins /\ d.ineqs = c.ineqs
  BY PushShape
<1> HIDE DEF d
<1>2. ASSUME NEW i \in Fixed(c) PROVE Value(Pin(i, FixedAt(c, i)), t, m) = 0 <=> t[i] = FixedAt(c, i)
  <2>1. i \in 1 .. n /\ FixedAt(c, i) \in Int /\ 1 .. n \in SUBSET Nat
    BY FixedFacts DEF IsForm
  <2> QED
    BY <2>1, PinFacts
<1>3. Declares(t, c) <=> \A i \in Fixed(c) : t[i] = FixedAt(c, i)
  <2>1. DOMAIN c.decl = 1 .. n
    BY DEF IsForm, IsDecl
  <2>2. /\ Fixed(c) \subseteq 1 .. n
        /\ \A i \in Fixed(c) : c.decl[i] = {FixedAt(c, i)}
        /\ \A i \in 1 .. n : i \notin Fixed(c) => c.decl[i] = {}
    BY FixedFacts DEF IsForm
  <2> QED
    BY <2>1, <2>2 DEF Declares
<1>4. (\A e \in pins : Value(e, t, m) = 0) <=> Declares(t, c)
  BY <1>2, <1>3
<1> HIDE DEF pins
<1> QED
  BY <1>1, <1>4, SatisfiesParts DEF Holds, d

-----------------------------------------------------------------------------
\* Eliminating inner locations: those after the first n.
IsElimination(x, n, k) ==
  /\ x.arity = n /\ x.inner = (n + 1) .. (n + k) /\ x.range \subseteq 1 .. n
  /\ IsForm(x.conj, n + k) /\ x.conj.decl = Variables(n + k)

\* What findFunction found for an inner location names outer ones, and is
\* what the location is worth.
LEMMA InnerFacts ==
  ASSUME NEW n \in Nat, NEW k \in Nat, NEW x, IsElimination(x, n, k), Eliminable(x), NEW i \in x.inner
  PROVE  /\ TheFunction(x.conj, i, x.range) \in findFunction(x.conj, i, x.range)
         /\ IsExp(TheFunction(x.conj, i, x.range), x.range)
         /\ \A t, m : Point(t, 1 .. n + k, m) /\ Satisfies(t, x.conj, m) =>
              t[i] = Value(TheFunction(x.conj, i, x.range), t, m)
<1> DEFINE s == TheFunction(x.conj, i, x.range)
<1>1. s \in findFunction(x.conj, i, x.range)
  BY DEF Eliminable, TheFunction
<1>2. i \in 1 .. n + k /\ x.range \in SUBSET (1 .. n + k) /\ IsForm(x.conj, n + k)
  BY DEF IsElimination
<1>3. \A e \in x.conj.eqs : ~ SolveThrows(e, TupleVar(i))
  BY DEF Eliminable, SolvesQuietly
<1> HIDE DEF s
<1>4. /\ IsExp(s, x.range)
      /\ \A t, m : Point(t, 1 .. n + k, m) /\ Satisfies(t, x.conj, m) => t[i] = Value(s, t, m)
  BY <1>1, <1>2, <1>3, FunctionFacts
<1> QED
  BY <1>1, <1>4 DEF s

\* Those functions are a substitution, for exactly the inner locations.
LEMMA InnerSubstitutes ==
  ASSUME NEW n \in Nat, NEW k \in Nat, NEW x, IsElimination(x, n, k), Eliminable(x)
  PROVE  /\ Substitutes(InnerFunctions(x), 1 .. n + k, 1 .. n)
         /\ \A i \in 1 .. n + k : TupleVar(i) \in DOMAIN InnerFunctions(x) <=> i \in x.inner
         /\ \A i \in x.inner : InnerFunctions(x)[TupleVar(i)] = TheFunction(x.conj, i, x.range)
<1> DEFINE sub == InnerFunctions(x)
<1>1. DOMAIN sub = {TupleVar(i) : i \in x.inner}
  BY DEF InnerFunctions
<1>2. ASSUME NEW i \in x.inner PROVE sub[TupleVar(i)] = TheFunction(x.conj, i, x.range)
  <2>1. TupleVar(i)[2] = i
    BY DEF TupleVar
  <2> QED
    BY <2>1 DEF InnerFunctions
<1>3. ASSUME NEW i \in 1 .. n + k PROVE TupleVar(i) \in DOMAIN sub <=> i \in x.inner
  BY <1>1 DEF TupleVar
<1> HIDE DEF sub
<1>4. \A f \in DOMAIN sub : ~ IsCall(f)
  BY <1>1 DEF TupleVar, IsCall
<1>5. ASSUME NEW i \in 1 .. n + k, TupleVar(i) \in DOMAIN sub PROVE IsExp(sub[TupleVar(i)], 1 .. n)
  <2>1. i \in x.inner
    BY <1>3, <1>5
  <2>2. IsExp(TheFunction(x.conj, i, x.range), x.range) /\ x.range \subseteq 1 .. n
    BY <2>1, InnerFacts DEF IsElimination
  <2>3. IsExp(TheFunction(x.conj, i, x.range), 1 .. n)
    BY <2>2, WiderExp
  <2> QED
    BY <2>1, <2>3, <1>2
<1>6. ASSUME NEW i \in 1 .. n + k, TupleVar(i) \notin DOMAIN sub PROVE i \in 1 .. n
  <2>1. i \notin (n + 1) .. (n + k)
    BY <1>3, <1>6 DEF IsElimination
  <2> QED
    BY <2>1
<1>7. Substitutes(sub, 1 .. n + k, 1 .. n)
  BY <1>4, <1>5, <1>6 DEF Substitutes
<1> QED
  BY <1>2, <1>3, <1>7 DEF sub

\* The constraints before they are cleaned up.
LEMMA UncleanedOver ==
  ASSUME NEW n \in Nat, NEW k \in Nat, NEW x, IsElimination(x, n, k), Eliminable(x)
  PROVE  /\ Over(Uncleaned(x), 1 .. n)
         /\ Uncleaned(x).eqs = {substitute(e, InnerFunctions(x)) : e \in x.conj.eqs}
         /\ Uncleaned(x).ineqs = {substitute(e, InnerFunctions(x)) : e \in x.conj.ineqs}
<1> DEFINE sub == InnerFunctions(x)
           c == x.conj
           d == Uncleaned(x)
           g == [e \in c.eqs |-> substitute(e, sub)]
           h == [e \in c.ineqs |-> substitute(e, sub)]
           E == {substitute(e, sub) : e \in c.eqs}
           I == {substitute(e, sub) : e \in c.ineqs}
<1>0. Over(c, 1 .. n + k)
  BY DEF IsElimination, IsForm
<1>1. d = [c EXCEPT !.eqs = E, !.ineqs = I]
  BY DEF Uncleaned, Substituted
<1>2. E = {g[e] : e \in c.eqs} /\ I = {h[e] : e \in c.ineqs}
  OBVIOUS
<1> HIDE DEF g, h
<1>3. IsFiniteSet(E) /\ IsFiniteSet(I)
  <2>1. IsFiniteSet({g[e] : e \in c.eqs})
    BY <1>0, ImageFinite DEF Over
  <2>2. IsFiniteSet({h[e] : e \in c.ineqs})
    BY <1>0, ImageFinite DEF Over
  <2> QED
    BY <2>1, <2>2, <1>2
<1>4. ASSUME NEW e \in c.eqs \cup c.ineqs PROVE IsExp(substitute(e, sub), 1 .. n)
  <2>1. Substitutes(sub, 1 .. n + k, 1 .. n)
    BY InnerSubstitutes
  <2>2. IsExp(e, 1 .. n + k)
    BY <1>0 DEF Over
  <2> HIDE DEF sub
  <2> QED
    BY <2>1, <2>2, SubstituteExp
<1>5. \A e \in E \cup I : IsExp(e, 1 .. n)
  BY <1>4
<1> HIDE DEF E, I
<1>6. d = [decl |-> c.decl, eqs |-> E, ineqs |-> I]
  <2> HIDE DEF c, d
  <2> QED
    BY <1>0, <1>1, OtherConstraints DEF Over, Triple
<1> HIDE DEF d
<1>7. d.eqs = E /\ d.ineqs = I /\ d.decl = c.decl
  BY <1>6
<1>8. Over(d, 1 .. n)
  BY <1>3, <1>5, <1>6, <1>7 DEF Over
<1> QED
  BY <1>7, <1>8 DEF d, E, I

\* What the substitution leaves holds of a tuple where the constraints hold
\* of it with the inner values the functions give.
LEMMA UncleanedHolds ==
  ASSUME NEW n \in Nat, NEW k \in Nat, NEW x, IsElimination(x, n, k), Eliminable(x),
         NEW t, NEW m, Point(t, 1 .. n, m)
  PROVE  Holds(t, Uncleaned(x), m) <=> Holds(After(InnerFunctions(x), 1 .. n + k, t, m), x.conj, m)
<1> DEFINE sub == InnerFunctions(x)
           u == After(sub, 1 .. n + k, t, m)
<1>1. Uncleaned(x).eqs = {substitute(e, sub) : e \in x.conj.eqs} /\ Uncleaned(x).ineqs = {substitute(e, sub) : e \in x.conj.ineqs}
  BY UncleanedOver
<1>2. ASSUME NEW e \in x.conj.eqs \cup x.conj.ineqs PROVE Value(substitute(e, sub), t, m) = Value(e, u, m)
  <2>1. IsExp(e, 1 .. n + k)
    BY DEF IsElimination, IsForm, Over
  <2>2. Substitutes(sub, 1 .. n + k, 1 .. n)
    BY InnerSubstitutes
  <2> HIDE DEF sub
  <2> QED
    BY <2>1, <2>2, SubstituteValue
<1> HIDE DEF sub, u
<1> QED
  BY <1>1, <1>2 DEF Holds, u, sub

\* An elimination leaves a conjunction over the outer locations, cleaned up.
LEMMA EliminateShape ==
  ASSUME NEW n \in Nat, NEW k \in Nat, NEW x, IsElimination(x, n, k), Eliminable(x)
  PROVE  /\ IsForm(Eliminate(x), n) /\ Proper(Eliminate(x)) /\ Eliminate(x).decl = Variables(n)
         /\ Eliminate(x).eqs = cleanUp(Uncleaned(x)).eqs /\ Eliminate(x).ineqs = cleanUp(Uncleaned(x)).ineqs
<1> DEFINE c == cleanUp(Uncleaned(x))
           d == Eliminate(x)
<1>1. 1 .. n \in SUBSET Nat
  OBVIOUS
<1>2. Over(c, 1 .. n) /\ Proper(c)
  BY <1>1, UncleanedOver, CleanUpOver
<1>3. d = [c EXCEPT !.decl = Variables(n)]
  BY DEF Eliminate, substituteInConstraints, Uncleaned, IsElimination
<1> HIDE DEF c, d
<1>4. d = [decl |-> Variables(n), eqs |-> c.eqs, ineqs |-> c.ineqs]
  BY <1>2, <1>3, OtherDecl DEF Over, Triple
<1>5. d.decl = Variables(n) /\ d.eqs = c.eqs /\ d.ineqs = c.ineqs
  BY <1>4
<1>6. Over(d, 1 .. n) /\ Proper(d)
  BY <1>2, <1>4, <1>5 DEF Over, Proper
<1> QED
  BY <1>5, <1>6, VariablesDecl DEF IsForm, d, c

\* A tuple satisfies it where, with those inner values, the constraints hold.
LEMMA EliminateHolds ==
  ASSUME NEW n \in Nat, NEW k \in Nat, NEW x, IsElimination(x, n, k), Eliminable(x),
         ~ HidesCoefficient(Uncleaned(x)), NEW t, NEW m, Point(t, 1 .. n, m)
  PROVE  Satisfies(t, Eliminate(x), m) <=> Holds(After(InnerFunctions(x), 1 .. n + k, t, m), x.conj, m)
<1>1. Holds(t, cleanUp(Uncleaned(x)), m) <=> Holds(t, Uncleaned(x), m)
  BY UncleanedOver, CleanUpHolds
<1>2. Holds(t, Eliminate(x), m) <=> Holds(t, cleanUp(Uncleaned(x)), m)
  BY EliminateShape DEF Holds
<1>3. Declares(t, Eliminate(x))
  BY EliminateShape, VariablesDecl
<1> QED
  BY <1>1, <1>2, <1>3, UncleanedHolds, SatisfiesParts

\* A tuple with inner locations loses nothing by dropping them.
LEMMA EliminateLoses ==
  ASSUME NEW n \in Nat, NEW k \in Nat, NEW x, IsElimination(x, n, k), Eliminable(x),
         ~ HidesCoefficient(Uncleaned(x)), NEW t, NEW T, NEW m, Point(t, 1 .. n, m),
         Point(T, 1 .. n + k, m), \A i \in 1 .. n : t[i] = T[i], Holds(T, x.conj, m)
  PROVE  Satisfies(t, Eliminate(x), m)
<1> DEFINE sub == InnerFunctions(x)
           u == After(sub, 1 .. n + k, t, m)
<1>1. Satisfies(T, x.conj, m)
  BY SatisfiesParts, VariablesDecl DEF IsElimination
<1>2. ASSUME NEW i \in 1 .. n + k PROVE u[i] = T[i]
  <2>1. CASE i \in x.inner
    <3> DEFINE s == TheFunction(x.conj, i, x.range)
    <3>1. sub[TupleVar(i)] = s /\ TupleVar(i) \in DOMAIN sub
      BY <2>1, InnerSubstitutes
    <3>2. IsExp(s, x.range)
      BY <2>1, InnerFacts
    <3>3. T[i] = Value(s, T, m)
      BY <2>1, <1>1, InnerFacts
    <3>4. u[i] = Value(s, t, m)
      BY <3>1 DEF After
    <3>5. \A j \in x.range : t[j] = T[j]
      BY DEF IsElimination
    <3> HIDE DEF s
    <3>6. Value(s, t, m) = Value(s, T, m)
      BY <3>2, <3>5, ValueSame
    <3> QED
      BY <3>3, <3>4, <3>6
  <2>2. CASE i \notin x.inner
    <3>1. TupleVar(i) \notin DOMAIN sub
      BY <2>2, InnerSubstitutes
    <3>2. i \in 1 .. n
      BY <2>2 DEF IsElimination
    <3>3. u[i] = t[i]
      BY <3>1 DEF After
    <3> QED
      BY <3>2, <3>3
  <2> QED
    BY <2>1, <2>2
<1> HIDE DEF u
<1>3. Holds(u, x.conj, m)
  <2>1. ASSUME NEW e \in x.conj.eqs \cup x.conj.ineqs PROVE Value(e, u, m) = Value(e, T, m)
    <3>1. IsExp(e, 1 .. n + k)
      BY DEF IsElimination, IsForm, Over
    <3> QED
      BY <3>1, <1>2, ValueSame
  <2> QED
    BY <2>1 DEF Holds
<1> QED
  BY <1>3, EliminateHolds DEF u

\* And each tuple left stands for one with inner locations.
LEMMA EliminateGains ==
  ASSUME NEW n \in Nat, NEW k \in Nat, NEW x, IsElimination(x, n, k), Eliminable(x),
         ~ HidesCoefficient(Uncleaned(x)), NEW t, NEW m, Point(t, 1 .. n, m),
         Satisfies(t, Eliminate(x), m)
  PROVE  \E T : Point(T, 1 .. n + k, m) /\ (\A i \in 1 .. n : T[i] = t[i]) /\ Holds(T, x.conj, m)
<1> DEFINE sub == InnerFunctions(x)
           T == After(sub, 1 .. n + k, t, m)
<1>1. Substitutes(sub, 1 .. n + k, 1 .. n) /\ \A i \in 1 .. n + k : TupleVar(i) \in DOMAIN sub <=> i \in x.inner
  BY InnerSubstitutes
<1>2. Point(T, 1 .. n + k, m)
  <2> HIDE DEF sub
  <2> QED
    BY <1>1, AfterPoint
<1>3. ASSUME NEW i \in 1 .. n PROVE T[i] = t[i]
  <2>1. i \in 1 .. n + k /\ i \notin x.inner
    BY DEF IsElimination
  <2> QED
    BY <2>1, <1>1 DEF After
<1>4. Holds(T, x.conj, m)
  BY EliminateHolds
<1> HIDE DEF T
<1> QED
  BY <1>2, <1>3, <1>4

-----------------------------------------------------------------------------
(* Constants pushed into the declaration                                   *)

\* pushConstConstraintsToTupleDecl: the equality whose constant it takes.
LastPin(c, i) == CHOOSE e \in PinsOf(c, i) : \A d \in PinsOf(c, i) : ListedAfter(e, d, i)
ConstantOf(e, i) == (CHOOSE s \in solveForFactor(e, TupleVar(i)) : TRUE).const
Pinned(c, i) == c.decl[i] = {} /\ PinsOf(c, i) # {}

PinnedDecl(c, n) ==
  [i \in 1 .. n |-> IF Pinned(c, i) THEN {ConstantOf(LastPin(c, i), i)} ELSE c.decl[i]]
Unpinned(c, n) == c.eqs \ UNION {PinsOf(c, i) : i \in {j \in 1 .. n : c.decl[j] = {}}}

\* A pin says that the location has its constant.
LEMMA PinSays ==
  ASSUME NEW n, NEW c, IsForm(c, n), SolvesQuietly(c, 1 .. n), NEW i \in 1 .. n, NEW e \in PinsOf(c, i)
  PROVE  /\ e \in c.eqs /\ ConstantOf(e, i) \in Int
         /\ \A t, m : Point(t, 1 .. n, m) => (Value(e, t, m) = 0 <=> t[i] = ConstantOf(e, i))
<1>1. e \in c.eqs /\ \E s \in solveForFactor(e, TupleVar(i)) : DOMAIN s.terms = {}
  BY DEF PinsOf
<1>2. PICK s \in solveForFactor(e, TupleVar(i)) : DOMAIN s.terms = {}
  BY <1>1
<1>3. IsExp(e, 1 .. n) /\ ~ SolveThrows(e, TupleVar(i))
  BY <1>1 DEF IsForm, Over, SolvesQuietly
<1>4. IsExp(s, 1 .. n) /\ Solves(s, e, i, 1 .. n)
  BY <1>3, SolveFacts
<1>5. (CHOOSE r \in solveForFactor(e, TupleVar(i)) : TRUE) = s
  <2> DEFINE r == CHOOSE q \in solveForFactor(e, TupleVar(i)) : TRUE
  <2>1. r \in solveForFactor(e, TupleVar(i))
    OBVIOUS
  <2> HIDE DEF r
  <2>2. r = s
    BY <2>1, <1>3, SolveUnique
  <2> QED
    BY <2>2 DEF r
<1>6. ConstantOf(e, i) = s.const
  BY <1>5 DEF ConstantOf
<1>7. s.const \in Int
  BY <1>4 DEF IsExp, IsSum
<1>8. ASSUME NEW t, NEW m PROVE Value(s, t, m) = s.const
  <2> DEFINE w == Worths({}, t, m)
  <2>1. Value(s, t, m) = Lin(s, w)
    BY <1>2, <1>4, ValueLin
  <2>2. Sum([f \in DOMAIN s.terms |-> s.terms[f] * w[f]], DOMAIN s.terms) = 0
    BY <1>2, SumEmpty DEF Sum
  <2>3. Lin(s, w) = s.const + 0
    BY <2>2 DEF Lin
  <2> QED
    BY <2>1, <2>3, <1>7
<1> QED
  BY <1>1, <1>4, <1>6, <1>7, <1>8 DEF Solves

\* One of the pins is listed last.
LEMMA LastPinExists ==
  ASSUME NEW n, NEW c, IsForm(c, n), NEW i \in 1 .. n, PinsOf(c, i) # {}
  PROVE  LastPin(c, i) \in PinsOf(c, i)
<1> DEFINE S == PinsOf(c, i)
           R == {p \in S \X S : ListedAfter(p[1], p[2], i)}
<1>1. IsFiniteSet(S)
  BY FS_Subset DEF PinsOf, IsForm, Over
<1>2. \A e \in S : e.const \in Int /\ Coefficient(e, TupleVar(i)) \in Int
  <2> SUFFICES ASSUME NEW e \in S PROVE e.const \in Int /\ Coefficient(e, TupleVar(i)) \in Int
    OBVIOUS
  <2>1. IsExp(e, 1 .. n)
    BY DEF PinsOf, IsForm, Over
  <2>2. SumOver(e, DOMAIN e.terms)
    BY <2>1, ExpFactors
  <2> QED
    BY <2>2, CoefficientInt DEF SumOver
<1>3. \A a, b \in S : <<a, b>> \in R <=> ListedAfter(a, b, i)
  OBVIOUS
<1> HIDE DEF R, S
<1>4. ASSUME NEW a \in S, NEW b \in S PROVE ListedAfter(a, b, i) \/ ListedAfter(b, a, i)
  BY <1>2 DEF ListedAfter
<1>5. ASSUME NEW a \in S, NEW b \in S, NEW d \in S, ListedAfter(a, b, i), ListedAfter(b, d, i)
      PROVE  ListedAfter(a, d, i)
  BY <1>2, <1>5 DEF ListedAfter
<1>6. \E a \in S : \A b \in S : <<a, b>> \in R
  <2>1. S # {}
    BY DEF S
  <2>2. \A a, b \in S : <<a, b>> \in R \/ <<b, a>> \in R
    BY <1>3, <1>4
  <2>3. \A a, b, d \in S : <<a, b>> \in R /\ <<b, d>> \in R => <<a, d>> \in R
    BY <1>3, <1>5
  <2> QED
    BY <1>1, <2>1, <2>2, <2>3, FiniteLeast
<1>7. \E a \in S : \A b \in S : ListedAfter(a, b, i)
  BY <1>3, <1>6
<1> QED
  BY <1>7 DEF LastPin, S

\* The shape of the result.
LEMMA PushDeclShape ==
  ASSUME NEW n \in Nat, NEW c, IsForm(c, n)
  PROVE  pushConstConstraintsToTupleDecl(c)
           = [decl |-> PinnedDecl(c, n), eqs |-> Unpinned(c, n), ineqs |-> c.ineqs]
<1> DEFINE D == [i \in 1 .. n |-> IF Pinned(c, i) THEN {ConstantOf(LastPin(c, i), i)} ELSE c.decl[i]]
           E == c.eqs \ UNION {PinsOf(c, i) : i \in {j \in 1 .. n : c.decl[j] = {}}}
           open == {i \in DOMAIN c.decl : c.decl[i] = {}}
           A == [i \in DOMAIN c.decl |->
                   IF i \in open /\ PinsOf(c, i) # {} THEN {ConstantOf(LastPin(c, i), i)} ELSE c.decl[i]]
           B == c.eqs \ UNION {PinsOf(c, i) : i \in open}
<1>1. pushConstConstraintsToTupleDecl(c) = [c EXCEPT !.decl = A, !.eqs = B]
  BY DEF pushConstConstraintsToTupleDecl, LastPin, ConstantOf
<1>2. DOMAIN c.decl = 1 .. n
  BY DEF IsForm, IsDecl
<1>3. A = D
  BY <1>2 DEF Pinned
<1>4. B = E
  BY <1>2
<1> HIDE DEF A, B, D, E
<1>5. pushConstConstraintsToTupleDecl(c) = [decl |-> A, eqs |-> B, ineqs |-> c.ineqs]
  BY <1>1, OtherDeclEqs DEF IsForm, Over, Triple
<1> QED
  BY <1>3, <1>4, <1>5 DEF D, E, PinnedDecl, Unpinned

\* Conjunction::pushConstConstraintsToTupleDecl gives a conjunction of a
\* value.
LEMMA PushDeclConj ==
  ASSUME NEW n \in Nat, NEW c, IsForm(c, n), Proper(c), SolvesQuietly(c, 1 .. n)
  PROVE  IsConj(pushConstConstraintsToTupleDecl(c), n)
<1> DEFINE d == pushConstConstraintsToTupleDecl(c)
<1>1. /\ d = [decl |-> d.decl, eqs |-> d.eqs, ineqs |-> d.ineqs]
      /\ d.decl = [i \in 1 .. n |-> IF Pinned(c, i) THEN {ConstantOf(LastPin(c, i), i)} ELSE c.decl[i]]
      /\ d.eqs \subseteq c.eqs /\ d.ineqs = c.ineqs
  <2>1. d = [decl |-> PinnedDecl(c, n), eqs |-> Unpinned(c, n), ineqs |-> c.ineqs]
    BY PushDeclShape
  <2>2. d.decl = PinnedDecl(c, n) /\ d.eqs = Unpinned(c, n) /\ d.ineqs = c.ineqs
    BY <2>1
  <2> HIDE DEF d
  <2> QED
    BY <2>1, <2>2 DEF PinnedDecl, Unpinned
<1> HIDE DEF d
<1>2. ASSUME NEW i \in 1 .. n, Pinned(c, i) PROVE ConstantOf(LastPin(c, i), i) \in Int
  <2>1. LastPin(c, i) \in PinsOf(c, i)
    BY <1>2, LastPinExists DEF Pinned
  <2> QED
    BY <2>1, PinSays
<1>3. ASSUME NEW i \in 1 .. n
      PROVE  /\ d.decl[i] \in SUBSET Int
             /\ d.decl[i] = {} \/ \E k \in d.decl[i] : d.decl[i] = {k}
  <2>1. CASE Pinned(c, i)
    BY <1>1, <1>2, <2>1
  <2>2. CASE ~ Pinned(c, i)
    BY <1>1, <2>2 DEF IsForm, IsDecl
  <2> QED
    BY <2>1, <2>2
<1>4. IsDecl(d.decl, n)
  <2>1. d.decl \in [1 .. n -> SUBSET Int]
    BY <1>1, <1>3
  <2> QED
    BY <2>1, <1>3 DEF IsDecl
<1>5. IsFiniteSet(d.eqs) /\ IsFiniteSet(d.ineqs)
  BY <1>1, FS_Subset DEF IsForm, Over
<1>6. Over(d, 1 .. n)
  BY <1>1, <1>5 DEF IsForm, Over
<1>7. Proper(d)
  BY <1>1 DEF Proper
<1> QED
  BY <1>4, <1>6, <1>7, ConjForm DEF IsForm, d

\* No tuple is lost by it.
LEMMA PushDeclLoses ==
  ASSUME NEW n \in Nat, NEW c, IsForm(c, n), SolvesQuietly(c, 1 .. n),
         NEW t, NEW m, Point(t, 1 .. n, m), Satisfies(t, c, m)
  PROVE  Satisfies(t, pushConstConstraintsToTupleDecl(c), m)
<1> DEFINE d == pushConstConstraintsToTupleDecl(c)
<1>1. /\ d.decl = [i \in 1 .. n |-> IF Pinned(c, i) THEN {ConstantOf(LastPin(c, i), i)} ELSE c.decl[i]]
      /\ d.eqs \subseteq c.eqs /\ d.ineqs = c.ineqs
  <2>1. d = [decl |-> PinnedDecl(c, n), eqs |-> Unpinned(c, n), ineqs |-> c.ineqs]
    BY PushDeclShape
  <2>2. d.decl = PinnedDecl(c, n) /\ d.eqs = Unpinned(c, n) /\ d.ineqs = c.ineqs
    BY <2>1
  <2> HIDE DEF d
  <2> QED
    BY <2>1, <2>2 DEF PinnedDecl, Unpinned
<1> HIDE DEF d
<1>2. Declares(t, c) /\ Holds(t, c, m)
  BY SatisfiesParts
<1>3. Holds(t, d, m)
  BY <1>1, <1>2 DEF Holds
<1>4. ASSUME NEW i \in 1 .. n, NEW k \in d.decl[i] PROVE t[i] = k
  <2>1. CASE Pinned(c, i)
    <3>1. LastPin(c, i) \in PinsOf(c, i)
      BY <2>1, LastPinExists DEF Pinned
    <3>2. LastPin(c, i) \in c.eqs /\ (Value(LastPin(c, i), t, m) = 0 <=> t[i] = ConstantOf(LastPin(c, i), i))
      BY <3>1, PinSays
    <3>3. k = ConstantOf(LastPin(c, i), i)
      BY <1>1, <1>4, <2>1
    <3> QED
      BY <3>2, <3>3, <1>2 DEF Holds
  <2>2. CASE ~ Pinned(c, i)
    BY <1>1, <1>2, <1>4, <2>2 DEF Declares, IsForm, IsDecl
  <2> QED
    BY <2>1, <2>2
<1>5. Declares(t, d)
  BY <1>1, <1>4 DEF Declares
<1> QED
  BY <1>3, <1>5, SatisfiesParts DEF d

\* Nor is one gained where the pins of a location agree.
LEMMA PushDeclGains ==
  ASSUME NEW n \in Nat, NEW c, IsForm(c, n), SolvesQuietly(c, 1 .. n),
         NEW t, NEW u, NEW m, Point(t, 1 .. n, m), Point(u, 1 .. n, m), Satisfies(u, c, m),
         Satisfies(t, pushConstConstraintsToTupleDecl(c), m)
  PROVE  Satisfies(t, c, m)
<1> DEFINE d == pushConstConstraintsToTupleDecl(c)
<1>1. /\ d.decl = [i \in 1 .. n |-> IF Pinned(c, i) THEN {ConstantOf(LastPin(c, i), i)} ELSE c.decl[i]]
      /\ d.eqs = c.eqs \ UNION {PinsOf(c, i) : i \in {j \in 1 .. n : c.decl[j] = {}}}
      /\ d.ineqs = c.ineqs
  <2>1. d = [decl |-> PinnedDecl(c, n), eqs |-> Unpinned(c, n), ineqs |-> c.ineqs]
    BY PushDeclShape
  <2>2. d.decl = PinnedDecl(c, n) /\ d.eqs = Unpinned(c, n) /\ d.ineqs = c.ineqs
    BY <2>1
  <2> HIDE DEF d
  <2> QED
    BY <2>2 DEF PinnedDecl, Unpinned
<1>2. Declares(t, d) /\ Holds(t, d, m)
  BY SatisfiesParts
<1> HIDE DEF d
<1>3. Declares(u, c) /\ Holds(u, c, m)
  BY SatisfiesParts
<1>4. ASSUME NEW i \in 1 .. n, c.decl[i] = {}, NEW e \in PinsOf(c, i) PROVE Value(e, t, m) = 0
  <2>1. Pinned(c, i)
    BY <1>4 DEF Pinned
  <2>2. LastPin(c, i) \in PinsOf(c, i)
    BY <2>1, LastPinExists DEF Pinned
  <2>3. t[i] = ConstantOf(LastPin(c, i), i)
    BY <1>1, <1>2, <2>1 DEF Declares
  <2>4. u[i] = ConstantOf(LastPin(c, i), i)
    <3>1. LastPin(c, i) \in c.eqs /\ (Value(LastPin(c, i), u, m) = 0 <=> u[i] = ConstantOf(LastPin(c, i), i))
      BY <2>2, PinSays
    <3> QED
      BY <3>1, <1>3 DEF Holds
  <2>5. u[i] = ConstantOf(e, i)
    <3>1. e \in c.eqs /\ (Value(e, u, m) = 0 <=> u[i] = ConstantOf(e, i))
      BY PinSays
    <3> QED
      BY <3>1, <1>3 DEF Holds
  <2>6. Value(e, t, m) = 0 <=> t[i] = ConstantOf(e, i)
    BY PinSays
  <2> QED
    BY <2>3, <2>4, <2>5, <2>6
<1>5. ASSUME NEW e \in c.eqs PROVE Value(e, t, m) = 0
  <2>1. CASE e \in d.eqs
    BY <2>1, <1>2 DEF Holds
  <2>2. CASE e \notin d.eqs
    <3>1. PICK i \in {j \in 1 .. n : c.decl[j] = {}} : e \in PinsOf(c, i)
      BY <2>2, <1>1
    <3> QED
      BY <3>1, <1>4
  <2> QED
    BY <2>1, <2>2
<1>6. Holds(t, c, m)
  BY <1>1, <1>2, <1>5 DEF Holds
<1>7. ASSUME NEW i \in 1 .. n, NEW k \in c.decl[i] PROVE t[i] = k
  <2>1. ~ Pinned(c, i)
    BY <1>7 DEF Pinned
  <2>2. d.decl[i] = c.decl[i] /\ i \in DOMAIN d.decl
    BY <1>1, <2>1
  <2> QED
    BY <2>2, <1>2 DEF Declares
<1>8. Declares(t, c)
  BY <1>7 DEF Declares, IsForm, IsDecl
<1> QED
  BY <1>6, <1>8, SatisfiesParts

-----------------------------------------------------------------------------
(* Intersection, and operands placed                                       *)

\* Satisfying a conjunction depends on the values of its locations only.
LEMMA SatisfiesSame ==
  ASSUME NEW n \in Nat, NEW c, IsForm(c, n), NEW t, NEW u, NEW m, \A i \in 1 .. n : t[i] = u[i],
         Satisfies(t, c, m)
  PROVE  Satisfies(u, c, m)
<1>1. DOMAIN c.decl = 1 .. n
  BY DEF IsForm, IsDecl
<1>2. \A e \in c.eqs \cup c.ineqs : Value(e, t, m) = Value(e, u, m)
  BY ValueSame DEF IsForm, Over
<1> QED
  BY <1>1, <1>2 DEF Satisfies

\* copyConstraints puts the constraints of both together.
LEMMA CopyShape ==
  ASSUME NEW a, Triple(a), NEW b
  PROVE  copyConstraints(a, b) = [decl |-> a.decl, eqs |-> a.eqs \cup b.eqs, ineqs |-> a.ineqs \cup b.ineqs]
BY OtherConstraints DEF copyConstraints

\* They are constraints over the locations of both.
LEMMA CopyOver ==
  ASSUME NEW L, NEW a, NEW b, Over(a, L), Over(b, L)
  PROVE  Over(copyConstraints(a, b), L) /\ copyConstraints(a, b).decl = a.decl
<1> DEFINE E == a.eqs \cup b.eqs
           I == a.ineqs \cup b.ineqs
           d == copyConstraints(a, b)
<1>1. d = [decl |-> a.decl, eqs |-> E, ineqs |-> I]
  BY CopyShape DEF Over, Triple
<1>2. IsFiniteSet(E) /\ IsFiniteSet(I)
  BY FS_Union DEF Over
<1>3. \A e \in E \cup I : IsExp(e, L)
  BY DEF Over
<1> HIDE DEF E, I, d
<1>4. d.decl = a.decl /\ d.eqs = E /\ d.ineqs = I
  BY <1>1
<1> QED
  BY <1>1, <1>2, <1>3, <1>4 DEF Over, d

\* And hold where both do.
LEMMA CopyHolds ==
  ASSUME NEW a, Triple(a), NEW b, NEW t, NEW m
  PROVE  Holds(t, copyConstraints(a, b), m) <=> Holds(t, a, m) /\ Holds(t, b, m)
<1> DEFINE E == a.eqs \cup b.eqs
           I == a.ineqs \cup b.ineqs
           d == copyConstraints(a, b)
<1>1. d = [decl |-> a.decl, eqs |-> E, ineqs |-> I]
  BY CopyShape
<1>2. d.eqs = E /\ d.ineqs = I
  BY <1>1
<1> HIDE DEF d
<1> QED
  BY <1>2 DEF Holds, d

\* Conjunction::Intersect.
LEMMA IntersectFacts ==
  ASSUME NEW n \in Nat, NEW c, NEW d, IsConj(c, n), IsConj(d, n)
  PROVE  /\ IsConj(IntersectOf(c, d), n)
         /\ hasConstraints(IntersectOf(c, d)) <=> hasConstraints(c) \/ hasConstraints(d)
         /\ \A t, m : Satisfies(t, IntersectOf(c, d), m) <=> Satisfies(t, c, m) /\ Holds(t, d, m)
<1> DEFINE x == copyConstraints(c, d)
<1>0. IntersectOf(c, d) = x
  BY DEF IntersectOf
<1>1. IsForm(c, n) /\ Proper(c) /\ IsForm(d, n) /\ Proper(d) /\ Triple(c)
  BY ConjForm DEF IsForm, Over, Triple
<1>2. Over(x, 1 .. n) /\ x.decl = c.decl
  BY <1>1, CopyOver DEF IsForm
<1>3. x.eqs = c.eqs \cup d.eqs /\ x.ineqs = c.ineqs \cup d.ineqs
  BY <1>1, CopyShape
<1>4. \A t, m : Holds(t, x, m) <=> Holds(t, c, m) /\ Holds(t, d, m)
  BY <1>1, CopyHolds
<1> HIDE DEF x
<1>5. Proper(x)
  BY <1>1, <1>3 DEF Proper
<1>6. IsConj(x, n)
  BY <1>1, <1>2, <1>5, ConjForm DEF IsForm
<1>7. hasConstraints(x) <=> hasConstraints(c) \/ hasConstraints(d)
  BY <1>3 DEF hasConstraints
<1>8. \A t, m : Satisfies(t, x, m) <=> Satisfies(t, c, m) /\ Holds(t, d, m)
  BY <1>2, <1>4, SatisfiesParts DEF Declares
<1> QED
  BY <1>0, <1>6, <1>7, <1>8

\* The constraints of an operand moved to other locations.
Placed(c, f) == remapConstraints(pushConstToConstraints(c), f)

\* An operand's constraints, placed among the locations of the result.
LEMMA PlacedFacts ==
  ASSUME NEW n \in Nat, NEW k \in Nat, NEW c, IsForm(c, n), NEW f \in [1 .. n -> 1 .. k]
  PROVE  Over(Placed(c, f), 1 .. k) /\ Placed(c, f).decl = Variables(n)
<1>1. Over(pushConstToConstraints(c), 1 .. n) /\ pushConstToConstraints(c).decl = Variables(n)
  BY PushForm DEF IsForm
<1>2. 1 .. k \in SUBSET Nat
  OBVIOUS
<1>3. PICK b : b = pushConstToConstraints(c)
  OBVIOUS
<1>4. PICK L : L = 1 .. n
  OBVIOUS
<1>5. PICK M \in SUBSET Nat : M = 1 .. k
  BY <1>2
<1>6. f \in [L -> M] /\ Over(b, L)
  BY <1>1, <1>3, <1>4, <1>5
<1>7. Over(remapConstraints(b, f), M) /\ remapConstraints(b, f).decl = b.decl
  BY <1>6, RemapOver
<1> QED
  BY <1>1, <1>3, <1>5, <1>7 DEF Placed

\* They say of a tuple what the operand says of the one moved back.
LEMMA PlacedHolds ==
  ASSUME NEW n \in Nat, NEW k \in Nat, NEW c, IsForm(c, n), NEW f \in [1 .. n -> 1 .. k],
         NEW t, NEW m, Point(t, 1 .. k, m)
  PROVE  Holds(t, Placed(c, f), m) <=> Satisfies(Moved(t, f), c, m)
<1>1. Over(pushConstToConstraints(c), 1 .. n)
  BY PushForm DEF IsForm
<1>2. Holds(t, Placed(c, f), m) <=> Holds(Moved(t, f), pushConstToConstraints(c), m)
  BY <1>1, RemapHolds DEF Placed
<1>3. Point(Moved(t, f), 1 .. n, m)
  BY MovedPoint
<1> QED
  BY <1>2, <1>3, PushHolds

\* Both operands placed over the same locations.
LEMMA MergedFacts ==
  ASSUME NEW k \in Nat, NEW a, NEW b, Over(a, 1 .. k), Over(b, 1 .. k), NEW x,
         x = copyConstraints([a EXCEPT !.decl = Variables(k)], b)
  PROVE  /\ IsForm(x, k) /\ x.decl = Variables(k)
         /\ \A t, m : Holds(t, x, m) <=> Holds(t, a, m) /\ Holds(t, b, m)
<1> DEFINE V == Variables(k)
           d == [a EXCEPT !.decl = V]
<1>1. d = [decl |-> V, eqs |-> a.eqs, ineqs |-> a.ineqs]
  BY OtherDecl DEF Over, Triple
<1>2. x = copyConstraints(d, b)
  OBVIOUS
<1> HIDE DEF V, d
<1>3. d.decl = V /\ d.eqs = a.eqs /\ d.ineqs = a.ineqs /\ Triple(d)
  BY <1>1 DEF Triple
<1>4. Over(d, 1 .. k)
  BY <1>3 DEF Over, Triple
<1>5. Over(x, 1 .. k) /\ x.decl = V
  BY <1>2, <1>3, <1>4, CopyOver
<1>6. IsForm(x, k)
  BY <1>5, VariablesDecl DEF IsForm, V
<1>7. \A t, m : Holds(t, x, m) <=> Holds(t, d, m) /\ Holds(t, b, m)
  BY <1>2, <1>3, CopyHolds
<1>8. \A t, m : Holds(t, d, m) <=> Holds(t, a, m)
  BY <1>3 DEF Holds
<1> QED
  BY <1>5, <1>6, <1>7, <1>8 DEF V

-----------------------------------------------------------------------------
(* Compositions and images                                                 *)

\* Where Composition puts the locations of its operands.
LeftLoc(lIn, rIn, nz) == [i \in 1 .. lIn + nz |-> IF i <= lIn THEN i + (rIn + nz) ELSE i - lIn + rIn]
RightLoc(lIn, rIn, nz) == [i \in 1 .. rIn + lIn |-> IF i <= rIn THEN i ELSE i - rIn + (rIn + nz)]

\* Composition asks of the moved tuples what the operands ask.
LEMMA CompositionForm ==
  ASSUME NEW lIn \in Nat, NEW rIn \in Nat, NEW nz \in Nat, NEW l, NEW r,
         IsForm(l, lIn + nz), IsForm(r, rIn + lIn)
  PROVE  /\ IsElimination(Composition(l, r, lIn, rIn), rIn + nz, lIn)
         /\ \A t, m : Point(t, 1 .. (rIn + nz) + lIn, m) =>
              (Holds(t, Composition(l, r, lIn, rIn).conj, m)
                 <=> /\ Satisfies(Moved(t, RightLoc(lIn, rIn, nz)), r, m)
                     /\ Satisfies(Moved(t, LeftLoc(lIn, rIn, nz)), l, m))
<1> DEFINE n == rIn + nz
           f == LeftLoc(lIn, rIn, nz)
           g == RightLoc(lIn, rIn, nz)
           x == copyConstraints([Placed(r, g) EXCEPT !.decl = Variables(n + lIn)], Placed(l, f))
           R == IF isFunction(l, lIn) /\ isFunction(r, rIn) THEN 1 .. rIn ELSE (rIn + 1) .. n
<1>1. /\ DOMAIN l.decl = 1 .. lIn + nz /\ DOMAIN r.decl = 1 .. rIn + lIn
      /\ Arity(l) - lIn = nz
  BY DeclLength DEF IsForm, IsDecl, Arity
<1>2. Composition(l, r, lIn, rIn)
        = [conj |-> x, inner |-> (n + 1) .. (n + lIn), range |-> R, arity |-> n]
  BY <1>1 DEF Composition, Placed, LeftLoc, RightLoc
<1>3. n \in Nat /\ n + lIn \in Nat /\ lIn + nz \in Nat /\ rIn + lIn \in Nat
  OBVIOUS
<1>4. f \in [1 .. lIn + nz -> 1 .. n + lIn] /\ g \in [1 .. rIn + lIn -> 1 .. n + lIn]
  BY DEF LeftLoc, RightLoc
<1>5. R \subseteq 1 .. n
  OBVIOUS
<1> HIDE DEF n, f, g, R
<1>6. Over(Placed(r, g), 1 .. n + lIn) /\ Over(Placed(l, f), 1 .. n + lIn)
  BY <1>3, <1>4, PlacedFacts
<1>7. /\ IsForm(x, n + lIn) /\ x.decl = Variables(n + lIn)
      /\ \A t, m : Holds(t, x, m) <=> Holds(t, Placed(r, g), m) /\ Holds(t, Placed(l, f), m)
  BY <1>3, <1>6, MergedFacts
<1> HIDE DEF x
<1>8. ASSUME NEW t, NEW m, Point(t, 1 .. n + lIn, m)
      PROVE  Holds(t, x, m) <=> Satisfies(Moved(t, g), r, m) /\ Satisfies(Moved(t, f), l, m)
  <2>1. Holds(t, Placed(r, g), m) <=> Satisfies(Moved(t, g), r, m)
    BY <1>3, <1>4, <1>8, PlacedHolds
  <2>2. Holds(t, Placed(l, f), m) <=> Satisfies(Moved(t, f), l, m)
    BY <1>3, <1>4, <1>8, PlacedHolds
  <2> QED
    BY <2>1, <2>2, <1>7
<1>9. PICK c : c = Composition(l, r, lIn, rIn)
  OBVIOUS
<1>10. c.conj = x /\ c.inner = (n + 1) .. (n + lIn) /\ c.range = R /\ c.arity = n
  BY <1>2, <1>9
<1>11. IsElimination(c, n, lIn)
  BY <1>5, <1>7, <1>10 DEF IsElimination
<1>12. \A t, m : Point(t, 1 .. n + lIn, m) =>
              (Holds(t, c.conj, m) <=> Satisfies(Moved(t, g), r, m) /\ Satisfies(Moved(t, f), l, m))
  BY <1>8, <1>10
<1> QED
  BY <1>9, <1>11, <1>12 DEF n, f, g

\* Where Image puts them.
ArgLoc(nx, ny) == [i \in 1 .. nx |-> i + ny]
MapLoc(nx, ny) == [i \in 1 .. nx + ny |-> IF i <= nx THEN i + ny ELSE i - nx]

\* So does Image.
LEMMA ImageForm ==
  ASSUME NEW nx \in Nat, NEW ny \in Nat, NEW r, NEW s, IsForm(r, nx + ny), IsForm(s, nx)
  PROVE  /\ IsElimination(Image(r, s), ny, nx)
         /\ \A t, m : Point(t, 1 .. ny + nx, m) =>
              (Holds(t, Image(r, s).conj, m)
                 <=> /\ Satisfies(Moved(t, MapLoc(nx, ny)), r, m)
                     /\ Satisfies(Moved(t, ArgLoc(nx, ny)), s, m))
<1> DEFINE f == MapLoc(nx, ny)
           g == ArgLoc(nx, ny)
           x == copyConstraints(Placed(r, f), Placed(s, g))
<1>1. /\ DOMAIN r.decl = 1 .. nx + ny /\ DOMAIN s.decl = 1 .. nx
      /\ Arity(s) = nx /\ Arity(r) - nx = ny
  BY DeclLength DEF IsForm, IsDecl, Arity
<1>2. Image(r, s) = [conj |-> x, inner |-> (ny + 1) .. (ny + nx), range |-> 1 .. ny, arity |-> ny]
  BY <1>1 DEF Image, Placed, MapLoc, ArgLoc
<1>3. nx + ny \in Nat /\ ny + nx \in Nat /\ nx + ny = ny + nx
  OBVIOUS
<1>4. f \in [1 .. nx + ny -> 1 .. ny + nx] /\ g \in [1 .. nx -> 1 .. ny + nx]
  BY DEF MapLoc, ArgLoc
<1> HIDE DEF f, g
<1>5. Over(Placed(r, f), 1 .. ny + nx) /\ Over(Placed(s, g), 1 .. ny + nx)
      /\ Placed(r, f).decl = Variables(nx + ny)
  <2>1. PICK n \in Nat : n = nx + ny
    OBVIOUS
  <2>2. PICK k \in Nat : k = ny + nx
    OBVIOUS
  <2>3. f \in [1 .. n -> 1 .. k] /\ g \in [1 .. nx -> 1 .. k] /\ IsForm(r, n) /\ IsForm(s, nx)
    BY <1>4, <2>1, <2>2
  <2>4. Over(Placed(r, f), 1 .. k) /\ Placed(r, f).decl = Variables(n)
    BY <2>3, PlacedFacts
  <2>5. Over(Placed(s, g), 1 .. k)
    BY <2>3, PlacedFacts
  <2> QED
    BY <2>1, <2>2, <2>4, <2>5
<1>6. Over(x, 1 .. ny + nx) /\ x.decl = Variables(ny + nx)
  BY <1>3, <1>5, CopyOver
<1>7. IsForm(x, ny + nx)
  BY <1>3, <1>6, VariablesDecl DEF IsForm
<1>8. \A t, m : Holds(t, x, m) <=> Holds(t, Placed(r, f), m) /\ Holds(t, Placed(s, g), m)
  BY <1>5, CopyHolds DEF Over, Triple
<1> HIDE DEF x
<1>9. ASSUME NEW t, NEW m, Point(t, 1 .. ny + nx, m)
      PROVE  Holds(t, x, m) <=> Satisfies(Moved(t, f), r, m) /\ Satisfies(Moved(t, g), s, m)
  <2>1. Holds(t, Placed(r, f), m) <=> Satisfies(Moved(t, f), r, m)
    BY <1>3, <1>4, <1>9, PlacedHolds
  <2>2. Holds(t, Placed(s, g), m) <=> Satisfies(Moved(t, g), s, m)
    BY <1>3, <1>4, <1>9, PlacedHolds
  <2> QED
    BY <2>1, <2>2, <1>8
<1>10. PICK c : c = Image(r, s)
  OBVIOUS
<1>11. c.conj = x /\ c.inner = (ny + 1) .. (ny + nx) /\ c.range = 1 .. ny /\ c.arity = ny
  BY <1>2, <1>10
<1>12. IsElimination(c, ny, nx)
  BY <1>6, <1>7, <1>11 DEF IsElimination
<1>13. \A t, m : Point(t, 1 .. ny + nx, m) =>
              (Holds(t, c.conj, m) <=> Satisfies(Moved(t, f), r, m) /\ Satisfies(Moved(t, g), s, m))
  BY <1>9, <1>11
<1> QED
  BY <1>10, <1>12, <1>13 DEF f, g

\* An elimination followed by pushConstConstraintsToTupleDecl.
Closing(x) == pushConstConstraintsToTupleDecl(Eliminate(x))

\* What Compose and Apply end with is a conjunction of a value.
LEMMA ClosingConj ==
  ASSUME NEW n \in Nat, NEW k \in Nat, NEW x, IsElimination(x, n, k), Eliminable(x)
  PROVE  IsConj(Closing(x), n)
<1>1. IsForm(Eliminate(x), n) /\ Proper(Eliminate(x))
  BY EliminateShape
<1>2. SolvesQuietly(Eliminate(x), 1 .. n)
  BY DEF Eliminable, IsElimination
<1> QED
  BY <1>1, <1>2, PushDeclConj DEF Closing

\* No tuple is lost by both.
LEMMA ClosingLoses ==
  ASSUME NEW n \in Nat, NEW k \in Nat, NEW x, IsElimination(x, n, k), Eliminable(x),
         ~ HidesCoefficient(Uncleaned(x)), NEW t, NEW T, NEW m, Point(t, 1 .. n, m),
         Point(T, 1 .. n + k, m), \A i \in 1 .. n : t[i] = T[i], Holds(T, x.conj, m)
  PROVE  Satisfies(t, Eliminate(x), m) /\ Satisfies(t, Closing(x), m)
<1>1. Satisfies(t, Eliminate(x), m)
  BY EliminateLoses
<1>2. IsForm(Eliminate(x), n)
  BY EliminateShape
<1>3. SolvesQuietly(Eliminate(x), 1 .. n)
  BY DEF Eliminable, IsElimination
<1> QED
  BY <1>1, <1>2, <1>3, PushDeclLoses DEF Closing

\* Nor gained, where some tuple satisfies what was left after eliminating.
LEMMA ClosingGains ==
  ASSUME NEW n \in Nat, NEW k \in Nat, NEW x, IsElimination(x, n, k), Eliminable(x),
         ~ HidesCoefficient(Uncleaned(x)), NEW t, NEW u, NEW m, Point(t, 1 .. n, m),
         Point(u, 1 .. n, m), Satisfies(u, Eliminate(x), m), Satisfies(t, Closing(x), m)
  PROVE  \E T : Point(T, 1 .. n + k, m) /\ (\A i \in 1 .. n : T[i] = t[i]) /\ Holds(T, x.conj, m)
<1>2. IsForm(Eliminate(x), n)
  BY EliminateShape
<1>3. SolvesQuietly(Eliminate(x), 1 .. n)
  BY DEF Eliminable, IsElimination
<1>4. Satisfies(t, Eliminate(x), m)
  BY <1>2, <1>3, PushDeclGains DEF Closing
<1> QED
  BY <1>4, EliminateGains

-----------------------------------------------------------------------------
(* What a composition holds                                                *)

\* Tuples put together.
LEMMA JoinFacts ==
  ASSUME NEW a \in Nat, NEW b \in Nat, NEW s \in [1 .. a -> Int], NEW y \in [1 .. b -> Int],
         NEW i \in 1 .. a + b
  PROVE  (s \o y)[i] = IF i <= a THEN s[i] ELSE y[i - a]
<1>1. s \in Seq(Int) /\ Len(s) = a /\ y \in Seq(Int) /\ Len(y) = b
  BY DeclLength
<1> QED
  BY <1>1, ConcatProperties

\* And taken apart.
LEMMA FrontFacts ==
  ASSUME NEW a \in Nat, NEW b \in Nat, NEW t \in [1 .. a + b -> Int]
  PROVE  /\ SubSeq(t, 1, a) \in [1 .. a -> Int]
         /\ \A i \in 1 .. a : SubSeq(t, 1, a)[i] = t[i]
<1>1. PICK p : p = SubSeq(t, 1, a)
  OBVIOUS
<1>2. \A i \in 1 .. a : t[i] \in Int
  OBVIOUS
<1>3. p \in Seq(Int) /\ Len(p) = a /\ \A i \in 1 .. a : p[i] = t[i]
  BY <1>1, <1>2, SubSeqProperties
<1>4. p \in [1 .. a -> Int]
  BY <1>3, LenProperties
<1> QED
  BY <1>1, <1>3, <1>4

\* The end of a tuple.
LEMMA BackFacts ==
  ASSUME NEW a \in Nat, NEW b \in Nat, NEW t \in [1 .. a + b -> Int]
  PROVE  /\ SubSeq(t, a + 1, Len(t)) \in [1 .. b -> Int]
         /\ \A i \in 1 .. b : SubSeq(t, a + 1, Len(t))[i] = t[a + i]
<1>0. a + b \in Nat
  OBVIOUS
<1>1. Len(t) = a + b
  BY <1>0, DeclLength
<1>2. PICK p : p = SubSeq(t, a + 1, a + b)
  OBVIOUS
<1>3. \A i \in a + 1 .. a + b : t[i] \in Int
  OBVIOUS
<1>4. /\ p \in Seq(Int) /\ Len(p) = IF a + 1 <= a + b THEN (a + b) - (a + 1) + 1 ELSE 0
      /\ \A i \in 1 .. (a + b) - (a + 1) + 1 : p[i] = t[(a + 1) + i - 1]
  <2>1. PICK lo \in Int, hi \in Int : lo = a + 1 /\ hi = a + b
    OBVIOUS
  <2>2. \A i \in lo .. hi : t[i] \in Int
    BY <1>3, <2>1
  <2>3. /\ SubSeq(t, lo, hi) \in Seq(Int)
        /\ Len(SubSeq(t, lo, hi)) = IF lo <= hi THEN hi - lo + 1 ELSE 0
        /\ \A i \in 1 .. hi - lo + 1 : SubSeq(t, lo, hi)[i] = t[lo + i - 1]
    BY <2>2, SubSeqProperties
  <2>4. p = SubSeq(t, lo, hi)
    BY <1>2, <2>1
  <2> QED
    BY <2>1, <2>3, <2>4
<1>5. Len(p) = b /\ \A i \in 1 .. b : p[i] = t[a + i]
  <2>1. (a + b) - (a + 1) + 1 = b /\ \A i \in 1 .. b : (a + 1) + i - 1 = a + i
    OBVIOUS
  <2> QED
    BY <1>4, <2>1
<1>6. p \in [1 .. b -> Int]
  BY <1>4, <1>5, LenProperties
<1> QED
  BY <1>1, <1>2, <1>5, <1>6

\* One tuple begins as another, or goes on as one.
Alike(t, u, n) == \A i \in 1 .. n : t[i] = u[i]
Follows(T, y, n, k) == \A i \in 1 .. k : T[n + i] = y[i]

\* The tuples r and l are asked for in a composition.
FirstPart(t, rIn, y) == SubSeq(t, 1, rIn) \o y
SecondPart(t, rIn, y) == y \o SubSeq(t, rIn + 1, Len(t))

\* They are what the moved locations hold.
LEMMA ComposeParts ==
  ASSUME NEW lIn \in Nat, NEW rIn \in Nat, NEW nz \in Nat, NEW t \in [1 .. rIn + nz -> Int],
         NEW y \in [1 .. lIn -> Int], NEW T,
         Alike(T, t, rIn + nz), Follows(T, y, rIn + nz, lIn)
  PROVE  /\ Alike(Moved(T, RightLoc(lIn, rIn, nz)), FirstPart(t, rIn, y), rIn + lIn)
         /\ Alike(Moved(T, LeftLoc(lIn, rIn, nz)), SecondPart(t, rIn, y), lIn + nz)
<1>7. /\ \A i \in 1 .. rIn + nz : T[i] = t[i]
      /\ \A i \in 1 .. lIn : T[(rIn + nz) + i] = y[i]
  BY DEF Alike, Follows
<1>0. /\ SubSeq(t, 1, rIn) \in [1 .. rIn -> Int]
      /\ \A i \in 1 .. rIn : SubSeq(t, 1, rIn)[i] = t[i]
  BY FrontFacts
<1>1. PICK p : p = SubSeq(t, 1, rIn) /\ p \in [1 .. rIn -> Int] /\ \A i \in 1 .. rIn : p[i] = t[i]
  BY <1>0, Zenon
<1>3. /\ SubSeq(t, rIn + 1, Len(t)) \in [1 .. nz -> Int]
      /\ \A i \in 1 .. nz : SubSeq(t, rIn + 1, Len(t))[i] = t[rIn + i]
  BY BackFacts
<1>2. PICK q : /\ q = SubSeq(t, rIn + 1, Len(t)) /\ q \in [1 .. nz -> Int]
               /\ \A i \in 1 .. nz : q[i] = t[rIn + i]
  BY <1>3, Zenon
<1>4. \A i \in 1 .. rIn + lIn : (p \o y)[i] = IF i <= rIn THEN p[i] ELSE y[i - rIn]
  BY <1>1, JoinFacts
<1>5. \A i \in 1 .. lIn + nz : (y \o q)[i] = IF i <= lIn THEN y[i] ELSE q[i - lIn]
  BY <1>2, JoinFacts
<1>8. ASSUME NEW i \in 1 .. rIn + lIn
      PROVE  Moved(T, RightLoc(lIn, rIn, nz))[i] = (p \o y)[i]
  <2>1. CASE i <= rIn
    <3>1. Moved(T, RightLoc(lIn, rIn, nz))[i] = T[i]
      BY <2>1 DEF Moved, RightLoc
    <3> QED
      BY <2>1, <3>1, <1>1, <1>4, <1>7
  <2>2. CASE ~ i <= rIn
    <3>1. PICK j \in 1 .. lIn : j = i - rIn
      BY <2>2
    <3>2. i - rIn + (rIn + nz) = (rIn + nz) + j
      BY <3>1
    <3>3. Moved(T, RightLoc(lIn, rIn, nz))[i] = T[(rIn + nz) + j]
      BY <2>2, <3>2 DEF Moved, RightLoc
    <3>4. T[(rIn + nz) + j] = y[j]
      BY <1>7
    <3>5. (p \o y)[i] = y[j]
      BY <2>2, <3>1, <1>4
    <3> QED
      BY <3>3, <3>4, <3>5
  <2> QED
    BY <2>1, <2>2
<1>9. ASSUME NEW i \in 1 .. lIn + nz
      PROVE  Moved(T, LeftLoc(lIn, rIn, nz))[i] = (y \o q)[i]
  <2>1. CASE i <= lIn
    <3>1. i + (rIn + nz) = (rIn + nz) + i /\ i \in 1 .. lIn
      BY <2>1
    <3>2. Moved(T, LeftLoc(lIn, rIn, nz))[i] = T[(rIn + nz) + i]
      BY <2>1, <3>1 DEF Moved, LeftLoc
    <3>3. T[(rIn + nz) + i] = y[i]
      BY <3>1, <1>7
    <3> QED
      BY <2>1, <3>2, <3>3, <1>5
  <2>2. CASE ~ i <= lIn
    <3>1. PICK j \in 1 .. nz : j = i - lIn
      BY <2>2
    <3>2. i - lIn + rIn = rIn + j /\ rIn + j \in 1 .. rIn + nz
      BY <3>1
    <3>3. Moved(T, LeftLoc(lIn, rIn, nz))[i] = T[rIn + j]
      BY <2>2, <3>2 DEF Moved, LeftLoc
    <3>4. T[rIn + j] = q[j]
      BY <3>2, <1>2, <1>7
    <3>5. (y \o q)[i] = q[j]
      BY <2>2, <3>1, <1>5
    <3> QED
      BY <3>3, <3>4, <3>5
  <2> QED
    BY <2>1, <2>2
<1> QED
  BY <1>1, <1>2, <1>8, <1>9 DEF FirstPart, SecondPart, Alike

\* Conjunction::Compose loses no tuple.
LEMMA ComposeLoses ==
  ASSUME NEW lIn \in Nat, NEW rIn \in Nat, NEW nz \in Nat, NEW l, NEW r,
         IsForm(l, lIn + nz), IsForm(r, rIn + lIn), Eliminable(Composition(l, r, lIn, rIn)),
         ~ HidesCoefficient(Uncleaned(Composition(l, r, lIn, rIn))),
         NEW m, IsMeaning(m), NEW t \in [1 .. rIn + nz -> Int], NEW y \in [1 .. lIn -> Int],
         Satisfies(FirstPart(t, rIn, y), r, m), Satisfies(SecondPart(t, rIn, y), l, m)
  PROVE  /\ Satisfies(t, Eliminate(Composition(l, r, lIn, rIn)), m)
         /\ Satisfies(t, ComposeOf(l, r, lIn, rIn), m)
<1> DEFINE n == rIn + nz
           T == [i \in 1 .. n + lIn |-> IF i <= n THEN t[i] ELSE y[i - n]]
           g == RightLoc(lIn, rIn, nz)
           f == LeftLoc(lIn, rIn, nz)
<1>1. n \in Nat /\ \A i \in 1 .. n + lIn : T[i] \in Int
  OBVIOUS
<1>2. (\A i \in 1 .. n : T[i] = t[i]) /\ (\A i \in 1 .. lIn : T[n + i] = y[i])
  OBVIOUS
<1>3. Point(T, 1 .. n + lIn, m) /\ Point(t, 1 .. n, m)
  BY <1>1 DEF Point, IntsOn
<1> HIDE DEF T
<1>4. Alike(Moved(T, g), FirstPart(t, rIn, y), rIn + lIn)
      /\ Alike(Moved(T, f), SecondPart(t, rIn, y), lIn + nz)
  <2>1. Alike(T, t, n) /\ Follows(T, y, n, lIn)
    BY <1>2 DEF Alike, Follows
  <2> QED
    BY <2>1, ComposeParts
<1>5. Satisfies(Moved(T, g), r, m)
  <2>1. rIn + lIn \in Nat /\ \A i \in 1 .. rIn + lIn : FirstPart(t, rIn, y)[i] = Moved(T, g)[i]
    BY <1>4 DEF Alike
  <2> HIDE DEF g
  <2> QED
    BY <2>1, SatisfiesSame
<1>6. Satisfies(Moved(T, f), l, m)
  <2>1. lIn + nz \in Nat /\ \A i \in 1 .. lIn + nz : SecondPart(t, rIn, y)[i] = Moved(T, f)[i]
    BY <1>4 DEF Alike
  <2> HIDE DEF f
  <2> QED
    BY <2>1, SatisfiesSame
<1>7. PICK x : x = Composition(l, r, lIn, rIn)
  OBVIOUS
<1>8. IsElimination(x, n, lIn) /\ Holds(T, x.conj, m)
  BY <1>3, <1>5, <1>6, <1>7, CompositionForm
<1>9. Satisfies(t, Eliminate(x), m) /\ Satisfies(t, Closing(x), m)
  <2>1. \A i \in 1 .. n : t[i] = T[i]
    BY <1>2
  <2> HIDE DEF n
  <2> QED
    BY <2>1, <1>1, <1>3, <1>7, <1>8, ClosingLoses
<1> QED
  BY <1>7, <1>9 DEF Closing, ComposeOf

\* And gains none, if it stands for some tuple at all.
LEMMA ComposeGains ==
  ASSUME NEW lIn \in Nat, NEW rIn \in Nat, NEW nz \in Nat, NEW l, NEW r,
         IsForm(l, lIn + nz), IsForm(r, rIn + lIn), Eliminable(Composition(l, r, lIn, rIn)),
         ~ HidesCoefficient(Uncleaned(Composition(l, r, lIn, rIn))),
         NEW m, IsMeaning(m), NEW t \in [1 .. rIn + nz -> Int], NEW u \in [1 .. rIn + nz -> Int],
         Satisfies(u, Eliminate(Composition(l, r, lIn, rIn)), m),
         Satisfies(t, ComposeOf(l, r, lIn, rIn), m)
  PROVE  \E y \in [1 .. lIn -> Int] :
           Satisfies(FirstPart(t, rIn, y), r, m) /\ Satisfies(SecondPart(t, rIn, y), l, m)
<1> DEFINE n == rIn + nz
           g == RightLoc(lIn, rIn, nz)
           f == LeftLoc(lIn, rIn, nz)
<1>1. n \in Nat
  OBVIOUS
<1>3. Point(u, 1 .. n, m) /\ Point(t, 1 .. n, m)
  BY <1>1 DEF Point, IntsOn
<1>4. PICK x : x = Composition(l, r, lIn, rIn)
  OBVIOUS
<1>5. /\ IsElimination(x, n, lIn)
      /\ \A T : Point(T, 1 .. n + lIn, m) =>
           (Holds(T, x.conj, m) <=> Satisfies(Moved(T, g), r, m) /\ Satisfies(Moved(T, f), l, m))
  BY <1>4, CompositionForm
<1> HIDE DEF f, g
<1>6. PICK T : Point(T, 1 .. n + lIn, m) /\ (\A i \in 1 .. n : T[i] = t[i]) /\ Holds(T, x.conj, m)
  <2>1. Satisfies(t, Closing(x), m) /\ Satisfies(u, Eliminate(x), m)
    BY <1>4 DEF Closing, ComposeOf
  <2> HIDE DEF n
  <2> QED
    BY <2>1, <1>1, <1>3, <1>4, <1>5, ClosingGains
<1>7. Satisfies(Moved(T, g), r, m) /\ Satisfies(Moved(T, f), l, m)
  BY <1>5, <1>6
<1> DEFINE y == [i \in 1 .. lIn |-> T[n + i]]
<1>8. y \in [1 .. lIn -> Int]
  BY <1>6 DEF Point, IntsOn
<1>9. \A i \in 1 .. lIn : T[n + i] = y[i]
  OBVIOUS
<1> HIDE DEF y
<1>10. Alike(Moved(T, g), FirstPart(t, rIn, y), rIn + lIn)
       /\ Alike(Moved(T, f), SecondPart(t, rIn, y), lIn + nz)
  <2>1. Alike(T, t, n) /\ Follows(T, y, n, lIn)
    BY <1>6, <1>9 DEF Alike, Follows
  <2> QED
    BY <2>1, <1>8, ComposeParts DEF f, g
<1>11. rIn + lIn \in Nat /\ lIn + nz \in Nat
  OBVIOUS
<1>12. Satisfies(FirstPart(t, rIn, y), r, m)
  BY <1>7, <1>10, <1>11, SatisfiesSame DEF Alike
<1>13. Satisfies(SecondPart(t, rIn, y), l, m)
  BY <1>7, <1>10, <1>11, SatisfiesSame DEF Alike
<1> QED
  BY <1>8, <1>12, <1>13

-----------------------------------------------------------------------------
(* What an image and an inverse hold                                       *)

\* The tuples r and s are asked for in an image.
LEMMA ApplyParts ==
  ASSUME NEW nx \in Nat, NEW ny \in Nat, NEW t \in [1 .. ny -> Int], NEW y \in [1 .. nx -> Int],
         NEW T, Alike(T, t, ny), Follows(T, y, ny, nx)
  PROVE  /\ Alike(Moved(T, MapLoc(nx, ny)), y \o t, nx + ny)
         /\ Alike(Moved(T, ArgLoc(nx, ny)), y, nx)
<1>1. (\A i \in 1 .. ny : T[i] = t[i]) /\ (\A i \in 1 .. nx : T[ny + i] = y[i])
  BY DEF Alike, Follows
<1>2. \A i \in 1 .. nx + ny : (y \o t)[i] = IF i <= nx THEN y[i] ELSE t[i - nx]
  BY JoinFacts
<1>3. ASSUME NEW i \in 1 .. nx PROVE Moved(T, ArgLoc(nx, ny))[i] = y[i]
  <2>1. i + ny = ny + i
    OBVIOUS
  <2>2. Moved(T, ArgLoc(nx, ny))[i] = T[ny + i]
    BY <2>1 DEF Moved, ArgLoc
  <2> QED
    BY <2>2, <1>1
<1>4. ASSUME NEW i \in 1 .. nx + ny PROVE Moved(T, MapLoc(nx, ny))[i] = (y \o t)[i]
  <2>1. CASE i <= nx
    <3>1. i + ny = ny + i /\ i \in 1 .. nx
      BY <2>1
    <3>2. Moved(T, MapLoc(nx, ny))[i] = T[ny + i]
      BY <2>1, <3>1 DEF Moved, MapLoc
    <3> QED
      BY <2>1, <3>1, <3>2, <1>1, <1>2
  <2>2. CASE ~ i <= nx
    <3>1. PICK j \in 1 .. ny : j = i - nx
      BY <2>2
    <3>2. Moved(T, MapLoc(nx, ny))[i] = T[j]
      BY <2>2, <3>1 DEF Moved, MapLoc
    <3> QED
      BY <2>2, <3>1, <3>2, <1>1, <1>2
  <2> QED
    BY <2>1, <2>2
<1> QED
  BY <1>3, <1>4 DEF Alike

\* Conjunction::Apply loses no tuple.
LEMMA ApplyLoses ==
  ASSUME NEW nx \in Nat, NEW ny \in Nat, NEW r, NEW s, IsForm(r, nx + ny), IsForm(s, nx),
         Eliminable(Image(r, s)), ~ HidesCoefficient(Uncleaned(Image(r, s))),
         NEW m, IsMeaning(m), NEW t \in [1 .. ny -> Int], NEW y \in [1 .. nx -> Int],
         Satisfies(y, s, m), Satisfies(y \o t, r, m)
  PROVE  Satisfies(t, Eliminate(Image(r, s)), m) /\ Satisfies(t, ApplyOf(r, s), m)
<1> DEFINE T == [i \in 1 .. ny + nx |-> IF i <= ny THEN t[i] ELSE y[i - ny]]
           f == MapLoc(nx, ny)
           g == ArgLoc(nx, ny)
<1>1. \A i \in 1 .. ny + nx : T[i] \in Int
  OBVIOUS
<1>2. (\A i \in 1 .. ny : T[i] = t[i]) /\ (\A i \in 1 .. nx : T[ny + i] = y[i])
  OBVIOUS
<1>3. Point(T, 1 .. ny + nx, m) /\ Point(t, 1 .. ny, m)
  BY <1>1 DEF Point, IntsOn
<1> HIDE DEF T
<1>4. Alike(Moved(T, f), y \o t, nx + ny) /\ Alike(Moved(T, g), y, nx)
  <2>1. Alike(T, t, ny) /\ Follows(T, y, ny, nx)
    BY <1>2 DEF Alike, Follows
  <2> QED
    BY <2>1, ApplyParts
<1>5. Satisfies(Moved(T, f), r, m)
  <2>0. PICK z : z = y \o t
    OBVIOUS
  <2>1. nx + ny \in Nat /\ \A i \in 1 .. nx + ny : z[i] = Moved(T, f)[i]
    BY <1>4, <2>0 DEF Alike
  <2> HIDE DEF f
  <2> QED
    BY <2>0, <2>1, SatisfiesSame
<1>6. Satisfies(Moved(T, g), s, m)
  <2>1. \A i \in 1 .. nx : y[i] = Moved(T, g)[i]
    BY <1>4 DEF Alike
  <2> HIDE DEF g
  <2> QED
    BY <2>1, SatisfiesSame
<1>7. PICK x : x = Image(r, s)
  OBVIOUS
<1>8. IsElimination(x, ny, nx) /\ Holds(T, x.conj, m)
  BY <1>3, <1>5, <1>6, <1>7, ImageForm
<1>9. Satisfies(t, Eliminate(x), m) /\ Satisfies(t, Closing(x), m)
  <2>1. \A i \in 1 .. ny : t[i] = T[i]
    BY <1>2
  <2> QED
    BY <2>1, <1>3, <1>7, <1>8, ClosingLoses
<1> QED
  BY <1>7, <1>9 DEF Closing, ApplyOf

\* And gains none, if it stands for some tuple at all.
LEMMA ApplyGains ==
  ASSUME NEW nx \in Nat, NEW ny \in Nat, NEW r, NEW s, IsForm(r, nx + ny), IsForm(s, nx),
         Eliminable(Image(r, s)), ~ HidesCoefficient(Uncleaned(Image(r, s))),
         NEW m, IsMeaning(m), NEW t \in [1 .. ny -> Int], NEW u \in [1 .. ny -> Int],
         Satisfies(u, Eliminate(Image(r, s)), m), Satisfies(t, ApplyOf(r, s), m)
  PROVE  \E y \in [1 .. nx -> Int] : Satisfies(y, s, m) /\ Satisfies(y \o t, r, m)
<1> DEFINE f == MapLoc(nx, ny)
           g == ArgLoc(nx, ny)
<1>3. Point(u, 1 .. ny, m) /\ Point(t, 1 .. ny, m)
  BY DEF Point, IntsOn
<1>4. PICK x : x = Image(r, s)
  OBVIOUS
<1>5. /\ IsElimination(x, ny, nx)
      /\ \A T : Point(T, 1 .. ny + nx, m) =>
           (Holds(T, x.conj, m) <=> Satisfies(Moved(T, f), r, m) /\ Satisfies(Moved(T, g), s, m))
  BY <1>4, ImageForm
<1> HIDE DEF f, g
<1>6. PICK T : Point(T, 1 .. ny + nx, m) /\ (\A i \in 1 .. ny : T[i] = t[i]) /\ Holds(T, x.conj, m)
  <2>1. Satisfies(t, Closing(x), m) /\ Satisfies(u, Eliminate(x), m)
    BY <1>4 DEF Closing, ApplyOf
  <2>2. IsElimination(x, ny, nx) /\ Eliminable(x) /\ ~ HidesCoefficient(Uncleaned(x))
    BY <1>4, <1>5
  <2> QED
    BY SMTT(40), <2>1, <2>2, <1>3, ClosingGains
<1>7. Satisfies(Moved(T, f), r, m) /\ Satisfies(Moved(T, g), s, m)
  BY <1>5, <1>6
<1> DEFINE y == [i \in 1 .. nx |-> T[ny + i]]
<1>8. y \in [1 .. nx -> Int]
  BY <1>6 DEF Point, IntsOn
<1>9. \A i \in 1 .. nx : T[ny + i] = y[i]
  OBVIOUS
<1> HIDE DEF y
<1>10. Alike(Moved(T, f), y \o t, nx + ny) /\ Alike(Moved(T, g), y, nx)
  <2>1. Alike(T, t, ny) /\ Follows(T, y, ny, nx)
    BY <1>6, <1>9 DEF Alike, Follows
  <2> QED
    BY <2>1, <1>8, ApplyParts DEF f, g
<1>12. Satisfies(y \o t, r, m)
  <2>0. PICK z : z = y \o t
    OBVIOUS
  <2>1. nx + ny \in Nat /\ \A i \in 1 .. nx + ny : Moved(T, f)[i] = z[i]
    <3>1. Alike(Moved(T, f), z, nx + ny)
      BY <1>10, <2>0
    <3> QED
      BY <3>1 DEF Alike
  <2>2. Satisfies(z, r, m)
    <3>1. PICK v : v = Moved(T, f)
      OBVIOUS
    <3>2. Satisfies(v, r, m) /\ \A i \in 1 .. nx + ny : v[i] = z[i]
      BY <1>7, <2>1, <3>1
    <3> QED
      BY <2>1, <3>2, SatisfiesSame
  <2> QED
    BY <2>0, <2>2
<1>13. Satisfies(y, s, m)
  BY <1>7, <1>10, SatisfiesSame DEF Alike
<1> QED
  BY <1>8, <1>12, <1>13

\* Conjunction::Inverse swaps the two halves of a tuple.
BackLoc(ni, no) == [i \in 1 .. ni + no |-> IF i <= ni THEN i + no ELSE i - ni]
BackDecl(c, ni, no) == [i \in 1 .. ni + no |-> IF i <= no THEN c.decl[i + ni] ELSE c.decl[i - no]]

\* Conjunction::Inverse on the parts of a conjunction.
LEMMA InverseShape ==
  ASSUME NEW ni \in Nat, NEW no \in Nat, NEW c, IsForm(c, ni + no)
  PROVE  /\ IsForm(InverseOf(c, ni), no + ni)
         /\ InverseOf(c, ni).decl = BackDecl(c, ni, no)
         /\ InverseOf(c, ni).eqs = remapConstraints(c, BackLoc(ni, no)).eqs
         /\ InverseOf(c, ni).ineqs = remapConstraints(c, BackLoc(ni, no)).ineqs
<1> DEFINE f == BackLoc(ni, no)
           D == BackDecl(c, ni, no)
           b == remapConstraints(c, f)
           x == InverseOf(c, ni)
<1>1. ni + no \in Nat /\ no + ni = ni + no /\ c.decl \in [1 .. ni + no -> SUBSET Int]
      /\ DOMAIN c.decl = 1 .. ni + no
  BY DEF IsForm, IsDecl
<1>2. Arity(c) - ni = no
  BY <1>1, DeclLength DEF Arity
<1>3. f \in [1 .. ni + no -> 1 .. ni + no]
  BY DEF BackLoc
<1>4. 1 .. ni + no \in SUBSET Nat
  OBVIOUS
<1>5. Over(b, 1 .. ni + no) /\ b.decl = c.decl
  <2>1. PICK L : L = 1 .. ni + no
    OBVIOUS
  <2>2. PICK M \in SUBSET Nat : M = 1 .. ni + no
    BY <1>4
  <2>3. f \in [L -> M]
    BY <1>3, <2>1, <2>2
  <2>4. Over(c, L)
    BY <2>1 DEF IsForm
  <2> HIDE DEF f
  <2>5. Over(b, M) /\ b.decl = c.decl
    BY <2>3, <2>4, RemapOver
  <2> QED
    BY <2>2, <2>5
<1>6. x = [b EXCEPT !.decl = D]
  <2>1. x = [b EXCEPT !.decl = [i \in DOMAIN @ |-> IF i <= no THEN c.decl[i + ni] ELSE c.decl[i - no]]]
    BY <1>1, <1>2, Zenon DEF InverseOf, BackLoc
  <2> HIDE DEF b, x
  <2> QED
    BY <1>1, <1>5, <2>1 DEF BackDecl
<1>7. IsDecl(D, ni + no)
  <2>1. ASSUME NEW i \in 1 .. ni + no
        PROVE  D[i] \in SUBSET Int /\ (D[i] = {} \/ \E k \in D[i] : D[i] = {k})
    <3>1. CASE i <= no
      <4>1. i + ni \in 1 .. ni + no /\ D[i] = c.decl[i + ni]
        BY <3>1 DEF BackDecl
      <4> QED
        BY <4>1 DEF IsForm, IsDecl
    <3>2. CASE ~ i <= no
      <4>1. i - no \in 1 .. ni + no /\ D[i] = c.decl[i - no]
        BY <3>2 DEF BackDecl
      <4> QED
        BY <4>1 DEF IsForm, IsDecl
    <3> QED
      BY <3>1, <3>2
  <2>2. D \in [1 .. ni + no -> SUBSET Int]
    BY <2>1 DEF BackDecl
  <2> QED
    BY <2>1, <2>2 DEF IsDecl
<1> HIDE DEF D, b, x
<1>8. x = [decl |-> D, eqs |-> b.eqs, ineqs |-> b.ineqs]
  BY <1>5, <1>6, OtherDecl DEF Over, Triple
<1>9. x.decl = D /\ x.eqs = b.eqs /\ x.ineqs = b.ineqs
  BY <1>8
<1>10. IsForm(x, ni + no)
  BY <1>5, <1>7, <1>8, <1>9 DEF IsForm, Over
<1> QED
  BY <1>1, <1>9, <1>10 DEF D, b, x

\* A tuple satisfies the inverse where the swapped tuple satisfies the
\* conjunction.
LEMMA InverseSatisfies ==
  ASSUME NEW ni \in Nat, NEW no \in Nat, NEW c, IsForm(c, ni + no), NEW m, IsMeaning(m),
         NEW t \in [1 .. no + ni -> Int]
  PROVE  Satisfies(t, InverseOf(c, ni), m) <=> Satisfies(Swap(t, no), c, m)
<1> DEFINE f == BackLoc(ni, no)
           u == Moved(t, f)
<1>1. PICK x : x = InverseOf(c, ni)
  OBVIOUS
<1>2. PICK b : b = remapConstraints(c, f)
  OBVIOUS
<1>3. IsForm(x, no + ni) /\ x.decl = BackDecl(c, ni, no) /\ x.eqs = b.eqs /\ x.ineqs = b.ineqs
  BY <1>1, <1>2, InverseShape
<1>4. f \in [1 .. ni + no -> 1 .. ni + no]
  BY DEF BackLoc
<1>5. Point(t, 1 .. ni + no, m)
  BY DEF Point, IntsOn
<1>6. Holds(t, b, m) <=> Holds(u, c, m)
  <2> HIDE DEF f
  <2> QED
    BY <1>2, <1>4, <1>5, RemapHolds DEF IsForm
<1>7. Holds(t, x, m) <=> Holds(u, c, m)
  BY <1>3, <1>6 DEF Holds
<1>8. /\ \A i \in 1 .. ni + no : u[i] = IF i <= ni THEN t[i + no] ELSE t[i - ni]
      /\ \A i \in 1 .. ni + no : x.decl[i] = IF i <= no THEN c.decl[i + ni] ELSE c.decl[i - no]
      /\ DOMAIN x.decl = 1 .. ni + no /\ DOMAIN c.decl = 1 .. ni + no
  BY <1>3 DEF Moved, BackLoc, BackDecl, IsForm, IsDecl
<1> HIDE DEF u
<1>9. ASSUME Declares(t, x) PROVE Declares(u, c)
  <2> SUFFICES ASSUME NEW i \in 1 .. ni + no, NEW k \in c.decl[i] PROVE u[i] = k
    BY <1>8 DEF Declares
  <2>1. CASE i <= ni
    <3>1. PICK j \in 1 .. ni + no : j = i + no
      BY <2>1
    <3>2. x.decl[j] = c.decl[i] /\ u[i] = t[j]
      <4>1. (j <= no => i + ni = i + ni) /\ ~ j <= no /\ j - no = i
        BY <3>1
      <4> QED
        BY <2>1, <3>1, <4>1, <1>8
    <3> QED
      BY <3>2, <1>8, <1>9 DEF Declares
  <2>2. CASE ~ i <= ni
    <3>1. PICK j \in 1 .. ni + no : j = i - ni
      BY <2>2
    <3>2. x.decl[j] = c.decl[i] /\ u[i] = t[j]
      <4>1. j <= no /\ j + ni = i
        BY <3>1
      <4> QED
        BY <2>2, <3>1, <4>1, <1>8
    <3> QED
      BY <3>2, <1>8, <1>9 DEF Declares
  <2> QED
    BY <2>1, <2>2
<1>10. ASSUME Declares(u, c) PROVE Declares(t, x)
  <2> SUFFICES ASSUME NEW i \in 1 .. ni + no, NEW k \in x.decl[i] PROVE t[i] = k
    BY <1>8 DEF Declares
  <2>1. CASE i <= no
    <3>1. PICK j \in 1 .. ni + no : j = i + ni
      BY <2>1
    <3>2. x.decl[i] = c.decl[j] /\ u[j] = t[i]
      <4>1. ~ j <= ni /\ j - ni = i
        BY <3>1
      <4> QED
        BY <2>1, <3>1, <4>1, <1>8
    <3> QED
      BY <3>2, <1>8, <1>10 DEF Declares
  <2>2. CASE ~ i <= no
    <3>1. PICK j \in 1 .. ni + no : j = i - no
      BY <2>2
    <3>2. x.decl[i] = c.decl[j] /\ u[j] = t[i]
      <4>1. j <= ni /\ j + no = i
        BY <3>1
      <4> QED
        BY <2>2, <3>1, <4>1, <1>8
    <3> QED
      BY <3>2, <1>8, <1>10 DEF Declares
  <2> QED
    BY <2>1, <2>2
<1>11. Satisfies(t, x, m) <=> Satisfies(u, c, m)
  BY <1>7, <1>9, <1>10, SatisfiesParts
<1>12. PICK z : z = Swap(t, no)
  OBVIOUS
<1>13. \A i \in 1 .. ni + no : z[i] = u[i]
  <2>0. /\ SubSeq(t, 1, no) \in [1 .. no -> Int]
        /\ \A i \in 1 .. no : SubSeq(t, 1, no)[i] = t[i]
    BY FrontFacts
  <2>1. PICK p : p = SubSeq(t, 1, no) /\ p \in [1 .. no -> Int] /\ \A i \in 1 .. no : p[i] = t[i]
    BY <2>0, Zenon
  <2>2. /\ SubSeq(t, no + 1, Len(t)) \in [1 .. ni -> Int]
        /\ \A i \in 1 .. ni : SubSeq(t, no + 1, Len(t))[i] = t[no + i]
    BY BackFacts
  <2>3. PICK q : /\ q = SubSeq(t, no + 1, Len(t)) /\ q \in [1 .. ni -> Int]
                 /\ \A i \in 1 .. ni : q[i] = t[no + i]
    BY <2>2, Zenon
  <2>4. z = q \o p
    BY <1>12, <2>1, <2>3 DEF Swap
  <2>5. \A i \in 1 .. ni + no : z[i] = IF i <= ni THEN q[i] ELSE p[i - ni]
    BY <2>1, <2>3, <2>4, JoinFacts
  <2> TAKE i \in 1 .. ni + no
  <2>6. CASE i <= ni
    <3>1. i \in 1 .. ni /\ no + i = i + no
      BY <2>6
    <3> QED
      BY <3>1, <2>6, <2>3, <2>5, <1>8
  <2>7. CASE ~ i <= ni
    <3>1. i - ni \in 1 .. no
      BY <2>7
    <3> QED
      BY <3>1, <2>7, <2>1, <2>5, <1>8
  <2> QED
    BY <2>6, <2>7
<1>14. Satisfies(z, c, m) <=> Satisfies(u, c, m)
  <2>1. ni + no \in Nat /\ \A i \in 1 .. ni + no : u[i] = z[i]
    BY <1>13
  <2> QED
    BY <2>1, <1>13, SatisfiesSame
<1> QED
  BY <1>1, <1>11, <1>12, <1>14

-----------------------------------------------------------------------------
(* Functions, and cleaning up values                                       *)

\* What findFunction finds determines a location.
LEMMA Determined ==
  ASSUME NEW n \in Nat, NEW c, IsForm(c, n), SolvesQuietly(c, 1 .. n), NEW loc \in 1 .. n,
         NEW range \in SUBSET (1 .. n), findFunction(c, loc, range) # {},
         NEW t, NEW u, NEW m, Point(t, 1 .. n, m), Point(u, 1 .. n, m),
         Satisfies(t, c, m), Satisfies(u, c, m), \A i \in range : t[i] = u[i]
  PROVE  t[loc] = u[loc]
<1>1. PICK s : s \in findFunction(c, loc, range)
  OBVIOUS
<1>2. \A e \in c.eqs : ~ SolveThrows(e, TupleVar(loc))
  BY DEF SolvesQuietly
<1>3. /\ IsExp(s, range)
      /\ \A v, k : Point(v, 1 .. n, k) /\ Satisfies(v, c, k) => v[loc] = Value(s, v, k)
  BY <1>1, <1>2, FunctionFacts
<1>4. Value(s, t, m) = Value(s, u, m)
  <2>1. PICK L : L = range
    OBVIOUS
  <2>2. IsExp(s, L) /\ \A i \in L : t[i] = u[i]
    BY <1>3, <2>1
  <2> QED
    BY <2>2, ValueSame
<1>5. t[loc] = Value(s, t, m) /\ u[loc] = Value(s, u, m)
  BY <1>3
<1> QED
  BY <1>4, <1>5

\* What some tuple satisfies is not refused by satisfiable.
LEMMA SatisfiedSatisfiable ==
  ASSUME NEW L, NEW c, Over(c, L), NEW t, NEW m, Point(t, L, m), Holds(t, c, m)
  PROVE  satisfiable(c)
<1> SUFFICES ASSUME NEW e \in c.eqs, DOMAIN e.terms = {}, e.const # 0 PROVE FALSE
  BY DEF satisfiable
<1>1. IsExp(e, L) /\ Value(e, t, m) = 0
  BY DEF Over, Holds
<1>2. Value(e, t, m) = Lin(e, Worths({}, t, m))
  BY <1>1, ValueLin
<1>3. IsSum(e, L)
  BY <1>1, ExpFacts
<1>4. Lin(e, Worths({}, t, m)) = e.const
  <2>1. PICK h : h = [f \in DOMAIN e.terms |-> e.terms[f] * Worths({}, t, m)[f]]
    OBVIOUS
  <2>2. Sum(h, {}) = 0
    BY SumEmpty DEF Sum
  <2>3. Lin(e, Worths({}, t, m)) = e.const + Sum(h, {})
    BY <2>1 DEF Lin
  <2> QED
    BY <2>2, <2>3, <1>3 DEF IsSum
<1> QED
  BY <1>1, <1>2, <1>4

\* Conjunction::cleanUp makes a conjunction that says the same.
LEMMA CleanUpConj ==
  ASSUME NEW n \in Nat, NEW c, IsForm(c, n)
  PROVE  IsConj(cleanUp(c), n)
<1>1. 1 .. n \in SUBSET Nat
  OBVIOUS
<1>2. Over(c, 1 .. n)
  BY DEF IsForm
<1>3. Over(cleanUp(c), 1 .. n) /\ Proper(cleanUp(c)) /\ cleanUp(c).decl = c.decl
  BY <1>1, <1>2, CleanUpOver
<1> QED
  BY <1>3, ConjForm DEF IsForm

\* cleanUp keeps who satisfies a conjunction.
LEMMA CleanUpSatisfies ==
  ASSUME NEW n \in Nat, NEW c, IsForm(c, n), ~ HidesCoefficient(c),
         NEW t, NEW m, Point(t, 1 .. n, m)
  PROVE  Satisfies(t, cleanUp(c), m) <=> Satisfies(t, c, m)
<1>1. 1 .. n \in SUBSET Nat
  OBVIOUS
<1>2. Over(c, 1 .. n)
  BY DEF IsForm
<1>3. cleanUp(c).decl = c.decl
  BY <1>1, <1>2, CleanUpOver
<1>4. Holds(t, cleanUp(c), m) <=> Holds(t, c, m)
  BY <1>2, CleanUpHolds
<1> QED
  BY <1>3, <1>4, SatisfiesParts DEF Declares

\* A union of finitely many conjunctions, before they are cleaned up.
IsRaw(v) ==
  /\ v = [in |-> v.in, out |-> v.out, conjs |-> v.conjs]
  /\ v.in \in Nat /\ v.out \in Nat /\ IsFiniteSet(v.conjs)
  /\ \A c \in v.conjs : IsForm(c, v.in + v.out)

\* A value is a raw one.
LEMMA ValueRaw ==
  ASSUME NEW v, IsValue(v)
  PROVE  IsRaw(v)
BY ConjForm DEF IsValue, IsRaw

\* Other conjunctions of a value.
LEMMA OtherConjs ==
  ASSUME NEW v, v = [in |-> v.in, out |-> v.out, conjs |-> v.conjs], NEW S
  PROVE  [v EXCEPT !.conjs = S] = [in |-> v.in, out |-> v.out, conjs |-> S]
<1> DEFINE d == [v EXCEPT !.conjs = S]
<1>1. DOMAIN v = {"in", "out", "conjs"}
  OBVIOUS
<1>2. d = [k \in {"in", "out", "conjs"} |-> d[k]]
  BY <1>1
<1>3. d.in = v.in /\ d.out = v.out /\ d.conjs = S
  BY <1>1
<1> QED
  BY <1>2, <1>3

\* SparseConstraints::cleanUp.
LEMMA CleanUpShapes ==
  ASSUME NEW v, IsRaw(v)
  PROVE  CleanUp(v) = [in |-> v.in, out |-> v.out,
                       conjs |-> {c \in {cleanUp(d) : d \in v.conjs} : satisfiable(c)}]
BY OtherConjs DEF CleanUp, IsRaw

\* SparseConstraints::cleanUp makes a value of it.
LEMMA CleanUpValue ==
  ASSUME NEW v, IsRaw(v)
  PROVE  IsValue(CleanUp(v)) /\ CleanUp(v).in = v.in /\ CleanUp(v).out = v.out
<1> DEFINE A == {cleanUp(d) : d \in v.conjs}
           S == {c \in A : satisfiable(c)}
           h == [d \in v.conjs |-> cleanUp(d)]
<1>1. CleanUp(v) = [in |-> v.in, out |-> v.out, conjs |-> S]
  BY CleanUpShapes
<1>2. IsFiniteSet({h[d] : d \in v.conjs})
  BY ImageFinite DEF IsRaw
<1>3. A = {h[d] : d \in v.conjs}
  OBVIOUS
<1>4. IsFiniteSet(S)
  BY <1>2, <1>3, FS_Subset
<1>5. \A c \in S : IsConj(c, v.in + v.out)
  <2>1. v.in + v.out \in Nat
    BY DEF IsRaw
  <2>2. \A d \in v.conjs : IsConj(cleanUp(d), v.in + v.out)
    BY <2>1, CleanUpConj DEF IsRaw
  <2> QED
    BY <2>2
<1>6. PICK x : x = CleanUp(v)
  OBVIOUS
<1> HIDE DEF S
<1>7. x.in = v.in /\ x.out = v.out /\ x.conjs = S
  BY <1>1, <1>6
<1>8. IsValue(x)
  BY <1>1, <1>4, <1>5, <1>6, <1>7 DEF IsValue, IsRaw
<1> QED
  BY <1>6, <1>7, <1>8

\* It keeps the members.
LEMMA CleanUpMember ==
  ASSUME NEW v, IsRaw(v), NEW t, NEW m, Point(t, 1 .. v.in + v.out, m),
         \A c \in v.conjs : ~ HidesCoefficient(c)
  PROVE  Member(t, CleanUp(v), m) <=> Member(t, v, m)
<1> DEFINE S == {c \in {cleanUp(d) : d \in v.conjs} : satisfiable(c)}
<1>1. CleanUp(v).conjs = S
  BY CleanUpShapes
<1>2. v.in + v.out \in Nat /\ \A d \in v.conjs : IsForm(d, v.in + v.out)
  BY DEF IsRaw
<1>3. ASSUME NEW d \in v.conjs PROVE Satisfies(t, cleanUp(d), m) <=> Satisfies(t, d, m)
  BY <1>2, CleanUpSatisfies
<1>4. ASSUME NEW d \in v.conjs, Satisfies(t, d, m) PROVE satisfiable(cleanUp(d))
  <2>1. Holds(t, cleanUp(d), m)
    BY <1>3, <1>4, SatisfiesParts
  <2>2. Over(cleanUp(d), 1 .. v.in + v.out)
    BY <1>2, CleanUpConj, ConjForm DEF IsForm
  <2> QED
    BY <2>1, <2>2, SatisfiedSatisfiable
<1> QED
  BY <1>1, <1>3, <1>4 DEF Member

-----------------------------------------------------------------------------
(* The order of conjunctions                                               *)

\* TupleDecl::operator< on declarations of one arity: a first place where
\* they differ.
DeclLess(d1, d2, i) ==
  /\ \A j \in 1 .. i - 1 : d1[j] = d2[j]
  /\ d2[i] # {} /\ \A k1 \in d1[i], k2 \in d2[i] : k1 < k2

\* No declaration is before itself.
LEMMA DeclLessIrreflexive ==
  ASSUME NEW n \in Nat, NEW d, IsDecl(d, n), NEW i \in 1 .. n
  PROVE  ~ DeclLess(d, d, i)
<1>1. d[i] \subseteq Int
  BY DEF IsDecl
<1> QED
  BY <1>1 DEF DeclLess

\* Of two different declarations one is before the other.
LEMMA DeclLessTotal ==
  ASSUME NEW n \in Nat, NEW d1, NEW d2, IsDecl(d1, n), IsDecl(d2, n), d1 # d2
  PROVE  \E i \in 1 .. n : DeclLess(d1, d2, i) \/ DeclLess(d2, d1, i)
<1> DEFINE T == {i \in 1 .. n : d1[i] # d2[i]}
<1>1. T # {}
  BY DEF IsDecl
<1>2. T \in SUBSET Nat
  OBVIOUS
<1>3. PICK i \in T : \A k \in T : i <= k
  BY <1>1, <1>2, LeastNumber
<1>4. i \in 1 .. n /\ d1[i] # d2[i] /\ \A j \in 1 .. i - 1 : d1[j] = d2[j]
  BY <1>3
<1>5. \A d \in {d1, d2} : d[i] = {} \/ \E k \in Int : d[i] = {k}
  BY <1>4 DEF IsDecl
<1>6. CASE d1[i] = {}
  BY <1>4, <1>6 DEF DeclLess
<1>7. CASE d2[i] = {}
  BY <1>4, <1>7 DEF DeclLess
<1>8. CASE d1[i] # {} /\ d2[i] # {}
  <2>1. PICK k1 \in Int : d1[i] = {k1}
    BY <1>5, <1>8
  <2>2. PICK k2 \in Int : d2[i] = {k2}
    BY <1>5, <1>8
  <2>3. k1 < k2 \/ k2 < k1
    BY <1>4, <2>1, <2>2
  <2> QED
    BY <1>4, <2>1, <2>2, <2>3 DEF DeclLess
<1> QED
  BY <1>6, <1>7, <1>8

\* The order of declarations is transitive.
LEMMA DeclLessTransitive ==
  ASSUME NEW n \in Nat, NEW d1, NEW d2, NEW d3, IsDecl(d1, n), IsDecl(d2, n), IsDecl(d3, n),
         NEW i \in 1 .. n, NEW j \in 1 .. n, DeclLess(d1, d2, i), DeclLess(d2, d3, j)
  PROVE  \E k \in 1 .. n : DeclLess(d1, d3, k)
<1>1. /\ \A k \in 1 .. i - 1 : d1[k] = d2[k]
      /\ \A k \in 1 .. j - 1 : d2[k] = d3[k]
  BY DEF DeclLess
<1>2. CASE i < j
  <2>1. d2[i] = d3[i] /\ \A k \in 1 .. i - 1 : d1[k] = d3[k]
    BY <1>1, <1>2
  <2> QED
    BY <2>1 DEF DeclLess
<1>3. CASE j < i
  <2>1. d1[j] = d2[j] /\ \A k \in 1 .. j - 1 : d1[k] = d3[k]
    BY <1>1, <1>3
  <2> QED
    BY <2>1 DEF DeclLess
<1>4. CASE i = j
  <2>1. \A k \in 1 .. i - 1 : d1[k] = d3[k]
    BY <1>1, <1>4
  <2>2. PICK k2 : k2 \in d2[i]
    BY DEF DeclLess
  <2>3. d1[i] \subseteq Int /\ d2[i] \subseteq Int /\ d3[i] \subseteq Int
    BY DEF IsDecl
  <2>4. d3[i] # {} /\ \A k1 \in d1[i], k3 \in d3[i] : k1 < k2 /\ k2 < k3
    BY <1>4, <2>2 DEF DeclLess
  <2>5. \A k1 \in d1[i], k3 \in d3[i] : k1 < k3
    BY <2>2, <2>3, <2>4
  <2> QED
    BY <2>1, <2>4, <2>5 DEF DeclLess
<1> QED
  BY <1>2, <1>3, <1>4

\* Conjunction::operator< puts any two conjunctions of one arity in order.
LEMMA BeforeUnfolds ==
  ASSUME NEW n \in Nat, NEW c, NEW d, IsForm(c, n), IsForm(d, n)
  PROVE  /\ Cardinality(c.eqs) \in Nat /\ Cardinality(c.ineqs) \in Nat
         /\ c.decl # d.decl => (Before(c, d) <=> \E i \in 1 .. n : DeclLess(c.decl, d.decl, i))
         /\ c.decl = d.decl =>
              (Before(c, d) <=> \/ Cardinality(c.eqs) < Cardinality(d.eqs)
                                \/ /\ Cardinality(c.eqs) = Cardinality(d.eqs)
                                   /\ Cardinality(c.ineqs) <= Cardinality(d.ineqs))
<1>1. DOMAIN c.decl = 1 .. n
  BY DEF IsForm, IsDecl
<1>2. Cardinality(c.eqs) \in Nat /\ Cardinality(c.ineqs) \in Nat
  BY FS_CardinalityType DEF IsForm, Over
<1> QED
  BY <1>1, <1>2 DEF Before, DeclBefore, DeclLess

\* Of two conjunctions one may be listed first.
LEMMA BeforeTotal ==
  ASSUME NEW n \in Nat, NEW c, NEW d, IsForm(c, n), IsForm(d, n)
  PROVE  Before(c, d) \/ Before(d, c)
<1>1. CASE c.decl # d.decl
  <2>1. PICK i \in 1 .. n : DeclLess(c.decl, d.decl, i) \/ DeclLess(d.decl, c.decl, i)
    BY <1>1, DeclLessTotal DEF IsForm
  <2> QED
    BY <1>1, <2>1, BeforeUnfolds
<1>2. CASE c.decl = d.decl
  <2>1. /\ Cardinality(c.eqs) \in Nat /\ Cardinality(c.ineqs) \in Nat
        /\ Cardinality(d.eqs) \in Nat /\ Cardinality(d.ineqs) \in Nat
    BY BeforeUnfolds
  <2>2. Before(c, d) <=> \/ Cardinality(c.eqs) < Cardinality(d.eqs)
                         \/ /\ Cardinality(c.eqs) = Cardinality(d.eqs)
                            /\ Cardinality(c.ineqs) <= Cardinality(d.ineqs)
    BY <1>2, BeforeUnfolds
  <2>3. Before(d, c) <=> \/ Cardinality(d.eqs) < Cardinality(c.eqs)
                         \/ /\ Cardinality(d.eqs) = Cardinality(c.eqs)
                            /\ Cardinality(d.ineqs) <= Cardinality(c.ineqs)
    BY <1>2, BeforeUnfolds
  <2> QED
    BY <2>1, <2>2, <2>3
<1> QED
  BY <1>1, <1>2

\* The order of conjunctions is transitive.
LEMMA BeforeTransitive ==
  ASSUME NEW n \in Nat, NEW b, NEW c, NEW d, IsForm(b, n), IsForm(c, n), IsForm(d, n),
         Before(b, c), Before(c, d)
  PROVE  Before(b, d)
<1>0. IsDecl(b.decl, n) /\ IsDecl(c.decl, n) /\ IsDecl(d.decl, n)
  BY DEF IsForm
<1>1. CASE b.decl # c.decl /\ c.decl # d.decl
  <2>1. PICK i \in 1 .. n : DeclLess(b.decl, c.decl, i)
    BY <1>1, BeforeUnfolds
  <2>2. PICK j \in 1 .. n : DeclLess(c.decl, d.decl, j)
    BY <1>1, BeforeUnfolds
  <2>3. PICK k \in 1 .. n : DeclLess(b.decl, d.decl, k)
    BY <1>0, <2>1, <2>2, DeclLessTransitive
  <2>4. b.decl # d.decl
    BY <1>0, <2>3, DeclLessIrreflexive
  <2> QED
    BY <2>3, <2>4, BeforeUnfolds
<1>2. CASE b.decl # c.decl /\ c.decl = d.decl
  <2>1. PICK i \in 1 .. n : DeclLess(b.decl, c.decl, i)
    BY <1>2, BeforeUnfolds
  <2>2. DeclLess(b.decl, d.decl, i) /\ b.decl # d.decl
    BY <1>2, <2>1
  <2> QED
    BY <2>2, BeforeUnfolds
<1>3. CASE b.decl = c.decl /\ c.decl # d.decl
  <2>1. PICK i \in 1 .. n : DeclLess(c.decl, d.decl, i)
    BY <1>3, BeforeUnfolds
  <2>2. DeclLess(b.decl, d.decl, i) /\ b.decl # d.decl
    BY <1>3, <2>1
  <2> QED
    BY <2>2, BeforeUnfolds
<1>4. CASE b.decl = c.decl /\ c.decl = d.decl
  <2>1. /\ Cardinality(b.eqs) \in Nat /\ Cardinality(b.ineqs) \in Nat
        /\ Cardinality(c.eqs) \in Nat /\ Cardinality(c.ineqs) \in Nat
        /\ Cardinality(d.eqs) \in Nat /\ Cardinality(d.ineqs) \in Nat
    BY BeforeUnfolds
  <2>2. \/ Cardinality(b.eqs) < Cardinality(c.eqs)
        \/ /\ Cardinality(b.eqs) = Cardinality(c.eqs)
           /\ Cardinality(b.ineqs) <= Cardinality(c.ineqs)
    BY <1>4, BeforeUnfolds
  <2>3. \/ Cardinality(c.eqs) < Cardinality(d.eqs)
        \/ /\ Cardinality(c.eqs) = Cardinality(d.eqs)
           /\ Cardinality(c.ineqs) <= Cardinality(d.ineqs)
    BY <1>4, BeforeUnfolds
  <2>4. \/ Cardinality(b.eqs) < Cardinality(d.eqs)
        \/ /\ Cardinality(b.eqs) = Cardinality(d.eqs)
           /\ Cardinality(b.ineqs) <= Cardinality(d.ineqs)
    BY <2>1, <2>2, <2>3
  <2>5. b.decl = d.decl
    BY <1>4
  <2> QED
    BY <2>4, <2>5, BeforeUnfolds
<1> QED
  BY <1>1, <1>2, <1>3, <1>4

-----------------------------------------------------------------------------
(* Listing conjunctions in order                                           *)

\* A sequence with as many elements as a set, none twice, has all of them.
LEMMA SeqsCover ==
  ASSUME NEW S, IsFiniteSet(S), NEW s \in SetToSeqs(S)
  PROVE  /\ s \in [1 .. Cardinality(S) -> S] /\ Cardinality(S) \in Nat
         /\ \A x \in S : \E i \in 1 .. Cardinality(S) : s[i] = x
<1> DEFINE n == Cardinality(S)
<1>1. n \in Nat
  BY FS_CardinalityType
<1>2. s \in [1 .. n -> S] /\ \A i, j \in 1 .. n : i # j => s[i] # s[j]
  BY DEF SetToSeqs
<1>3. ASSUME NEW x \in S, \A i \in 1 .. n : s[i] # x PROVE FALSE
  <2>1. IsFiniteSet(S \ {x}) /\ Cardinality(S \ {x}) = n - 1
    BY FS_RemoveElement
  <2>2. IsFiniteSet(1 .. n) /\ Cardinality(1 .. n) = n
    BY <1>1, FS_Interval
  <2>3. s \in [1 .. n -> S \ {x}]
    BY <1>2, <1>3
  <2>4. Cardinality(S \ {x}) < Cardinality(1 .. n)
    BY <1>1, <2>1, <2>2
  <2> HIDE DEF n
  <2>5. \E i, j \in 1 .. n : i # j /\ s[i] = s[j]
    BY <2>1, <2>2, <2>3, <2>4, FS_PigeonHole
  <2> QED
    BY <1>2, <2>5
<1> QED
  BY <1>1, <1>2, <1>3

\* A finite set can be put in a total order.
Sorted(s, R) == \A i, j \in DOMAIN s : i < j => <<s[i], s[j]>> \in R

\* A finite set can be listed in a total order.
LEMMA SortedExists ==
  ASSUME NEW S, IsFiniteSet(S), NEW R,
         \A a, b \in S : <<a, b>> \in R \/ <<b, a>> \in R,
         \A a, b, c \in S : <<a, b>> \in R /\ <<b, c>> \in R => <<a, c>> \in R
  PROVE  \E s \in SetToSeqs(S) : Sorted(s, R)
<1> DEFINE P == {T \in SUBSET S : \E s \in SetToSeqs(T) : Sorted(s, R)}
<1>1. ASSUME NEW T \in SUBSET S, \A x \in T : T \ {x} \in P PROVE T \in P
  <2>0. IsFiniteSet(T) /\ Cardinality(T) \in Nat
    BY FS_Subset, FS_CardinalityType
  <2>1. CASE T = {}
    <3>1. Cardinality(T) = 0
      BY <2>1, FS_EmptySet
    <3>2. PICK s : s \in [1 .. 0 -> T]
      <4>1. [i \in 1 .. 0 |-> 0] \in [1 .. 0 -> T]
        OBVIOUS
      <4> QED
        BY <4>1
    <3>3. s \in SetToSeqs(T) /\ Sorted(s, R)
      BY <3>1, <3>2 DEF SetToSeqs, Sorted
    <3> QED
      BY <3>3
  <2>2. CASE T # {}
    <3>1. PICK a \in T : \A b \in T : <<a, b>> \in R
      <4>1. \A x, y \in T : <<x, y>> \in R \/ <<y, x>> \in R
        OBVIOUS
      <4>2. \A x, y, z \in T : <<x, y>> \in R /\ <<y, z>> \in R => <<x, z>> \in R
        OBVIOUS
      <4> QED
        BY <2>0, <2>2, <4>1, <4>2, FiniteLeast
    <3> DEFINE U == T \ {a}
               n == Cardinality(U)
    <3>2. IsFiniteSet(U) /\ n \in Nat /\ Cardinality(T) = n + 1
      <4>1. IsFiniteSet(U) /\ Cardinality(U) = Cardinality(T) - 1
        BY <2>0, FS_RemoveElement
      <4>2. Cardinality(U) \in Nat
        BY <4>1, FS_CardinalityType
      <4> QED
        BY <2>0, <4>1, <4>2
    <3>3. PICK s \in SetToSeqs(U) : Sorted(s, R)
      BY <1>1
    <3>4. /\ s \in [1 .. n -> U] /\ \A i, j \in 1 .. n : i # j => s[i] # s[j]
      BY <3>3 DEF SetToSeqs
    <3>5. \A i, j \in 1 .. n : i < j => <<s[i], s[j]>> \in R
      BY <3>3, <3>4 DEF Sorted
    <3> HIDE DEF n
    <3> DEFINE r == [i \in 1 .. n + 1 |-> IF i = 1 THEN a ELSE s[i - 1]]
    <3>6. \A i \in 1 .. n + 1 : i # 1 => i - 1 \in 1 .. n /\ r[i] = s[i - 1] /\ s[i - 1] \in U
      BY <3>2, <3>4
    <3>7. r[1] = a
      BY <3>2
    <3>8. r \in [1 .. n + 1 -> T]
      BY <3>6
    <3> HIDE DEF r
    <3>9. ASSUME NEW i \in 1 .. n + 1, NEW j \in 1 .. n + 1, i # j PROVE r[i] # r[j]
      <4>1. CASE i = 1
        BY <4>1, <3>6, <3>7, <3>9
      <4>2. CASE j = 1
        BY <4>2, <3>6, <3>7, <3>9
      <4>3. CASE i # 1 /\ j # 1
        <5>1. PICK k \in 1 .. n : k = i - 1
          BY <4>3, <3>6
        <5>2. PICK l \in 1 .. n : l = j - 1
          BY <4>3, <3>6
        <5>3. k # l /\ r[i] = s[k] /\ r[j] = s[l]
          BY <4>3, <5>1, <5>2, <3>2, <3>6, <3>9
        <5> QED
          BY <5>3, <3>4
      <4> QED
        BY <4>1, <4>2, <4>3
    <3>10. r \in SetToSeqs(T)
      BY <3>2, <3>8, <3>9 DEF SetToSeqs
    <3>11. ASSUME NEW i \in 1 .. n + 1, NEW j \in 1 .. n + 1, i < j PROVE <<r[i], r[j]>> \in R
      <4>1. CASE i = 1
        BY <4>1, <3>1, <3>7, <3>8
      <4>2. CASE i # 1
        <5>0. j # 1
          BY <3>2, <3>11, <4>2
        <5>1. PICK k \in 1 .. n : k = i - 1
          BY <4>2, <3>6
        <5>2. PICK l \in 1 .. n : l = j - 1
          BY <5>0, <3>6
        <5>3. k < l /\ r[i] = s[k] /\ r[j] = s[l]
          BY <4>2, <5>0, <5>1, <5>2, <3>2, <3>6, <3>11
        <5> QED
          BY <5>3, <3>5
      <4> QED
        BY <4>1, <4>2
    <3>12. Sorted(r, R)
      BY <3>8, <3>11 DEF Sorted
    <3> QED
      BY <3>10, <3>12
  <2> QED
    BY <2>1, <2>2
<1> HIDE DEF P
<1>2. \A T \in SUBSET S : T \in P
  BY <1>1, FiniteInduct
<1> QED
  BY <1>2 DEF P

\* So InOrder lists the conjunctions of a value.
Lists(s, S) ==
  /\ s \in [1 .. Cardinality(S) -> S] /\ Cardinality(S) \in Nat
  /\ \A x \in S : \E i \in 1 .. Cardinality(S) : s[i] = x

\* So a value's conjunctions are listed, each once.
LEMMA InOrderLists ==
  ASSUME NEW v, IsRaw(v)
  PROVE  Lists(InOrder(v), v.conjs)
<1> DEFINE S == v.conjs
           R == {p \in S \X S : Before(p[1], p[2])}
<1>1. v.in + v.out \in Nat /\ IsFiniteSet(S) /\ \A c \in S : IsForm(c, v.in + v.out)
  BY DEF IsRaw
<1>2. \A a, b \in S : <<a, b>> \in R <=> Before(a, b)
  OBVIOUS
<1> HIDE DEF R
<1>3. \A a, b \in S : <<a, b>> \in R \/ <<b, a>> \in R
  BY <1>1, <1>2, BeforeTotal
<1>4. \A a, b, c \in S : <<a, b>> \in R /\ <<b, c>> \in R => <<a, c>> \in R
  BY <1>1, <1>2, BeforeTransitive
<1>5. PICK s \in SetToSeqs(S) : Sorted(s, R)
  BY <1>1, <1>3, <1>4, SortedExists
<1>6. \A i, j \in DOMAIN s : i < j => Before(s[i], s[j])
  <2>1. \A i \in DOMAIN s : s[i] \in S
    BY <1>5 DEF SetToSeqs
  <2> QED
    BY <1>2, <1>5, <2>1 DEF Sorted
<1>7. InOrder(v) \in SetToSeqs(S)
  BY <1>5, <1>6 DEF InOrder
<1> QED
  BY <1>1, <1>7, SeqsCover DEF Lists

-----------------------------------------------------------------------------
(* Adding conjunctions one by one                                          *)

Shaped(v) == v = [in |-> v.in, out |-> v.out, conjs |-> v.conjs]
Shape(a, b, S) == [in |-> a, out |-> b, conjs |-> S]

\* SparseConstraints::addConjunction on the list of conjunctions.
Added1(S, c) == IF Cardinality(S) = 1 /\ \A d \in S : ~ hasConstraints(d) THEN {c} ELSE S \cup {c}

\* addConjunction on the parts of a value.
LEMMA AddShape ==
  ASSUME NEW a, NEW b, NEW S, NEW c
  PROVE  addConjunction(Shape(a, b, S), c) = Shape(a, b, Added1(S, c))
<1> DEFINE v == Shape(a, b, S)
<1>1. v.in = a /\ v.out = b /\ v.conjs = S /\ v = [in |-> v.in, out |-> v.out, conjs |-> v.conjs]
  BY DEF Shape
<1>2. addConjunction(v, c) = [v EXCEPT !.conjs = Added1(v.conjs, c)]
  BY DEF addConjunction, Added1
<1> HIDE DEF v
<1>3. addConjunction(v, c) = [in |-> v.in, out |-> v.out, conjs |-> Added1(v.conjs, c)]
  BY <1>1, <1>2, OtherConjs
<1> QED
  BY <1>1, <1>3 DEF v, Shape

\* What AddAll goes through.
Adds(g, v, seq, n) == g = [k \in 0 .. n |-> IF k = 0 THEN v ELSE addConjunction(g[k - 1], seq[k])]
Listing(T, S, seq, n) == /\ T[0] = S /\ \A k \in 1 .. n : T[k] = Added1(T[k - 1], seq[k])

\* AddAll is what its recursive function gives.
LEMMA AddAllUnfolds ==
  ASSUME NEW v, NEW seq
  PROVE  AddAll(v, seq) = (CHOOSE g : Adds(g, v, seq, Len(seq)))[Len(seq)]
BY DEF AddAll, Adds

\* There are lists of conjunctions that addConjunction goes through.
LEMMA ListingExists ==
  ASSUME NEW S, NEW n \in Nat, NEW seq
  PROVE  \E T : Listing(T, S, seq, n)
<1> DEFINE E == S \cup {seq[k] : k \in 1 .. n}
           V == SUBSET E
           F == [k \in 1 .. n |-> [X \in V |-> Added1(X, seq[k])]]
<1>1. S \in V
  OBVIOUS
<1>2. \A k \in 1 .. n : \A X \in V : Added1(X, seq[k]) \in V
  BY DEF Added1
<1> HIDE DEF V
<1>3. F \in Steps(n, V)
  BY <1>2 DEF Steps
<1>4. \A k \in 1 .. n : \A X \in V : F[k][X] = Added1(X, seq[k])
  OBVIOUS
<1> HIDE DEF F
<1>5. PICK T \in [0 .. n -> V] : T[0] = S /\ \A k \in 1 .. n : T[k] = F[k][T[k - 1]]
  <2>1. Iterates(n, V, S, F) # {}
    BY <1>1, <1>3, Recursion
  <2> QED
    BY <2>1 DEF Iterates
<1>6. \A k \in 1 .. n : T[k - 1] \in V
  BY <1>5
<1> QED
  BY <1>4, <1>5, <1>6 DEF Listing

\* AddAll changes the conjunctions only.
LEMMA AddAllShape ==
  ASSUME NEW a, NEW b, NEW S, NEW n \in Nat, NEW seq, Len(seq) = n
  PROVE  \E T : Listing(T, S, seq, n) /\ AddAll(Shape(a, b, S), seq) = Shape(a, b, T[n])
<1>1. PICK T : Listing(T, S, seq, n)
  BY ListingExists
<1> DEFINE v == Shape(a, b, S)
           h == [k \in 0 .. n |-> Shape(a, b, T[k])]
<1>2. \A k \in 0 .. n : h[k] = IF k = 0 THEN v ELSE addConjunction(h[k - 1], seq[k])
  <2> TAKE k \in 0 .. n
  <2>1. CASE k = 0
    BY <2>1, <1>1 DEF Listing
  <2>2. CASE k # 0
    <3>1. k \in 1 .. n /\ k - 1 \in 0 .. n
      BY <2>2
    <3>2. T[k] = Added1(T[k - 1], seq[k])
      BY <3>1, <1>1 DEF Listing
    <3>3. addConjunction(Shape(a, b, T[k - 1]), seq[k]) = Shape(a, b, T[k])
      BY <3>2, AddShape
    <3>4. h[k] = Shape(a, b, T[k]) /\ h[k - 1] = Shape(a, b, T[k - 1])
      BY <3>1
    <3> HIDE DEF h
    <3> QED
      BY <2>2, <3>3, <3>4
  <2> QED
    BY <2>1, <2>2
<1>3. h[n] = Shape(a, b, T[n])
  OBVIOUS
<1>4. h = [k \in 0 .. n |-> h[k]]
  OBVIOUS
<1> HIDE DEF h, v
<1>5. Adds(h, v, seq, n)
  <2>1. h = [k \in 0 .. n |-> IF k = 0 THEN v ELSE addConjunction(h[k - 1], seq[k])]
    BY <1>2, <1>4
  <2> QED
    BY <2>1, Zenon DEF Adds
<1>6. PICK g : g = CHOOSE f : Adds(f, v, seq, n)
  OBVIOUS
<1>7. Adds(g, v, seq, n)
  BY <1>5, <1>6, Zenon
<1>8. \A k \in 0 .. n : g[k] = IF k = 0 THEN v ELSE addConjunction(g[k - 1], seq[k])
  BY <1>7, Zenon DEF Adds
<1> DEFINE P == {k \in 0 .. n : g[k] = h[k]}
<1>9. \A k \in 0 .. n : k \in P
  <2>1. 0 \in P
    BY <1>2, <1>8
  <2>2. ASSUME NEW k \in 1 .. n, k - 1 \in P PROVE k \in P
    <3>1. k \in 0 .. n /\ k # 0 /\ g[k - 1] = h[k - 1]
      BY <2>2
    <3> QED
      BY <3>1, <1>2, <1>8
  <2> HIDE DEF P
  <2> QED
    BY <2>1, <2>2, Induct
<1>10. AddAll(v, seq) = h[n]
  <2>1. AddAll(v, seq) = g[n]
    BY <1>6, AddAllUnfolds
  <2> QED
    BY <2>1, <1>9
<1> QED
  BY <1>1, <1>3, <1>10 DEF v

\* What is listed was there or is added; what has constraints stays.
LEMMA ListingFacts ==
  ASSUME NEW S, NEW n \in Nat, NEW seq, NEW T, Listing(T, S, seq, n)
  PROVE  /\ T[n] \subseteq S \cup {seq[k] : k \in 1 .. n}
         /\ IsFiniteSet(S) => IsFiniteSet(T[n])
<1> DEFINE E == S \cup {seq[k] : k \in 1 .. n}
           P == {k \in 0 .. n : T[k] \subseteq E /\ (IsFiniteSet(S) => IsFiniteSet(T[k]))}
<1>1. 0 \in P
  BY DEF Listing
<1>2. ASSUME NEW k \in 1 .. n, k - 1 \in P PROVE k \in P
  <2>1. T[k] = Added1(T[k - 1], seq[k])
    BY DEF Listing
  <2>2. T[k] = {seq[k]} \/ T[k] = T[k - 1] \cup {seq[k]}
    BY <2>1 DEF Added1
  <2>3. IsFiniteSet({seq[k]})
    BY FS_Singleton
  <2>4. IsFiniteSet(T[k - 1]) => IsFiniteSet(T[k - 1] \cup {seq[k]})
    BY FS_AddElement
  <2> QED
    BY <1>2, <2>2, <2>3, <2>4
<1> HIDE DEF P
<1>3. n \in P
  BY <1>1, <1>2, Induct
<1> QED
  BY <1>3 DEF P

\* Where all have constraints, none is dropped.
LEMMA ListingKeeps ==
  ASSUME NEW S, NEW n \in Nat, NEW seq, NEW T, Listing(T, S, seq, n),
         \A k \in 1 .. n : hasConstraints(seq[k])
  PROVE  /\ \A d \in S : hasConstraints(d) => d \in T[n]
         /\ \A k \in 1 .. n : seq[k] \in T[n]
<1> DEFINE P == {j \in 0 .. n : /\ \A d \in S : hasConstraints(d) => d \in T[j]
                                /\ \A k \in 1 .. j : seq[k] \in T[j]}
<1>1. 0 \in P
  BY DEF Listing
<1>2. ASSUME NEW j \in 1 .. n, j - 1 \in P PROVE j \in P
  <2>1. T[j] = Added1(T[j - 1], seq[j])
    BY DEF Listing
  <2>2. seq[j] \in T[j]
    BY <2>1 DEF Added1
  <2>3. \A d \in T[j - 1] : hasConstraints(d) => d \in T[j]
    BY <2>1 DEF Added1
  <2>4. \A d \in S : hasConstraints(d) => d \in T[j]
    BY <1>2, <2>3
  <2>5. ASSUME NEW k \in 1 .. j PROVE seq[k] \in T[j]
    <3>1. CASE k = j
      BY <3>1, <2>2
    <3>2. CASE k # j
      <4>1. k \in 1 .. j - 1 /\ k \in 1 .. n
        BY <3>2
      <4> QED
        BY <4>1, <1>2, <2>3
    <3> QED
      BY <3>1, <3>2
  <2> QED
    BY <2>4, <2>5
<1> HIDE DEF P
<1>3. n \in P
  BY <1>1, <1>2, Induct
<1> QED
  BY <1>3 DEF P

\* The initial TRUE goes when the first conjunction is added.
Initial(S) == S = {} \/ \E d : S = {d} /\ ~ hasConstraints(d)

\* The first one takes the place of the initial TRUE.
LEMMA ListingFirst ==
  ASSUME NEW S, Initial(S), NEW seq, NEW T, Listing(T, S, seq, 1)
  PROVE  T[1] = {seq[1]}
<1>1. T[1] = Added1(T[1 - 1], seq[1]) /\ T[0] = S
  BY DEF Listing
<1>2. T[1] = Added1(S, seq[1])
  BY <1>1
<1>3. CASE S = {}
  BY <1>2, <1>3, FS_EmptySet DEF Added1
<1>4. CASE S # {}
  <2>1. PICK d : S = {d} /\ ~ hasConstraints(d)
    BY <1>4 DEF Initial
  <2>2. Cardinality(S) = 1
    BY <2>1, FS_Singleton
  <2> QED
    BY <1>2, <2>1, <2>2 DEF Added1
<1> QED
  BY <1>3, <1>4

-----------------------------------------------------------------------------
(* The nested loops                                                        *)

\* What adding a row of conjunctions makes of a list.
Grown(X, S, row, K) ==
  /\ X \subseteq S \cup {row[k] : k \in 1 .. K}
  /\ IsFiniteSet(S) => IsFiniteSet(X)
  /\ (\A k \in 1 .. K : hasConstraints(row[k])) =>
       (\A d \in S : hasConstraints(d) => d \in X) /\ (\A k \in 1 .. K : row[k] \in X)
  /\ K = 1 /\ Initial(S) => X = {row[1]}

\* AddAll adds a row.
LEMMA AddAllGrows ==
  ASSUME NEW a, NEW b, NEW S, NEW K \in Nat, NEW row, Len(row) = K
  PROVE  \E X : AddAll(Shape(a, b, S), row) = Shape(a, b, X) /\ Grown(X, S, row, K)
<1>1. PICK T : Listing(T, S, row, K) /\ AddAll(Shape(a, b, S), row) = Shape(a, b, T[K])
  BY AddAllShape
<1>2. T[K] \subseteq S \cup {row[k] : k \in 1 .. K} /\ (IsFiniteSet(S) => IsFiniteSet(T[K]))
  <2>1. Listing(T, S, row, K)
    BY <1>1
  <2>2. T[K] \subseteq S \cup {row[k] : k \in 1 .. K}
    BY ONLY <2>1, K \in Nat, ListingFacts
  <2>3. IsFiniteSet(S) => IsFiniteSet(T[K])
    BY ONLY <2>1, K \in Nat, ListingFacts
  <2> QED
    BY <2>2, <2>3
<1>3. ASSUME \A k \in 1 .. K : hasConstraints(row[k])
      PROVE  (\A d \in S : hasConstraints(d) => d \in T[K]) /\ (\A k \in 1 .. K : row[k] \in T[K])
  BY <1>1, <1>3, ListingKeeps
<1>4. ASSUME K = 1, Initial(S) PROVE T[K] = {row[1]}
  BY <1>1, <1>4, ListingFirst
<1>5. Grown(T[K], S, row, K)
  BY <1>2, <1>3, <1>4 DEF Grown
<1> QED
  BY <1>1, <1>5

\* The nested loops over two lists, Z being what is made of each pair.
Row(Z, vs, ws, n, K) == [k \in 1 .. K |-> Z[<<vs[n], ws[k]>>]]
Loops(g, v, Z, vs, ws, N, K) ==
  g = [n \in 0 .. N |-> IF n = 0 THEN v ELSE AddAll(g[n - 1], Row(Z, vs, ws, n, K))]

\* A row has one conjunction for each of the second operand's.
LEMMA RowLength ==
  ASSUME NEW Z, NEW vs, NEW ws, NEW n, NEW K \in Nat
  PROVE  Len(Row(Z, vs, ws, n, K)) = K /\ \A k \in 1 .. K : Row(Z, vs, ws, n, K)[k] = Z[<<vs[n], ws[k]>>]
<1> DEFINE r == Row(Z, vs, ws, n, K)
           X == {r[k] : k \in 1 .. K}
<1>1. r \in [1 .. K -> X]
  BY DEF Row
<1>2. \A k \in 1 .. K : r[k] = Z[<<vs[n], ws[k]>>]
  BY DEF Row
<1> HIDE DEF r, X
<1>3. Len(r) = K
  BY <1>1, DeclLength
<1> QED
  BY <1>2, <1>3 DEF r

\* There is a function that the outer loop's recursion defines.
LEMMA LoopsExist ==
  ASSUME NEW a, NEW b, NEW S, NEW Z, NEW vs, NEW ws, NEW N \in Nat, NEW K \in Nat
  PROVE  \E g : Loops(g, Shape(a, b, S), Z, vs, ws, N, K)
<1> DEFINE row(n) == Row(Z, vs, ws, n, K)
           E == S \cup {Z[<<vs[p[1]], ws[p[2]]>>] : p \in (1 .. N) \X (1 .. K)}
           V == {Shape(a, b, X) : X \in SUBSET E}
           v == Shape(a, b, S)
           F == [n \in 1 .. N |-> [x \in V |-> AddAll(x, row(n))]]
<1>1. v \in V
  OBVIOUS
<1>2. ASSUME NEW n \in 1 .. N, NEW x \in V PROVE AddAll(x, row(n)) \in V
  <2>1. PICK X \in SUBSET E : x = Shape(a, b, X)
    OBVIOUS
  <2>2. PICK Y : AddAll(Shape(a, b, X), row(n)) = Shape(a, b, Y) /\ Grown(Y, X, row(n), K)
    <3>1. PICK r : r = row(n)
      OBVIOUS
    <3>2. Len(r) = K
      BY <3>1, RowLength
    <3>3. \E Y : AddAll(Shape(a, b, X), r) = Shape(a, b, Y) /\ Grown(Y, X, r, K)
      BY <3>2, AddAllGrows
    <3> QED
      BY <3>1, <3>3
  <2>3. \A k \in 1 .. K : row(n)[k] \in E
    <3> TAKE k \in 1 .. K
    <3>1. row(n)[k] = Z[<<vs[n], ws[k]>>]
      BY RowLength
    <3>2. <<n, k>> \in (1 .. N) \X (1 .. K) /\ <<n, k>>[1] = n /\ <<n, k>>[2] = k
      OBVIOUS
    <3>3. Z[<<vs[n], ws[k]>>] \in {Z[<<vs[p[1]], ws[p[2]]>>] : p \in (1 .. N) \X (1 .. K)}
      BY <3>2
    <3> QED
      BY <3>1, <3>3
  <2>4. Y \in SUBSET E
    BY <2>2, <2>3 DEF Grown
  <2> QED
    BY <2>1, <2>2, <2>4
<1> HIDE DEF V, v, row
<1>3. F \in Steps(N, V)
  BY <1>2 DEF Steps
<1>4. \A n \in 1 .. N : \A x \in V : F[n][x] = AddAll(x, row(n))
  OBVIOUS
<1> HIDE DEF F
<1>5. PICK g \in [0 .. N -> V] : g[0] = v /\ \A n \in 1 .. N : g[n] = F[n][g[n - 1]]
  <2>1. Iterates(N, V, v, F) # {}
    BY <1>1, <1>3, Recursion
  <2> QED
    BY <2>1 DEF Iterates
<1>6. \A n \in 0 .. N : g[n] = IF n = 0 THEN v ELSE AddAll(g[n - 1], row(n))
  <2> TAKE n \in 0 .. N
  <2>1. CASE n = 0
    BY <2>1, <1>5
  <2>2. CASE n # 0
    <3>1. n \in 1 .. N /\ g[n - 1] \in V
      BY <2>2, <1>5
    <3>2. g[n] = F[n][g[n - 1]] /\ F[n][g[n - 1]] = AddAll(g[n - 1], row(n))
      BY <3>1, <1>4, <1>5
    <3> QED
      BY <2>2, <3>2
  <2> QED
    BY <2>1, <2>2
<1>7. g = [n \in 0 .. N |-> IF n = 0 THEN v ELSE AddAll(g[n - 1], row(n))]
  <2>1. g = [n \in 0 .. N |-> g[n]]
    BY <1>5
  <2> QED
    BY <2>1, <1>6
<1> QED
  BY <1>7, Zenon DEF Loops, v, row

\* What the loops make of the conjunctions.
Paired(X, S, Z, V, W) ==
  /\ X \subseteq S \cup {Z[p] : p \in V \X W}
  /\ IsFiniteSet(S) => IsFiniteSet(X)
  /\ (\A p \in V \X W : hasConstraints(Z[p])) => \A p \in V \X W : Z[p] \in X
  /\ Initial(S) => \A c, d : V = {c} /\ W = {d} => X = {Z[<<c, d>>]}

\* What the nested loops gather.
LEMMA LoopsFacts ==
  ASSUME NEW a, NEW b, NEW S, NEW Z, NEW V, NEW W, NEW vs, NEW ws, Lists(vs, V), Lists(ws, W),
         NEW g, Loops(g, Shape(a, b, S), Z, vs, ws, Cardinality(V), Cardinality(W))
  PROVE  \E X : g[Cardinality(V)] = Shape(a, b, X) /\ Paired(X, S, Z, V, W)
<1> DEFINE N == Cardinality(V)
           K == Cardinality(W)
           row(n) == Row(Z, vs, ws, n, K)
<1>0. N \in Nat /\ K \in Nat /\ vs \in [1 .. N -> V] /\ ws \in [1 .. K -> W]
      /\ (\A x \in V : \E i \in 1 .. N : vs[i] = x) /\ (\A y \in W : \E i \in 1 .. K : ws[i] = y)
  BY DEF Lists
<1>1. \A n \in 0 .. N : g[n] = IF n = 0 THEN Shape(a, b, S) ELSE AddAll(g[n - 1], row(n))
  BY Zenon DEF Loops
<1>2. \A n \in 1 .. N : Len(row(n)) = K /\ \A k \in 1 .. K : row(n)[k] = Z[<<vs[n], ws[k]>>]
  BY <1>0, RowLength
<1>3. \A n \in 1 .. N, k \in 1 .. K : <<vs[n], ws[k]>> \in V \X W
  BY <1>0
<1> HIDE DEF N, K, row
<1> DEFINE Has == \A p \in V \X W : hasConstraints(Z[p])
           Good(X, n) == /\ X \subseteq S \cup {Z[p] : p \in V \X W}
                         /\ IsFiniteSet(S) => IsFiniteSet(X)
                         /\ Has => \A i \in 1 .. n, k \in 1 .. K : Z[<<vs[i], ws[k]>>] \in X
                         /\ n = 1 /\ K = 1 /\ Initial(S) => X = {Z[<<vs[1], ws[1]>>]}
           P == {n \in 0 .. N : \E X : g[n] = Shape(a, b, X) /\ Good(X, n)}
<1>4. 0 \in P
  <2>1. g[0] = Shape(a, b, S)
    BY <1>0, <1>1
  <2>2. Good(S, 0)
    OBVIOUS
  <2> QED
    BY <1>0, <2>1, <2>2
<1>5. ASSUME NEW n \in 1 .. N, n - 1 \in P PROVE n \in P
  <2>1. PICK Y : g[n - 1] = Shape(a, b, Y) /\ Good(Y, n - 1)
    BY <1>5
  <2>2. g[n] = AddAll(Shape(a, b, Y), row(n))
    BY <1>0, <1>1, <2>1
  <2>3. PICK X : AddAll(Shape(a, b, Y), row(n)) = Shape(a, b, X) /\ Grown(X, Y, row(n), K)
    BY <1>0, <1>2, AddAllGrows
  <2>4. \A k \in 1 .. K : row(n)[k] = Z[<<vs[n], ws[k]>>] /\ <<vs[n], ws[k]>> \in V \X W
    BY <1>2, <1>3
  <2>5. X \subseteq S \cup {Z[p] : p \in V \X W}
    <3>1. X \subseteq Y \cup {row(n)[k] : k \in 1 .. K}
      BY <2>3 DEF Grown
    <3>2. \A k \in 1 .. K : row(n)[k] \in {Z[p] : p \in V \X W}
      BY <2>4
    <3>3. Y \subseteq S \cup {Z[p] : p \in V \X W}
      BY <2>1
    <3> QED
      BY <3>1, <3>2, <3>3
  <2>6. IsFiniteSet(S) => IsFiniteSet(X)
    BY <2>1, <2>3 DEF Grown
  <2>7. ASSUME Has, NEW i \in 1 .. n, NEW k \in 1 .. K PROVE Z[<<vs[i], ws[k]>>] \in X
    <3>1. \A j \in 1 .. K : hasConstraints(row(n)[j])
      BY <2>4, <2>7
    <3>2. (\A d \in Y : hasConstraints(d) => d \in X) /\ (\A j \in 1 .. K : row(n)[j] \in X)
      BY <2>3, <3>1 DEF Grown
    <3>3. CASE i = n
      BY <3>2, <3>3, <2>4
    <3>4. CASE i # n
      <4>1. i \in 1 .. n - 1 /\ i \in 1 .. N
        BY <1>0, <3>4
      <4>2. Z[<<vs[i], ws[k]>>] \in Y
        BY <2>1, <2>7, <4>1
      <4>3. hasConstraints(Z[<<vs[i], ws[k]>>])
        BY <1>3, <2>7, <4>1
      <4> QED
        BY <3>2, <4>2, <4>3
    <3> QED
      BY <3>3, <3>4
  <2>8. ASSUME n = 1, K = 1, Initial(S) PROVE X = {Z[<<vs[1], ws[1]>>]}
    <3>1. g[n - 1] = Shape(a, b, S)
      BY <1>0, <1>1, <2>8
    <3>2. Y = S
      <4>1. Shape(a, b, Y).conjs = Shape(a, b, S).conjs
        BY <2>1, <3>1
      <4> QED
        BY <4>1 DEF Shape
    <3>3. X = {row(n)[1]}
      BY <2>3, <2>8, <3>2 DEF Grown
    <3>4. row(n)[1] = Z[<<vs[1], ws[1]>>]
      BY <2>4, <2>8
    <3> QED
      BY <3>3, <3>4
  <2>9. Good(X, n)
    BY <2>5, <2>6, <2>7, <2>8
  <2> HIDE DEF Good
  <2>10. g[n] = Shape(a, b, X)
    BY <2>2, <2>3
  <2> QED
    BY <2>9, <2>10
<1>6. N \in P
  <2> HIDE DEF P
  <2>1. N \in Nat
    BY <1>0
  <2>2. \A n \in 0 .. N : n \in P
    BY <2>1, <1>4, <1>5, Induct
  <2> QED
    BY <2>1, <2>2
<1>7. PICK X : g[N] = Shape(a, b, X) /\ Good(X, N)
  BY <1>6
<1>8. ASSUME Has, NEW p \in V \X W PROVE Z[p] \in X
  <2>1. PICK x \in V, y \in W : p = <<x, y>>
    OBVIOUS
  <2>2. PICK i \in 1 .. N : vs[i] = x
    BY <1>0
  <2>3. PICK k \in 1 .. K : ws[k] = y
    BY <1>0
  <2>4. Z[<<vs[i], ws[k]>>] \in X
    BY <1>7, <1>8
  <2>5. <<vs[i], ws[k]>> = p
    BY <2>1, <2>2, <2>3
  <2> QED
    BY <2>4, <2>5
<1>9. ASSUME Initial(S), NEW c, NEW d, V = {c}, W = {d} PROVE X = {Z[<<c, d>>]}
  <2>1. N = 1 /\ K = 1
    BY <1>9, FS_Singleton DEF N, K
  <2>2. vs[1] = c /\ ws[1] = d
    BY <1>0, <1>9, <2>1
  <2> QED
    BY <1>7, <1>9, <2>1, <2>2
<1>10. Paired(X, S, Z, V, W)
  BY <1>7, <1>8, <1>9 DEF Paired
<1> QED
  BY <1>7, <1>10 DEF N

-----------------------------------------------------------------------------
(* Union, copy and inverse                                                 *)

\* A listed set as a sequence.
LEMMA ListsSeq ==
  ASSUME NEW S, NEW s, Lists(s, S)
  PROVE  /\ Cardinality(S) \in Nat /\ s \in Seq(S) /\ Len(s) = Cardinality(S)
         /\ DOMAIN s = 1 .. Cardinality(S)
         /\ \A i \in 1 .. Cardinality(S) : s[i] \in S
<1>1. PICK n \in Nat : n = Cardinality(S)
  BY DEF Lists
<1>2. s \in [1 .. n -> S]
  BY <1>1 DEF Lists
<1> QED
  BY <1>1, <1>2, DeclLength

\* The conjunctions of X are among those of S, and are all of them where
\* those have constraints.
Keeps(X, S) ==
  /\ X \subseteq S /\ IsFiniteSet(X)
  /\ (\A c \in S : hasConstraints(c)) => S \subseteq X

Enumerates(seq, n, S) ==
  /\ Len(seq) = n
  /\ \A i \in 1 .. n : seq[i] \in S
  /\ \A c \in S : \E i \in 1 .. n : seq[i] = c

\* Adding all of a list to a value without conjunctions.
LEMMA AddListed ==
  ASSUME NEW a, NEW b, NEW S, NEW n \in Nat, NEW seq, Enumerates(seq, n, S)
  PROVE  \E X : AddAll(Shape(a, b, {}), seq) = Shape(a, b, X) /\ Keeps(X, S)
<1>0. Len(seq) = n /\ (\A i \in 1 .. n : seq[i] \in S) /\ (\A c \in S : \E i \in 1 .. n : seq[i] = c)
  BY DEF Enumerates
<1>1. PICK X : AddAll(Shape(a, b, {}), seq) = Shape(a, b, X) /\ Grown(X, {}, seq, n)
  BY <1>0, AddAllGrows
<1>2. X \subseteq S
  BY <1>0, <1>1 DEF Grown
<1>3. IsFiniteSet(X)
  BY <1>1, FS_EmptySet DEF Grown
<1>4. ASSUME \A c \in S : hasConstraints(c) PROVE S \subseteq X
  <2>1. \A i \in 1 .. n : hasConstraints(seq[i])
    BY <1>0, <1>4
  <2>2. \A i \in 1 .. n : seq[i] \in X
    BY <1>1, <2>1 DEF Grown
  <2> QED
    BY <1>0, <2>2
<1>5. Keeps(X, S)
  BY <1>2, <1>3, <1>4 DEF Keeps
<1> QED
  BY <1>1, <1>5

\* Set::Union and Relation::Union.
LEMMA UnionShape ==
  ASSUME NEW v, NEW w, IsRaw(v), IsRaw(w)
  PROVE  \E X : Union(v, w) = Shape(v.in, v.out, X) /\ Keeps(X, v.conjs \cup w.conjs)
<1>1. PICK p : p = InOrder(v)
  OBVIOUS
<1>2. PICK q : q = InOrder(w)
  OBVIOUS
<1> DEFINE S == v.conjs \cup w.conjs
           N == Cardinality(v.conjs)
           K == Cardinality(w.conjs)
<1>3. Lists(p, v.conjs) /\ Lists(q, w.conjs)
  BY <1>1, <1>2, InOrderLists
<1>4. /\ N \in Nat /\ K \in Nat /\ p \in Seq(v.conjs) /\ q \in Seq(w.conjs)
      /\ Len(p) = N /\ Len(q) = K
      /\ (\A i \in 1 .. N : p[i] \in v.conjs) /\ (\A i \in 1 .. K : q[i] \in w.conjs)
  BY <1>3, ListsSeq
<1>5. /\ \A c \in v.conjs : \E i \in 1 .. N : p[i] = c
      /\ \A c \in w.conjs : \E i \in 1 .. K : q[i] = c
  BY <1>3 DEF Lists
<1> HIDE DEF N, K
<1>6. PICK s : s = p \o q
  OBVIOUS
<1>7. p \in Seq(S) /\ q \in Seq(S)
  <2>1. p \in [1 .. N -> S] /\ q \in [1 .. K -> S]
    <3>1. p \in [1 .. N -> v.conjs] /\ q \in [1 .. K -> w.conjs]
      BY <1>4, LenProperties
    <3> QED
      BY <3>1
  <2> HIDE DEF S
  <2> QED
    BY <1>4, <2>1, DeclLength
<1>8. Len(s) = N + K /\ \A i \in 1 .. N + K : s[i] = IF i <= N THEN p[i] ELSE q[i - N]
  <2> HIDE DEF S
  <2> QED
    BY <1>4, <1>6, <1>7, ConcatProperties
<1>9. \A i \in 1 .. N + K : s[i] \in S
  <2> TAKE i \in 1 .. N + K
  <2>1. CASE i <= N
    BY <2>1, <1>4, <1>8
  <2>2. CASE ~ i <= N
    <3>1. i - N \in 1 .. K
      BY <2>2, <1>4
    <3> QED
      BY <2>2, <3>1, <1>4, <1>8
  <2> QED
    BY <2>1, <2>2
<1>10. ASSUME NEW c \in S PROVE \E i \in 1 .. N + K : s[i] = c
  <2>1. CASE c \in v.conjs
    <3>1. PICK i \in 1 .. N : p[i] = c
      BY <2>1, <1>5
    <3>2. i \in 1 .. N + K /\ i <= N
      BY <1>4
    <3> QED
      BY <3>1, <3>2, <1>8
  <2>2. CASE c \in w.conjs
    <3>1. PICK j \in 1 .. K : q[j] = c
      BY <2>2, <1>5
    <3>2. PICK i \in 1 .. N + K : i = N + j
      BY <1>4
    <3>3. ~ i <= N /\ i - N = j
      BY <1>4, <3>2
    <3> QED
      BY <3>1, <3>3, <1>8
  <2> QED
    BY <2>1, <2>2
<1>11. [v EXCEPT !.conjs = {}] = Shape(v.in, v.out, {})
  BY OtherConjs DEF IsRaw, Shape
<1>12. Union(v, w) = AddAll(Shape(v.in, v.out, {}), s)
  BY <1>1, <1>2, <1>6, <1>11 DEF Union
<1> HIDE DEF S
<1>13. \E X : AddAll(Shape(v.in, v.out, {}), s) = Shape(v.in, v.out, X) /\ Keeps(X, S)
  <2>1. PICK n \in Nat : n = N + K
    BY <1>4
  <2>2. Enumerates(s, n, S)
    BY <2>1, <1>8, <1>9, <1>10 DEF Enumerates
  <2> QED
    BY <2>2, AddListed
<1> QED
  BY <1>12, <1>13 DEF S

\* The copy constructor, before it cleans up.
LEMMA CopyListed ==
  ASSUME NEW v, IsRaw(v)
  PROVE  \E X : AddAll([v EXCEPT !.conjs = {}], InOrder(v)) = Shape(v.in, v.out, X) /\ Keeps(X, v.conjs)
<1>1. PICK s : s = InOrder(v)
  OBVIOUS
<1>2. Lists(s, v.conjs)
  BY <1>1, InOrderLists
<1>3. PICK n \in Nat : n = Cardinality(v.conjs)
  BY <1>2 DEF Lists
<1>4. Len(s) = n /\ (\A i \in 1 .. n : s[i] \in v.conjs)
  BY <1>2, <1>3, ListsSeq
<1>5. \A c \in v.conjs : \E i \in 1 .. n : s[i] = c
  BY <1>2, <1>3 DEF Lists
<1>6. [v EXCEPT !.conjs = {}] = Shape(v.in, v.out, {})
  BY OtherConjs DEF IsRaw, Shape
<1>7. \E X : AddAll(Shape(v.in, v.out, {}), s) = Shape(v.in, v.out, X) /\ Keeps(X, v.conjs)
  <2>1. Enumerates(s, n, v.conjs)
    BY <1>4, <1>5 DEF Enumerates
  <2> QED
    BY <2>1, AddListed
<1> QED
  BY <1>1, <1>6, <1>7

\* Relation::Inverse, before it cleans up.
Inverses1(v) == {InverseOf(c, v.in) : c \in v.conjs}
Inverted1(v) ==
  AddAll(NewRelation(v.out, v.in), [n \in DOMAIN InOrder(v) |-> InverseOf(InOrder(v)[n], v.in)])

\* Inverse before it cleans up.
LEMMA InverseListed ==
  ASSUME NEW v, IsRaw(v)
  PROVE  \E X : Inverted1(v) = Shape(v.out, v.in, X) /\ Keeps(X, Inverses1(v))
<1>1. PICK s : s = InOrder(v)
  OBVIOUS
<1>2. Lists(s, v.conjs)
  BY <1>1, InOrderLists
<1>3. PICK n \in Nat : n = Cardinality(v.conjs)
  BY <1>2 DEF Lists
<1>4. DOMAIN s = 1 .. n /\ (\A i \in 1 .. n : s[i] \in v.conjs)
  BY <1>2, <1>3, ListsSeq
<1>5. \A c \in v.conjs : \E i \in 1 .. n : s[i] = c
  BY <1>2, <1>3 DEF Lists
<1> DEFINE r == [i \in 1 .. n |-> InverseOf(s[i], v.in)]
           S == Inverses1(v)
<1>6. r \in [1 .. n -> S]
  BY <1>4 DEF Inverses1
<1>7. \A i \in 1 .. n : r[i] = InverseOf(s[i], v.in)
  OBVIOUS
<1>8. Inverted1(v) = AddAll(Shape(v.out, v.in, {}), r)
  BY <1>1, <1>4 DEF Inverted1, NewRelation, Shape
<1> HIDE DEF r
<1>9. Len(r) = n /\ \A i \in 1 .. n : r[i] \in S
  <2> HIDE DEF S
  <2> QED
    BY <1>6, DeclLength
<1>10. \A c \in S : \E i \in 1 .. n : r[i] = c
  BY <1>5, <1>7 DEF Inverses1
<1> HIDE DEF S
<1>11. \E X : AddAll(Shape(v.out, v.in, {}), r) = Shape(v.out, v.in, X) /\ Keeps(X, S)
  <2>1. Enumerates(r, n, S)
    BY <1>9, <1>10 DEF Enumerates
  <2> QED
    BY <2>1, AddListed
<1> QED
  BY <1>8, <1>11 DEF S

-----------------------------------------------------------------------------
(* The operations that pair conjunctions                                   *)

\* A conjunction that is TRUE.
LEMMA TrueFacts ==
  ASSUME NEW n \in Nat
  PROVE  IsConj(True(n), n) /\ ~ hasConstraints(True(n))
<1> DEFINE V == Variables(n)
           c == [decl |-> V, eqs |-> {}, ineqs |-> {}]
<1>0. IsDecl(V, n)
  BY VariablesDecl
<1>1. True(n) = c
  BY DEF True
<1> HIDE DEF V
<1>2. c.decl = V /\ c.eqs = {} /\ c.ineqs = {}
  OBVIOUS
<1>3. IsForm(c, n)
  BY <1>0, <1>2, FS_EmptySet DEF IsForm, Over
<1>4. Proper(c)
  BY <1>2 DEF Proper
<1> QED
  BY <1>1, <1>2, <1>3, <1>4, ConjForm DEF hasConstraints

\* What the nested loops make of a start, given what each pair becomes.
IsPairs(x, a, b, S, Z, V, W) == \E X : x = Shape(a, b, X) /\ Paired(X, S, Z, V, W)

\* The loops of Set::Intersect and Relation::Intersect.
IntersectPair(v, w) == [p \in v.conjs \X w.conjs |-> IntersectOf(p[1], p[2])]
IntersectLoops(g, start, v, w, vs, ws) ==
  g = [n \in 0 .. Len(vs) |->
         IF n = 0 THEN start
         ELSE AddAll(g[n - 1], [k \in DOMAIN ws |-> IntersectOf(vs[n], ws[k])])]

\* Intersect gathers the pairs.
LEMMA IntersectPairs ==
  ASSUME NEW v, NEW w, IsRaw(v), IsRaw(w), NEW a, NEW b, NEW S
  PROVE  IsPairs(AddPairs(Shape(a, b, S), v, w, IntersectOf), a, b, S,
                 IntersectPair(v, w), v.conjs, w.conjs)
<1> DEFINE V == v.conjs
           W == w.conjs
           Z == IntersectPair(v, w)
           start == Shape(a, b, S)
<1>1. PICK vs : vs = InOrder(v)
  OBVIOUS
<1>2. PICK ws : ws = InOrder(w)
  OBVIOUS
<1>3. Lists(vs, V) /\ Lists(ws, W)
  BY <1>1, <1>2, InOrderLists
<1>4. PICK N \in Nat : N = Cardinality(V)
  BY <1>3 DEF Lists
<1>5. PICK K \in Nat : K = Cardinality(W)
  BY <1>3 DEF Lists
<1>6. Len(vs) = N /\ DOMAIN ws = 1 .. K /\ (\A i \in 1 .. N : vs[i] \in V) /\ (\A i \in 1 .. K : ws[i] \in W)
  BY <1>3, <1>4, <1>5, ListsSeq
<1>7. ASSUME NEW n \in 1 .. N
      PROVE  Row(Z, vs, ws, n, K) = [k \in DOMAIN ws |-> IntersectOf(vs[n], ws[k])]
  <2>1. \A k \in 1 .. K : <<vs[n], ws[k]>> \in V \X W
    BY <1>6
  <2>2. \A k \in 1 .. K : Z[<<vs[n], ws[k]>>] = IntersectOf(vs[n], ws[k])
    BY <2>1 DEF IntersectPair
  <2> HIDE DEF Z
  <2> QED
    BY <1>6, <2>2 DEF Row
<1> HIDE DEF Z, start, V, W
<1> DEFINE A(g) == [n \in 0 .. N |-> IF n = 0 THEN start ELSE AddAll(g[n - 1], Row(Z, vs, ws, n, K))]
           B(g) == [n \in 0 .. N |-> IF n = 0 THEN start
                      ELSE AddAll(g[n - 1], [k \in DOMAIN ws |-> IntersectOf(vs[n], ws[k])])]
<1>8. ASSUME NEW g PROVE A(g) = B(g)
  <2>1. ASSUME NEW n \in 0 .. N
        PROVE  (IF n = 0 THEN start ELSE AddAll(g[n - 1], Row(Z, vs, ws, n, K)))
                 = (IF n = 0 THEN start
                    ELSE AddAll(g[n - 1], [k \in DOMAIN ws |-> IntersectOf(vs[n], ws[k])]))
    <3>1. CASE n = 0
      BY <3>1
    <3>2. CASE n # 0
      <4>1. n \in 1 .. N
        BY <3>2
      <4>2. Row(Z, vs, ws, n, K) = [k \in DOMAIN ws |-> IntersectOf(vs[n], ws[k])]
        BY <4>1, <1>7, Zenon
      <4> QED
        BY <4>2, Zenon
    <3> QED
      BY <3>1, <3>2
  <2> QED
    BY <2>1, Zenon
<1>9. \A g : Loops(g, start, Z, vs, ws, N, K) <=> IntersectLoops(g, start, v, w, vs, ws)
  <2> TAKE g
  <2>1. Loops(g, start, Z, vs, ws, N, K) <=> g = A(g)
    BY Zenon DEF Loops
  <2>2. IntersectLoops(g, start, v, w, vs, ws) <=> g = B(g)
    BY <1>6, Zenon DEF IntersectLoops
  <2>3. A(g) = B(g)
    BY <1>8
  <2> HIDE DEF A, B
  <2> QED
    BY <2>1, <2>2, <2>3
<1>10. \E g : IntersectLoops(g, start, v, w, vs, ws)
  <2>1. PICK g : Loops(g, start, Z, vs, ws, N, K)
    BY LoopsExist DEF start
  <2> QED
    BY <2>1, <1>9
<1>11. PICK g : g = CHOOSE f : IntersectLoops(f, start, v, w, vs, ws)
  OBVIOUS
<1>12. IntersectLoops(g, start, v, w, vs, ws)
  BY <1>10, <1>11, Zenon
<1>13. Loops(g, start, Z, vs, ws, N, K)
  BY <1>9, <1>12
<1>14. \E X : g[N] = Shape(a, b, X) /\ Paired(X, S, Z, V, W)
  BY <1>3, <1>4, <1>5, <1>13, LoopsFacts DEF start
<1>15. AddPairs(start, v, w, IntersectOf) = g[N]
  BY <1>1, <1>2, <1>6, <1>11 DEF AddPairs, IntersectLoops
<1> QED
  BY <1>14, <1>15 DEF IsPairs, Z, V, W, start

\* The loops of Relation::Compose.
ComposePair(l, r) == [p \in l.conjs \X r.conjs |-> ComposeOf(p[1], p[2], l.in, r.in)]
ComposeLoops(g, start, l, r, vs, ws) ==
  g = [n \in 0 .. Len(vs) |->
         IF n = 0 THEN start
         ELSE AddAll(g[n - 1], [k \in DOMAIN ws |-> ComposeOf(vs[n], ws[k], l.in, r.in)])]

\* Compose gathers the pairs.
LEMMA ComposePairs ==
  ASSUME NEW l, NEW r, IsRaw(l), IsRaw(r), NEW a, NEW b, NEW S
  PROVE  IsPairs(AddPairs(Shape(a, b, S), l, r, LAMBDA c, d : ComposeOf(c, d, l.in, r.in)), a, b, S,
                 ComposePair(l, r), l.conjs, r.conjs)
<1> DEFINE V == l.conjs
           W == r.conjs
           Z == ComposePair(l, r)
           start == Shape(a, b, S)
<1>1. PICK vs : vs = InOrder(l)
  OBVIOUS
<1>2. PICK ws : ws = InOrder(r)
  OBVIOUS
<1>3. Lists(vs, V) /\ Lists(ws, W)
  BY <1>1, <1>2, InOrderLists
<1>4. PICK N \in Nat : N = Cardinality(V)
  BY <1>3 DEF Lists
<1>5. PICK K \in Nat : K = Cardinality(W)
  BY <1>3 DEF Lists
<1>6. Len(vs) = N /\ DOMAIN ws = 1 .. K /\ (\A i \in 1 .. N : vs[i] \in V) /\ (\A i \in 1 .. K : ws[i] \in W)
  BY <1>3, <1>4, <1>5, ListsSeq
<1>7. ASSUME NEW n \in 1 .. N
      PROVE  Row(Z, vs, ws, n, K) = [k \in DOMAIN ws |-> ComposeOf(vs[n], ws[k], l.in, r.in)]
  <2>1. \A k \in 1 .. K : <<vs[n], ws[k]>> \in V \X W
    BY <1>6
  <2>2. \A k \in 1 .. K : Z[<<vs[n], ws[k]>>] = ComposeOf(vs[n], ws[k], l.in, r.in)
    BY <2>1 DEF ComposePair
  <2> HIDE DEF Z
  <2> QED
    BY <1>6, <2>2 DEF Row
<1> HIDE DEF Z, start, V, W
<1> DEFINE A(g) == [n \in 0 .. N |-> IF n = 0 THEN start ELSE AddAll(g[n - 1], Row(Z, vs, ws, n, K))]
           B(g) == [n \in 0 .. N |-> IF n = 0 THEN start
                      ELSE AddAll(g[n - 1], [k \in DOMAIN ws |-> ComposeOf(vs[n], ws[k], l.in, r.in)])]
<1>8. ASSUME NEW g PROVE A(g) = B(g)
  <2>1. ASSUME NEW n \in 0 .. N
        PROVE  (IF n = 0 THEN start ELSE AddAll(g[n - 1], Row(Z, vs, ws, n, K)))
                 = (IF n = 0 THEN start
                    ELSE AddAll(g[n - 1], [k \in DOMAIN ws |-> ComposeOf(vs[n], ws[k], l.in, r.in)]))
    <3>1. CASE n = 0
      BY <3>1
    <3>2. CASE n # 0
      <4>1. n \in 1 .. N
        BY <3>2
      <4>2. Row(Z, vs, ws, n, K) = [k \in DOMAIN ws |-> ComposeOf(vs[n], ws[k], l.in, r.in)]
        BY <4>1, <1>7, Zenon
      <4> QED
        BY <4>2, Zenon
    <3> QED
      BY <3>1, <3>2
  <2> QED
    BY <2>1, Zenon
<1>9. \A g : Loops(g, start, Z, vs, ws, N, K) <=> ComposeLoops(g, start, l, r, vs, ws)
  <2> TAKE g
  <2>1. Loops(g, start, Z, vs, ws, N, K) <=> g = A(g)
    BY Zenon DEF Loops
  <2>2. ComposeLoops(g, start, l, r, vs, ws) <=> g = B(g)
    BY <1>6, Zenon DEF ComposeLoops
  <2>3. A(g) = B(g)
    BY <1>8
  <2> HIDE DEF A, B
  <2> QED
    BY <2>1, <2>2, <2>3
<1>10. \E g : ComposeLoops(g, start, l, r, vs, ws)
  <2>1. PICK g : Loops(g, start, Z, vs, ws, N, K)
    BY LoopsExist DEF start
  <2> QED
    BY <2>1, <1>9
<1>11. PICK g : g = CHOOSE f : ComposeLoops(f, start, l, r, vs, ws)
  OBVIOUS
<1>12. ComposeLoops(g, start, l, r, vs, ws)
  BY <1>10, <1>11, Zenon
<1>13. Loops(g, start, Z, vs, ws, N, K)
  BY <1>9, <1>12
<1>14. \E X : g[N] = Shape(a, b, X) /\ Paired(X, S, Z, V, W)
  BY <1>3, <1>4, <1>5, <1>13, LoopsFacts DEF start
<1>15. AddPairs(start, l, r, LAMBDA c, d : ComposeOf(c, d, l.in, r.in)) = g[N]
  BY <1>1, <1>2, <1>6, <1>11 DEF AddPairs, ComposeLoops
<1> QED
  BY <1>14, <1>15 DEF IsPairs, Z, V, W, start

\* The loops of Relation::Apply.
ApplyPair(r, s) == [p \in r.conjs \X s.conjs |-> ApplyOf(p[1], p[2])]
ApplyLoops(g, start, r, s, vs, ws) ==
  g = [n \in 0 .. Len(vs) |->
         IF n = 0 THEN start
         ELSE AddAll(g[n - 1], [k \in DOMAIN ws |-> ApplyOf(vs[n], ws[k])])]

\* Apply gathers the pairs.
LEMMA ApplyPairs ==
  ASSUME NEW r, NEW s, IsRaw(r), IsRaw(s), NEW a, NEW b, NEW S
  PROVE  IsPairs(AddPairs(Shape(a, b, S), r, s, ApplyOf), a, b, S,
                 ApplyPair(r, s), r.conjs, s.conjs)
<1> DEFINE V == r.conjs
           W == s.conjs
           Z == ApplyPair(r, s)
           start == Shape(a, b, S)
<1>1. PICK vs : vs = InOrder(r)
  OBVIOUS
<1>2. PICK ws : ws = InOrder(s)
  OBVIOUS
<1>3. Lists(vs, V) /\ Lists(ws, W)
  BY <1>1, <1>2, InOrderLists
<1>4. PICK N \in Nat : N = Cardinality(V)
  BY <1>3 DEF Lists
<1>5. PICK K \in Nat : K = Cardinality(W)
  BY <1>3 DEF Lists
<1>6. Len(vs) = N /\ DOMAIN ws = 1 .. K /\ (\A i \in 1 .. N : vs[i] \in V) /\ (\A i \in 1 .. K : ws[i] \in W)
  BY <1>3, <1>4, <1>5, ListsSeq
<1>7. ASSUME NEW n \in 1 .. N
      PROVE  Row(Z, vs, ws, n, K) = [k \in DOMAIN ws |-> ApplyOf(vs[n], ws[k])]
  <2>1. \A k \in 1 .. K : <<vs[n], ws[k]>> \in V \X W
    BY <1>6
  <2>2. \A k \in 1 .. K : Z[<<vs[n], ws[k]>>] = ApplyOf(vs[n], ws[k])
    BY <2>1 DEF ApplyPair
  <2> HIDE DEF Z
  <2> QED
    BY <1>6, <2>2 DEF Row
<1> HIDE DEF Z, start, V, W
<1> DEFINE A(g) == [n \in 0 .. N |-> IF n = 0 THEN start ELSE AddAll(g[n - 1], Row(Z, vs, ws, n, K))]
           B(g) == [n \in 0 .. N |-> IF n = 0 THEN start
                      ELSE AddAll(g[n - 1], [k \in DOMAIN ws |-> ApplyOf(vs[n], ws[k])])]
<1>8. ASSUME NEW g PROVE A(g) = B(g)
  <2>1. ASSUME NEW n \in 0 .. N
        PROVE  (IF n = 0 THEN start ELSE AddAll(g[n - 1], Row(Z, vs, ws, n, K)))
                 = (IF n = 0 THEN start
                    ELSE AddAll(g[n - 1], [k \in DOMAIN ws |-> ApplyOf(vs[n], ws[k])]))
    <3>1. CASE n = 0
      BY <3>1
    <3>2. CASE n # 0
      <4>1. n \in 1 .. N
        BY <3>2
      <4>2. Row(Z, vs, ws, n, K) = [k \in DOMAIN ws |-> ApplyOf(vs[n], ws[k])]
        BY <4>1, <1>7, Zenon
      <4> QED
        BY <4>2, Zenon
    <3> QED
      BY <3>1, <3>2
  <2> QED
    BY <2>1, Zenon
<1>9. \A g : Loops(g, start, Z, vs, ws, N, K) <=> ApplyLoops(g, start, r, s, vs, ws)
  <2> TAKE g
  <2>1. Loops(g, start, Z, vs, ws, N, K) <=> g = A(g)
    BY Zenon DEF Loops
  <2>2. ApplyLoops(g, start, r, s, vs, ws) <=> g = B(g)
    BY <1>6, Zenon DEF ApplyLoops
  <2>3. A(g) = B(g)
    BY <1>8
  <2> HIDE DEF A, B
  <2> QED
    BY <2>1, <2>2, <2>3
<1>10. \E g : ApplyLoops(g, start, r, s, vs, ws)
  <2>1. PICK g : Loops(g, start, Z, vs, ws, N, K)
    BY LoopsExist DEF start
  <2> QED
    BY <2>1, <1>9
<1>11. PICK g : g = CHOOSE f : ApplyLoops(f, start, r, s, vs, ws)
  OBVIOUS
<1>12. ApplyLoops(g, start, r, s, vs, ws)
  BY <1>10, <1>11, Zenon
<1>13. Loops(g, start, Z, vs, ws, N, K)
  BY <1>9, <1>12
<1>14. \E X : g[N] = Shape(a, b, X) /\ Paired(X, S, Z, V, W)
  BY <1>3, <1>4, <1>5, <1>13, LoopsFacts DEF start
<1>15. AddPairs(start, r, s, ApplyOf) = g[N]
  BY <1>1, <1>2, <1>6, <1>11 DEF AddPairs, ApplyLoops
<1> QED
  BY <1>14, <1>15 DEF IsPairs, Z, V, W, start

-----------------------------------------------------------------------------
(* Values: union, intersection, copy                                       *)

\* A value made of its parts.
LEMMA ShapeFacts ==
  ASSUME NEW a, NEW b, NEW S
  PROVE  /\ Shape(a, b, S).in = a /\ Shape(a, b, S).out = b /\ Shape(a, b, S).conjs = S
         /\ Shaped(Shape(a, b, S))
BY DEF Shape, Shaped

\* It is raw if its conjunctions are well-formed.
LEMMA ShapeRaw ==
  ASSUME NEW a \in Nat, NEW b \in Nat, NEW X, IsFiniteSet(X), \A c \in X : IsForm(c, a + b)
  PROVE  IsRaw(Shape(a, b, X))
<1>1. PICK v : v = Shape(a, b, X)
  OBVIOUS
<1>2. v.in = a /\ v.out = b /\ v.conjs = X /\ Shaped(v)
  BY <1>1, ShapeFacts
<1> QED
  BY <1>1, <1>2 DEF IsRaw, Shaped

\* It is a value if they are cleaned up.
LEMMA ShapeValue ==
  ASSUME NEW a \in Nat, NEW b \in Nat, NEW X, IsFiniteSet(X), \A c \in X : IsConj(c, a + b)
  PROVE  IsValue(Shape(a, b, X))
<1>1. PICK v : v = Shape(a, b, X)
  OBVIOUS
<1>2. v.in = a /\ v.out = b /\ v.conjs = X /\ Shaped(v)
  BY <1>1, ShapeFacts
<1> QED
  BY <1>1, <1>2 DEF IsValue, Shaped

\* Cleaning up a value made of its parts.
LEMMA CleanedValue ==
  ASSUME NEW a \in Nat, NEW b \in Nat, NEW X, IsFiniteSet(X), \A c \in X : IsForm(c, a + b)
  PROVE  /\ IsValue(CleanUp(Shape(a, b, X)))
         /\ CleanUp(Shape(a, b, X)).in = a /\ CleanUp(Shape(a, b, X)).out = b
<1>1. PICK v : v = Shape(a, b, X)
  OBVIOUS
<1>2. v.in = a /\ v.out = b /\ IsRaw(v)
  BY <1>1, ShapeFacts, ShapeRaw
<1> QED
  BY <1>1, <1>2, CleanUpValue

\* It keeps the members where no call hides a coefficient.
LEMMA CleanedMember ==
  ASSUME NEW a \in Nat, NEW b \in Nat, NEW X, IsFiniteSet(X), \A c \in X : IsForm(c, a + b),
         \A c \in X : ~ HidesCoefficient(c), NEW t, NEW m, Point(t, 1 .. a + b, m)
  PROVE  Member(t, CleanUp(Shape(a, b, X)), m) <=> \E c \in X : Satisfies(t, c, m)
<1>1. PICK v : v = Shape(a, b, X)
  OBVIOUS
<1>2. v.in = a /\ v.out = b /\ v.conjs = X /\ IsRaw(v)
  BY <1>1, ShapeFacts, ShapeRaw
<1>3. Member(t, CleanUp(v), m) <=> Member(t, v, m)
  BY <1>2, CleanUpMember
<1> QED
  BY <1>1, <1>2, <1>3 DEF Member

AllHave(v) == \A c \in v.conjs : hasConstraints(c)

\* What Union makes.
LEMMA UnionFacts ==
  ASSUME NEW v, NEW w, IsValue(v), IsValue(w), SameArities(v, w)
  PROVE  /\ IsValue(Union(v, w)) /\ Union(v, w).in = v.in /\ Union(v, w).out = v.out
         /\ \A t, m : Member(t, Union(v, w), m) => Member(t, v, m) \/ Member(t, w, m)
         /\ AllHave(v) /\ AllHave(w) =>
              \A t, m : Member(t, v, m) \/ Member(t, w, m) => Member(t, Union(v, w), m)
<1>1. IsRaw(v) /\ IsRaw(w)
  BY ValueRaw
<1>2. PICK X : Union(v, w) = Shape(v.in, v.out, X) /\ Keeps(X, v.conjs \cup w.conjs)
  BY <1>1, UnionShape
<1>3. PICK u : u = Union(v, w)
  OBVIOUS
<1>4. u.in = v.in /\ u.out = v.out /\ u.conjs = X
  BY <1>2, <1>3, ShapeFacts
<1>5. v.in \in Nat /\ v.out \in Nat /\ IsFiniteSet(X) /\ \A c \in X : IsConj(c, v.in + v.out)
  BY <1>2 DEF IsValue, SameArities, Keeps
<1>6. IsValue(u)
  BY <1>2, <1>3, <1>5, ShapeValue
<1>7. \A t, m : Member(t, u, m) => Member(t, v, m) \/ Member(t, w, m)
  BY <1>2, <1>4 DEF Member, Keeps
<1>8. AllHave(v) /\ AllHave(w) => \A t, m : Member(t, v, m) \/ Member(t, w, m) => Member(t, u, m)
  BY <1>2, <1>4 DEF Member, Keeps, AllHave
<1> QED
  BY <1>3, <1>4, <1>6, <1>7, <1>8

\* What Intersect makes.
LEMMA IntersectShape ==
  ASSUME NEW v, NEW w, IsValue(v), IsValue(w), SameArities(v, w)
  PROVE  \E S, X : /\ Intersect(v, w) = Shape(v.in, v.out, X)
                   /\ Paired(X, S, IntersectPair(v, w), v.conjs, w.conjs)
                   /\ IsFiniteSet(S) /\ Initial(S) /\ \A c \in S : IsConj(c, v.in + v.out)
<1> DEFINE S == IF IsSet(v) THEN {True(v.out)} ELSE {}
<1>0. v.in \in Nat /\ v.out \in Nat
  BY DEF IsValue
<1>1. (IF IsSet(v) THEN NewSet(v.out) ELSE NewRelation(v.in, v.out)) = Shape(v.in, v.out, S)
  BY DEF NewSet, NewRelation, Shape, IsSet
<1>2. IsFiniteSet(S)
  BY FS_EmptySet, FS_Singleton
<1>3. Initial(S)
  BY <1>0, TrueFacts DEF Initial
<1>4. \A c \in S : IsConj(c, v.in + v.out)
  <2>1. IsSet(v) => v.in + v.out = v.out
    BY <1>0 DEF IsSet
  <2> QED
    BY <1>0, <2>1, TrueFacts
<1> HIDE DEF S
<1>5. Intersect(v, w) = AddPairs(Shape(v.in, v.out, S), v, w, IntersectOf)
  BY <1>1 DEF Intersect
<1>6. IsRaw(v) /\ IsRaw(w)
  BY ValueRaw
<1>7. IsPairs(Intersect(v, w), v.in, v.out, S, IntersectPair(v, w), v.conjs, w.conjs)
  BY <1>5, <1>6, IntersectPairs
<1> QED
  BY <1>2, <1>3, <1>4, <1>7 DEF IsPairs

\* Intersect gives a value; it loses no tuple, and of single conjunctions
\* gains none.
LEMMA IntersectValue ==
  ASSUME NEW v, NEW w, IsValue(v), IsValue(w), SameArities(v, w)
  PROVE  /\ IsValue(Intersect(v, w)) /\ Intersect(v, w).in = v.in /\ Intersect(v, w).out = v.out
         /\ AllHave(v) /\ AllHave(w) =>
              \A t, m : Member(t, v, m) /\ Member(t, w, m) => Member(t, Intersect(v, w), m)
         /\ \A c, d : v.conjs = {c} /\ w.conjs = {d} /\ d.decl = Variables(v.in + v.out) =>
              \A t, m : Member(t, Intersect(v, w), m) => Member(t, v, m) /\ Member(t, w, m)
<1> DEFINE Z == IntersectPair(v, w)
           n == v.in + v.out
<1>0. v.in \in Nat /\ v.out \in Nat /\ n \in Nat /\ w.in = v.in /\ w.out = v.out
  BY DEF IsValue, SameArities
<1>1. PICK S, X : /\ Intersect(v, w) = Shape(v.in, v.out, X) /\ Paired(X, S, Z, v.conjs, w.conjs)
                  /\ IsFiniteSet(S) /\ Initial(S) /\ \A c \in S : IsConj(c, n)
  BY IntersectShape
<1>2. \A c \in v.conjs, d \in w.conjs : IsConj(c, n) /\ IsConj(d, n)
  BY DEF IsValue, SameArities
<1>3. \A c \in v.conjs, d \in w.conjs : <<c, d>> \in v.conjs \X w.conjs /\ Z[<<c, d>>] = IntersectOf(c, d)
  BY DEF IntersectPair
<1> HIDE DEF Z, n
<1>4. ASSUME NEW c \in v.conjs, NEW d \in w.conjs
      PROVE  /\ IsConj(Z[<<c, d>>], n)
             /\ hasConstraints(Z[<<c, d>>]) <=> hasConstraints(c) \/ hasConstraints(d)
             /\ \A t, m : Satisfies(t, Z[<<c, d>>], m) <=> Satisfies(t, c, m) /\ Holds(t, d, m)
  <2>1. Z[<<c, d>>] = IntersectOf(c, d) /\ IsConj(c, n) /\ IsConj(d, n)
    BY <1>2, <1>3
  <2> QED
    BY <1>0, <2>1, IntersectFacts
<1>5. \A p \in v.conjs \X w.conjs : p = <<p[1], p[2]>> /\ p[1] \in v.conjs /\ p[2] \in w.conjs
  OBVIOUS
<1>6. \A c \in X : IsConj(c, n)
  <2>1. \A p \in v.conjs \X w.conjs : IsConj(Z[p], n)
    BY <1>4, <1>5
  <2> QED
    BY <1>1, <2>1 DEF Paired
<1>7. PICK u : u = Intersect(v, w)
  OBVIOUS
<1>8. u.in = v.in /\ u.out = v.out /\ u.conjs = X
  BY <1>1, <1>7, ShapeFacts
<1>9. IsValue(u)
  BY <1>0, <1>1, <1>6, <1>7, ShapeValue DEF Paired, n
<1>10. ASSUME AllHave(v), AllHave(w), NEW t, NEW m, Member(t, v, m), Member(t, w, m)
       PROVE  Member(t, u, m)
  <2>1. PICK c \in v.conjs : Satisfies(t, c, m)
    BY <1>10 DEF Member
  <2>2. PICK d \in w.conjs : Satisfies(t, d, m)
    BY <1>10 DEF Member
  <2>3. Satisfies(t, Z[<<c, d>>], m)
    BY <1>4, <2>1, <2>2, SatisfiesParts
  <2>4. \A p \in v.conjs \X w.conjs : hasConstraints(Z[p])
    BY <1>4, <1>5, <1>10 DEF AllHave
  <2>5. Z[<<c, d>>] \in X
    BY <1>1, <1>3, <2>4 DEF Paired
  <2> QED
    BY <1>8, <2>3, <2>5 DEF Member
<1>11. ASSUME NEW c, NEW d, v.conjs = {c}, w.conjs = {d}, d.decl = Variables(v.in + v.out),
              NEW t, NEW m, Member(t, u, m)
       PROVE  Member(t, v, m) /\ Member(t, w, m)
  <2>1. X = {Z[<<c, d>>]}
    BY <1>1, <1>11 DEF Paired
  <2>2. Satisfies(t, Z[<<c, d>>], m)
    BY <1>8, <1>11, <2>1 DEF Member
  <2>3. Satisfies(t, c, m) /\ Holds(t, d, m)
    BY <1>4, <1>11, <2>2
  <2>4. Declares(t, d)
    BY <1>0, <1>11, VariablesDecl DEF n
  <2>5. Satisfies(t, d, m)
    BY <2>3, <2>4, SatisfiesParts
  <2> QED
    BY <1>11, <2>3, <2>5 DEF Member
<1> QED
  BY <1>7, <1>8, <1>9, <1>10, <1>11

\* What the copy constructor makes.
LEMMA CopyFacts ==
  ASSUME NEW v, IsValue(v)
  PROVE  IsValue(Copy(v)) /\ Copy(v).in = v.in /\ Copy(v).out = v.out
<1>1. PICK X : AddAll([v EXCEPT !.conjs = {}], InOrder(v)) = Shape(v.in, v.out, X) /\ Keeps(X, v.conjs)
  BY ValueRaw, CopyListed
<1>2. Copy(v) = CleanUp(Shape(v.in, v.out, X))
  BY <1>1 DEF Copy
<1>3. v.in \in Nat /\ v.out \in Nat /\ IsFiniteSet(X) /\ \A c \in X : IsForm(c, v.in + v.out)
  BY <1>1, ConjForm DEF IsValue, Keeps
<1> QED
  BY <1>2, <1>3, CleanedValue

\* A copy has the members of its original.
LEMMA CopyMember ==
  ASSUME NEW v, IsValue(v), \A c \in v.conjs : ~ HidesCoefficient(c),
         NEW t, NEW m, Point(t, 1 .. v.in + v.out, m)
  PROVE  /\ Member(t, Copy(v), m) => Member(t, v, m)
         /\ AllHave(v) /\ Member(t, v, m) => Member(t, Copy(v), m)
<1>1. PICK X : AddAll([v EXCEPT !.conjs = {}], InOrder(v)) = Shape(v.in, v.out, X) /\ Keeps(X, v.conjs)
  BY ValueRaw, CopyListed
<1>2. Copy(v) = CleanUp(Shape(v.in, v.out, X))
  BY <1>1 DEF Copy
<1>3. v.in \in Nat /\ v.out \in Nat /\ IsFiniteSet(X) /\ \A c \in X : IsForm(c, v.in + v.out)
  BY <1>1, ConjForm DEF IsValue, Keeps
<1>4. \A c \in X : ~ HidesCoefficient(c)
  BY <1>1 DEF Keeps
<1>5. Member(t, Copy(v), m) <=> \E c \in X : Satisfies(t, c, m)
  BY <1>2, <1>3, <1>4, CleanedMember
<1> QED
  BY <1>1, <1>5 DEF Member, Keeps, AllHave

-----------------------------------------------------------------------------
(* Values: inverse, composition, image                                     *)

\* What Inverse makes.
LEMMA InverseListedForms ==
  ASSUME NEW v, IsValue(v)
  PROVE  \E X : /\ Inverted(v) = CleanUp(Shape(v.out, v.in, X)) /\ Keeps(X, Inverses1(v))
                /\ IsFiniteSet(X) /\ \A c \in X : IsForm(c, v.out + v.in)
<1>1. PICK X : Inverted1(v) = Shape(v.out, v.in, X) /\ Keeps(X, Inverses1(v))
  BY ValueRaw, InverseListed
<1>2. Inverted(v) = CleanUp(Inverted1(v))
  BY DEF Inverted, Inverted1
<1>3. v.in \in Nat /\ v.out \in Nat /\ \A c \in v.conjs : IsForm(c, v.in + v.out)
  BY ConjForm DEF IsValue
<1>4. \A c \in v.conjs : IsForm(InverseOf(c, v.in), v.out + v.in)
  BY <1>3, InverseShape
<1>5. \A c \in X : IsForm(c, v.out + v.in)
  BY <1>1, <1>4 DEF Keeps, Inverses1
<1> QED
  BY <1>1, <1>2, <1>5 DEF Keeps

\* An inverse is a value, its arities swapped.
LEMMA InverseFacts ==
  ASSUME NEW v, IsValue(v)
  PROVE  IsValue(Inverted(v)) /\ Inverted(v).in = v.out /\ Inverted(v).out = v.in
<1>1. PICK X : /\ Inverted(v) = CleanUp(Shape(v.out, v.in, X)) /\ Keeps(X, Inverses1(v))
               /\ IsFiniteSet(X) /\ \A c \in X : IsForm(c, v.out + v.in)
  BY InverseListedForms
<1>2. v.in \in Nat /\ v.out \in Nat
  BY DEF IsValue
<1> QED
  BY <1>1, <1>2, CleanedValue

\* An inverse has constraints where the conjunction has.
LEMMA InverseHas ==
  ASSUME NEW ni \in Nat, NEW no \in Nat, NEW c, IsForm(c, ni + no), hasConstraints(c)
  PROVE  hasConstraints(InverseOf(c, ni))
<1> DEFINE f == BackLoc(ni, no)
           E == {normalizeForEquality(remapTupleVars(e, f)) : e \in c.eqs}
           I == {remapTupleVars(e, f) : e \in c.ineqs}
<1>1. PICK b : b = remapConstraints(c, f)
  OBVIOUS
<1>2. b = [decl |-> c.decl, eqs |-> E, ineqs |-> I]
  BY <1>1, RemapShape DEF IsForm
<1>3. E # {} \/ I # {}
  BY DEF hasConstraints
<1> HIDE DEF E, I
<1>4. b.eqs # {} \/ b.ineqs # {}
  BY <1>2, <1>3
<1>5. InverseOf(c, ni).eqs = b.eqs /\ InverseOf(c, ni).ineqs = b.ineqs
  BY <1>1, InverseShape
<1> QED
  BY <1>4, <1>5 DEF hasConstraints

\* It has the swapped tuples.
LEMMA InverseMember ==
  ASSUME NEW v, IsValue(v), \A c \in v.conjs : ~ HidesCoefficient(InverseOf(c, v.in)),
         NEW m, IsMeaning(m), NEW t \in [1 .. v.out + v.in -> Int]
  PROVE  /\ Member(t, Inverted(v), m) => Member(Swap(t, v.out), v, m)
         /\ AllHave(v) /\ Member(Swap(t, v.out), v, m) => Member(t, Inverted(v), m)
<1>1. PICK X : /\ Inverted(v) = CleanUp(Shape(v.out, v.in, X)) /\ Keeps(X, Inverses1(v))
               /\ IsFiniteSet(X) /\ \A c \in X : IsForm(c, v.out + v.in)
  BY InverseListedForms
<1>2. v.in \in Nat /\ v.out \in Nat /\ \A c \in v.conjs : IsForm(c, v.in + v.out)
  BY ConjForm DEF IsValue
<1>3. \A c \in X : ~ HidesCoefficient(c)
  BY <1>1 DEF Keeps, Inverses1
<1>4. Point(t, 1 .. v.out + v.in, m)
  BY DEF Point, IntsOn
<1>5. Member(t, Inverted(v), m) <=> \E c \in X : Satisfies(t, c, m)
  BY <1>1, <1>2, <1>3, <1>4, CleanedMember
<1>6. \A c \in v.conjs : Satisfies(t, InverseOf(c, v.in), m) <=> Satisfies(Swap(t, v.out), c, m)
  <2> TAKE c \in v.conjs
  <2>1. PICK ni \in Nat : ni = v.in
    BY <1>2
  <2>2. PICK no \in Nat : no = v.out
    BY <1>2
  <2>3. IsForm(c, ni + no) /\ t \in [1 .. no + ni -> Int]
    BY <1>2, <2>1, <2>2
  <2>4. Satisfies(t, InverseOf(c, ni), m) <=> Satisfies(Swap(t, no), c, m)
    BY <2>3, InverseSatisfies
  <2> QED
    BY <2>1, <2>2, <2>4
<1>7. Member(t, Inverted(v), m) => Member(Swap(t, v.out), v, m)
  BY <1>1, <1>5, <1>6 DEF Member, Keeps, Inverses1
<1>8. ASSUME AllHave(v), Member(Swap(t, v.out), v, m) PROVE Member(t, Inverted(v), m)
  <2>1. PICK c \in v.conjs : Satisfies(Swap(t, v.out), c, m)
    BY <1>8 DEF Member
  <2>2. \A d \in Inverses1(v) : hasConstraints(d)
    BY <1>2, <1>8, InverseHas DEF Inverses1, AllHave
  <2>3. InverseOf(c, v.in) \in X
    BY <1>1, <2>2 DEF Keeps, Inverses1
  <2> QED
    BY <1>5, <1>6, <2>1, <2>3
<1> QED
  BY <1>7, <1>8

\* What Compose makes.
LEMMA ComposeConj ==
  ASSUME NEW l, NEW r, IsValue(l), IsValue(r), CanCompose(l, r), NEW c \in l.conjs, NEW d \in r.conjs
  PROVE  /\ l.in \in Nat /\ l.out \in Nat /\ r.in \in Nat
         /\ IsForm(c, l.in + l.out) /\ IsForm(d, r.in + l.in)
         /\ Eliminable(Composition(c, d, l.in, r.in))
         /\ IsConj(ComposeOf(c, d, l.in, r.in), r.in + l.out)
<1>1. /\ l.in \in Nat /\ l.out \in Nat /\ r.in \in Nat
      /\ IsForm(c, l.in + l.out) /\ IsForm(d, r.in + l.in)
  BY ConjForm DEF IsValue, CanCompose
<1>2. PICK x : x = Composition(c, d, l.in, r.in)
  OBVIOUS
<1>3. Eliminable(x)
  BY <1>2 DEF CanCompose
<1>4. IsElimination(x, r.in + l.out, l.in)
  BY <1>1, <1>2, CompositionForm
<1>5. IsConj(Closing(x), r.in + l.out)
  <2>1. r.in + l.out \in Nat
    BY <1>1
  <2> QED
    BY <2>1, <1>1, <1>3, <1>4, ClosingConj
<1> QED
  BY <1>1, <1>2, <1>3, <1>5 DEF Closing, ComposeOf

\* Compose before it cleans up.
LEMMA ComposeShape ==
  ASSUME NEW l, NEW r, IsValue(l), IsValue(r), CanCompose(l, r)
  PROVE  \E X : /\ Compose(l, r) = CleanUp(Shape(r.in, l.out, X)) /\ IsFiniteSet(X)
                /\ \A c \in X : IsForm(c, r.in + l.out)
                /\ \A c, d : l.conjs = {c} /\ r.conjs = {d} => X = {ComposeOf(c, d, l.in, r.in)}
<1> DEFINE Z == ComposePair(l, r)
<1>1. NewRelation(r.in, l.out) = Shape(r.in, l.out, {})
  BY DEF NewRelation, Shape
<1>2. IsRaw(l) /\ IsRaw(r)
  BY ValueRaw
<1>3. PICK y : y = AddPairs(Shape(r.in, l.out, {}), l, r, LAMBDA c, d : ComposeOf(c, d, l.in, r.in))
  OBVIOUS
<1>4. IsPairs(y, r.in, l.out, {}, Z, l.conjs, r.conjs)
  BY <1>2, <1>3, ComposePairs
<1>5. PICK X : y = Shape(r.in, l.out, X) /\ Paired(X, {}, Z, l.conjs, r.conjs)
  BY <1>4 DEF IsPairs
<1>6. Compose(l, r) = CleanUp(y)
  BY <1>1, <1>3 DEF Compose
<1>7. \A c \in l.conjs, d \in r.conjs : <<c, d>> \in l.conjs \X r.conjs /\ Z[<<c, d>>] = ComposeOf(c, d, l.in, r.in)
  BY DEF ComposePair
<1> HIDE DEF Z
<1>8. \A c \in l.conjs, d \in r.conjs : IsForm(Z[<<c, d>>], r.in + l.out)
  BY <1>7, ComposeConj, ConjForm
<1>9. \A p \in l.conjs \X r.conjs : IsForm(Z[p], r.in + l.out)
  <2>1. \A p \in l.conjs \X r.conjs : p = <<p[1], p[2]>> /\ p[1] \in l.conjs /\ p[2] \in r.conjs
    OBVIOUS
  <2> QED
    BY <1>8, <2>1
<1>10. \A c \in X : IsForm(c, r.in + l.out)
  BY <1>5, <1>9 DEF Paired
<1>11. IsFiniteSet(X)
  BY <1>5, FS_EmptySet DEF Paired
<1>12. ASSUME NEW c, NEW d, l.conjs = {c}, r.conjs = {d} PROVE X = {ComposeOf(c, d, l.in, r.in)}
  <2>1. X = {Z[<<c, d>>]}
    BY <1>5, <1>12 DEF Paired, Initial
  <2> QED
    BY <1>7, <1>12, <2>1
<1> QED
  BY <1>5, <1>6, <1>10, <1>11, <1>12

\* A composition is a value.
LEMMA ComposeFacts ==
  ASSUME NEW l, NEW r, IsValue(l), IsValue(r), CanCompose(l, r)
  PROVE  IsValue(Compose(l, r)) /\ Compose(l, r).in = r.in /\ Compose(l, r).out = l.out
<1>1. PICK X : /\ Compose(l, r) = CleanUp(Shape(r.in, l.out, X)) /\ IsFiniteSet(X)
               /\ \A c \in X : IsForm(c, r.in + l.out)
  BY ComposeShape
<1>2. r.in \in Nat /\ l.out \in Nat
  BY DEF IsValue
<1> QED
  BY <1>1, <1>2, CleanedValue

\* Of single conjunctions.
LEMMA ComposeMember ==
  ASSUME NEW l, NEW r, IsValue(l), IsValue(r), CanCompose(l, r), NEW c, NEW d,
         l.conjs = {c}, r.conjs = {d}, ~ HidesCoefficient(ComposeOf(c, d, l.in, r.in)),
         NEW t, NEW m, Point(t, 1 .. r.in + l.out, m)
  PROVE  Member(t, Compose(l, r), m) <=> Satisfies(t, ComposeOf(c, d, l.in, r.in), m)
<1>1. PICK X : /\ Compose(l, r) = CleanUp(Shape(r.in, l.out, X)) /\ IsFiniteSet(X)
               /\ \A b \in X : IsForm(b, r.in + l.out)
               /\ X = {ComposeOf(c, d, l.in, r.in)}
  BY ComposeShape
<1>2. r.in \in Nat /\ l.out \in Nat
  BY DEF IsValue
<1>3. \A b \in X : ~ HidesCoefficient(b)
  BY <1>1
<1>4. Member(t, Compose(l, r), m) <=> \E b \in X : Satisfies(t, b, m)
  BY <1>1, <1>2, <1>3, CleanedMember
<1> QED
  BY <1>1, <1>4

\* What Apply makes.
LEMMA ApplyConj ==
  ASSUME NEW r, NEW s, IsValue(r), IsValue(s), CanApply(r, s), IsSet(s),
         NEW c \in r.conjs, NEW d \in s.conjs
  PROVE  /\ r.in \in Nat /\ r.out \in Nat
         /\ IsForm(c, r.in + r.out) /\ IsForm(d, r.in)
         /\ Eliminable(Image(c, d)) /\ IsConj(ApplyOf(c, d), r.out)
<1>1. r.in \in Nat /\ r.out \in Nat /\ IsForm(c, r.in + r.out) /\ IsForm(d, r.in)
  <2>1. s.in + s.out = r.in
    BY DEF IsValue, IsSet, CanApply
  <2> QED
    BY <2>1, ConjForm DEF IsValue
<1>2. PICK x : x = Image(c, d)
  OBVIOUS
<1>3. Eliminable(x)
  BY <1>2 DEF CanApply
<1>4. IsElimination(x, r.out, r.in)
  BY <1>1, <1>2, ImageForm
<1>5. IsConj(Closing(x), r.out)
  BY <1>1, <1>3, <1>4, ClosingConj
<1> QED
  BY <1>1, <1>2, <1>3, <1>5 DEF Closing, ApplyOf

\* Apply before it cleans up.
LEMMA ApplyShape ==
  ASSUME NEW r, NEW s, IsValue(r), IsValue(s), CanApply(r, s), IsSet(s)
  PROVE  \E X : /\ Apply(r, s) = CleanUp(Shape(0, r.out, X)) /\ IsFiniteSet(X)
                /\ \A c \in X : IsForm(c, r.out)
                /\ \A c, d : r.conjs = {c} /\ s.conjs = {d} => X = {ApplyOf(c, d)}
<1> DEFINE Z == ApplyPair(r, s)
           S == {True(r.out)}
<1>0. r.out \in Nat
  BY DEF IsValue
<1>1. NewSet(r.out) = Shape(0, r.out, S)
  BY DEF NewSet, Shape
<1>2. IsRaw(r) /\ IsRaw(s)
  BY ValueRaw
<1>13. IsFiniteSet(S) /\ Initial(S) /\ \A c \in S : IsForm(c, r.out)
  BY <1>0, TrueFacts, ConjForm, FS_Singleton DEF Initial
<1> HIDE DEF S
<1>3. PICK y : y = AddPairs(Shape(0, r.out, S), r, s, ApplyOf)
  OBVIOUS
<1>4. IsPairs(y, 0, r.out, S, Z, r.conjs, s.conjs)
  BY <1>2, <1>3, ApplyPairs
<1>5. PICK X : y = Shape(0, r.out, X) /\ Paired(X, S, Z, r.conjs, s.conjs)
  BY <1>4 DEF IsPairs
<1>6. Apply(r, s) = CleanUp(y)
  BY <1>1, <1>3 DEF Apply
<1>7. \A c \in r.conjs, d \in s.conjs : <<c, d>> \in r.conjs \X s.conjs /\ Z[<<c, d>>] = ApplyOf(c, d)
  BY DEF ApplyPair
<1> HIDE DEF Z
<1>8. \A c \in r.conjs, d \in s.conjs : IsForm(Z[<<c, d>>], r.out)
  BY <1>7, ApplyConj, ConjForm
<1>9. \A p \in r.conjs \X s.conjs : IsForm(Z[p], r.out)
  <2>1. \A p \in r.conjs \X s.conjs : p = <<p[1], p[2]>> /\ p[1] \in r.conjs /\ p[2] \in s.conjs
    OBVIOUS
  <2> QED
    BY <1>8, <2>1
<1>10. \A c \in X : IsForm(c, r.out)
  BY <1>5, <1>9, <1>13 DEF Paired
<1>11. IsFiniteSet(X)
  BY <1>5, <1>13 DEF Paired
<1>12. ASSUME NEW c, NEW d, r.conjs = {c}, s.conjs = {d} PROVE X = {ApplyOf(c, d)}
  <2>1. X = {Z[<<c, d>>]}
    BY <1>5, <1>12, <1>13 DEF Paired
  <2> QED
    BY <1>7, <1>12, <2>1
<1> QED
  BY <1>5, <1>6, <1>10, <1>11, <1>12

\* An image is a value.
LEMMA ApplyFacts ==
  ASSUME NEW r, NEW s, IsValue(r), IsValue(s), CanApply(r, s), IsSet(s)
  PROVE  IsValue(Apply(r, s)) /\ Apply(r, s).in = 0 /\ Apply(r, s).out = r.out
<1>1. PICK X : /\ Apply(r, s) = CleanUp(Shape(0, r.out, X)) /\ IsFiniteSet(X)
               /\ \A c \in X : IsForm(c, r.out)
  BY ApplyShape
<1>2. r.out \in Nat /\ 0 + r.out = r.out
  BY DEF IsValue
<1>3. \A c \in X : IsForm(c, 0 + r.out)
  BY <1>1, <1>2
<1> QED
  BY <1>1, <1>2, <1>3, CleanedValue

\* Of single conjunctions.
LEMMA ApplyMember ==
  ASSUME NEW r, NEW s, IsValue(r), IsValue(s), CanApply(r, s), IsSet(s), NEW c, NEW d,
         r.conjs = {c}, s.conjs = {d}, ~ HidesCoefficient(ApplyOf(c, d)),
         NEW t, NEW m, Point(t, 1 .. r.out, m)
  PROVE  Member(t, Apply(r, s), m) <=> Satisfies(t, ApplyOf(c, d), m)
<1>1. PICK X : /\ Apply(r, s) = CleanUp(Shape(0, r.out, X)) /\ IsFiniteSet(X)
               /\ \A b \in X : IsForm(b, r.out)
               /\ X = {ApplyOf(c, d)}
  BY ApplyShape
<1>2. r.out \in Nat /\ 0 + r.out = r.out
  BY DEF IsValue
<1>3. \A b \in X : ~ HidesCoefficient(b)
  BY <1>1
<1>5. (\A b \in X : IsForm(b, 0 + r.out)) /\ Point(t, 1 .. 0 + r.out, m)
  BY <1>1, <1>2
<1>4. Member(t, Apply(r, s), m) <=> \E b \in X : Satisfies(t, b, m)
  BY <1>1, <1>2, <1>3, <1>5, CleanedMember
<1> QED
  BY <1>1, <1>4

-----------------------------------------------------------------------------
(* The invariant of the client's operations                                *)

\* The value held is what the last operation makes of the one before, its
\* call having met its conditions.
Operated ==
  \/ op = <<"New">>
  \/ \E w : op = <<"Union", w>> /\ IsValue(w) /\ SameArities(prev, w) /\ cur = Union(prev, w)
  \/ \E w : op = <<"Intersect", w>> /\ IsValue(w) /\ SameArities(prev, w) /\ cur = Intersect(prev, w)
  \/ op = <<"Inverse", prev>> /\ cur = Inverted(prev)
  \/ op = <<"Copy", prev>> /\ cur = Copy(prev)
  \/ \E w : op = <<"Compose", w>> /\ IsValue(w) /\ CanCompose(prev, w) /\ cur = Compose(prev, w)
  \/ \E w : op = <<"Apply", w>> /\ IsValue(w) /\ IsSet(prev) /\ CanApply(w, prev) /\ cur = Apply(w, prev)

AlgebraInv == TypeOK /\ IsValue(prev) /\ Operated

\* The client starts with a value of its library.
LEMMA AlgebraInit == Init => AlgebraInv
BY RelationsConstants DEF Init, AlgebraInv, TypeOK, Operated

\* Every operation makes a value of values.
LEMMA AlgebraNext == AlgebraInv /\ [Next]_vars => AlgebraInv'
<1> SUFFICES ASSUME AlgebraInv, [Next]_vars PROVE AlgebraInv'
  OBVIOUS
<1>0. ops \in 0 .. MaxOps /\ MaxOps \in Nat /\ IsValue(cur) /\ \A w \in Library : IsValue(w)
  BY RelationsConstants DEF AlgebraInv, TypeOK
<1>1. ASSUME NEW w \in Library, DoUnion(w) PROVE AlgebraInv'
  <2>1. /\ SameArities(cur, w) /\ ops' \in 0 .. MaxOps
        /\ prev' = cur /\ op' = <<"Union", w>> /\ cur' = Union(cur, w)
    BY <1>0, <1>1 DEF DoUnion, Did
  <2>2. IsValue(Union(cur, w))
    BY <1>0, <2>1, UnionFacts
  <2> QED
    BY <1>0, <2>1, <2>2 DEF AlgebraInv, TypeOK, Operated
<1>2. ASSUME NEW w \in Library, DoIntersect(w) PROVE AlgebraInv'
  <2>1. /\ SameArities(cur, w) /\ ops' \in 0 .. MaxOps
        /\ prev' = cur /\ op' = <<"Intersect", w>> /\ cur' = Intersect(cur, w)
    BY <1>0, <1>2 DEF DoIntersect, Did
  <2>2. IsValue(Intersect(cur, w))
    BY <1>0, <2>1, IntersectValue
  <2> QED
    BY <1>0, <2>1, <2>2 DEF AlgebraInv, TypeOK, Operated
<1>3. ASSUME NEW w \in Library, DoCompose(w) PROVE AlgebraInv'
  <2>1. /\ CanCompose(cur, w) /\ ops' \in 0 .. MaxOps
        /\ prev' = cur /\ op' = <<"Compose", w>> /\ cur' = Compose(cur, w)
    BY <1>0, <1>3 DEF DoCompose, Did
  <2>2. IsValue(Compose(cur, w))
    BY <1>0, <2>1, ComposeFacts
  <2> QED
    BY <1>0, <2>1, <2>2 DEF AlgebraInv, TypeOK, Operated
<1>4. ASSUME NEW w \in Library, DoApply(w) PROVE AlgebraInv'
  <2>1. /\ IsSet(cur) /\ CanApply(w, cur) /\ ops' \in 0 .. MaxOps
        /\ prev' = cur /\ op' = <<"Apply", w>> /\ cur' = Apply(w, cur)
    BY <1>0, <1>4 DEF DoApply, Did
  <2>2. IsValue(Apply(w, cur))
    BY <1>0, <2>1, ApplyFacts
  <2> QED
    BY <1>0, <2>1, <2>2 DEF AlgebraInv, TypeOK, Operated
<1>5. ASSUME DoInverse PROVE AlgebraInv'
  <2>1. ops' \in 0 .. MaxOps /\ prev' = cur /\ op' = <<"Inverse", cur>> /\ cur' = Inverted(cur)
    BY <1>0, <1>5 DEF DoInverse, Did
  <2>2. IsValue(Inverted(cur))
    BY <1>0, InverseFacts
  <2> QED
    BY <1>0, <2>1, <2>2 DEF AlgebraInv, TypeOK, Operated
<1>6. ASSUME DoCopy PROVE AlgebraInv'
  <2>1. ops' \in 0 .. MaxOps /\ prev' = cur /\ op' = <<"Copy", cur>> /\ cur' = Copy(cur)
    BY <1>0, <1>6 DEF DoCopy, Did
  <2>2. IsValue(Copy(cur))
    BY <1>0, CopyFacts
  <2> QED
    BY <1>0, <2>1, <2>2 DEF AlgebraInv, TypeOK, Operated
<1>7. ASSUME UNCHANGED vars PROVE AlgebraInv'
  BY <1>7 DEF AlgebraInv, TypeOK, Operated, vars
<1> QED
  BY <1>1, <1>2, <1>3, <1>4, <1>5, <1>6, <1>7 DEF Next

\* So the invariant holds throughout.
LEMMA AlgebraAlways == Spec => []AlgebraInv
BY AlgebraInit, AlgebraNext, PTL DEF Spec

\* TypeOK: after any sequence of Union, Intersect, Inverse, Compose, Apply and
\* copies, with whatever operands the calls accept, every constraint names
\* declared locations only, so that no variable that Compose or Apply
\* eliminates survives, and cleanUp leaves neither 0 = 0 nor an equality of the
\* wrong sign.
THEOREM ValuesAreWellFormed == Spec => []TypeOK
<1>1. AlgebraInv => TypeOK
  BY DEF AlgebraInv
<1> QED
  BY <1>1, AlgebraAlways, PTL

\* FunctionsAreFunctions.
LEMMA FunctionsDetermine == AlgebraInv => FunctionsAreFunctions
<1> SUFFICES ASSUME AlgebraInv, NEW c \in cur.conjs, NEW m \in Meanings, Quiet(c)
    PROVE  LET members == {t \in Tuples(cur.in + cur.out) : Satisfies(t, c, m)}
               agree(t, u, S) == \A i \in S : t[i] = u[i]
               determine(S, T) == \A t, u \in members : agree(t, u, S) => agree(t, u, T)
               ins == Ins(cur.in)
               outs == Outs(c, cur.in)
           IN /\ isFunction(c, cur.in) => determine(ins, outs)
              /\ isFunctionInverse(c, cur.in) => determine(outs, ins)
  BY DEF FunctionsAreFunctions
<1> DEFINE n == cur.in + cur.out
<1>1. n \in Nat /\ cur.in \in Nat /\ cur.out \in Nat /\ IsForm(c, n)
  BY ConjForm DEF AlgebraInv, TypeOK, IsValue
<1>2. DOMAIN c.decl = 1 .. n /\ Arity(c) = n
  BY <1>1, DeclLength DEF IsForm, IsDecl, Arity
<1>3. SolvesQuietly(c, 1 .. n)
  BY <1>2 DEF Quiet
<1>4. Ins(cur.in) \in SUBSET (1 .. n) /\ Outs(c, cur.in) \in SUBSET (1 .. n)
  BY <1>1, <1>2 DEF Ins, Outs
<1>5. ASSUME isFunction(c, cur.in),
             NEW t \in Tuples(n), NEW u \in Tuples(n), Satisfies(t, c, m), Satisfies(u, c, m),
             \A i \in Ins(cur.in) : t[i] = u[i], NEW i \in Outs(c, cur.in)
      PROVE  t[i] = u[i]
  <2>1. findFunction(c, i, Ins(cur.in)) # {} /\ i \in 1 .. n
    BY <1>4, <1>5 DEF isFunction
  <2>2. Point(t, 1 .. n, m) /\ Point(u, 1 .. n, m)
    BY RelationsConstants DEF Tuples, Point, IntsOn
  <2>3. PICK S \in SUBSET (1 .. n) : S = Ins(cur.in)
    BY <1>4
  <2>4. (\A j \in S : t[j] = u[j]) /\ findFunction(c, i, S) # {}
    BY <1>5, <2>1, <2>3
  <2>5. n \in Nat /\ IsForm(c, n)
    BY <1>1
  <2> HIDE DEF n
  <2> QED
    BY ONLY <2>1, <2>2, <2>4, <2>5, <1>3, S \in SUBSET (1 .. n),
            Satisfies(t, c, m), Satisfies(u, c, m), Determined
<1>6. ASSUME isFunctionInverse(c, cur.in),
             NEW t \in Tuples(n), NEW u \in Tuples(n), Satisfies(t, c, m), Satisfies(u, c, m),
             \A i \in Outs(c, cur.in) : t[i] = u[i], NEW i \in Ins(cur.in)
      PROVE  t[i] = u[i]
  <2>1. findFunction(c, i, Outs(c, cur.in)) # {} /\ i \in 1 .. n
    BY <1>4, <1>6 DEF isFunctionInverse
  <2>2. Point(t, 1 .. n, m) /\ Point(u, 1 .. n, m)
    BY RelationsConstants DEF Tuples, Point, IntsOn
  <2>3. PICK S \in SUBSET (1 .. n) : S = Outs(c, cur.in)
    BY <1>4
  <2>4. (\A j \in S : t[j] = u[j]) /\ findFunction(c, i, S) # {}
    BY <1>6, <2>1, <2>3
  <2>5. n \in Nat /\ IsForm(c, n)
    BY <1>1
  <2> HIDE DEF n
  <2> QED
    BY ONLY <2>1, <2>2, <2>4, <2>5, <1>3, S \in SUBSET (1 .. n),
            Satisfies(t, c, m), Satisfies(u, c, m), Determined
<1> QED
  BY <1>5, <1>6

\* FunctionsAreFunctions: what Conjunction::isFunction and isFunctionInverse
\* report, by which Compose and Apply decide what they eliminate, is true of
\* all tuples of integers and all meanings of the functions.
THEOREM ReportedFunctionsAreFunctions == Spec => []FunctionsAreFunctions
BY FunctionsDetermine, AlgebraAlways, PTL

-----------------------------------------------------------------------------
(* What an operation stands for                                            *)

\* What the last operation stands for, operation by operation.
LEMMA MeantFacts ==
  ASSUME NEW w, NEW t, NEW m
  PROVE  /\ op = <<"Union", w>> => (Meant(t, m) <=> Member(t, prev, m) \/ Member(t, w, m))
         /\ op = <<"Intersect", w>> => (Meant(t, m) <=> Member(t, prev, m) /\ Member(t, w, m))
         /\ op = <<"Inverse", w>> => (Meant(t, m) <=> Member(Swap(t, cur.in), prev, m))
         /\ op = <<"Copy", w>> => (Meant(t, m) <=> Member(t, prev, m))
         /\ op = <<"Compose", w>> =>
              (Meant(t, m) <=> \E y \in Inner(prev.in) : /\ Member(FirstPart(t, w.in, y), w, m)
                                                         /\ Member(SecondPart(t, w.in, y), prev, m))
         /\ op = <<"Apply", w>> =>
              (Meant(t, m) <=> \E x \in Inner(prev.out) : Member(x, prev, m) /\ Member(x \o t, w, m))
<1>1. ASSUME op = <<"Union", w>> PROVE Meant(t, m) <=> Member(t, prev, m) \/ Member(t, w, m)
  BY <1>1 DEF Meant
<1>2. ASSUME op = <<"Intersect", w>> PROVE Meant(t, m) <=> Member(t, prev, m) /\ Member(t, w, m)
  BY <1>2 DEF Meant
<1>3. ASSUME op = <<"Inverse", w>> PROVE Meant(t, m) <=> Member(Swap(t, cur.in), prev, m)
  BY <1>3 DEF Meant
<1>4. ASSUME op = <<"Copy", w>> PROVE Meant(t, m) <=> Member(t, prev, m)
  BY <1>4 DEF Meant
<1>5. ASSUME op = <<"Compose", w>>
      PROVE  Meant(t, m) <=> \E y \in Inner(prev.in) : /\ Member(FirstPart(t, w.in, y), w, m)
                                                       /\ Member(SecondPart(t, w.in, y), prev, m)
  BY <1>5 DEF Meant, FirstPart, SecondPart
<1>6. ASSUME op = <<"Apply", w>>
      PROVE  Meant(t, m) <=> \E x \in Inner(prev.out) : Member(x, prev, m) /\ Member(x \o t, w, m)
  BY <1>6 DEF Meant
<1> QED
  BY ONLY <1>1, <1>2, <1>3, <1>4, <1>5, <1>6

\* What it handed to cleanUp.
LEMMA CleanedCopy ==
  ASSUME op = <<"Copy", prev>>, ~ CoefficientLost
  PROVE  \A c \in prev.conjs : ~ HidesCoefficient(c)
BY DEF CoefficientLost, Cleaned

\* The inverses.
LEMMA CleanedInverse ==
  ASSUME op = <<"Inverse", prev>>, ~ CoefficientLost
  PROVE  \A c \in prev.conjs : ~ HidesCoefficient(InverseOf(c, prev.in))
<1>1. Cleaned = {InverseOf(c, prev.in) : c \in prev.conjs}
  BY DEF Cleaned
<1> QED
  BY <1>1 DEF CoefficientLost

\* The compositions, before and after the inner variables are eliminated.
LEMMA CleanedCompose ==
  ASSUME NEW w, op = <<"Compose", w>>, ~ CoefficientLost, NEW c \in prev.conjs, NEW d \in w.conjs
  PROVE  /\ ~ HidesCoefficient(Uncleaned(Composition(c, d, prev.in, w.in)))
         /\ ~ HidesCoefficient(ComposeOf(c, d, prev.in, w.in))
<1>1. Cleaned = {Uncleaned(Composition(a, b, prev.in, w.in)) : a \in prev.conjs, b \in w.conjs}
                  \cup {ComposeOf(a, b, prev.in, w.in) : a \in prev.conjs, b \in w.conjs}
  BY DEF Cleaned
<1> QED
  BY <1>1 DEF CoefficientLost

\* The images, likewise.
LEMMA CleanedApply ==
  ASSUME NEW w, op = <<"Apply", w>>, ~ CoefficientLost, NEW c \in w.conjs, NEW d \in prev.conjs
  PROVE  ~ HidesCoefficient(Uncleaned(Image(c, d))) /\ ~ HidesCoefficient(ApplyOf(c, d))
<1>1. Cleaned = {Uncleaned(Image(a, b)) : a \in w.conjs, b \in prev.conjs}
                  \cup {ApplyOf(a, b) : a \in w.conjs, b \in prev.conjs}
  BY DEF Cleaned
<1> QED
  BY <1>1 DEF CoefficientLost

\* A value counted as one has one conjunction, which decides membership.
LEMMA OneConj ==
  ASSUME NEW v, IsValue(v), One(v)
  PROVE  \E c : v.conjs = {c} /\ \A t, m : Member(t, v, m) <=> Satisfies(t, c, m)
<1>1. PICK c : v.conjs = {c}
  BY FS_Singleton DEF IsValue, One
<1> QED
  BY <1>1 DEF Member

\* The tuples compared are tuples of integers.
LEMMA TuplesInt ==
  ASSUME NEW n \in Nat
  PROVE  /\ \A t \in Tuples(n) : t \in [1 .. n -> Int]
         /\ \A t \in Inner(n) : t \in [1 .. n -> Int]
         /\ \A t \in [1 .. n -> Int] : \A m : IsMeaning(m) => Point(t, 1 .. n, m)
BY RelationsConstants DEF Tuples, Inner, Point, IntsOn

-----------------------------------------------------------------------------
(* No tuple is lost                                                        *)

\* A composition loses no tuple.
LEMMA ComposeKeeps ==
  ASSUME NEW w, AlgebraInv, op = <<"Compose", w>>, IsValue(w), CanCompose(prev, w),
         cur = Compose(prev, w), ~ CoefficientLost, One(prev), One(w),
         NEW m, IsMeaning(m), NEW t \in [1 .. cur.in + cur.out -> Int], Meant(t, m)
  PROVE  /\ Result(t, m)
         /\ \A c, d : prev.conjs = {c} /\ w.conjs = {d} =>
              Satisfies(t, Eliminate(Composition(c, d, prev.in, w.in)), m)
<1>1. IsValue(prev) /\ cur.in = w.in /\ cur.out = prev.out
  BY ComposeFacts DEF AlgebraInv
<1>2. PICK c : prev.conjs = {c} /\ \A u, k : Member(u, prev, k) <=> Satisfies(u, c, k)
  BY <1>1, OneConj
<1>3. PICK d : w.conjs = {d} /\ \A u, k : Member(u, w, k) <=> Satisfies(u, d, k)
  BY OneConj
<1>4. /\ prev.in \in Nat /\ prev.out \in Nat /\ w.in \in Nat
      /\ IsForm(c, prev.in + prev.out) /\ IsForm(d, w.in + prev.in)
      /\ Eliminable(Composition(c, d, prev.in, w.in))
  BY <1>1, <1>2, <1>3, ComposeConj
<1>5. /\ ~ HidesCoefficient(Uncleaned(Composition(c, d, prev.in, w.in)))
      /\ ~ HidesCoefficient(ComposeOf(c, d, prev.in, w.in))
  BY <1>2, <1>3, CleanedCompose
<1>6. PICK y \in Inner(prev.in) : /\ Member(FirstPart(t, w.in, y), w, m)
                                  /\ Member(SecondPart(t, w.in, y), prev, m)
  BY MeantFacts
<1>7. /\ y \in [1 .. prev.in -> Int] /\ t \in [1 .. w.in + prev.out -> Int]
      /\ Satisfies(FirstPart(t, w.in, y), d, m) /\ Satisfies(SecondPart(t, w.in, y), c, m)
  BY <1>1, <1>2, <1>3, <1>4, <1>6, TuplesInt
<1>8. /\ Satisfies(t, Eliminate(Composition(c, d, prev.in, w.in)), m)
      /\ Satisfies(t, ComposeOf(c, d, prev.in, w.in), m)
  BY <1>4, <1>5, <1>7, ComposeLoses
<1>9. Point(t, 1 .. w.in + prev.out, m)
  BY <1>7 DEF Point, IntsOn
<1>10. Member(t, cur, m)
  BY <1>1, <1>2, <1>3, <1>5, <1>8, <1>9, ComposeMember
<1>11. ASSUME NEW a, NEW b, prev.conjs = {a}, w.conjs = {b} PROVE a = c /\ b = d
  BY <1>2, <1>3, <1>11
<1> QED
  BY <1>8, <1>10, <1>11 DEF Result

\* An image loses no tuple.
LEMMA ApplyKeeps ==
  ASSUME NEW w, AlgebraInv, op = <<"Apply", w>>, IsValue(w), IsSet(prev), CanApply(w, prev),
         cur = Apply(w, prev), ~ CoefficientLost, One(prev), One(w),
         NEW m, IsMeaning(m), NEW t \in [1 .. cur.in + cur.out -> Int], Meant(t, m)
  PROVE  /\ Result(t, m)
         /\ \A c, d : w.conjs = {c} /\ prev.conjs = {d} => Satisfies(t, Eliminate(Image(c, d)), m)
<1>1. IsValue(prev) /\ cur.in = 0 /\ cur.out = w.out /\ prev.out = w.in
  BY ApplyFacts DEF AlgebraInv, CanApply
<1>2. PICK d : prev.conjs = {d} /\ \A u, k : Member(u, prev, k) <=> Satisfies(u, d, k)
  BY <1>1, OneConj
<1>3. PICK c : w.conjs = {c} /\ \A u, k : Member(u, w, k) <=> Satisfies(u, c, k)
  BY OneConj
<1>4. /\ w.in \in Nat /\ w.out \in Nat /\ IsForm(c, w.in + w.out) /\ IsForm(d, w.in)
      /\ Eliminable(Image(c, d))
  BY <1>1, <1>2, <1>3, ApplyConj
<1>5. ~ HidesCoefficient(Uncleaned(Image(c, d))) /\ ~ HidesCoefficient(ApplyOf(c, d))
  BY <1>2, <1>3, CleanedApply
<1>6. PICK x \in Inner(prev.out) : Member(x, prev, m) /\ Member(x \o t, w, m)
  BY MeantFacts
<1>7. x \in [1 .. w.in -> Int] /\ t \in [1 .. w.out -> Int] /\ Satisfies(x, d, m) /\ Satisfies(x \o t, c, m)
  BY <1>1, <1>2, <1>3, <1>4, <1>6, TuplesInt
<1>8. Satisfies(t, Eliminate(Image(c, d)), m) /\ Satisfies(t, ApplyOf(c, d), m)
  BY <1>4, <1>5, <1>7, ApplyLoses
<1>9. Point(t, 1 .. w.out, m)
  BY <1>7 DEF Point, IntsOn
<1>10. Member(t, cur, m)
  BY <1>1, <1>2, <1>3, <1>5, <1>8, <1>9, ApplyMember
<1>11. ASSUME NEW a, NEW b, w.conjs = {a}, prev.conjs = {b} PROVE a = c /\ b = d
  BY <1>2, <1>3, <1>11
<1> QED
  BY <1>8, <1>10, <1>11 DEF Result

\* No operation loses a tuple of integers.
LEMMA Kept ==
  ASSUME AlgebraInv, op[1] # "New", ~ CoefficientLost, Whole(prev), Whole(op[2]),
         op[1] \in {"Compose", "Apply"} => One(prev) /\ One(op[2]),
         NEW m, IsMeaning(m), NEW t \in [1 .. cur.in + cur.out -> Int], Meant(t, m)
  PROVE  Result(t, m)
<1>1. IsValue(prev) /\ prev.in \in Nat /\ prev.out \in Nat /\ AllHave(prev)
  BY DEF AlgebraInv, IsValue, Whole, AllHave
<1>2. ASSUME NEW w, op = <<"Union", w>>, IsValue(w), SameArities(prev, w), cur = Union(prev, w)
      PROVE  Result(t, m)
  <2>1. AllHave(w) /\ (Member(t, prev, m) \/ Member(t, w, m))
    BY <1>2, MeantFacts DEF Whole, AllHave
  <2> QED
    BY <1>1, <1>2, <2>1, UnionFacts DEF Result
<1>3. ASSUME NEW w, op = <<"Intersect", w>>, IsValue(w), SameArities(prev, w), cur = Intersect(prev, w)
      PROVE  Result(t, m)
  <2>1. AllHave(w) /\ Member(t, prev, m) /\ Member(t, w, m)
    BY <1>3, MeantFacts DEF Whole, AllHave
  <2> QED
    BY <1>1, <1>3, <2>1, IntersectValue DEF Result
<1>4. ASSUME op = <<"Inverse", prev>>, cur = Inverted(prev) PROVE Result(t, m)
  <2>1. cur.in = prev.out /\ cur.out = prev.in
    BY <1>1, <1>4, InverseFacts
  <2>2. Member(Swap(t, prev.out), prev, m) /\ t \in [1 .. prev.out + prev.in -> Int]
    BY <1>4, <2>1, MeantFacts
  <2>3. \A c \in prev.conjs : ~ HidesCoefficient(InverseOf(c, prev.in))
    BY <1>4, CleanedInverse
  <2> QED
    BY <1>1, <1>4, <2>2, <2>3, InverseMember DEF Result
<1>5. ASSUME op = <<"Copy", prev>>, cur = Copy(prev) PROVE Result(t, m)
  <2>1. cur.in = prev.in /\ cur.out = prev.out
    BY <1>1, <1>5, CopyFacts
  <2>2. Member(t, prev, m) /\ Point(t, 1 .. prev.in + prev.out, m)
    BY <1>5, <2>1, MeantFacts DEF Point, IntsOn
  <2>3. \A c \in prev.conjs : ~ HidesCoefficient(c)
    BY <1>5, CleanedCopy
  <2> QED
    BY <1>1, <1>5, <2>2, <2>3, CopyMember DEF Result
<1>6. ASSUME NEW w, op = <<"Compose", w>>, IsValue(w), CanCompose(prev, w), cur = Compose(prev, w)
      PROVE  Result(t, m)
  BY <1>6, ComposeKeeps
<1>7. ASSUME NEW w, op = <<"Apply", w>>, IsValue(w), IsSet(prev), CanApply(w, prev), cur = Apply(w, prev)
      PROVE  Result(t, m)
  BY <1>7, ApplyKeeps
<1> QED
  BY <1>2, <1>3, <1>4, <1>5, <1>6, <1>7 DEF AlgebraInv, Operated

\* NothingLost: the result of every operation (SparseConstraints and
\* Conjunction, set_relation.cc) holds each tuple that the operation stands
\* for, where the operands have constraints, Compose and Apply get single
\* conjunctions and no coefficient is lost in a call.
THEOREM NoTupleIsLost == Spec => []NothingLost
<1>1. AlgebraInv => NothingLost
  <2> SUFFICES ASSUME AlgebraInv, op[1] # "New", ~ CoefficientLost, Whole(prev), Whole(op[2]),
                      op[1] \in {"Compose", "Apply"} => One(prev) /\ One(op[2]),
                      NEW m \in Meanings, NEW t \in Tuples(cur.in + cur.out), Meant(t, m)
               PROVE  Result(t, m)
    BY DEF NothingLost, Lost
  <2>1. IsMeaning(m) /\ t \in [1 .. cur.in + cur.out -> Int]
    BY RelationsConstants DEF Tuples
  <2> QED
    BY <2>1, Kept
<1> QED
  BY <1>1, AlgebraAlways, PTL

-----------------------------------------------------------------------------
(* No tuple is gained                                                      *)

\* No operation adds a tuple of integers, if it stands for some tuple at all.
LEMMA NoneAdded ==
  ASSUME Wide = Int, AlgebraInv, op[1] # "New", ~ CoefficientLost, One(prev), One(op[2]), Pure(op[2]),
         NEW m, IsMeaning(m), NEW u \in [1 .. cur.in + cur.out -> Int], Meant(u, m),
         NEW t \in [1 .. cur.in + cur.out -> Int], Result(t, m)
  PROVE  Meant(t, m)
<1>1. IsValue(prev) /\ prev.in \in Nat /\ prev.out \in Nat
  BY DEF AlgebraInv, IsValue
<1>2. ASSUME NEW w, op = <<"Union", w>>, IsValue(w), SameArities(prev, w), cur = Union(prev, w)
      PROVE  Meant(t, m)
  <2>1. Member(t, prev, m) \/ Member(t, w, m)
    BY <1>1, <1>2, UnionFacts DEF Result
  <2> QED
    BY <1>2, <2>1, MeantFacts
<1>3. ASSUME NEW w, op = <<"Intersect", w>>, IsValue(w), SameArities(prev, w), cur = Intersect(prev, w)
      PROVE  Meant(t, m)
  <2>1. One(w) /\ Pure(w) /\ w.in = prev.in /\ w.out = prev.out
    BY <1>3 DEF SameArities
  <2>2. PICK c : prev.conjs = {c}
    BY <1>1, OneConj
  <2>3. PICK d : w.conjs = {d}
    BY <1>3, <2>1, OneConj
  <2>4. d.decl = Variables(prev.in + prev.out)
    BY <2>1, <2>3 DEF Pure
  <2>5. Member(t, Intersect(prev, w), m)
    BY <1>3 DEF Result
  <2>6. Member(t, prev, m) /\ Member(t, w, m)
    <3>1. \A a, b : prev.conjs = {a} /\ w.conjs = {b} /\ b.decl = Variables(prev.in + prev.out) =>
            \A x, k : Member(x, Intersect(prev, w), k) => Member(x, prev, k) /\ Member(x, w, k)
      BY <1>1, <1>3, IntersectValue, Zenon
    <3>2. \A x, k : Member(x, Intersect(prev, w), k) => Member(x, prev, k) /\ Member(x, w, k)
      BY <2>2, <2>3, <2>4, <3>1, Zenon
    <3> QED
      BY <2>5, <3>2
  <2> QED
    BY <1>3, <2>6, MeantFacts
<1>4. ASSUME op = <<"Inverse", prev>>, cur = Inverted(prev) PROVE Meant(t, m)
  <2>1. cur.in = prev.out /\ cur.out = prev.in
    BY <1>1, <1>4, InverseFacts
  <2>2. t \in [1 .. prev.out + prev.in -> Int] /\ Member(t, Inverted(prev), m)
    BY <1>4, <2>1 DEF Result
  <2>3. \A c \in prev.conjs : ~ HidesCoefficient(InverseOf(c, prev.in))
    BY <1>4, CleanedInverse
  <2>4. Member(Swap(t, prev.out), prev, m)
    BY <1>1, <2>2, <2>3, InverseMember
  <2> QED
    BY <1>4, <2>1, <2>4, MeantFacts
<1>5. ASSUME op = <<"Copy", prev>>, cur = Copy(prev) PROVE Meant(t, m)
  <2>1. cur.in = prev.in /\ cur.out = prev.out
    BY <1>1, <1>5, CopyFacts
  <2>2. Member(t, Copy(prev), m) /\ Point(t, 1 .. prev.in + prev.out, m)
    BY <1>5, <2>1 DEF Point, IntsOn, Result
  <2>3. \A c \in prev.conjs : ~ HidesCoefficient(c)
    BY <1>5, CleanedCopy
  <2>4. Member(t, prev, m)
    BY <1>1, <2>2, <2>3, CopyMember
  <2> QED
    BY <1>5, <2>4, MeantFacts
<1>6. ASSUME NEW w, op = <<"Compose", w>>, IsValue(w), CanCompose(prev, w), cur = Compose(prev, w)
      PROVE  Meant(t, m)
  <2>1. One(w) /\ cur.in = w.in /\ cur.out = prev.out
    BY <1>1, <1>6, ComposeFacts
  <2>2. PICK c : prev.conjs = {c} /\ \A x, k : Member(x, prev, k) <=> Satisfies(x, c, k)
    BY <1>1, OneConj
  <2>3. PICK d : w.conjs = {d} /\ \A x, k : Member(x, w, k) <=> Satisfies(x, d, k)
    BY <1>6, <2>1, OneConj
  <2>4. /\ w.in \in Nat /\ IsForm(c, prev.in + prev.out) /\ IsForm(d, w.in + prev.in)
        /\ Eliminable(Composition(c, d, prev.in, w.in))
    BY <1>1, <1>6, <2>2, <2>3, ComposeConj
  <2>5. /\ ~ HidesCoefficient(Uncleaned(Composition(c, d, prev.in, w.in)))
        /\ ~ HidesCoefficient(ComposeOf(c, d, prev.in, w.in))
    BY <1>6, <2>2, <2>3, CleanedCompose
  <2>6. Satisfies(u, Eliminate(Composition(c, d, prev.in, w.in)), m)
    BY <1>6, <2>1, <2>2, <2>3, ComposeKeeps
  <2>7. t \in [1 .. w.in + prev.out -> Int] /\ u \in [1 .. w.in + prev.out -> Int]
    BY <2>1
  <2>8. Member(t, Compose(prev, w), m) /\ Point(t, 1 .. w.in + prev.out, m)
    BY <1>6, <2>7 DEF Point, IntsOn, Result
  <2>9. Satisfies(t, ComposeOf(c, d, prev.in, w.in), m)
    BY <1>1, <1>6, <2>2, <2>3, <2>5, <2>8, ComposeMember
  <2>10. \E y \in [1 .. prev.in -> Int] :
           Satisfies(FirstPart(t, w.in, y), d, m) /\ Satisfies(SecondPart(t, w.in, y), c, m)
    BY <1>1, <2>4, <2>5, <2>6, <2>7, <2>9, ComposeGains
  <2>11. \E y \in Inner(prev.in) : Member(FirstPart(t, w.in, y), w, m) /\ Member(SecondPart(t, w.in, y), prev, m)
    BY <2>2, <2>3, <2>10 DEF Inner
  <2> QED
    BY <1>6, <2>11, MeantFacts
<1>7. ASSUME NEW w, op = <<"Apply", w>>, IsValue(w), IsSet(prev), CanApply(w, prev), cur = Apply(w, prev)
      PROVE  Meant(t, m)
  <2>1. One(w) /\ cur.in = 0 /\ cur.out = w.out /\ prev.out = w.in
    BY <1>1, <1>7, ApplyFacts DEF CanApply
  <2>2. PICK d : prev.conjs = {d} /\ \A x, k : Member(x, prev, k) <=> Satisfies(x, d, k)
    BY <1>1, OneConj
  <2>3. PICK c : w.conjs = {c} /\ \A x, k : Member(x, w, k) <=> Satisfies(x, c, k)
    BY <1>7, <2>1, OneConj
  <2>4. /\ w.in \in Nat /\ w.out \in Nat /\ IsForm(c, w.in + w.out) /\ IsForm(d, w.in)
        /\ Eliminable(Image(c, d))
    BY <1>1, <1>7, <2>2, <2>3, ApplyConj
  <2>5. ~ HidesCoefficient(Uncleaned(Image(c, d))) /\ ~ HidesCoefficient(ApplyOf(c, d))
    BY <1>7, <2>2, <2>3, CleanedApply
  <2>6. Satisfies(u, Eliminate(Image(c, d)), m)
    BY <1>7, <2>1, <2>2, <2>3, ApplyKeeps
  <2>7. t \in [1 .. w.out -> Int] /\ u \in [1 .. w.out -> Int]
    BY <2>1, <2>4
  <2>8. Member(t, Apply(w, prev), m) /\ Point(t, 1 .. w.out, m)
    BY <1>7, <2>7 DEF Point, IntsOn, Result
  <2>9. Satisfies(t, ApplyOf(c, d), m)
    BY <1>1, <1>7, <2>2, <2>3, <2>5, <2>8, ApplyMember
  <2>10. \E x \in [1 .. w.in -> Int] : Satisfies(x, d, m) /\ Satisfies(x \o t, c, m)
    BY <2>4, <2>5, <2>6, <2>7, <2>9, ApplyGains
  <2>11. \E x \in Inner(prev.out) : Member(x, prev, m) /\ Member(x \o t, w, m)
    BY <2>1, <2>2, <2>3, <2>10 DEF Inner
  <2> QED
    BY <1>7, <2>11, MeantFacts
<1> QED
  BY <1>2, <1>3, <1>4, <1>5, <1>6, <1>7 DEF AlgebraInv, Operated

\* NothingGained: nor does an operation add a tuple, for single conjunctions:
\* what Compose and Apply put for the inner variables before they drop the
\* equalities keeps every constraint on them.  The inner tuples are any tuples
\* of integers: a range of them may miss the one that a composition passes
\* through.
THEOREM NoTupleIsGained ==
  ASSUME Wide = Int
  PROVE  Spec => []NothingGained
<1>1. AlgebraInv => NothingGained
  <2> SUFFICES ASSUME AlgebraInv, op[1] # "New", ~ CoefficientLost, One(prev), One(op[2]), Pure(op[2]),
                      NEW m \in Meanings, NEW u \in Tuples(cur.in + cur.out), Meant(u, m),
                      NEW t \in Tuples(cur.in + cur.out), Result(t, m)
               PROVE  Meant(t, m)
    BY DEF NothingGained, Gained
  <2>1. /\ IsMeaning(m) /\ t \in [1 .. cur.in + cur.out -> Int]
        /\ u \in [1 .. cur.in + cur.out -> Int]
    BY RelationsConstants DEF Tuples
  <2> QED
    BY <2>1, NoneAdded
<1> QED
  BY <1>1, AlgebraAlways, PTL

=============================================================================
