------------------------------- MODULE Lemmas -------------------------------
(***************************************************************************)
(* What several proofs rest on: the least number of a set, functions       *)
(* defined by recursion over an interval, and what the declared            *)
(* index-array properties say of a lower triangular CSC matrix.            *)
(***************************************************************************)
EXTENDS CSC, FiniteSetTheorems, SequenceTheorems, TLAPS

(***************************************************************************)
(* Induction, as the least element of a set of numbers: the intervals that *)
(* end in the numbers of T are finite, so one of them holds no other.      *)
(***************************************************************************)
LEMMA LeastNumber ==
  ASSUME NEW T \in SUBSET Nat, T # {}
  PROVE  \E m \in T : \A k \in T : m <= k
<1> DEFINE F == {0 .. n : n \in T}
<1>1. IsWellFoundedOn(StrictSubsetOrdering(Nat), FiniteSubsetsOf(Nat))
  BY FS_StrictSubsetOrderingWellFounded
<1>2. F \subseteq FiniteSubsetsOf(Nat) /\ F # {}
  <2>1. \A n \in T : 0 .. n \in SUBSET Nat /\ IsFiniteSet(0 .. n)
    BY FS_Interval
  <2> QED
    BY <2>1 DEF FiniteSubsetsOf
<1> HIDE DEF F
<1>3. PICK x \in F : \A y \in F : ~ (<<y, x>> \in StrictSubsetOrdering(Nat))
  BY <1>1, <1>2, WFMin
<1>4. PICK m \in T : x = 0 .. m
  BY DEF F
<1>5. ASSUME NEW k \in T, k < m PROVE FALSE
  <2>1. 0 .. k \in F
    BY DEF F
  <2>2. /\ 0 .. k \subseteq 0 .. m /\ 0 .. k # 0 .. m
        /\ 0 .. k \in SUBSET Nat /\ 0 .. m \in SUBSET Nat
    BY <1>5
  <2>3. <<0 .. k, 0 .. m>> \in StrictSubsetOrdering(Nat)
    BY <2>2 DEF StrictSubsetOrdering
  <2> QED
    BY <2>1, <2>3, <1>3, <1>4
<1> QED
  BY <1>5

\* Induction over the numbers up to m: a set that has 0 and, with a number, the
\* next one, has them all.
LEMMA Induct ==
  ASSUME NEW m \in Nat, NEW P, 0 \in P, \A n \in 1 .. m : n - 1 \in P => n \in P
  PROVE  \A n \in 0 .. m : n \in P
<1> DEFINE T == {n \in 0 .. m : n \notin P}
<1> SUFFICES ASSUME T # {} PROVE FALSE
  OBVIOUS
<1>1. PICK n \in T : \A k \in T : n <= k
  <2>1. T \in SUBSET Nat
    OBVIOUS
  <2> QED
    BY <2>1, LeastNumber
<1>2. n \in 1 .. m /\ n - 1 \in 0 .. m /\ ~ (n <= n - 1)
  BY <1>1
<1> QED
  BY <1>1, <1>2

\* The functions over 0 .. m defined by recursion: S[n] makes the value at n of
\* the value at n - 1.
Steps(m, V) == [1 .. m -> [V -> V]]

Iterates(m, V, z, S) ==
  {f \in [0 .. m -> V] : f[0] = z /\ \A n \in 1 .. m : f[n] = S[n][f[n - 1]]}

\* Such a function exists.
LEMMA Recursion ==
  ASSUME NEW m \in Nat, NEW V, NEW z \in V, NEW S \in Steps(m, V)
  PROVE  Iterates(m, V, z, S) # {}
<1>0. S \in [1 .. m -> [V -> V]]
  BY DEF Steps
<1> DEFINE Upto(f, j) == f[0] = z /\ \A n \in 1 .. j : f[n] = S[n][f[n - 1]]
           P == {j \in 0 .. m : \E f \in [0 .. j -> V] : Upto(f, j)}
<1>1. 0 \in P
  <2> DEFINE f == [n \in 0 .. 0 |-> z]
  <2>1. f \in [0 .. 0 -> V] /\ Upto(f, 0)
    OBVIOUS
  <2> HIDE DEF f
  <2> QED
    BY <2>1
<1>2. ASSUME NEW j \in 1 .. m, j - 1 \in P PROVE j \in P
  <2>1. PICK g \in [0 .. j - 1 -> V] : Upto(g, j - 1)
    BY <1>2
  <2> DEFINE f == [n \in 0 .. j |-> IF n = j THEN S[j][g[j - 1]] ELSE g[n]]
  <2>2. f \in [0 .. j -> V]
    <3>1. g[j - 1] \in V /\ S[j] \in [V -> V] /\ S[j][g[j - 1]] \in V
      BY <1>0
    <3>2. \A n \in 0 .. j : n # j => n \in 0 .. j - 1
      OBVIOUS
    <3> QED
      BY <3>1, <3>2
  <2>3. \A n \in 0 .. j - 1 : f[n] = g[n]
    OBVIOUS
  <2>4. f[j] = S[j][f[j - 1]]
    <3>1. f[j] = S[j][g[j - 1]] /\ j - 1 \in 0 .. j - 1
      OBVIOUS
    <3> QED
      BY <3>1, <2>3
  <2>5. Upto(f, j)
    <3>1. f[0] = z
      BY <2>1, <2>3
    <3>2. ASSUME NEW n \in 1 .. j, n # j PROVE f[n] = S[n][f[n - 1]]
      <4>1. n \in 1 .. j - 1 /\ n \in 0 .. j - 1 /\ n - 1 \in 0 .. j - 1
        BY <3>2
      <4> QED
        BY <4>1, <2>1, <2>3
    <3> QED
      BY <3>1, <3>2, <2>4
  <2>6. j \in 0 .. m
    OBVIOUS
  <2> HIDE DEF f, Upto
  <2> QED
    BY <2>2, <2>5, <2>6
<1>3. m \in P
  <2> HIDE DEF P
  <2>1. \A j \in 1 .. m : j - 1 \in P => j \in P
    BY <1>2
  <2>2. \A j \in 0 .. m : j \in P
    BY <1>1, <2>1, Induct
  <2> QED
    BY <2>2
<1> QED
  BY <1>3 DEF Iterates

\* The sequences T[1] .. T[m] laid one after the other, as far as each n.
Concats(m, X, T) ==
  {f \in [0 .. m -> Seq(X)] : f[0] = <<>> /\ \A n \in 1 .. m : f[n] = f[n - 1] \o T[n]}

\* There is such a function.
LEMMA Concatenation ==
  ASSUME NEW m \in Nat, NEW X, NEW T, \A n \in 1 .. m : T[n] \in Seq(X)
  PROVE  Concats(m, X, T) # {}
<1> DEFINE V == Seq(X)
           S == [n \in 1 .. m |-> [t \in V |-> t \o T[n]]]
           z == <<>>
<1>1. z \in V /\ \A n \in 1 .. m : \A t \in V : t \o T[n] \in V
  BY ConcatProperties
<1> HIDE DEF V
<1>2. S \in Steps(m, V)
  BY <1>1 DEF Steps
<1>3. \A n \in 1 .. m : \A t \in V : S[n][t] = t \o T[n]
  OBVIOUS
<1> HIDE DEF S, z
<1>4. PICK f \in [0 .. m -> V] : f[0] = z /\ \A n \in 1 .. m : f[n] = S[n][f[n - 1]]
  <2>1. Iterates(m, V, z, S) # {}
    BY <1>1, <1>2, Recursion
  <2> QED
    BY <2>1 DEF Iterates
<1>5. \A n \in 1 .. m : n - 1 \in 0 .. m /\ f[n - 1] \in V
  OBVIOUS
<1>6. f \in [0 .. m -> Seq(X)] /\ f[0] = <<>> /\ \A n \in 1 .. m : f[n] = f[n - 1] \o T[n]
  BY <1>3, <1>4, <1>5 DEF V, z
<1> QED
  BY <1>6 DEF Concats

-----------------------------------------------------------------------------
\* The column bounds of a matrix increase and stay within the index array.
LEMMA PtrFacts ==
  ASSUME NEW M, LowerTriangular(M)
  PROVE  /\ M.n \in Nat \ {0}
         /\ \A c \in 0 .. M.n : M.ptr[c] \in Nat /\ M.ptr[c] <= M.ptr[M.n]
         /\ \A c, d \in 0 .. M.n : c < d => M.ptr[c] < M.ptr[d]
         /\ M.idx \in [Positions(M) -> Rows(M)]
<1>1. LowerTriangular(M)
  OBVIOUS
<1>2. /\ M.n \in Nat \ {0}
      /\ M.ptr \in [0 .. M.n -> Nat]
      /\ M.idx \in [Positions(M) -> Rows(M)]
  BY <1>1 DEF LowerTriangular, IsCSC
<1>3. \A c, d \in 0 .. M.n : c < d => M.ptr[c] < M.ptr[d]
  BY <1>1 DEF LowerTriangular, PtrIncreasing
<1>4. ASSUME NEW c \in 0 .. M.n PROVE M.ptr[c] \in Nat /\ M.ptr[c] <= M.ptr[M.n]
  <2>1. M.ptr[c] \in Nat /\ M.ptr[M.n] \in Nat /\ M.n \in 0 .. M.n
    BY <1>2
  <2>2. c = M.n \/ c < M.n
    BY <1>2
  <2> QED
    BY <2>1, <2>2, <1>3
<1> QED
  BY <1>2, <1>3, <1>4

\* The off-diagonal positions of a column: rows below the diagonal, each once.
LEMMA ColumnFacts ==
  ASSUME NEW M, LowerTriangular(M), NEW c \in Rows(M)
  PROVE  /\ M.n \in Nat \ {0}
         /\ c \in 0 .. M.n /\ c + 1 \in 0 .. M.n
         /\ M.ptr[c] \in Positions(M)
         /\ OffDiag(M, c) \subseteq Positions(M)
         /\ \A p \in OffDiag(M, c) : M.idx[p] \in Rows(M) /\ c < M.idx[p]
         /\ \A p, q \in OffDiag(M, c) : M.idx[p] = M.idx[q] => p = q
<1>1. LowerTriangular(M)
  OBVIOUS
<1>2. M.n \in Nat \ {0} /\ M.idx \in [Positions(M) -> Rows(M)]
  BY PtrFacts
<1>3. c \in 0 .. M.n /\ c + 1 \in 0 .. M.n /\ M.n \in 0 .. M.n /\ c < c + 1 /\ c < M.n
  BY <1>2 DEF Rows
<1>4. /\ M.ptr[c] \in Nat /\ M.ptr[c + 1] \in Nat /\ M.ptr[M.n] \in Nat
      /\ M.ptr[c] < M.ptr[M.n] /\ M.ptr[c + 1] <= M.ptr[M.n]
  BY <1>3, PtrFacts
<1>6. M.ptr[c] \in Positions(M) /\ OffDiag(M, c) \subseteq Positions(M)
  BY <1>4 DEF OffDiag, Positions
<1>7. ASSUME NEW p \in OffDiag(M, c)
      PROVE  M.idx[p] \in Rows(M) /\ c < M.idx[p]
  <2>1. M.ptr[c] < p
    BY <1>4 DEF OffDiag
  <2> QED
    BY <2>1, <1>1, <1>2, <1>3, <1>6 DEF LowerTriangular, Triangularity
<1>8. ASSUME NEW p \in OffDiag(M, c), NEW q \in OffDiag(M, c), M.idx[p] = M.idx[q]
      PROVE  p = q
  <2>1. p \in Int /\ q \in Int
    BY <1>4 DEF OffDiag
  <2>2. M.idx[p] \in Int /\ M.idx[q] \in Int
    BY <1>7, <1>2 DEF Rows
  <2>3. /\ p < q => M.idx[p] < M.idx[q]
        /\ q < p => M.idx[q] < M.idx[p]
    BY <1>1 DEF LowerTriangular, CoMonotonicity
  <2> QED
    BY <2>1, <2>2, <2>3, <1>8
<1> QED
  BY <1>2, <1>3, <1>6, <1>7, <1>8

\* Two columns that share a position are one column.
LEMMA ColumnsDisjoint ==
  ASSUME NEW M, LowerTriangular(M), NEW c \in Rows(M), NEW d \in Rows(M),
         NEW p \in Col(M, c), p \in Col(M, d)
  PROVE  c = d
<1>1. ASSUME NEW a \in Rows(M), NEW b \in Rows(M), a < b,
             p \in Col(M, a), p \in Col(M, b)
      PROVE  FALSE
  <2>1. /\ M.n \in Nat /\ a \in Int /\ b \in Int /\ a + 1 <= b
        /\ a \in 0 .. M.n /\ b \in 0 .. M.n /\ a + 1 \in 0 .. M.n
    BY <1>1, PtrFacts DEF Rows
  <2>2. /\ M.ptr[a] \in Nat /\ M.ptr[a + 1] \in Nat /\ M.ptr[b] \in Nat
        /\ M.ptr[a + 1] <= M.ptr[b]
    <3>1. M.ptr[a] \in Nat /\ M.ptr[a + 1] \in Nat /\ M.ptr[b] \in Nat
      BY <2>1, PtrFacts
    <3>2. a + 1 = b \/ a + 1 < b
      BY <2>1
    <3>3. a + 1 < b => M.ptr[a + 1] < M.ptr[b]
      BY <2>1, PtrFacts
    <3> QED
      BY <3>1, <3>2, <3>3
  <2>3. p \in Int /\ M.ptr[b] <= p /\ p < M.ptr[a + 1]
    <3>1. b + 1 \in 0 .. M.n /\ M.ptr[b + 1] \in Nat
      BY PtrFacts DEF Rows
    <3> QED
      BY <1>1, <2>2, <3>1 DEF Col
  <2> QED
    BY <2>2, <2>3
<1>2. c \in Int /\ d \in Int
  BY PtrFacts DEF Rows
<1> QED
  BY <1>1, <1>2

\* Every position lies in a column: the first whose end is past it.
LEMMA ColumnOfPosition ==
  ASSUME NEW M, LowerTriangular(M), NEW p \in Positions(M)
  PROVE  \E c \in Rows(M) : p \in Col(M, c)
<1> DEFINE T == {c \in Rows(M) : p < M.ptr[c + 1]}
<1>1. /\ M.n \in Nat \ {0} /\ M.ptr[0] = 0 /\ p \in Nat /\ p < M.ptr[M.n]
      /\ \A c \in 0 .. M.n : M.ptr[c] \in Nat
  BY PtrFacts DEF LowerTriangular, IsCSC, Positions
<1>2. M.n - 1 \in Rows(M) /\ (M.n - 1) + 1 = M.n
  BY <1>1 DEF Rows
<1>3. T \in SUBSET Nat /\ T # {}
  BY <1>1, <1>2 DEF Rows
<1>4. PICK c \in T : \A d \in T : c <= d
  BY <1>3, LeastNumber
<1>5. c \in Rows(M) /\ p < M.ptr[c + 1] /\ c \in 0 .. M.n /\ c + 1 \in 0 .. M.n
  BY <1>1 DEF Rows
<1>6. M.ptr[c] <= p
  <2>1. CASE c = 0
    BY <2>1, <1>1
  <2>2. CASE c # 0
    <3>1. c - 1 \in Rows(M) /\ (c - 1) + 1 = c /\ ~ (c <= c - 1)
      BY <2>2, <1>1, <1>5 DEF Rows
    <3>2. c - 1 \notin T
      BY <3>1, <1>4
    <3> QED
      BY <3>1, <3>2, <1>1, <1>5
  <2> QED
    BY <2>1, <2>2
<1> QED
  BY <1>1, <1>5, <1>6 DEF Col
=============================================================================
