-------------------------- MODULE Inspectors_proofs --------------------------
(***************************************************************************)
(* buildLevelSet_CSC makes correct levels, and the simplified inspector of *)
(* iChol.h loses no dependence, for every lower triangular matrix of every *)
(* order.                                                                  *)
(***************************************************************************)
EXTENDS Inspectors, Lemmas

\* The entries of row v that are not below the diagonal of a column of D.
LeftInto(M, D, v) ==
  {p \in Positions(M) : M.idx[p] = v /\ \A c \in D : p \notin OffDiag(M, c)}

\* Every column with an entry of row v is in D, or is v.
WaitsOnlyFor(M, D, v) ==
  \A u \in Rows(M) : (u # v /\ \E p \in Col(M, u) : M.idx[p] = v) => u \in D

\* levelSet.h:33: the degree of v is 1 exactly when the columns with an entry
\* of row v are finished, as then only the diagonal entry is counted.
LEMMA ReadyMeans ==
  ASSUME NEW M, LowerTriangular(M), DiagonalFirst(M),
         NEW D \in SUBSET Rows(M), NEW v \in Rows(M)
  PROVE  /\ IsFiniteSet(LeftInto(M, D, v))
         /\ Cardinality(LeftInto(M, D, v)) = 1 <=> WaitsOnlyFor(M, D, v)
<1> DEFINE Left == LeftInto(M, D, v)
<1>0. DiagonalFirst(M)
  OBVIOUS
<1>1. M.n \in Nat /\ M.n \in 0 .. M.n /\ M.ptr[M.n] \in Nat
  BY PtrFacts
<1>2. IsFiniteSet(Positions(M))
  <2>1. 0 \in Int /\ M.ptr[M.n] - 1 \in Int
    BY <1>1
  <2> QED
    BY <2>1, FS_Interval DEF Positions
<1>3. IsFiniteSet(Left)
  BY <1>2, FS_Subset DEF LeftInto
<1>4. \A c \in Rows(M) : M.ptr[c] \in Nat /\ M.ptr[c + 1] \in Nat /\ M.ptr[c] < M.ptr[c + 1]
  <2>1. \A c \in Rows(M) : c \in 0 .. M.n /\ c + 1 \in 0 .. M.n /\ c < c + 1
    BY <1>1 DEF Rows
  <2> QED
    BY <2>1, PtrFacts
<1>5. \A c \in Rows(M) : M.ptr[c] \in Col(M, c) /\ M.idx[M.ptr[c]] = c
  <2> TAKE c \in Rows(M)
  <2>1. M.ptr[c] \in Int /\ M.ptr[c + 1] \in Int /\ M.ptr[c] < M.ptr[c + 1]
    BY <1>4
  <2> QED
    BY <2>1, <1>0 DEF Col, DiagonalFirst
<1>6. \A c \in Rows(M) : OffDiag(M, c) = Col(M, c) \ {M.ptr[c]}
  <2> TAKE c \in Rows(M)
  <2>1. M.ptr[c] \in Int /\ M.ptr[c + 1] \in Int
    BY <1>4
  <2> QED
    BY <2>1 DEF Col, OffDiag
<1>7. M.ptr[v] \in Left
  <2>1. M.ptr[v] \in Positions(M)
    BY ColumnFacts
  <2>2. ASSUME NEW c \in D, M.ptr[v] \in OffDiag(M, c) PROVE FALSE
    <3>1. c = v
      BY <2>2, <1>5, <1>6, ColumnsDisjoint
    <3> QED
      BY <3>1, <2>2, <1>6
  <2> QED
    BY <2>1, <2>2, <1>5 DEF LeftInto
<1>8. Cardinality(Left) = 1 <=> Left = {M.ptr[v]}
  <2>1. Cardinality(Left) = 1 <=> \E x : Left = {x}
    BY <1>3, FS_Singleton
  <2> QED
    BY <2>1, <1>7
<1> HIDE DEF Left
<1>9. ASSUME Left = {M.ptr[v]}, NEW u \in Rows(M), u # v,
             NEW p \in Col(M, u), M.idx[p] = v
      PROVE  u \in D
  <2>1. p \in OffDiag(M, u)
    BY <1>9, <1>5, <1>6
  <2>2. p \in Positions(M)
    BY <2>1, ColumnFacts
  <2>3. p # M.ptr[v]
    BY <1>9, <1>5, ColumnsDisjoint
  <2>4. PICK c \in D : p \in OffDiag(M, c)
    BY <1>9, <2>2, <2>3 DEF Left, LeftInto
  <2>5. p \in Col(M, c) /\ c \in Rows(M)
    BY <2>4, <1>6
  <2> QED
    BY <2>4, <2>5, <1>9, ColumnsDisjoint
<1>10. ASSUME WaitsOnlyFor(M, D, v), NEW p \in Left PROVE p = M.ptr[v]
  <2>1. p \in Positions(M) /\ M.idx[p] = v /\ \A c \in D : p \notin OffDiag(M, c)
    BY <1>10 DEF Left, LeftInto
  <2>2. PICK u \in Rows(M) : p \in Col(M, u)
    BY <2>1, ColumnOfPosition
  <2>3. CASE p = M.ptr[u]
    BY <2>3, <2>1, <1>5
  <2>4. CASE p \in OffDiag(M, u)
    <3>1. u # v
      BY <2>4, <2>1, ColumnFacts DEF Rows
    <3>2. u \in D
      BY <3>1, <2>1, <2>2, <1>10 DEF WaitsOnlyFor
    <3> QED
      BY <3>2, <2>1, <2>4
  <2> QED
    BY <2>2, <2>3, <2>4, <1>6
<1> QED
  BY <1>3, <1>7, <1>8, <1>9, <1>10 DEF Left, WaitsOnlyFor

\* levelSet.h:48: removing the edges out of one more column takes its entry of
\* row v, if any, off the degree of v.
LEMMA RemovalCounts ==
  ASSUME NEW M, LowerTriangular(M), DiagonalFirst(M),
         NEW D \in SUBSET Rows(M), NEW v \in Rows(M), NEW c \in Rows(M), c \notin D
  PROVE  Cardinality(LeftInto(M, D \cup {c}, v))
           = Cardinality(LeftInto(M, D, v))
             - Cardinality(OffDiag(M, c) \cap {p \in Positions(M) : M.idx[p] = v})
<1> DEFINE Out == OffDiag(M, c) \cap {p \in Positions(M) : M.idx[p] = v}
<1>1. LeftInto(M, D \cup {c}, v) = LeftInto(M, D, v) \ Out
  BY DEF LeftInto
<1>2. \A d \in Rows(M) : OffDiag(M, d) \subseteq Col(M, d)
  <2>1. \A d \in Rows(M) : M.ptr[d] \in Nat /\ M.ptr[d + 1] \in Nat
    <3>1. \A d \in Rows(M) : d \in 0 .. M.n /\ d + 1 \in 0 .. M.n
      BY PtrFacts DEF Rows
    <3> QED
      BY <3>1, PtrFacts
  <2> TAKE d \in Rows(M)
  <2>2. M.ptr[d] \in Int /\ M.ptr[d + 1] \in Int
    BY <2>1
  <2> QED
    BY <2>2 DEF Col, OffDiag
<1>3. ASSUME NEW p \in Out PROVE p \in LeftInto(M, D, v)
  <2>1. p \in OffDiag(M, c) /\ p \in Col(M, c)
    BY <1>3, <1>2
  <2>2. ASSUME NEW d \in D, p \in OffDiag(M, d) PROVE FALSE
    BY <2>1, <2>2, <1>2, ColumnsDisjoint
  <2> QED
    BY <1>3, <2>2 DEF LeftInto
<1>4. LeftInto(M, D, v) \cap Out = Out
  BY <1>3
<1> HIDE DEF Out
<1>5. IsFiniteSet(LeftInto(M, D, v))
  BY ReadyMeans
<1>6. Cardinality(LeftInto(M, D, v) \ Out)
        = Cardinality(LeftInto(M, D, v)) - Cardinality(LeftInto(M, D, v) \cap Out)
  BY <1>5, FS_Difference
<1> QED
  BY <1>1, <1>4, <1>6 DEF Out

-----------------------------------------------------------------------------
(***************************************************************************)
(* The inductive invariant.  LevelsRespectEdges and EveryNodeInOneLevel do *)
(* not speak of the degrees, the window or the removal loop, which decide  *)
(* where a node is placed.                                                 *)
(***************************************************************************)
\* The edges out of the first l nodes placed have been removed.
Finished == {levelSet[q] : q \in 1 .. l}

Last == levelPtr[Len(levelPtr)]

\* levelSet lists the placed nodes, each once.
PlacedInv ==
  /\ levelSet \in Seq(Rows(A))
  /\ \A q, r \in 1 .. Len(levelSet) : levelSet[q] = levelSet[r] => q = r
  /\ \A v \in Rows(A) : v \in visited <=> \E q \in 1 .. Len(levelSet) : levelSet[q] = v
  /\ visited \subseteq Rows(A)

\* A node's degree counts the edges into it that are left.
DegreeInv ==
  /\ l \in Nat /\ l <= Len(levelSet)
  /\ inDegree = [v \in Rows(A) |-> Cardinality(LeftInto(A, Finished, v))]

\* The closed levels are not empty and cover levelSet up to Last.
LevelInv ==
  /\ levelPtr \in Seq(Nat) /\ Len(levelPtr) >= 1
  /\ \A c, d \in 1 .. Len(levelPtr) : c < d => levelPtr[c] < levelPtr[d]
  /\ \A c \in 1 .. Len(levelPtr) : c - 1 <= levelPtr[c] /\ levelPtr[c] <= Len(levelSet)
  /\ \A q \in 1 .. Last : \E c \in 1 .. Len(levelPtr) - 1 :
       levelPtr[c] < q /\ q <= levelPtr[c + 1]

\* A node waits for levels before its own, one just placed for closed ones.
OrderInv ==
  /\ \A c \in 1 .. Len(levelPtr) - 1 : \A q \in 1 .. Len(levelSet) :
       levelPtr[c] < q /\ q <= levelPtr[c + 1] =>
         \A u \in Rows(A) : Precedes(u, levelSet[q]) =>
           \E r \in 1 .. levelPtr[c] : levelSet[r] = u
  /\ \A q \in 1 .. Len(levelSet) : q > Last =>
       \A u \in Rows(A) : Precedes(u, levelSet[q]) =>
         \E r \in 1 .. Last : levelSet[r] = u

\* How far the removal of edges is.
RemovalInv ==
  /\ pc \in {"while", "scan", "begin", "end", "remove", "done"}
  /\ pc # "scan" => Last = Len(levelSet)
  /\ pc \in {"while", "scan", "done"} => l = Last
  /\ pc \in {"begin", "end", "remove"} => Len(levelPtr) >= 2
  /\ pc \in {"begin", "end"} => l = levelPtr[Len(levelPtr) - 1]
  /\ pc = "remove" => levelPtr[Len(levelPtr) - 1] <= l /\ l <= Last

\* Whatever is outside the window is placed, and its first node is not; no
\* ready node is left behind by the scan.
WindowInv ==
  /\ begin \in 0 .. A.n + Slack /\ end \in -1 .. A.n - 1 /\ i \in 0 .. A.n
  /\ \A v \in visited : inDegree[v] = 1
  /\ \A v \in Rows(A) : v < begin \/ v > end => v \in visited
  /\ pc \in {"while", "end", "remove"} /\ begin < A.n => begin \notin visited
  /\ pc = "scan" =>
       /\ begin <= end /\ begin <= i /\ i <= end + 1
       /\ i = begin => begin \notin visited /\ Len(levelSet) = Last
       /\ i > begin => Len(levelSet) > Last
       /\ \A v \in begin .. i - 1 : inDegree[v] = 1 => v \in visited
  /\ pc \in {"begin", "end"} => \A v \in Rows(A) : inDegree[v] = 1 => v \in visited
  /\ pc = "done" => begin > end

IInv ==
  /\ fn = "CSC" /\ A \in CSCInputs
  /\ PlacedInv /\ DegreeInv /\ LevelInv /\ OrderInv /\ RemovalInv /\ WindowInv

\* What the inputs are, and that a node of degree 1 waits for nothing else.
LEMMA InputFacts ==
  ASSUME IInv
  PROVE  /\ LowerTriangular(A) /\ DiagonalFirst(A) /\ A.n \in Nat \ {0}
         /\ Finished \in SUBSET Rows(A)
         /\ \A v \in Rows(A) : inDegree[v] = 1 <=> WaitsOnlyFor(A, Finished, v)
<1>1. LowerTriangular(A) /\ DiagonalFirst(A)
  BY LevelSetInputs DEF IInv
<1>2. A.n \in Nat \ {0}
  BY <1>1, PtrFacts
<1>3. Finished \in SUBSET Rows(A)
  BY DEF IInv, PlacedInv, DegreeInv, Finished
<1>4. ASSUME NEW v \in Rows(A) PROVE inDegree[v] = 1 <=> WaitsOnlyFor(A, Finished, v)
  <2>1. inDegree[v] = Cardinality(LeftInto(A, Finished, v))
    BY DEF IInv, DegreeInv
  <2> QED
    BY <1>1, <1>3, <2>1, ReadyMeans
<1> QED
  BY <1>1, <1>2, <1>3, <1>4

\* Before the first level nothing is placed and every edge is there.
LEMMA InitInv == Init /\ fn = "CSC" => IInv
<1> SUFFICES ASSUME Init, fn = "CSC" PROVE IInv
  OBVIOUS
<1>1. A \in CSCInputs /\ LowerTriangular(A)
  BY LevelSetInputs DEF Init
<1>2. A.n \in Nat \ {0}
  BY <1>1, PtrFacts
<1>3. /\ levelSet = <<>> /\ levelPtr = <<0>> /\ visited = {} /\ l = 0 /\ i = 0
      /\ begin = 0 /\ end = A.n - 1 /\ pc = "while"
      /\ inDegree = [v \in Rows(A) |-> Cardinality(Into(v))]
  BY DEF Init
<1>4. Len(levelSet) = 0 /\ Len(levelPtr) = 1 /\ Last = 0 /\ levelPtr[1] = 0
  BY <1>3 DEF Last
<1>5. PlacedInv
  BY <1>3, <1>4 DEF PlacedInv
<1>6. DegreeInv
  <2>1. Finished = {}
    BY <1>3 DEF Finished
  <2>2. \A v \in Rows(A) : LeftInto(A, Finished, v) = Into(v)
    BY <2>1 DEF LeftInto, Into
  <2> QED
    BY <2>2, <1>3, <1>4 DEF DegreeInv
<1>7. LevelInv
  BY <1>3, <1>4 DEF LevelInv
<1>8. OrderInv
  BY <1>3, <1>4 DEF OrderInv
<1>9. RemovalInv
  BY <1>3, <1>4 DEF RemovalInv
<1>10. WindowInv
  BY <1>2, <1>3, LevelSetInputs DEF WindowInv, Rows
<1> QED
  BY <1>1, <1>5, <1>6, <1>7, <1>8, <1>9, <1>10 DEF IInv

\* levelSet.h:33-36: a ready node is put at the end of the level being made.
LEMMA PlaceHolds == ASSUME IInv, Place PROVE IInv'
<1>1. /\ pc = "scan" /\ i <= end /\ inDegree[i] = 1 /\ i \notin visited
      /\ visited' = visited \cup {i} /\ levelSet' = Append(levelSet, i) /\ i' = i + 1
      /\ UNCHANGED <<A, fn, begin, end, inDegree, levelPtr, l, pc>>
  BY DEF Place
<1>2. /\ A.n \in Nat /\ begin \in Int /\ end \in Int /\ i \in Nat /\ end <= A.n - 1
      /\ i \in Rows(A) /\ Rows(A)' = Rows(A)
  BY <1>1, InputFacts DEF IInv, WindowInv, Rows
<1>3. /\ levelSet \in Seq(Rows(A)) /\ Len(levelSet) \in Nat
      /\ levelSet' \in Seq(Rows(A)) /\ Len(levelSet') = Len(levelSet) + 1
      /\ \A q \in 1 .. Len(levelSet) : levelSet'[q] = levelSet[q]
      /\ levelSet'[Len(levelSet) + 1] = i
  BY <1>1, <1>2 DEF IInv, PlacedInv
<1>4. l = Last /\ l \in Nat /\ l <= Len(levelSet) /\ Last' = Last
  BY <1>1 DEF IInv, DegreeInv, RemovalInv, Last
<1>5. PlacedInv'
  <2>1. \A q \in 1 .. Len(levelSet) : levelSet[q] # i
    BY <1>1, <1>2 DEF IInv, PlacedInv
  <2>2. \A q, r \in 1 .. Len(levelSet') : levelSet'[q] = levelSet'[r] => q = r
    BY <1>3, <2>1 DEF IInv, PlacedInv
  <2>3. \A v \in Rows(A) : v \in visited' <=> \E q \in 1 .. Len(levelSet') : levelSet'[q] = v
    <3> TAKE v \in Rows(A)
    <3>1. v \in visited <=> \E q \in 1 .. Len(levelSet) : levelSet[q] = v
      BY DEF IInv, PlacedInv
    <3>2. (\E q \in 1 .. Len(levelSet') : levelSet'[q] = v)
            <=> v = i \/ \E q \in 1 .. Len(levelSet) : levelSet[q] = v
      BY <1>3
    <3> QED
      BY <1>1, <3>1, <3>2
  <2> QED
    BY <1>1, <1>2, <1>3, <2>2, <2>3 DEF IInv, PlacedInv
<1>6. DegreeInv'
  <2>1. Finished' = Finished
    BY <1>1, <1>3, <1>4 DEF Finished
  <2> QED
    BY <2>1, <1>1, <1>2, <1>3, <1>4 DEF IInv, DegreeInv
<1>7. LevelInv'
  <2>1. \A c \in 1 .. Len(levelPtr) : levelPtr[c] <= Len(levelSet')
    BY <1>3 DEF IInv, LevelInv
  <2> QED
    BY <1>1, <1>4, <2>1 DEF IInv, LevelInv
<1>8. OrderInv'
  <2>0. levelPtr' = levelPtr /\ A' = A
    BY <1>1
  <2>1. \A c \in 1 .. Len(levelPtr) : levelPtr[c] \in Nat /\ levelPtr[c] <= Len(levelSet)
    BY DEF IInv, LevelInv
  <2>2. Last \in Nat /\ Last <= Len(levelSet)
    BY <1>4
  <2>3. ASSUME NEW c \in 1 .. Len(levelPtr) - 1, NEW q \in 1 .. Len(levelSet'),
               levelPtr[c] < q, q <= levelPtr[c + 1],
               NEW u \in Rows(A), Precedes(u, levelSet'[q])
        PROVE  \E r \in 1 .. levelPtr[c] : levelSet'[r] = u
    <3>1. c \in 1 .. Len(levelPtr) /\ c + 1 \in 1 .. Len(levelPtr)
      BY DEF IInv, LevelInv
    <3>2. q \in 1 .. Len(levelSet) /\ levelSet'[q] = levelSet[q]
      BY <3>1, <2>1, <2>3, <1>3
    <3>3. PICK r \in 1 .. levelPtr[c] : levelSet[r] = u
      BY <2>3, <3>2 DEF IInv, OrderInv
    <3>4. r \in 1 .. Len(levelSet)
      BY <3>1, <2>1
    <3> QED
      BY <3>3, <3>4, <1>3
  <2>4. ASSUME NEW q \in 1 .. Len(levelSet'), q > Last,
               NEW u \in Rows(A), Precedes(u, levelSet'[q])
        PROVE  \E r \in 1 .. Last : levelSet'[r] = u
    <3>1. PICK r \in 1 .. Last : levelSet[r] = u
      <4>1. CASE q = Len(levelSet) + 1
        <5>1. WaitsOnlyFor(A, Finished, i)
          BY <1>1, <1>2, InputFacts
        <5>2. u \in Finished
          BY <5>1, <4>1, <2>4, <1>3 DEF WaitsOnlyFor, Precedes
        <5> QED
          BY <5>2, <1>4 DEF Finished
      <4>2. CASE q # Len(levelSet) + 1
        <5>1. q \in 1 .. Len(levelSet) /\ levelSet'[q] = levelSet[q]
          BY <4>2, <1>3
        <5> QED
          BY <5>1, <2>4 DEF IInv, OrderInv
      <4> QED
        BY <4>1, <4>2
    <3> QED
      BY <3>1, <2>2, <1>3
  <2>5. ASSUME NEW c \in (1 .. Len(levelPtr) - 1)', NEW q \in (1 .. Len(levelSet))',
               (levelPtr[c] < q /\ q <= levelPtr[c + 1])',
               NEW u \in Rows(A)', Precedes(u, levelSet[q])'
        PROVE  (\E r \in 1 .. levelPtr[c] : levelSet[r] = u)'
    BY <2>0, <2>3, <2>5 DEF Precedes
  <2>6. ASSUME NEW q \in (1 .. Len(levelSet))', (q > Last)',
               NEW u \in Rows(A)', Precedes(u, levelSet[q])'
        PROVE  (\E r \in 1 .. Last : levelSet[r] = u)'
    BY <2>0, <2>4, <2>6, <1>4 DEF Precedes
  <2> QED
    BY <2>5, <2>6 DEF OrderInv
<1>9. RemovalInv'
  BY <1>1, <1>4 DEF IInv, RemovalInv, Last
<1>10. WindowInv'
  <2>1. \A v \in visited' : inDegree'[v] = 1
    BY <1>1 DEF IInv, WindowInv
  <2>2. \A v \in Rows(A) : v < begin \/ v > end => v \in visited'
    BY <1>1 DEF IInv, WindowInv
  <2>3. /\ begin <= i' /\ i' <= end + 1 /\ i' \in 0 .. A.n /\ i' > begin
        /\ Len(levelSet') > Last
    BY <1>1, <1>2, <1>3, <1>4 DEF IInv, WindowInv
  <2>4. \A v \in begin .. i' - 1 : inDegree'[v] = 1 => v \in visited'
    BY <1>1, <1>2 DEF IInv, WindowInv
  <2> QED
    BY <1>1, <1>2, <1>4, <2>1, <2>2, <2>3, <2>4 DEF IInv, WindowInv
<1> QED
  BY <1>1, <1>5, <1>6, <1>7, <1>8, <1>9, <1>10 DEF IInv

\* A step that touches neither levelSet nor levelPtr nor the degrees disturbs
\* only what is said of the window.
LEMMA WindowStep ==
  ASSUME IInv, UNCHANGED <<A, fn, inDegree, visited, levelSet, levelPtr>>, l' = l,
         RemovalInv', WindowInv'
  PROVE  IInv'
<1>1. UNCHANGED <<A, fn, inDegree, visited, levelSet, levelPtr>> /\ l' = l
  OBVIOUS
<1>2. PlacedInv'
  BY <1>1 DEF IInv, PlacedInv
<1>3. DegreeInv'
  BY <1>1 DEF IInv, DegreeInv, Finished
<1>4. LevelInv'
  BY <1>1 DEF IInv, LevelInv, Last
<1>5. OrderInv'
  BY <1>1 DEF IInv, OrderInv, Last, Precedes
<1> QED
  BY <1>1, <1>2, <1>3, <1>4, <1>5 DEF IInv

\* A node that is not ready is passed; never the first of the window, all of
\* whose predecessors come before it and are placed in closed levels.
LEMMA PassHolds == ASSUME IInv, Pass PROVE IInv'
<1>1. /\ pc = "scan" /\ i <= end /\ ~ (inDegree[i] = 1 /\ i \notin visited) /\ i' = i + 1
      /\ UNCHANGED <<A, fn, begin, end, inDegree, visited, levelSet, levelPtr, l, pc>>
  BY DEF Pass
<1>2. /\ A.n \in Nat /\ begin \in Nat /\ end \in Int /\ i \in Nat /\ end <= A.n - 1
      /\ begin <= i /\ l = Last /\ begin \in Rows(A)
  BY <1>1, InputFacts DEF IInv, WindowInv, RemovalInv, Rows
<1>3. ASSUME i = begin PROVE FALSE
  <2>1. begin \notin visited /\ Len(levelSet) = Last
    BY <1>1, <1>3 DEF IInv, WindowInv
  <2>2. ASSUME NEW u \in Rows(A), u # begin, NEW p \in Col(A, u), A.idx[p] = begin
        PROVE  u \in Finished
    <3>1. p # A.ptr[u]
      BY <2>2, InputFacts DEF DiagonalFirst
    <3>2. p \in OffDiag(A, u)
      <4>1. A.ptr[u] \in Int /\ A.ptr[u + 1] \in Int
        <5>1. u \in 0 .. A.n /\ u + 1 \in 0 .. A.n
          BY InputFacts, ColumnFacts
        <5> QED
          BY <5>1, InputFacts, PtrFacts
      <4> QED
        BY <4>1, <3>1 DEF Col, OffDiag
    <3>3. u < begin
      BY <3>2, <2>2, InputFacts, ColumnFacts
    <3>4. u \in visited
      BY <3>3 DEF IInv, WindowInv
    <3> QED
      BY <3>4, <2>1, <1>2 DEF IInv, PlacedInv, Finished
  <2>3. inDegree[begin] = 1
    BY <2>2, <1>2, InputFacts DEF WaitsOnlyFor
  <2> QED
    BY <1>1, <1>3, <2>1, <2>3
<1>4. RemovalInv'
  BY <1>1 DEF IInv, RemovalInv, Last
<1>5. WindowInv'
  <2>1. i > begin /\ Len(levelSet) > Last
    BY <1>1, <1>2, <1>3 DEF IInv, WindowInv
  <2>2. \A v \in begin .. i' - 1 : inDegree'[v] = 1 => v \in visited'
    BY <1>1, <1>2 DEF IInv, WindowInv
  <2>3. i' \in 0 .. A.n /\ i' > begin /\ i' <= end + 1 /\ Last' = Last
    BY <1>1, <1>2, <2>1 DEF Last
  <2> QED
    BY <1>1, <1>2, <2>1, <2>2, <2>3 DEF IInv, WindowInv, Rows
<1> QED
  BY <1>1, <1>4, <1>5, WindowStep

\* levelSet.h:38-39: the level is closed; the scan has put a node in it.
LEMMA CloseHolds == ASSUME IInv, CloseLevel PROVE IInv'
<1>1. /\ pc = "scan" /\ i > end /\ levelPtr' = Append(levelPtr, Len(levelSet))
      /\ pc' = "begin"
      /\ UNCHANGED <<A, fn, begin, end, inDegree, visited, levelSet, i, l>>
  BY DEF CloseLevel
<1>2. /\ levelPtr \in Seq(Nat) /\ Len(levelPtr) \in Nat \ {0} /\ Len(levelSet) \in Nat
      /\ Last \in Nat /\ l = Last
  BY <1>1 DEF IInv, LevelInv, PlacedInv, RemovalInv, Last
<1>3. Last < Len(levelSet)
  <2>1. begin \in Int /\ end \in Int /\ i \in Int /\ begin <= end /\ i > end
    BY <1>1 DEF IInv, WindowInv
  <2>2. i > begin
    BY <2>1
  <2> QED
    BY <1>1, <1>2, <2>2 DEF IInv, WindowInv
<1>4. /\ levelPtr' \in Seq(Nat) /\ Len(levelPtr') = Len(levelPtr) + 1
      /\ \A c \in 1 .. Len(levelPtr) : levelPtr'[c] = levelPtr[c]
      /\ levelPtr'[Len(levelPtr) + 1] = Len(levelSet)
      /\ Last' = Len(levelSet)
  BY <1>1, <1>2 DEF Last
<1>5. PlacedInv'
  BY <1>1 DEF IInv, PlacedInv
<1>6. DegreeInv'
  BY <1>1 DEF IInv, DegreeInv, Finished
<1>7. LevelInv'
  <2>1. ASSUME NEW c \in 1 .. Len(levelPtr'), NEW d \in 1 .. Len(levelPtr'), c < d
        PROVE  levelPtr'[c] < levelPtr'[d]
    <3>1. c \in 1 .. Len(levelPtr) /\ levelPtr'[c] = levelPtr[c] /\ levelPtr[c] \in Nat
      BY <2>1, <1>2, <1>4
    <3>2. CASE d = Len(levelPtr) + 1
      <4>1. levelPtr[c] <= Last
        <5>1. c = Len(levelPtr) \/ c < Len(levelPtr)
          BY <3>1, <1>2
        <5>2. c < Len(levelPtr) => levelPtr[c] < Last
          BY <3>1, <1>2 DEF IInv, LevelInv, Last
        <5> QED
          BY <5>1, <5>2, <3>1, <1>2 DEF Last
      <4> QED
        BY <4>1, <3>1, <3>2, <1>2, <1>3, <1>4
    <3>3. CASE d # Len(levelPtr) + 1
      <4>1. d \in 1 .. Len(levelPtr) /\ levelPtr'[d] = levelPtr[d]
        BY <3>3, <1>2, <1>4
      <4> QED
        BY <4>1, <3>1, <2>1 DEF IInv, LevelInv
    <3> QED
      BY <3>2, <3>3
  <2>2. ASSUME NEW c \in 1 .. Len(levelPtr')
        PROVE  c - 1 <= levelPtr'[c] /\ levelPtr'[c] <= Len(levelSet')
    <3>1. CASE c = Len(levelPtr) + 1
      <4>1. Len(levelPtr) - 1 <= Last
        BY <1>2 DEF IInv, LevelInv, Last
      <4> QED
        BY <4>1, <3>1, <1>1, <1>2, <1>3, <1>4
    <3>2. CASE c # Len(levelPtr) + 1
      BY <3>2, <1>1, <1>2, <1>4 DEF IInv, LevelInv
    <3> QED
      BY <3>1, <3>2
  <2>3. ASSUME NEW q \in 1 .. Last'
        PROVE  \E c \in 1 .. Len(levelPtr') - 1 : levelPtr'[c] < q /\ q <= levelPtr'[c + 1]
    <3>1. CASE q <= Last
      <4>1. PICK c \in 1 .. Len(levelPtr) - 1 : levelPtr[c] < q /\ q <= levelPtr[c + 1]
        BY <3>1, <1>2 DEF IInv, LevelInv
      <4>2. c \in 1 .. Len(levelPtr') - 1 /\ levelPtr'[c] = levelPtr[c] /\ levelPtr'[c + 1] = levelPtr[c + 1]
        BY <1>2, <1>4
      <4> QED
        BY <4>1, <4>2
    <3>2. CASE q > Last
      <4>1. levelPtr'[Len(levelPtr)] = Last /\ levelPtr'[Len(levelPtr) + 1] = Last'
        BY <1>2, <1>4 DEF Last
      <4>2. Len(levelPtr) \in 1 .. Len(levelPtr') - 1 /\ Last < q /\ q <= Last'
        BY <3>2, <1>2, <1>4
      <4> QED
        BY <4>1, <4>2
    <3> QED
      BY <3>1, <3>2, <1>2, <1>4
  <2> QED
    BY <2>1, <2>2, <2>3, <1>2, <1>4 DEF LevelInv
<1>8. OrderInv'
  <2>1. ASSUME NEW c \in (1 .. Len(levelPtr) - 1)', NEW q \in (1 .. Len(levelSet))',
               (levelPtr[c] < q /\ q <= levelPtr[c + 1])',
               NEW u \in Rows(A)', Precedes(u, levelSet[q])'
        PROVE  (\E r \in 1 .. levelPtr[c] : levelSet[r] = u)'
    <3>0. c \in 1 .. Len(levelPtr) /\ levelPtr'[c] = levelPtr[c]
      BY <1>2, <1>4
    <3>1. q \in 1 .. Len(levelSet) /\ u \in Rows(A) /\ Precedes(u, levelSet[q])
      BY <2>1, <1>1 DEF Precedes
    <3>2. CASE c = Len(levelPtr)
      <4>1. levelPtr[c] = Last /\ q > Last
        BY <3>2, <3>0, <2>1, <1>2 DEF Last
      <4>2. \E r \in 1 .. Last : levelSet[r] = u
        BY <4>1, <3>1 DEF IInv, OrderInv
      <4> QED
        BY <4>1, <4>2, <3>0, <1>1
    <3>3. CASE c # Len(levelPtr)
      <4>1. c \in 1 .. Len(levelPtr) - 1 /\ levelPtr'[c + 1] = levelPtr[c + 1]
        BY <3>0, <3>3, <1>2, <1>4
      <4>2. \E r \in 1 .. levelPtr[c] : levelSet[r] = u
        BY <4>1, <3>0, <3>1, <2>1 DEF IInv, OrderInv
      <4> QED
        BY <4>2, <3>0, <1>1
    <3> QED
      BY <3>2, <3>3
  <2>2. ~ \E q \in (1 .. Len(levelSet))' : (q > Last)'
    BY <1>1, <1>2, <1>4
  <2> QED
    BY <2>1, <2>2 DEF OrderInv
<1>9. RemovalInv'
  <2>1. Len(levelPtr') >= 2 /\ levelPtr'[Len(levelPtr') - 1] = Last
    BY <1>2, <1>4 DEF Last
  <2> QED
    BY <2>1, <1>1, <1>2, <1>4 DEF RemovalInv
<1>10. WindowInv'
  <2>1. \A v \in Rows(A) : inDegree[v] = 1 => v \in visited
    <3>1. \A v \in Rows(A) : v < begin \/ v > end \/ v \in begin .. i - 1
      BY <1>1, InputFacts DEF IInv, WindowInv, Rows
    <3> QED
      BY <3>1, <1>1 DEF IInv, WindowInv
  <2> QED
    BY <2>1, <1>1 DEF IInv, WindowInv, Rows
<1> QED
  BY <1>1, <1>5, <1>6, <1>7, <1>8, <1>9, <1>10 DEF IInv

\* levelSet.h:45-50: the degrees after one more node's edges are removed.
LEMMA RemoveHolds == ASSUME IInv, RemoveEdges PROVE IInv'
<1> DEFINE cc == levelSet[l + 1]
<1>1. /\ pc = "remove" /\ l < Last /\ l' = l + 1
      /\ inDegree' = [v \in Rows(A) |-> inDegree[v] - Cardinality(Removed(cc) \cap Into(v))]
      /\ UNCHANGED <<A, fn, begin, end, visited, levelSet, levelPtr, i, pc>>
  BY DEF RemoveEdges, Last
<1>2. /\ l \in Nat /\ l' \in Nat /\ Last = Len(levelSet) /\ Last' = Last /\ l' <= Len(levelSet)
      /\ Len(levelSet) \in Nat
  BY <1>1 DEF IInv, DegreeInv, RemovalInv, PlacedInv, Last
<1>3. cc \in Rows(A) /\ cc \notin Finished
  <2>1. l + 1 \in 1 .. Len(levelSet) /\ 1 .. l \subseteq 1 .. Len(levelSet) /\ l + 1 \notin 1 .. l
    BY <1>1, <1>2
  <2> QED
    BY <2>1 DEF IInv, PlacedInv, Finished
<1>4. Finished' = Finished \cup {cc}
  <2>1. 1 .. l' = (1 .. l) \cup {l + 1}
    BY <1>1, <1>2
  <2> QED
    BY <2>1, <1>1 DEF Finished
<1>5. \A v \in Rows(A) : inDegree'[v] = Cardinality(LeftInto(A, Finished', v))
  <2> TAKE v \in Rows(A)
  <2>1. inDegree[v] = Cardinality(LeftInto(A, Finished, v))
    BY DEF IInv, DegreeInv
  <2>2. Removed(cc) \cap Into(v) = OffDiag(A, cc) \cap {p \in Positions(A) : A.idx[p] = v}
    BY DEF IInv, Removed, Into
  <2>3. inDegree'[v] = inDegree[v] - Cardinality(Removed(cc) \cap Into(v))
    BY <1>1
  <2> HIDE DEF cc
  <2>4. Cardinality(LeftInto(A, Finished \cup {cc}, v))
          = Cardinality(LeftInto(A, Finished, v))
            - Cardinality(OffDiag(A, cc) \cap {p \in Positions(A) : A.idx[p] = v})
    BY <1>3, InputFacts, RemovalCounts
  <2> QED
    BY <1>4, <2>1, <2>2, <2>3, <2>4
<1> HIDE DEF cc
<1>6. PlacedInv'
  BY <1>1 DEF IInv, PlacedInv
<1>7. DegreeInv'
  <2>1. inDegree' = [v \in Rows(A) |-> Cardinality(LeftInto(A, Finished', v))]
    BY <1>1, <1>5
  <2> QED
    BY <2>1, <1>1, <1>2 DEF DegreeInv
<1>8. LevelInv' /\ OrderInv'
  <2>1. LevelInv'
    BY <1>1 DEF IInv, LevelInv, Last
  <2>2. OrderInv'
    BY <1>1 DEF IInv, OrderInv, Last, Precedes
  <2> QED
    BY <2>1, <2>2
<1>9. RemovalInv'
  BY <1>1, <1>2 DEF IInv, RemovalInv, Last, LevelInv
<1>10. WindowInv'
  <2>1. ASSUME NEW v \in visited PROVE inDegree'[v] = 1
    <3>1. v \in Rows(A) /\ WaitsOnlyFor(A, Finished, v)
      BY InputFacts DEF IInv, PlacedInv, WindowInv
    <3>2. Finished' \in SUBSET Rows(A) /\ WaitsOnlyFor(A, Finished', v)
      BY <3>1, <1>3, <1>4, InputFacts DEF WaitsOnlyFor
    <3> QED
      BY <3>1, <3>2, <1>5, InputFacts, ReadyMeans
  <2> QED
    BY <2>1, <1>1 DEF IInv, WindowInv, Rows
<1> QED
  BY <1>1, <1>6, <1>7, <1>8, <1>9, <1>10 DEF IInv

\* Places without repetition are at most as many as nodes, and as many only if
\* every node has one.
LEMMA PlacedFit ==
  ASSUME IInv
  PROVE  /\ Len(levelSet) <= A.n
         /\ (\A v \in Rows(A) : \E q \in 1 .. Len(levelSet) : levelSet[q] = v)
              => Len(levelSet) = A.n
<1> DEFINE places == 1 .. Len(levelSet)
<1>1. A.n \in Nat /\ Len(levelSet) \in Nat /\ levelSet \in [places -> Rows(A)]
  BY InputFacts DEF IInv, PlacedInv
<1>2. IsFiniteSet(Rows(A)) /\ Cardinality(Rows(A)) = A.n
  <2>1. 0 \in Int /\ A.n - 1 \in Int
    BY <1>1
  <2>2. /\ IsFiniteSet(0 .. A.n - 1)
        /\ Cardinality(0 .. A.n - 1) = IF 0 > A.n - 1 THEN 0 ELSE (A.n - 1) - 0 + 1
    BY <2>1, FS_Interval
  <2> QED
    BY <2>2, <1>1 DEF Rows
<1>3. Cardinality(places) = Len(levelSet)
  <2>1. 1 \in Int /\ Len(levelSet) \in Int
    BY <1>1
  <2>2. Cardinality(places) = IF 1 > Len(levelSet) THEN 0 ELSE Len(levelSet) - 1 + 1
    BY <2>1, FS_Interval
  <2> QED
    BY <2>2, <1>1
<1>4. levelSet \in Injection(places, Rows(A))
  BY <1>1 DEF IInv, PlacedInv, Injection, IsInjective
<1>5. /\ Cardinality(places) <= Cardinality(Rows(A))
      /\ levelSet \in Surjection(places, Rows(A)) => Cardinality(places) = Cardinality(Rows(A))
  BY <1>2, <1>4, FS_Injection
<1>6. (\A v \in Rows(A) : \E q \in places : levelSet[q] = v)
        => levelSet \in Surjection(places, Rows(A))
  BY <1>1 DEF Surjection
<1> QED
  BY <1>2, <1>3, <1>5, <1>6

\* Every step of the inspector keeps the invariant.
LEMMA NextInv == IInv /\ [Next]_vars => IInv'
<1> SUFFICES ASSUME IInv, [Next]_vars PROVE IInv'
  OBVIOUS
<1>0. A.n \in Nat \ {0} /\ begin \in Nat /\ end \in Int /\ end <= A.n - 1
  BY InputFacts DEF IInv, WindowInv
<1>1. CASE StartLevel
  <2>1. /\ pc = "while" /\ begin <= end /\ i' = begin /\ pc' = "scan"
        /\ UNCHANGED <<A, fn, begin, end, inDegree, visited, levelSet, levelPtr, l>>
    BY <1>1 DEF StartLevel
  <2>2. RemovalInv'
    BY <2>1 DEF IInv, RemovalInv, Last
  <2>3. WindowInv'
    BY <2>1, <1>0 DEF IInv, WindowInv, RemovalInv, Last, Rows
  <2> QED
    BY <2>1, <2>2, <2>3, WindowStep
<1>2. CASE Return
  <2>1. /\ pc = "while" /\ begin > end /\ pc' = "done"
        /\ UNCHANGED <<A, fn, begin, end, inDegree, visited, levelSet, levelPtr, i, l>>
    BY <1>2 DEF Return
  <2>2. RemovalInv' /\ WindowInv'
    BY <2>1 DEF IInv, RemovalInv, WindowInv, Last, Rows
  <2> QED
    BY <2>1, <2>2, WindowStep
<1>3. CASE Place
  BY <1>3, PlaceHolds
<1>4. CASE Pass
  BY <1>4, PassHolds
<1>5. CASE CloseLevel
  BY <1>5, CloseHolds
<1>6. CASE AdvanceBegin
  <2>1. /\ pc = "begin" /\ begin < A.n + Slack /\ (begin < A.n => inDegree[begin] = 1)
        /\ begin' = begin + 1
        /\ UNCHANGED <<A, fn, end, inDegree, visited, levelSet, levelPtr, i, l, pc>>
    BY <1>6 DEF AdvanceBegin
  <2>2. RemovalInv'
    BY <2>1 DEF IInv, RemovalInv, Last
  <2>3. ASSUME NEW v \in Rows(A), v < begin' PROVE v \in visited
    <3>1. v < begin \/ (v = begin /\ begin < A.n)
      BY <2>1, <2>3, <1>0 DEF Rows
    <3> QED
      BY <3>1, <2>1 DEF IInv, WindowInv
  <2>4. begin' \in 0 .. A.n + Slack
    BY <2>1, <1>0, LevelSetInputs
  <2>5. WindowInv'
    BY <2>1, <2>3, <2>4 DEF IInv, WindowInv, Rows
  <2> QED
    BY <2>1, <2>2, <2>5, WindowStep
<1>7. CASE BeginStops
  <2>1. /\ pc = "begin" /\ (begin < A.n => inDegree[begin] # 1) /\ pc' = "end"
        /\ UNCHANGED <<A, fn, begin, end, inDegree, visited, levelSet, levelPtr, i, l>>
    BY <1>7 DEF BeginStops
  <2>2. RemovalInv' /\ WindowInv'
    BY <2>1 DEF IInv, RemovalInv, WindowInv, Last, Rows
  <2> QED
    BY <2>1, <2>2, WindowStep
<1>8. CASE AdvanceEnd
  <2>1. /\ pc = "end" /\ begin <= end /\ inDegree[end] = 1 /\ end' = end - 1
        /\ UNCHANGED <<A, fn, begin, inDegree, visited, levelSet, levelPtr, i, l, pc>>
    BY <1>8 DEF AdvanceEnd
  <2>2. RemovalInv'
    BY <2>1 DEF IInv, RemovalInv, Last
  <2>3. ASSUME NEW v \in Rows(A), v > end' PROVE v \in visited
    <3>1. v > end \/ v = end
      BY <2>1, <2>3, <1>0 DEF Rows
    <3> QED
      BY <3>1, <2>1 DEF IInv, WindowInv
  <2>4. end' \in -1 .. A.n - 1
    BY <2>1, <1>0
  <2>5. WindowInv'
    BY <2>1, <2>3, <2>4 DEF IInv, WindowInv, Rows
  <2> QED
    BY <2>1, <2>2, <2>5, WindowStep
<1>9. CASE EndStops
  <2>1. /\ pc = "end" /\ l' = levelPtr[Len(levelPtr) - 1] /\ pc' = "remove"
        /\ UNCHANGED <<A, fn, begin, end, inDegree, visited, levelSet, levelPtr, i>>
    BY <1>9 DEF EndStops
  <2>2. l' = l /\ Len(levelPtr) >= 2
    BY <2>1 DEF IInv, RemovalInv
  <2>3. l <= Last
    <3>1. /\ Len(levelPtr) \in Int /\ Len(levelPtr) - 1 < Len(levelPtr)
          /\ Len(levelPtr) - 1 \in 1 .. Len(levelPtr) /\ Len(levelPtr) \in 1 .. Len(levelPtr)
      BY <2>2 DEF IInv, LevelInv
    <3>2. l < Last
      BY <3>1, <2>1, <2>2 DEF IInv, LevelInv, Last
    <3>3. l \in Int /\ Last \in Int
      BY <3>1 DEF IInv, LevelInv, DegreeInv, Last
    <3> QED
      BY <3>2, <3>3
  <2>4. RemovalInv'
    <3>1. Last = Len(levelSet) /\ l = levelPtr[Len(levelPtr) - 1] /\ l \in Nat
      BY <2>1 DEF IInv, RemovalInv, DegreeInv
    <3> QED
      BY <3>1, <2>1, <2>2, <2>3 DEF RemovalInv, Last
  <2>5. WindowInv'
    BY <2>1 DEF IInv, WindowInv, Rows
  <2> QED
    BY <2>1, <2>2, <2>4, <2>5, WindowStep
<1>10. CASE RemoveEdges
  BY <1>10, RemoveHolds
<1>11. CASE LevelDone
  <2>1. /\ pc = "remove" /\ l >= Last /\ pc' = "while"
        /\ UNCHANGED <<A, fn, begin, end, inDegree, visited, levelSet, levelPtr, i, l>>
    BY <1>11 DEF LevelDone, Last
  <2>2. l = Last
    BY <2>1 DEF IInv, RemovalInv, DegreeInv, PlacedInv
  <2>3. RemovalInv' /\ WindowInv'
    BY <2>1, <2>2 DEF IInv, RemovalInv, WindowInv, Last, Rows
  <2> QED
    BY <2>1, <2>3, WindowStep
<1>12. CASE UNCHANGED vars
  <2>1. UNCHANGED <<A, fn, begin, end, inDegree, visited, levelSet, levelPtr, i, l, pc>>
    BY <1>12 DEF vars
  <2>2. RemovalInv' /\ WindowInv'
    BY <2>1 DEF IInv, RemovalInv, WindowInv, Last, Rows
  <2> QED
    BY <2>1, <2>2, WindowStep
<1> QED
  BY <1>1, <1>2, <1>3, <1>4, <1>5, <1>6, <1>7, <1>8, <1>9, <1>10, <1>11, <1>12 DEF Next

\* The invariant holds of every call of buildLevelSet_CSC.
LEMMA Invariance == Spec /\ fn = "CSC" => []IInv
  BY InitInv, NextInv, PTL DEF Spec

-----------------------------------------------------------------------------
\* levelSet.h:14-73: no index leaves its array (but begin, whose overrun the
\* model keeps), no node is placed twice and no level is empty.
THEOREM TypeCorrect == Spec /\ fn = "CSC" => []TypeOK
<1>1. IInv => TypeOK
  <2> SUFFICES ASSUME IInv PROVE TypeOK
    OBVIOUS
  <2>1. /\ A.n \in Nat /\ levelSet \in Seq(Rows(A)) /\ Len(levelSet) \in Nat
        /\ levelPtr \in Seq(Nat) /\ Len(levelPtr) \in Nat /\ Len(levelPtr) >= 1
    <3>1. A.n \in Nat
      BY InputFacts
    <3>2. levelSet \in Seq(Rows(A)) /\ Len(levelSet) \in Nat
      BY DEF IInv, PlacedInv
    <3>3. levelPtr \in Seq(Nat) /\ Len(levelPtr) \in Nat /\ Len(levelPtr) >= 1
      BY DEF IInv, LevelInv
    <3> QED
      BY <3>1, <3>2, <3>3
  <2>2. Len(levelSet) <= A.n
    BY PlacedFit DEF IInv
  <2>3. \A c \in 1 .. Len(levelPtr) : levelPtr[c] \in Nat /\ levelPtr[c] <= A.n
    BY <2>1, <2>2 DEF IInv, LevelInv
  <2>4. levelPtr \in Seq(0 .. A.n)
    <3>1. levelPtr \in [1 .. Len(levelPtr) -> 0 .. A.n]
      BY <2>1, <2>3
    <3> QED
      BY <3>1, <2>1
  <2>5. Len(levelPtr) <= A.n + 1
    <3>1. Len(levelPtr) - 1 <= levelPtr[Len(levelPtr)]
      BY <2>1 DEF IInv, LevelInv
    <3> QED
      BY <3>1, <2>1, <2>3
  <2>6. inDegree \in [Rows(A) -> Int]
    <3>1. ASSUME NEW v \in Rows(A) PROVE Cardinality(LeftInto(A, Finished, v)) \in Int
      <4>1. IsFiniteSet(LeftInto(A, Finished, v))
        BY InputFacts, ReadyMeans
      <4> QED
        BY <4>1, FS_CardinalityType
    <3> QED
      BY <3>1 DEF IInv, DegreeInv
  <2>7. l \in 0 .. A.n
    BY <2>1, <2>2 DEF IInv, DegreeInv
  <2> QED
    BY <2>1, <2>2, <2>4, <2>5, <2>6, <2>7
       DEF TypeOK, IInv, PlacedInv, RemovalInv, WindowInv
<1> QED
  BY <1>1, Invariance, PTL

\* The levels may be run one after the other, the columns of one in parallel:
\* whatever a column waits for lies in an earlier level.
THEOREM LevelsSound == Spec /\ fn = "CSC" => []LevelsRespectEdges
<1>1. IInv => LevelsRespectEdges
  <2> SUFFICES ASSUME IInv, NEW q \in Closed, NEW u \in Rows(A), Precedes(u, levelSet[q])
               PROVE  \E r \in Closed : levelSet[r] = u /\ LevelOf(r) < LevelOf(q)
    BY DEF LevelsRespectEdges
  <2>1. /\ levelPtr \in Seq(Nat) /\ Len(levelPtr) \in Nat \ {0} /\ Closed = 1 .. Last
        /\ Last \in Nat /\ Last <= Len(levelSet) /\ Len(levelSet) \in Nat
        /\ \A c \in 1 .. Len(levelPtr) : levelPtr[c] \in Nat
    <3>1. Len(levelSet) \in Nat
      BY DEF IInv, PlacedInv
    <3>2. /\ levelPtr \in Seq(Nat) /\ Len(levelPtr) \in Nat \ {0}
          /\ \A c \in 1 .. Len(levelPtr) : levelPtr[c] \in Nat
      BY DEF IInv, LevelInv
    <3>3. Last \in Nat /\ Last <= Len(levelSet) /\ Closed = 1 .. Last
      BY <3>2 DEF IInv, LevelInv, Last, Closed
    <3> QED
      BY <3>1, <3>2, <3>3
  <2>2. \A s \in Closed : /\ LevelOf(s) \in 1 .. Len(levelPtr) - 1
                          /\ levelPtr[LevelOf(s)] < s /\ s <= levelPtr[LevelOf(s) + 1]
    BY <2>1 DEF IInv, LevelInv, LevelOf
  <2>3. PICK r \in 1 .. levelPtr[LevelOf(q)] : levelSet[r] = u
    <3>1. q \in 1 .. Len(levelSet)
      BY <2>1
    <3> QED
      BY <3>1, <2>2 DEF IInv, OrderInv
  <2>4. r \in Closed
    <3>1. levelPtr[LevelOf(q)] < q /\ levelPtr[LevelOf(q)] \in Nat
      <4> DEFINE d == LevelOf(q)
      <4>1. d \in 1 .. Len(levelPtr) - 1 /\ levelPtr[d] < q
        BY <2>2
      <4> HIDE DEF d
      <4>2. d \in 1 .. Len(levelPtr) /\ levelPtr[d] \in Nat
        BY <4>1, <2>1
      <4> QED
        BY <4>1, <4>2 DEF d
    <3>2. q \in 1 .. Last
      BY <2>1
    <3> QED
      BY <3>1, <3>2, <2>1
  <2>5. LevelOf(r) < LevelOf(q)
    <3> DEFINE c == LevelOf(r)
               d == LevelOf(q)
    <3>1. /\ c \in 1 .. Len(levelPtr) /\ d \in 1 .. Len(levelPtr)
          /\ levelPtr[c] < r /\ r <= levelPtr[d] /\ r \in Int
      <4>1. c \in 1 .. Len(levelPtr) - 1 /\ d \in 1 .. Len(levelPtr) - 1 /\ levelPtr[c] < r
        BY <2>2, <2>4
      <4>2. c \in 1 .. Len(levelPtr) /\ d \in 1 .. Len(levelPtr)
        BY <4>1, <2>1
      <4> QED
        BY <4>1, <4>2, <2>1
    <3> HIDE DEF c, d
    <3>2. ASSUME d <= c PROVE FALSE
      <4>1. levelPtr[d] <= levelPtr[c]
        <5>1. d = c \/ d < c
          BY <3>1, <3>2
        <5>2. d < c => levelPtr[d] < levelPtr[c]
          BY <3>1 DEF IInv, LevelInv
        <5>3. levelPtr[c] \in Int /\ levelPtr[d] \in Int
          BY <3>1, <2>1
        <5> QED
          BY <5>1, <5>2, <5>3
      <4> QED
        BY <4>1, <3>1, <2>1
    <3>3. c < d
      BY <3>1, <3>2
    <3> QED
      BY <3>3 DEF c, d
  <2> QED
    BY <2>3, <2>4, <2>5
<1> QED
  BY <1>1, Invariance, PTL

\* levelSet.h:38, "all nodes with zero indegree are processed": no column is
\* left to a later level than it need be.
THEOREM LevelsEarly == Spec /\ fn = "CSC" => []ZeroInDegreeProcessed
<1>1. IInv => ZeroInDegreeProcessed
  <2> DEFINE earlier == {levelSet[q] : q \in 1 .. levelPtr[Len(levelPtr) - 1]}
  <2> SUFFICES ASSUME IInv, pc = "begin", NEW v \in Rows(A),
                      \A u \in Rows(A) : Precedes(u, v) => u \in earlier
               PROVE  v \in Placed
    BY DEF ZeroInDegreeProcessed
  <2>1. earlier = Finished
    BY DEF IInv, RemovalInv, Finished
  <2>2. WaitsOnlyFor(A, Finished, v)
    BY <2>1 DEF WaitsOnlyFor, Precedes
  <2>3. v \in visited
    BY <2>2, InputFacts DEF IInv, WindowInv
  <2>4. Closed = 1 .. Len(levelSet)
    BY DEF IInv, RemovalInv, Last, Closed
  <2> QED
    BY <2>3, <2>4 DEF IInv, PlacedInv, Placed
<1> QED
  BY <1>1, Invariance, PTL

\* levelSet.h:70, "assert(toCheck[j])": every column ends up in a level.
THEOREM AllPlacedOnce == Spec /\ fn = "CSC" => []EveryNodeInOneLevel
<1>1. IInv => EveryNodeInOneLevel
  <2> SUFFICES ASSUME IInv, pc = "done" PROVE Placed = Rows(A) /\ Len(levelSet) = A.n
    BY DEF EveryNodeInOneLevel
  <2>1. \A v \in Rows(A) : v \in visited
    BY InputFacts DEF IInv, WindowInv, Rows
  <2>2. Closed = 1 .. Len(levelSet)
    BY DEF IInv, RemovalInv, Last, Closed
  <2>3. \A v \in Rows(A) : \E q \in 1 .. Len(levelSet) : levelSet[q] = v
    BY <2>1 DEF IInv, PlacedInv
  <2>4. Placed = Rows(A)
    BY <2>2, <2>3 DEF IInv, PlacedInv, Placed
  <2> QED
    BY <2>3, <2>4, PlacedFit DEF IInv
<1> QED
  BY <1>1, Invariance, PTL

-----------------------------------------------------------------------------
(***************************************************************************)
(* The graphs of iChol.h: the inspector after simplification against the   *)
(* one derived from the dependences and against the kernel.                *)
(***************************************************************************)
\* Every off-diagonal entry of the column an off-diagonal entry of column c
\* points to makes computeDAG_simplified push the edge between the two.
LEMMA EdgePushed ==
  ASSUME NEW M, LowerTriangular(M), NEW c \in Rows(M), NEW m \in OffDiag(M, c),
         NEW mp \in OffDiag(M, M.idx[m])
  PROVE  c < M.idx[m] /\ <<c, M.idx[m]>> \in SimplifiedEdges(M)
<1> DEFINE ip == M.idx[m]
           q == <<c, m, mp>>
<1>1. m \in Positions(M) /\ ip \in Rows(M) /\ c < ip
  BY ColumnFacts
<1>2. mp \in Positions(M) /\ M.idx[mp] \in Rows(M)
  BY <1>1, ColumnFacts
<1>3. mp \in Col(M, ip)
  <2>1. M.ptr[ip] \in Nat /\ M.ptr[ip + 1] \in Nat
    BY <1>1, ColumnFacts, PtrFacts
  <2> QED
    BY <2>1 DEF OffDiag, Col
<1>4. M.ptr[M.idx[mp]] < M.ptr[M.idx[mp] + 1]
  <2>1. M.idx[mp] \in 0 .. M.n /\ M.idx[mp] + 1 \in 0 .. M.n /\ M.idx[mp] < M.idx[mp] + 1
    BY <1>2, ColumnFacts DEF Rows
  <2> QED
    BY <2>1, PtrFacts
<1>5. c # ip
  BY <1>1 DEF Rows
<1>6. q \in Pushes(M)
  BY <1>1, <1>2, <1>3, <1>4, <1>5 DEF Pushes
<1>7. From(M, q) = c /\ To(M, q) = ip
  BY <1>1 DEF From, To
<1> QED
  BY <1>1, <1>6, <1>7 DEF SimplifiedEdges

\* iChol.h:68: the graph after simplification has every edge of the graph
\* before it, so no schedule made from it runs two iterations together that
\* the nest derived from the dependences keeps apart.
THEOREM SimplificationLosesNoEdge ==
  ASSUME NEW M, LowerTriangular(M)
  PROVE  computeDAG(M) \subseteq SimplifiedEdges(M)
<1> SUFFICES ASSUME NEW e \in computeDAG(M) PROVE e \in SimplifiedEdges(M)
  OBVIOUS
<1>0. PICK c \in Rows(M) : \E m \in OffDiag(M, c) :
        /\ \/ e = <<c, M.idx[m]>> /\ c < M.idx[m]
           \/ e = <<M.idx[m], c>> /\ M.idx[m] < c
        /\ \E mp \in OffDiag(M, M.idx[m]) : TRUE
  BY DEF computeDAG, Related
<1>1. PICK m \in OffDiag(M, c) :
        /\ \/ e = <<c, M.idx[m]>> /\ c < M.idx[m]
           \/ e = <<M.idx[m], c>> /\ M.idx[m] < c
        /\ \E mp \in OffDiag(M, M.idx[m]) : TRUE
  BY <1>0
<1>2. PICK mp \in OffDiag(M, M.idx[m]) : TRUE
  BY <1>1
<1>3. c < M.idx[m] /\ <<c, M.idx[m]>> \in SimplifiedEdges(M)
  BY <1>2, EdgePushed
<1>4. ~ (M.idx[m] < c)
  BY <1>3, ColumnFacts DEF Rows
<1> QED
  BY <1>1, <1>3, <1>4

\* ic0_csc_m7.h: whenever iteration i of the factorisation updates an entry
\* that iteration ip reads, the simplified graph has the edge from i to ip,
\* unless column ip holds nothing but its diagonal: then it never has it.
THEOREM KernelOrdered ==
  ASSUME NEW M, LowerTriangular(M), NEW e \in KernelEdges(M)
  PROVE  e \in SimplifiedEdges(M) <=> OffDiag(M, e[2]) # {}
<1>1. /\ e = <<e[1], e[2]>> /\ e[1] \in Iterations(M)
      /\ \E h \in Updates(M, e[1]) : M.idx[h.m] = e[2]
  BY DEF KernelEdges
<1>2. PICK h \in Updates(M, e[1]) : M.idx[h.m] = e[2]
  BY <1>1
<1>3. h.m \in OffDiag(M, e[1]) /\ e[1] \in Rows(M)
  BY <1>1 DEF Updates, Iterations, Rows, LowerTriangular, IsCSC
<1>4. ASSUME NEW mp \in OffDiag(M, e[2]) PROVE e \in SimplifiedEdges(M)
  <2>1. mp \in OffDiag(M, M.idx[h.m])
    BY <1>2
  <2>2. <<e[1], M.idx[h.m]>> \in SimplifiedEdges(M)
    BY <1>3, <2>1, EdgePushed
  <2> QED
    BY <1>1, <1>2, <2>2
<1>5. ASSUME e \in SimplifiedEdges(M) PROVE OffDiag(M, e[2]) # {}
  <2>1. PICK q \in Pushes(M) : e = <<From(M, q), To(M, q)>>
    BY <1>5 DEF SimplifiedEdges
  <2>2. /\ q[1] \in Rows(M) /\ q[2] \in OffDiag(M, q[1])
        /\ q[3] \in OffDiag(M, M.idx[q[2]])
    BY DEF Pushes
  <2>3. q[1] < M.idx[q[2]]
    BY <2>2, EdgePushed
  <2>4. e[2] = M.idx[q[2]]
    BY <2>1, <2>3 DEF To
  <2> QED
    BY <2>2, <2>4
<1> QED
  BY <1>4, <1>5

\* iChol.h on the matrices of the level set inspectors, of every order: no edge
\* of the unsimplified graph is lost, and of the kernel's dependences exactly
\* those into columns that hold only their diagonal.
THEOREM GraphsLoseOnlyDiagonals == Spec => []OnlyDiagonalsLost
<1> DEFINE I == fn = "CSC" => A \in CSCInputs
<1>1. Init => I
  BY DEF Init
<1>2. I /\ [Next]_vars => I'
  <2>1. [Next]_vars => UNCHANGED <<A, fn>>
    BY DEF Next, vars, StartLevel, Return, Place, Pass, CloseLevel, AdvanceBegin,
           BeginStops, AdvanceEnd, EndStops, RemoveEdges, LevelDone
  <2> QED
    BY <2>1
<1>3. I => OnlyDiagonalsLost
  <2> SUFFICES ASSUME fn = "CSC", A \in CSCInputs
               PROVE  /\ computeDAG(A) \subseteq SimplifiedEdges(A)
                      /\ KernelEdges(A) \ SimplifiedEdges(A)
                           = {e \in KernelEdges(A) : OffDiag(A, e[2]) = {}}
    BY DEF OnlyDiagonalsLost, Given
  <2>1. LowerTriangular(A)
    BY LevelSetInputs
  <2>2. \A e \in KernelEdges(A) : e \in SimplifiedEdges(A) <=> OffDiag(A, e[2]) # {}
    BY <2>1, KernelOrdered
  <2> QED
    BY <2>1, <2>2, SimplificationLosesNoEdge
<1> QED
  BY <1>1, <1>2, <1>3, PTL DEF Spec
=============================================================================
