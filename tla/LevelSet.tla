------------------------------ MODULE LevelSet ------------------------------
(***************************************************************************)
(* The wavefront inspectors of timeResults/src/levelSet.h.                 *)
(* buildLevelSet_CSC orders the columns of a lower triangular matrix into  *)
(* levels, the columns of one level having no dependence on each other;    *)
(* buildLevelSet_DAG does so for a graph given by successor lists.  Both   *)
(* have the same text but for the edges they visit, so A is the CSC matrix *)
(* for the first and, for the second, the lists DAG[0], DAG[1], ... laid   *)
(* end to end: node c owns the positions Col(A, c), idx holds successors.  *)
(* A level is closed when no node of begin .. end is ready; the edges out  *)
(* of its nodes are then removed, and the window begin .. end shrinks past *)
(* the nodes at its ends that are placed.                                  *)
(***************************************************************************)
EXTENDS CSC, Sequences, FiniteSets

CONSTANTS
  CSCInputs,          \* the matrices buildLevelSet_CSC is called with
  DAGInputs,          \* the graphs buildLevelSet_DAG is called with
  Slack               \* bound on the words read past the end of inDegree

\* Every column starts with its diagonal entry, which the inspector counts as
\* an edge of the node to itself and never removes.
DiagonalFirst(M) == \A c \in Rows(M) : M.idx[M.ptr[c]] = c

\* data/fs_csc.json and readMatrix: what the kernels' matrices are like.
ASSUME LevelSetInputs ==
  /\ \A M \in CSCInputs : LowerTriangular(M) /\ DiagonalFirst(M)
  /\ Slack \in Nat

VARIABLES
  A,                  \* the input; never written
  fn,                 \* which of the two functions was called
  begin, end,         \* the window of nodes not known to be placed
  inDegree,           \* edges into each node not yet removed
  visited,            \* the nodes already placed
  levelSet,           \* the nodes placed so far, curLevelCol of them
  levelPtr,           \* where each closed level ends in levelSet; starts with 0
  i, l,               \* the counters of the scan and of the removal loop
  pc

vars == <<A, fn, begin, end, inDegree, visited, levelSet, levelPtr, i, l, pc>>

Into(v) == {p \in Positions(A) : A.idx[p] = v}

\* An off-by-one upper bound: the last edge is left.
RemovedShort(c) == A.ptr[c] + 1 .. A.ptr[c + 1] - 2

\* The edges out of node c that the removal loop visits.
Removed(c) == IF fn = "CSC" THEN OffDiag(A, c) ELSE Col(A, c)

Init ==
  /\ \/ fn = "CSC" /\ A \in CSCInputs
     \/ fn = "DAG" /\ A \in DAGInputs
  /\ begin = 0 /\ end = A.n - 1
  /\ inDegree = [v \in Rows(A) |-> Cardinality(Into(v))]
  /\ visited = {}
  /\ levelSet = <<>> /\ levelPtr = <<0>>
  /\ i = 0 /\ l = 0
  /\ pc = "while"

-----------------------------------------------------------------------------
\* while (begin <= end): the scan for the next level starts at begin.
StartLevel ==
  /\ pc = "while" /\ begin <= end
  /\ i' = begin
  /\ pc' = "scan"
  /\ UNCHANGED <<A, fn, begin, end, inDegree, visited, levelSet, levelPtr, l>>

\* return curLevel
Return ==
  /\ pc = "while" /\ begin > end
  /\ pc' = "done"
  /\ UNCHANGED <<A, fn, begin, end, inDegree, visited, levelSet, levelPtr, i, l>>

\* The visited test is missing.
PlaceAgain ==
  /\ pc = "scan" /\ i <= end /\ inDegree[i] = 1
  /\ visited' = visited \cup {i}
  /\ levelSet' = Append(levelSet, i)
  /\ i' = i + 1
  /\ UNCHANGED <<A, fn, begin, end, inDegree, levelPtr, l, pc>>

\* if (inDegree[i] == 1 && !visited[i]): i joins the current level.
Place ==
  /\ pc = "scan" /\ i <= end
  /\ inDegree[i] = 1 /\ i \notin visited
  /\ visited' = visited \cup {i}
  /\ levelSet' = Append(levelSet, i)
  /\ i' = i + 1
  /\ UNCHANGED <<A, fn, begin, end, inDegree, levelPtr, l, pc>>

\* A node that is not ready is looked at for ever.
PassStuck ==
  /\ pc = "scan" /\ i <= end
  /\ ~(inDegree[i] = 1 /\ i \notin visited)
  /\ UNCHANGED vars

Pass ==
  /\ pc = "scan" /\ i <= end
  /\ ~(inDegree[i] = 1 /\ i \notin visited)
  /\ i' = i + 1
  /\ UNCHANGED <<A, fn, begin, end, inDegree, visited, levelSet, levelPtr, l, pc>>

\* curLevel++; levelPtr[curLevel] = curLevelCol
CloseLevel ==
  /\ pc = "scan" /\ i > end
  /\ levelPtr' = Append(levelPtr, Len(levelSet))
  /\ pc' = "begin"
  /\ UNCHANGED <<A, fn, begin, end, inDegree, visited, levelSet, i, l>>

(***************************************************************************)
(* while (inDegree[begin] == 1) begin++, with no bound on begin: once it   *)
(* is past the array the loop reads whatever follows, which may or may not *)
(* be a 1.                                                                 *)
(***************************************************************************)
AdvanceBegin ==
  /\ pc = "begin" /\ begin < A.n + Slack
  /\ begin < A.n => inDegree[begin] = 1
  /\ begin' = begin + 1
  /\ UNCHANGED <<A, fn, end, inDegree, visited, levelSet, levelPtr, i, l, pc>>

BeginStops ==
  /\ pc = "begin"
  /\ begin < A.n => inDegree[begin] # 1
  /\ pc' = "end"
  /\ UNCHANGED <<A, fn, begin, end, inDegree, visited, levelSet, levelPtr, i, l>>

\* The window shrinks past nodes that still have an incoming edge.
AdvanceEndUnplaced ==
  /\ pc = "end" /\ begin <= end /\ inDegree[end] <= 2
  /\ end' = end - 1
  /\ UNCHANGED <<A, fn, begin, inDegree, visited, levelSet, levelPtr, i, l, pc>>

\* while (inDegree[end] == 1 && begin <= end) end--
AdvanceEnd ==
  /\ pc = "end" /\ begin <= end /\ inDegree[end] = 1
  /\ end' = end - 1
  /\ UNCHANGED <<A, fn, begin, inDegree, visited, levelSet, levelPtr, i, l, pc>>

\* The removal loop starts at the first node of the level just closed.
EndStops ==
  /\ pc = "end" /\ ~(begin <= end /\ inDegree[end] = 1)
  /\ l' = levelPtr[Len(levelPtr) - 1]
  /\ pc' = "remove"
  /\ UNCHANGED <<A, fn, begin, end, inDegree, visited, levelSet, levelPtr, i>>

\* The removal loop starts at the front of levelSet instead of at the level's first node.
RemoveEdgesFromZero ==
  /\ pc = "remove" /\ l < levelPtr[Len(levelPtr)]
  /\ LET cc == levelSet[(l + 1) - levelPtr[Len(levelPtr) - 1]]
     IN inDegree' = [v \in Rows(A) |-> inDegree[v] - Cardinality(Removed(cc) \cap Into(v))]
  /\ l' = l + 1
  /\ UNCHANGED <<A, fn, begin, end, visited, levelSet, levelPtr, i, pc>>

\* The edges out of the node levelSet[l] are removed.
RemoveEdges ==
  /\ pc = "remove" /\ l < levelPtr[Len(levelPtr)]
  /\ LET cc == levelSet[l + 1]
     IN inDegree' = [v \in Rows(A) |-> inDegree[v] - Cardinality(Removed(cc) \cap Into(v))]
  /\ l' = l + 1
  /\ UNCHANGED <<A, fn, begin, end, visited, levelSet, levelPtr, i, pc>>

LevelDone ==
  /\ pc = "remove" /\ l >= levelPtr[Len(levelPtr)]
  /\ pc' = "while"
  /\ UNCHANGED <<A, fn, begin, end, inDegree, visited, levelSet, levelPtr, i, l>>

Next ==
  \/ StartLevel \/ Place \/ Pass \/ CloseLevel \/ AdvanceBegin \/ BeginStops
  \/ AdvanceEnd \/ EndStops \/ RemoveEdges \/ LevelDone \/ Return

\* The function is sequential and runs until it returns.
Spec == Init /\ [][Next]_vars /\ WF_vars(Next)

-----------------------------------------------------------------------------
\* The dependences the levels must respect: u must finish before v begins.
Precedes(u, v) == u # v /\ \E p \in Col(A, u) : A.idx[p] = v

\* The level of a node of a closed level, counted from 1.
LevelOf(q) == CHOOSE c \in 1 .. Len(levelPtr) - 1 : levelPtr[c] < q /\ q <= levelPtr[c + 1]

Closed == 1 .. levelPtr[Len(levelPtr)]

Placed == {levelSet[q] : q \in Closed}

(***************************************************************************)
(* Every array index of levelSet.h stays inside its array: levelSet has n  *)
(* words and levelPtr n + 1, so no node is placed twice and no level is    *)
(* empty.  (begin may run past inDegree, which is the read noted above.)   *)
(***************************************************************************)
TypeOK ==
  /\ fn \in {"CSC", "DAG"}
  /\ begin \in 0 .. A.n + Slack /\ end \in -1 .. A.n - 1
  /\ inDegree \in [Rows(A) -> Int]
  /\ visited \subseteq Rows(A)
  /\ levelSet \in Seq(Rows(A)) /\ Len(levelSet) <= A.n
  /\ levelPtr \in Seq(0 .. A.n) /\ Len(levelPtr) <= A.n + 1
  /\ i \in 0 .. A.n /\ l \in 0 .. A.n
  /\ pc \in {"while", "scan", "begin", "end", "remove", "done"}

(***************************************************************************)
(* The levels of levelSet.h may be run one after the other, the nodes of   *)
(* one level in parallel: every node a closed level depends on lies in an  *)
(* earlier level.                                                          *)
(***************************************************************************)
LevelsRespectEdges ==
  \A q \in Closed : \A u \in Rows(A) : Precedes(u, levelSet[q]) =>
    \E r \in Closed : levelSet[r] = u /\ LevelOf(r) < LevelOf(q)

(***************************************************************************)
(* "all nodes with zero indegree are processed" (levelSet.h:38 and 107):   *)
(* when a level closes, every node all of whose predecessors lie in        *)
(* earlier levels has been placed, so that no level is later than it need  *)
(* be and the loop makes progress.                                         *)
(***************************************************************************)
ZeroInDegreeProcessed ==
  pc = "begin" =>
    LET earlier == {levelSet[q] : q \in 1 .. levelPtr[Len(levelPtr) - 1]}
    IN \A v \in Rows(A) :
         (\A u \in Rows(A) : Precedes(u, v) => u \in earlier) => v \in Placed

(***************************************************************************)
(* The check under VERIFY (levelSet.h:59-72), "assert(toCheck[j])": when   *)
(* the function returns, every node is in a level, and in one only.        *)
(***************************************************************************)
EveryNodeInOneLevel ==
  pc = "done" => Placed = Rows(A) /\ Len(levelSet) = A.n

(***************************************************************************)
(* The loop "while (begin <= end)" ends: the window closes although only   *)
(* its two ends are ever examined.                                         *)
(***************************************************************************)
Terminates == <>(pc = "done")
=============================================================================
