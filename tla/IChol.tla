------------------------------- MODULE IChol -------------------------------
(***************************************************************************)
(* The dependence graphs that timeResults/src/iChol.h makes of a matrix    *)
(* for the incomplete Cholesky kernel, by the loop nest derived from the   *)
(* dependences and by the simplified one (the arrays row and col of the    *)
(* code are ptr and idx here).                                             *)
(***************************************************************************)
EXTENDS CholUpdates, FiniteSets

\* MUTANT: mp starts one position late.
PushesLateMp(M) ==
  {q \in Rows(M) \X Positions(M) \X Positions(M) :
     LET i == q[1]  m == q[2]  mp == q[3]
     IN /\ m \in OffDiag(M, i)
        /\ mp \in OffDiag(M, M.idx[m]) \ {M.ptr[M.idx[m]] + 1}
        /\ i # M.idx[m]}

\* The iterations <<i, m, mp>> of the simplified loop nest that push an edge.
Pushes(M) ==
  {q \in Rows(M) \X Positions(M) \X Positions(M) :
     LET i == q[1]  m == q[2]  mp == q[3]
     IN /\ m \in OffDiag(M, i)
        /\ mp \in Col(M, M.idx[m]) \cap OffDiag(M, M.idx[m])
        /\ M.ptr[M.idx[mp]] < M.ptr[M.idx[mp] + 1]
        /\ i # M.idx[m]}

\* The edge pushed joins i and ip = col[m], from the smaller to the larger.
From(M, q) == IF q[1] < M.idx[q[2]] THEN q[1] ELSE M.idx[q[2]]
To(M, q) == IF q[1] < M.idx[q[2]] THEN M.idx[q[2]] ELSE q[1]

\* The order of the pushes in DAG[0], DAG[1], ... laid end to end.
PushedBefore(M, q, r) ==
  \/ From(M, q) < From(M, r)
  \/ /\ From(M, q) = From(M, r)
     /\ \/ q[1] < r[1]
        \/ q[1] = r[1] /\ (q[2] < r[2] \/ (q[2] = r[2] /\ q[3] < r[3]))

\* The successor lists, an edge as often as it is pushed.
computeDAG_simplified(M) ==
  LET P == Pushes(M)
      nth(p) == CHOOSE q \in P : Cardinality({r \in P : PushedBefore(M, r, q)}) = p
  IN [n   |-> M.n,
      ptr |-> [c \in 0 .. M.n |-> Cardinality({q \in P : From(M, q) < c})],
      idx |-> [p \in 0 .. Cardinality(P) - 1 |-> To(M, nth(p))]]

\* The edges of computeDAG_simplified, as pairs.
SimplifiedEdges(M) == {<<From(M, q), To(M, q)>> : q \in Pushes(M)}

(***************************************************************************)
(* What the innermost test of computeDAG asks of m, l, mp and kp (k is mp);*)
(* lp runs from m, a position in column i, to the end of column ip.        *)
(***************************************************************************)
Related(M, m, l, mp, kp) ==
  LET ip == M.idx[m]
  IN /\ mp \in OffDiag(M, ip) /\ kp \in Col(M, M.idx[mp])
     /\ M.idx[l] = M.idx[mp] /\ M.idx[l + 1] <= M.idx[mp]
     /\ \E lp \in m .. M.ptr[ip + 1] - 1 :
          M.idx[lp] = M.idx[kp] /\ M.idx[lp + 1] <= M.idx[kp]

\* The edges of computeDAG: (i, ip) and, were i the larger, (ip, i).
computeDAG(M) ==
  {e \in Rows(M) \X Rows(M) :
     \E i \in Rows(M) : \E m \in OffDiag(M, i) :
       /\ \/ e = <<i, M.idx[m]>> /\ i < M.idx[m]
          \/ e = <<M.idx[m], i>> /\ M.idx[m] < i
       /\ \E l \in OffDiag(M, i) : m <= l /\
            \E mp, kp \in Positions(M) : Related(M, m, l, mp, kp)}

\* The iterations of the kernel's outer loop, which stops before n - 1.
Iterations(M) == 0 .. M.n - 2

\* The flow dependences between iterations of the kernel: S3 of iteration i
\* updates an entry of column ip, which S1 (the diagonal) or S2 of iteration ip
\* reads.
KernelEdges(M) ==
  {e \in Iterations(M) \X Iterations(M) : \E h \in Updates(M, e[1]) : M.idx[h.m] = e[2]}
=============================================================================
