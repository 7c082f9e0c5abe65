----------------------------- MODULE Inspectors -----------------------------
(***************************************************************************)
(* The level set inspectors and the dependence graph inspectors on the     *)
(* same matrices: iChol.h makes the graphs buildLevelSet_DAG is for.       *)
(***************************************************************************)
EXTENDS LevelSet, IChol

\* The inspector of iChol.h is handed the matrix the level sets are built of.
Given == fn = "CSC" /\ levelSet = <<>> /\ pc = "while"

(***************************************************************************)
(* The simplified inspector (iChol.h:70) has every edge of the one derived *)
(* from the dependences (iChol.h:21), and of the kernel's own dependences  *)
(* it misses exactly those into a column that holds only its diagonal: any *)
(* other two iterations of the factorisation, one updating what the other  *)
(* reads, the diagonal under its square root included, are ordered.        *)
(***************************************************************************)
OnlyDiagonalsLost ==
  Given =>
    /\ computeDAG(A) \subseteq SimplifiedEdges(A)
    /\ KernelEdges(A) \ SimplifiedEdges(A) = {e \in KernelEdges(A) : OffDiag(A, e[2]) = {}}
=============================================================================
