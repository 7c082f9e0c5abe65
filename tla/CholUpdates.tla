----------------------------- MODULE CholUpdates -----------------------------
EXTENDS CSC

(***************************************************************************)
(* The iterations [m, k, l] of the three nested loops on column i that get *)
(* past "rowIdx[l] == rowIdx[k] && rowIdx[l+1] <= rowIdx[k]": S3 subtracts *)
(* val[m] * val[l] from val[k].                                            *)
(***************************************************************************)
Updates(M, i) ==
  {h \in [m : OffDiag(M, i), k : Positions(M), l : OffDiag(M, i)] :
     /\ h.k \in Col(M, M.idx[h.m])
     /\ h.m <= h.l
     /\ M.idx[h.l] = M.idx[h.k]
     /\ M.idx[h.l + 1] <= M.idx[h.k]}
==============================================================================
