-------------------------------- MODULE CSC --------------------------------
(***************************************************************************)
(* A square sparse matrix in compressed column form, as the timed kernels  *)
(* and readMatrix use it: column j owns the positions ptr[j] .. ptr[j+1]-1 *)
(* of the index array, and idx[p] is the row of the entry at position p.   *)
(* The entries' numeric values play no part here.  The index-array         *)
(* properties are the ones the kernels' JSON files declare; a quantified   *)
(* variable of a declared rule ranges over the domains of the index arrays *)
(* it is applied to.                                                       *)
(***************************************************************************)
EXTENDS Integers

Rows(A) == 0 .. A.n - 1

Positions(A) == 0 .. A.ptr[A.n] - 1

\* for (p = ptr[j]; p < ptr[j+1]; p++)
Col(A, j) == A.ptr[j] .. A.ptr[j + 1] - 1

\* for (p = ptr[j] + 1; p < ptr[j+1]; p++): the column without its first entry.
OffDiag(A, j) == A.ptr[j] + 1 .. A.ptr[j + 1] - 1

\* The position among S of the entry in row i.
EntryOf(A, S, i) == CHOOSE p \in S : A.idx[p] = i

(***************************************************************************)
(* What every holder of such a matrix relies on: one array bound per       *)
(* column, positions in increasing order of columns, and rows in range.    *)
(***************************************************************************)
IsCSC(A) ==
  /\ A.n \in Nat \ {0}
  /\ A.ptr \in [0 .. A.n -> Nat]
  /\ A.ptr[0] = 0
  /\ A.idx \in [Positions(A) -> Rows(A)]

\* "Monotonicity" : "Monotonic_Increasing" of Lp and colPtr.
PtrIncreasing(A) ==
  \A i, j \in 0 .. A.n : i < j => A.ptr[i] < A.ptr[j]

\* "Triangularity": ptr(e1) < e2 => e1 < idx(e2).
Triangularity(A) ==
  \A e1 \in 0 .. A.n, e2 \in Positions(A) : A.ptr[e1] < e2 => e1 < A.idx[e2]

\* "CoMonotonicity": two off-diagonal positions of a column have increasing rows.
CoMonotonicity(A) ==
  \A e1 \in Rows(A) : \A e2, e3 \in OffDiag(A, e1) :
    e2 < e3 => A.idx[e2] < A.idx[e3]

LowerTriangular(A) ==
  IsCSC(A) /\ PtrIncreasing(A) /\ Triangularity(A) /\ CoMonotonicity(A)
=============================================================================
