----------------------------- MODULE ColumnChol -----------------------------
(***************************************************************************)
(* What the kernels ic0_csr and ic0_csr_parInner promise: for every column *)
(* but the last, scale it and then make each update of later columns that  *)
(* it calls for, once.                                                     *)
(***************************************************************************)
EXTENDS CholData

VARIABLES
  A,                  \* colPtr, rowIdx: the matrix; never written
  val,                \* its entries, overwritten by the factor's
  i,                  \* the column loop's counter
  done                \* the call has returned

EliminateColumn ==
  /\ ~done /\ i < A.n - 1
  /\ val' = Update(A, Scale(A, val, i), Updates(A, i))
  /\ i' = i + 1
  /\ UNCHANGED <<A, done>>

Finish ==
  /\ ~done /\ i = A.n - 1
  /\ done' = TRUE
  /\ UNCHANGED <<A, val, i>>

Init ==
  /\ A \in Matrices
  /\ val \in Vals(A)
  /\ i = 0
  /\ done = FALSE

Next == EliminateColumn \/ Finish

Spec == Init /\ [][Next]_<<A, val, i, done>>
=============================================================================
