------------------------------ MODULE MCLSolve ------------------------------
(***************************************************************************)
(* LSolve on every lower triangular pattern with N columns.  The           *)
(* arithmetic is an integer hash, in which neither the order nor the       *)
(* number of the operations can change without changing the result.        *)
(***************************************************************************)
EXTENDS LSolve, MCMatrices

CONSTANT N

MCMatrixSet == LowerPatterns(N)

MCValue == 0 .. 30

MCRhs(M) == {[i \in Rows(M) |-> i + 1]}
MCLx(p) == (5 * p + 2) % 31
MCDiv(v, d) == (11 * v + 3 * d + 1) % 31
MCMulSub(v, c, w) == (7 * v + 13 * c + 29 * w + 5) % 31
=============================================================================
