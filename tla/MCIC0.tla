------------------------------- MODULE MCIC0 -------------------------------
(***************************************************************************)
(* IC0 on every lower triangular pattern with N columns.  The arithmetic   *)
(* is an integer hash, in which neither the order nor the number of the    *)
(* operations can change without changing the result.                      *)
(***************************************************************************)
EXTENDS IC0, FiniteSets

CONSTANT N

Patterns == INSTANCE MCMatrices

MCMatrixSet == Patterns!LowerPatterns(N)

MCValue == 0 .. 30

MCVals(M) == {[q \in Positions(M) |-> (5 * q + 2) % 31]}
MCSqrt(v) == (17 * v + 9) % 31
MCDiv(v, d) == (11 * v + 3 * d + 1) % 31
MCMulSub(v, c, w) == (7 * v + 13 * c + 29 * w + 5) % 31
=============================================================================
