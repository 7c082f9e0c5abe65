----------------------------- MODULE MCLevelSet -----------------------------
(***************************************************************************)
(* The inspectors on every lower triangular pattern of order N, and on the *)
(* graphs computeDAG_simplified (timeResults/src/iChol.h) makes of them.   *)
(***************************************************************************)
EXTENDS Inspectors

CONSTANT N

Patterns == INSTANCE MCMatrices

LowerMatrices == Patterns!LowerPatterns(N)

NoInputs == {}

SimplifiedGraphs == {computeDAG_simplified(M) : M \in LowerMatrices}
=============================================================================
