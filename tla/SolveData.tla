----------------------------- MODULE SolveData -----------------------------
(***************************************************************************)
(* The data of a forward solve: the matrices and right-hand sides it may   *)
(* be called with, and the arithmetic on doubles, which is uninterpreted:  *)
(* a result that holds for every Div and MulSub holds for rounded doubles, *)
(* whose operations neither commute nor associate.                         *)
(***************************************************************************)
EXTENDS CSC

CONSTANTS
  Matrices,           \* the matrices a solve may be called with
  Value,              \* doubles
  Rhs(_),             \* Rhs(A): the right-hand sides for matrix A
  Lx(_),              \* Lx(p): the entry at position p
  Div(_, _),          \* Div(v, d)       = v / d
  MulSub(_, _, _)     \* MulSub(v, c, w) = v - c * w

ASSUME ArithmeticClosed ==
  /\ \A M \in Matrices : \A p \in Positions(M) : Lx(p) \in Value
  /\ \A v, d \in Value : Div(v, d) \in Value
  /\ \A v, c, w \in Value : MulSub(v, c, w) \in Value

ASSUME MatricesLowerTriangular == \A M \in Matrices : LowerTriangular(M)

ASSUME RhsType == \A M \in Matrices : Rhs(M) \subseteq [Rows(M) -> Value]
=============================================================================
