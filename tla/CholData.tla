------------------------------ MODULE CholData ------------------------------
(***************************************************************************)
(* The data of an incomplete Cholesky factorisation in place: the matrices *)
(* and their entries, and uninterpreted arithmetic on doubles (SolveData).  *)
(***************************************************************************)
EXTENDS CholUpdates

CONSTANTS
  Matrices,           \* the matrices a factorisation may be called with
  Value,              \* doubles
  Vals(_),            \* Vals(A): the entries matrix A may hold
  Sqrt(_),            \* Sqrt(v)         = sqrt(v)
  Div(_, _),          \* Div(v, d)       = v / d
  MulSub(_, _, _)     \* MulSub(v, c, w) = v - c * w

ASSUME ArithmeticClosed ==
  /\ \A v \in Value : Sqrt(v) \in Value
  /\ \A v, d \in Value : Div(v, d) \in Value
  /\ \A v, c, w \in Value : MulSub(v, c, w) \in Value

ASSUME MatricesLowerTriangular == \A M \in Matrices : LowerTriangular(M)

ASSUME ValsType == \A M \in Matrices : Vals(M) \subseteq [Positions(M) -> Value]

\* The update among S of the entry at position q.
UpdateOf(S, q) == CHOOSE h \in S : h.k = q

\* S1 and S2: the square root of the diagonal, and the column divided by it.
Scale(M, v, i) ==
  LET d == Sqrt(v[M.ptr[i]])
  IN [q \in Positions(M) |->
        IF q = M.ptr[i] THEN d
        ELSE IF q \in OffDiag(M, i) THEN Div(v[q], d) ELSE v[q]]

\* v after the updates S.
Update(M, v, S) ==
  [q \in Positions(M) |->
     IF \E h \in S : h.k = q
       THEN MulSub(v[q], v[UpdateOf(S, q).m], v[UpdateOf(S, q).l])
       ELSE v[q]]
=============================================================================
