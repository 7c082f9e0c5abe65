----------------------------- MODULE MCMatrices -----------------------------
(***************************************************************************)
(* The small CSC matrices the models are checked on.                       *)
(***************************************************************************)
EXTENDS CSC, FiniteSets

\* Column order, and row order within a column.
Before(e, f) == e[2] < f[2] \/ (e[2] = f[2] /\ e[1] < f[1])

\* The CSC form of a set of <<row, column>> entries, rows sorted in each column.
FromEntries(n, E) ==
  LET entry(p) == CHOOSE e \in E : Cardinality({f \in E : Before(f, e)}) = p
  IN [n   |-> n,
      ptr |-> [c \in 0 .. n |-> Cardinality({e \in E : e[2] < c})],
      idx |-> [p \in 0 .. Cardinality(E) - 1 |-> entry(p)[1]]]

Diagonal(n) == {<<i, i>> : i \in 0 .. n - 1}

BelowDiagonal(n) == {e \in (0 .. n - 1) \X (0 .. n - 1) : e[1] > e[2]}

\* Every lower triangular pattern with a full diagonal.
LowerPatterns(n) ==
  {FromEntries(n, Diagonal(n) \cup E) : E \in SUBSET BelowDiagonal(n)}
=============================================================================
