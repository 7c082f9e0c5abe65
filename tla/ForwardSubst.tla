---------------------------- MODULE ForwardSubst ----------------------------
(***************************************************************************)
(* What a forward solve with a lower triangular CSC matrix promises:       *)
(* column after column, divide x[j] by the diagonal entry and subtract     *)
(* Lx[p] * x[j] from the unknown of every off-diagonal entry p of the      *)
(* column, once.  The arithmetic on doubles is uninterpreted, so nothing   *)
(* here holds merely because additions commute.                            *)
(***************************************************************************)
EXTENDS SolveData

VARIABLES
  A,                  \* the matrix; never written
  args,               \* Lp, Li and x are all non-NULL
  x,                  \* the right-hand side, overwritten by the solution
  j,                  \* the column loop's counter
  ret                 \* what the call returned, -1 while it runs

\* v after eliminating the entries at positions S with the unknown xj.
Eliminate(M, v, S, xj) ==
  [i \in Rows(M) |->
     IF \E p \in S : M.idx[p] = i
       THEN MulSub(v[i], Lx(EntryOf(M, S, i)), xj)
       ELSE v[i]]

SolveColumn ==
  /\ ret = -1 /\ args /\ j < A.n
  /\ LET xj == Div(x[j], Lx(A.ptr[j]))
     IN x' = Eliminate(A, [x EXCEPT ![j] = xj], OffDiag(A, j), xj)
  /\ j' = j + 1
  /\ UNCHANGED <<A, args, ret>>

RejectArgs ==
  /\ ret = -1 /\ ~args
  /\ ret' = 0
  /\ UNCHANGED <<A, args, x, j>>

Finish ==
  /\ ret = -1 /\ args /\ j = A.n
  /\ ret' = 1
  /\ UNCHANGED <<A, args, x, j>>

Init ==
  /\ A \in Matrices
  /\ args \in BOOLEAN
  /\ x \in Rhs(A)
  /\ j = 0
  /\ ret = -1

Next == SolveColumn \/ RejectArgs \/ Finish

Spec == Init /\ [][Next]_<<A, args, x, j, ret>>
=============================================================================
