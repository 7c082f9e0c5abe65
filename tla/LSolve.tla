------------------------------- MODULE LSolve -------------------------------
(***************************************************************************)
(* The forward solve kernels of timeResults/src/triangularSolve.h: lsolve, *)
(* and lsolve_parInner, whose inner loop over a column's entries is an     *)
(* OpenMP "parallel for".  An iteration is three steps of its thread (read *)
(* x[j], read x[Li[p]], write x[Li[p]]), so that the update x[Li[p]] -= .. *)
(* of two threads can interleave.  schedule(auto) lets the runtime give    *)
(* any iteration to any thread: a free thread takes any remaining one.     *)
(***************************************************************************)
EXTENDS SolveData

CONSTANTS
  Threads,            \* the OpenMP team
  Garbage             \* what a register holds before it is loaded

ASSUME GarbageType == Garbage \in Value

VARIABLES
  A,                  \* Lp, Li: the matrix; never written
  kernel,             \* which of the two functions was called
  args,               \* Lp, Li and x are all non-NULL
  x,                  \* the right-hand side, overwritten by the solution
  j,                  \* the column loop's counter
  pc,                 \* where the calling thread is
  todo,               \* iterations of the inner loop not yet begun
  at, pos, rj, ri,    \* per thread: its place, its p, x[j] and x[Li[p]] as read
  ret                 \* what the call returned, -1 while it runs

threadVars == <<at, pos, rj, ri>>
vars == <<A, kernel, args, x, j, pc, todo, at, pos, rj, ri, ret>>

Kernels == {"lsolve", "lsolve_parInner"}

Init ==
  /\ A \in Matrices
  /\ kernel \in Kernels
  /\ args \in BOOLEAN
  /\ x \in Rhs(A)
  /\ j = 0
  /\ pc = "entry"
  /\ todo = {}
  /\ at = [t \in Threads |-> "idle"]
  /\ pos = [t \in Threads |-> 0]
  /\ rj = [t \in Threads |-> Garbage]
  /\ ri = [t \in Threads |-> Garbage]
  /\ ret = -1

-----------------------------------------------------------------------------
\* if (!Lp || !Li || !x) return (0)
CheckArgs ==
  /\ pc = "entry"
  /\ IF args THEN pc' = "column" /\ ret' = ret
             ELSE pc' = "exit" /\ ret' = 0
  /\ UNCHANGED <<A, kernel, args, x, j, todo, threadVars>>

\* An off-by-one upper bound: "p <= Lp[j+1]".
DivideUpperOff ==
  /\ pc = "column" /\ j < A.n
  /\ x' = [x EXCEPT ![j] = Div(@, Lx(A.ptr[j]))]
  /\ todo' = OffDiag(A, j) \cup {A.ptr[j + 1]}
  /\ pc' = "inner"
  /\ UNCHANGED <<A, kernel, args, j, threadVars, ret>>

\* An off-by-one lower bound: the loop starts at the diagonal, "p = Lp[j]".
DivideLowerOff ==
  /\ pc = "column" /\ j < A.n
  /\ x' = [x EXCEPT ![j] = Div(@, Lx(A.ptr[j]))]
  /\ todo' = Col(A, j)
  /\ pc' = "inner"
  /\ UNCHANGED <<A, kernel, args, j, threadVars, ret>>

\* x[j] /= Lx[Lp[j]], and the inner loop begins.
Divide ==
  /\ pc = "column" /\ j < A.n
  /\ x' = [x EXCEPT ![j] = Div(@, Lx(A.ptr[j]))]
  /\ todo' = OffDiag(A, j)
  /\ pc' = "inner"
  /\ UNCHANGED <<A, kernel, args, j, threadVars, ret>>

\* One iteration of lsolve's inner loop, in order of p.
SerialIteration ==
  /\ pc = "inner" /\ kernel = "lsolve"
  /\ \E p \in todo :
       /\ \A q \in todo : p <= q
       /\ x' = [x EXCEPT ![A.idx[p]] = MulSub(@, Lx(p), x[j])]
       /\ todo' = todo \ {p}
  /\ UNCHANGED <<A, kernel, args, j, pc, threadVars, ret>>

\* Thread t begins iteration p of the parallel loop and reads x[j].
Take(t, p) ==
  /\ pc = "inner" /\ kernel = "lsolve_parInner"
  /\ at[t] = "idle" /\ p \in todo
  /\ todo' = todo \ {p}
  /\ at' = [at EXCEPT ![t] = "taken"]
  /\ pos' = [pos EXCEPT ![t] = p]
  /\ rj' = [rj EXCEPT ![t] = x[j]]
  /\ UNCHANGED <<A, kernel, args, x, j, pc, ri, ret>>

\* Thread t reads x[Li[p]].
Load(t) ==
  /\ at[t] = "taken"
  /\ at' = [at EXCEPT ![t] = "loaded"]
  /\ ri' = [ri EXCEPT ![t] = x[A.idx[pos[t]]]]
  /\ UNCHANGED <<A, kernel, args, x, j, pc, todo, pos, rj, ret>>

\* Thread t writes x[Li[p]]; its registers are dead.
Store(t) ==
  /\ at[t] = "loaded"
  /\ x' = [x EXCEPT ![A.idx[pos[t]]] = MulSub(ri[t], Lx(pos[t]), rj[t])]
  /\ at' = [at EXCEPT ![t] = "idle"]
  /\ pos' = [pos EXCEPT ![t] = 0]
  /\ rj' = [rj EXCEPT ![t] = Garbage]
  /\ ri' = [ri EXCEPT ![t] = Garbage]
  /\ UNCHANGED <<A, kernel, args, j, pc, todo, ret>>

\* A "nowait" loop: the next column begins while threads still work.
JoinNoWait ==
  /\ pc = "inner" /\ todo = {}
  /\ j' = j + 1
  /\ pc' = "column"
  /\ UNCHANGED <<A, kernel, args, x, todo, threadVars, ret>>

\* The column counter is not advanced.
JoinSameColumn ==
  /\ pc = "inner" /\ todo = {}
  /\ \A t \in Threads : at[t] = "idle"
  /\ pc' = "column"
  /\ UNCHANGED <<A, kernel, args, x, j, todo, threadVars, ret>>

\* The implicit barrier ending the inner loop, and the column loop's j++.
Join ==
  /\ pc = "inner" /\ todo = {}
  /\ \A t \in Threads : at[t] = "idle"
  /\ j' = j + 1
  /\ pc' = "column"
  /\ UNCHANGED <<A, kernel, args, x, todo, threadVars, ret>>

\* return (1)
Return ==
  /\ pc = "column" /\ j = A.n
  /\ pc' = "exit"
  /\ ret' = 1
  /\ UNCHANGED <<A, kernel, args, x, j, todo, threadVars>>

Caller == CheckArgs \/ Divide \/ SerialIteration \/ Join \/ Return
Worker(t) == (\E p \in todo : Take(t, p)) \/ Load(t) \/ Store(t)

Next == Caller \/ \E t \in Threads : Worker(t)

(***************************************************************************)
(* The calling thread runs on, and OpenMP runs every thread of the team    *)
(* to the end of the iterations it was given.                              *)
(***************************************************************************)
Fairness == WF_vars(Caller) /\ \A t \in Threads : WF_vars(Worker(t))

Spec == Init /\ [][Next]_vars /\ Fairness

-----------------------------------------------------------------------------
Busy(t) == at[t] # "idle"

\* Every index the kernels use lies inside its array (triangularSolve.h:11-55).
TypeOK ==
  /\ A \in Matrices
  /\ kernel \in Kernels
  /\ args \in BOOLEAN
  /\ x \in [Rows(A) -> Value]
  /\ j \in 0 .. A.n
  /\ pc \in {"entry", "column", "inner", "exit"}
  /\ todo \subseteq Positions(A)
  /\ at \in [Threads -> {"idle", "taken", "loaded"}]
  /\ pos \in [Threads -> Nat]
  /\ rj \in [Threads -> Value]
  /\ ri \in [Threads -> Value]
  /\ ret \in {-1, 0, 1}

\* What the iteration a thread has been given reads and writes.
Reads(t) == {j, A.idx[pos[t]]}
Writes(t) == {A.idx[pos[t]]}

(***************************************************************************)
(* No data race in "x[Li[p]] -= Lx[p] * x[j]" (triangularSolve.h:50): of   *)
(* two iterations in progress, neither writes an element of x the other    *)
(* reads or writes.                                                        *)
(***************************************************************************)
NoDataRace ==
  \A t, u \in Threads :
    t # u /\ Busy(t) /\ Busy(u) => Writes(t) \cap (Reads(u) \cup Writes(u)) = {}

(***************************************************************************)
(* The elimination of column j only touches unknowns after j: a computed   *)
(* part of the solution is never written again (the outer loop of          *)
(* triangularSolve.h:39-53 relies on the matrix being lower triangular).   *)
(***************************************************************************)
SolvedPrefixStable == [][\A i \in Rows(A) : i < j => x'[i] = x[i]]_vars

\* The refinement mapping: iterations under way or to come count as done.
Pending == todo \cup {pos[t] : t \in {u \in Threads : Busy(u)}}

AbsX ==
  IF pc = "inner"
    THEN [i \in Rows(A) |->
            IF \E p \in Pending : A.idx[p] = i
              THEN MulSub(x[i], Lx(EntryOf(A, Pending, i)), x[j])
              ELSE x[i]]
    ELSE x

AbsJ == IF pc = "inner" THEN j + 1 ELSE j

Abs == INSTANCE ForwardSubst WITH x <- AbsX, j <- AbsJ

(***************************************************************************)
(* Both kernels implement ForwardSubst, whatever the team and schedule: a  *)
(* column is solved when its inner loop begins, the iterations that have   *)
(* not yet written their result counted as done.                           *)
(***************************************************************************)
AbsSpec == Abs!Spec

\* Every call returns: no iteration, barrier or thread is waited for in vain.
Terminates == <>(ret # -1)
=============================================================================
