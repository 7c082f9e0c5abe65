---------------------------- MODULE LSolve_proofs ----------------------------
(***************************************************************************)
(* Proofs about LSolve, for every set of lower triangular matrices, every  *)
(* team of threads and every arithmetic.                                   *)
(***************************************************************************)
EXTENDS LSolve, Lemmas, TLAPS

(***************************************************************************)
(* The inductive invariant.  The conjuncts beyond TypeOK say which         *)
(* iterations are under way (ones of the current column, each held by one  *)
(* thread and not handed out again) and that what a thread has read is     *)
(* still what memory holds.                                                *)
(***************************************************************************)
LoopInv ==
  /\ pc = "inner" => j < A.n /\ todo \subseteq OffDiag(A, j)
  /\ pc # "inner" => todo = {} /\ \A t \in Threads : ~Busy(t)
  /\ kernel = "lsolve" => \A t \in Threads : ~Busy(t)
  /\ ret = -1 <=> pc # "exit"
  /\ pc \in {"column", "inner"} => args

TeamInv ==
  /\ \A t \in Threads : Busy(t) => pos[t] \in OffDiag(A, j) \ todo
  /\ \A t, u \in Threads : t # u /\ Busy(t) /\ Busy(u) => pos[t] # pos[u]

RegisterInv ==
  \A t \in Threads :
    /\ Busy(t) => rj[t] = x[j]
    /\ at[t] = "loaded" => ri[t] = x[A.idx[pos[t]]]

Inv == TypeOK /\ LoopInv /\ TeamInv /\ RegisterInv

\* The invariant holds when the call begins.
LEMMA InitInv == Init => Inv
<1> SUFFICES ASSUME Init PROVE Inv
  OBVIOUS
<1>1. A.n \in Nat \ {0}
  BY MatricesLowerTriangular DEF Init, LowerTriangular, IsCSC
<1>2. x \in [Rows(A) -> Value]
  BY RhsType DEF Init
<1>3. TypeOK
  BY <1>1, <1>2, GarbageType DEF Init, TypeOK
<1> QED
  BY <1>3 DEF Init, Inv, LoopInv, TeamInv, RegisterInv, Busy

\* One step of any action preserves the invariant.
LEMMA NextInv == Inv /\ [Next]_vars => Inv'
<1> SUFFICES ASSUME Inv, [Next]_vars PROVE Inv'
  OBVIOUS
<1> USE DEF Inv
<1>n. A.n \in Nat \ {0}
  BY MatricesLowerTriangular DEF TypeOK, LowerTriangular, IsCSC
<1>1. CASE CheckArgs
  <2>1. TypeOK'
    BY <1>1 DEF CheckArgs, TypeOK, threadVars
  <2> QED
    BY <2>1, <1>1 DEF CheckArgs, TypeOK, threadVars, LoopInv, TeamInv, RegisterInv, Busy
<1>2. CASE Divide
  <2>1. j \in Rows(A) /\ j' = j /\ A' = A
    BY <1>2, <1>n DEF Divide, TypeOK, Rows
  <2>2. A.ptr[j] \in Positions(A) /\ OffDiag(A, j) \subseteq Positions(A)
    BY <2>1, ColumnFacts, MatricesLowerTriangular DEF TypeOK
  <2>3. Div(x[j], Lx(A.ptr[j])) \in Value
    BY <2>1, <2>2, ArithmeticClosed DEF TypeOK
  <2>4. TypeOK'
    BY <1>2, <2>1, <2>2, <2>3 DEF Divide, TypeOK, threadVars
  <2>5. \A t \in Threads : ~Busy(t) /\ ~Busy(t)'
    BY <1>2 DEF Divide, LoopInv, Busy, threadVars
  <2>6. LoopInv'
    BY <1>2, <2>1, <2>5 DEF Divide, LoopInv, threadVars
  <2> QED
    BY <1>2, <2>4, <2>5, <2>6 DEF TeamInv, RegisterInv, Busy
<1>3. CASE SerialIteration
  <2>1. j \in Rows(A) /\ j' = j /\ A' = A /\ pc' = "inner" /\ kernel' = "lsolve"
    BY <1>3, <1>n DEF SerialIteration, TypeOK, LoopInv, Rows
  <2>2. PICK p \in todo : /\ x' = [x EXCEPT ![A.idx[p]] = MulSub(@, Lx(p), x[j])]
                          /\ todo' = todo \ {p}
    BY <1>3 DEF SerialIteration
  <2>3. p \in OffDiag(A, j) /\ p \in Positions(A) /\ A.idx[p] \in Rows(A)
    BY <1>3, <2>1, ColumnFacts, MatricesLowerTriangular DEF SerialIteration, LoopInv, TypeOK
  <2>4. MulSub(x[A.idx[p]], Lx(p), x[j]) \in Value
    BY <2>1, <2>3, ArithmeticClosed DEF TypeOK
  <2>5. TypeOK'
    BY <1>3, <2>1, <2>2, <2>3, <2>4 DEF SerialIteration, TypeOK, threadVars
  <2>6. \A t \in Threads : ~Busy(t) /\ ~Busy(t)'
    BY <1>3 DEF SerialIteration, LoopInv, Busy, threadVars
  <2>7. LoopInv'
    BY <1>3, <2>1, <2>2, <2>6 DEF SerialIteration, LoopInv, threadVars
  <2> QED
    BY <2>5, <2>6, <2>7 DEF TeamInv, RegisterInv, Busy
<1>4. CASE Join
  <2>1. TypeOK'
    BY <1>4, <1>n DEF Join, TypeOK, threadVars, LoopInv
  <2>2. \A t \in Threads : ~Busy(t) /\ ~Busy(t)'
    BY <1>4 DEF Join, Busy, threadVars
  <2>3. LoopInv'
    BY <1>4, <2>2 DEF Join, LoopInv, threadVars
  <2> QED
    BY <2>1, <2>2, <2>3 DEF TeamInv, RegisterInv, Busy
<1>5. CASE Return
  BY <1>5 DEF Return, TypeOK, threadVars, LoopInv, TeamInv, RegisterInv, Busy
<1>6. ASSUME NEW t \in Threads, NEW p \in todo, Take(t, p)
      PROVE  Inv'
  <2>1. j \in Rows(A) /\ x[j] \in Value /\ p \in OffDiag(A, j) /\ p \in Nat
    BY <1>6, <1>n DEF Take, TypeOK, LoopInv, Rows, Positions
  <2>2. TypeOK'
    BY <1>6, <2>1 DEF Take, TypeOK
  <2>3. LoopInv'
    BY <1>6 DEF Take, LoopInv, Busy
  <2>4. TeamInv'
    BY <1>6, <2>1 DEF Take, TeamInv, Busy, TypeOK
  <2>5. RegisterInv'
    BY <1>6 DEF Take, RegisterInv, Busy, TypeOK
  <2> QED
    BY <2>2, <2>3, <2>4, <2>5
<1>7. ASSUME NEW t \in Threads, Load(t)
      PROVE  Inv'
  <2>1. Busy(t) /\ j \in Rows(A)
    BY <1>7, <1>n DEF Load, Busy, LoopInv, TypeOK, Rows
  <2>2. A.idx[pos[t]] \in Rows(A)
    BY <2>1, ColumnFacts, MatricesLowerTriangular DEF TeamInv, TypeOK
  <2>3. TypeOK'
    BY <1>7, <2>2 DEF Load, TypeOK
  <2>4. \A u \in Threads : Busy(u)' <=> Busy(u)
    BY <1>7 DEF Load, Busy, TypeOK
  <2>5. LoopInv'
    BY <1>7, <2>4 DEF Load, LoopInv
  <2>6. TeamInv'
    BY <1>7, <2>4 DEF Load, TeamInv
  <2>7. RegisterInv'
    BY <1>7, <2>4 DEF Load, RegisterInv, TypeOK
  <2> QED
    BY <2>3, <2>5, <2>6, <2>7
<1>8. ASSUME NEW t \in Threads, Store(t)
      PROVE  Inv'
  <2>1. Busy(t) /\ j \in Rows(A)
    BY <1>8, <1>n DEF Store, Busy, LoopInv, TypeOK, Rows
  <2>2. /\ pos[t] \in Positions(A) /\ A.idx[pos[t]] \in Rows(A)
        /\ j < A.idx[pos[t]]
    BY <2>1, ColumnFacts, MatricesLowerTriangular DEF TeamInv, TypeOK
  <2>3. MulSub(ri[t], Lx(pos[t]), rj[t]) \in Value
    BY <2>2, ArithmeticClosed DEF TypeOK
  <2>4. TypeOK'
    BY <1>8, <2>2, <2>3, GarbageType DEF Store, TypeOK
  <2>5. \A u \in Threads : Busy(u)' <=> Busy(u) /\ u # t
    BY <1>8, <2>1 DEF Store, Busy, TypeOK
  <2>6. LoopInv'
    BY <1>8, <2>5 DEF Store, LoopInv
  <2>7. TeamInv'
    BY <1>8, <2>5 DEF Store, TeamInv, TypeOK
  <2>8. RegisterInv'
    <3>1. x'[j] = x[j]
      BY <1>8, <2>1, <2>2 DEF Store, TypeOK, Rows
    <3>2. ASSUME NEW u \in Threads, Busy(u), u # t
          PROVE  x'[A.idx[pos[u]]] = x[A.idx[pos[u]]]
      <4>1. pos[u] \in OffDiag(A, j) /\ pos[t] \in OffDiag(A, j) /\ pos[u] # pos[t]
        BY <2>1, <3>2 DEF TeamInv
      <4>2. A.idx[pos[u]] # A.idx[pos[t]] /\ A.idx[pos[u]] \in Rows(A)
        BY <4>1, <2>1, ColumnFacts, MatricesLowerTriangular DEF TypeOK
      <4> QED
        BY <4>2, <1>8 DEF Store, TypeOK
    <3> QED
      BY <3>1, <3>2, <2>5, <1>8 DEF Store, RegisterInv, TypeOK, Busy
  <2> QED
    BY <2>4, <2>6, <2>7, <2>8
<1>9. CASE UNCHANGED vars
  BY <1>9 DEF vars, TypeOK, LoopInv, TeamInv, RegisterInv, Busy
<1> QED
  BY <1>1, <1>2, <1>3, <1>4, <1>5, <1>6, <1>7, <1>8, <1>9
  DEF Next, Caller, Worker

\* So it holds throughout every behaviour.
LEMMA Invariance == Spec => []Inv
  BY InitInv, NextInv, PTL DEF Spec

(***************************************************************************)
(* The state of a call of lsolve or lsolve_parInner (triangularSolve.h)    *)
(* stays well typed; in particular every index used on x, Li and Lx is in  *)
(* bounds.                                                                 *)
(***************************************************************************)
THEOREM TypeCorrect == Spec => []TypeOK
  BY Invariance, PTL DEF Inv

(***************************************************************************)
(* For every lower triangular matrix and every team of threads, the        *)
(* parallel inner loop of lsolve_parInner (triangularSolve.h:45-52) has no *)
(* data race: the declared Triangularity and CoMonotonicity suffice.       *)
(***************************************************************************)
THEOREM RaceFree == Spec => []NoDataRace
<1>1. Inv => NoDataRace
  <2> SUFFICES ASSUME Inv, NEW t \in Threads, NEW u \in Threads,
                      t # u, Busy(t), Busy(u)
               PROVE  Writes(t) \cap (Reads(u) \cup Writes(u)) = {}
    BY DEF NoDataRace
  <2>1. j \in Rows(A) /\ j \in Int
    <3>1. A.n \in Nat
      BY MatricesLowerTriangular DEF Inv, TypeOK, LowerTriangular, IsCSC
    <3> QED
      BY <3>1 DEF Inv, LoopInv, TypeOK, Rows
  <2>2. pos[t] \in OffDiag(A, j) /\ pos[u] \in OffDiag(A, j) /\ pos[t] # pos[u]
    BY DEF Inv, TeamInv
  <2>3. A.idx[pos[t]] # A.idx[pos[u]] /\ A.idx[pos[t]] # j
    BY <2>1, <2>2, ColumnFacts, MatricesLowerTriangular DEF Inv, TypeOK
  <2> QED
    BY <2>3 DEF Writes, Reads
<1> QED
  BY <1>1, Invariance, PTL

(***************************************************************************)
(* A solved unknown is never written again by the column loop of           *)
(* triangularSolve.h:39-53, because every entry lies on or below the       *)
(* diagonal.                                                               *)
(***************************************************************************)
THEOREM PrefixStable == Spec => SolvedPrefixStable
<1>1. Inv /\ [Next]_vars => [\A i \in Rows(A) : i < j => x'[i] = x[i]]_vars
  <2> SUFFICES ASSUME Inv, Next, NEW i \in Rows(A), i < j
               PROVE  x'[i] = x[i]
    BY DEF vars
  <2>1. A.n \in Nat /\ i \in Int /\ j \in Int
    BY MatricesLowerTriangular DEF Inv, TypeOK, LowerTriangular, IsCSC, Rows
  <2>2. CASE Divide
    BY <2>1, <2>2 DEF Divide, Inv, TypeOK
  <2>3. CASE SerialIteration
    <3>1. PICK p \in todo : x' = [x EXCEPT ![A.idx[p]] = MulSub(@, Lx(p), x[j])]
      BY <2>3 DEF SerialIteration
    <3>2. p \in OffDiag(A, j) /\ j \in Rows(A)
      BY <2>1, <2>3 DEF SerialIteration, Inv, LoopInv, TypeOK, Rows
    <3>3. j < A.idx[p] /\ A.idx[p] \in Int
      BY <3>2, <2>1, ColumnFacts, MatricesLowerTriangular DEF Inv, TypeOK, Rows
    <3> QED
      BY <3>1, <3>3, <2>1 DEF Inv, TypeOK
  <2>4. ASSUME NEW t \in Threads, Store(t) PROVE x'[i] = x[i]
    <3>1. pos[t] \in OffDiag(A, j) /\ j \in Rows(A)
      BY <2>1, <2>4 DEF Store, Inv, LoopInv, TeamInv, Busy, TypeOK, Rows
    <3>2. j < A.idx[pos[t]] /\ A.idx[pos[t]] \in Int
      BY <3>1, <2>1, ColumnFacts, MatricesLowerTriangular DEF Inv, TypeOK, Rows
    <3> QED
      BY <2>4, <3>2, <2>1 DEF Store, Inv, TypeOK
  <2> QED
    BY <2>2, <2>3, <2>4
    DEF Next, Caller, Worker, CheckArgs, Join, Return, Take, Load
<1> QED
  BY <1>1, Invariance, PTL DEF Spec, SolvedPrefixStable

-----------------------------------------------------------------------------
(***************************************************************************)
(* Writing the result of one pending iteration does not change the value   *)
(* AbsX gives to x: the other pending rows differ from the one written.    *)
(***************************************************************************)
LEMMA WriteBack ==
  ASSUME Inv, pc = "inner", pc' = "inner", A' = A, j' = j,
         NEW p \in Pending,
         Pending \subseteq OffDiag(A, j), Pending' = Pending \ {p},
         x' = [x EXCEPT ![A.idx[p]] = MulSub(x[A.idx[p]], Lx(p), x[j])]
  PROVE  AbsX' = AbsX
<1>1. A.n \in Nat /\ j \in Rows(A) /\ j \in Int
  BY MatricesLowerTriangular DEF Inv, TypeOK, LoopInv, LowerTriangular, IsCSC, Rows
<1>2. /\ \A q \in Pending : A.idx[q] \in Rows(A) /\ j < A.idx[q]
      /\ \A q, r \in Pending : A.idx[q] = A.idx[r] => q = r
  BY <1>1, ColumnFacts, MatricesLowerTriangular DEF Inv, TypeOK
<1>3. x'[j] = x[j]
  BY <1>1, <1>2 DEF Inv, TypeOK, Rows
<1>4. ASSUME NEW i \in Rows(A) PROVE AbsX'[i] = AbsX[i]
  <2>1. CASE i = A.idx[p]
    <3>1. ~ \E q \in Pending' : A.idx[q] = i
      BY <1>2, <2>1
    <3>2. EntryOf(A, Pending, i) = p
      BY <1>2, <2>1 DEF EntryOf
    <3>3. AbsX'[i] = x'[i]
      BY <3>1 DEF AbsX
    <3>4. AbsX[i] = MulSub(x[i], Lx(p), x[j])
      BY <2>1, <3>2 DEF AbsX
    <3> QED
      BY <3>3, <3>4, <2>1 DEF Inv, TypeOK
  <2>2. CASE i # A.idx[p]
    <3>1. x'[i] = x[i]
      BY <2>2 DEF Inv, TypeOK
    <3>2. \A q : (q \in Pending' /\ A.idx[q] = i) <=> (q \in Pending /\ A.idx[q] = i)
      BY <2>2
    <3>3. /\ (\E q \in Pending' : A.idx[q] = i) <=> (\E q \in Pending : A.idx[q] = i)
          /\ EntryOf(A, Pending', i) = EntryOf(A, Pending, i)
      BY <3>2 DEF EntryOf
    <3> QED
      BY <3>1, <3>3, <1>3 DEF AbsX
  <2> QED
    BY <2>1, <2>2
<1> QED
  BY <1>4 DEF AbsX

\* A step of the kernel is a step of ForwardSubst or leaves its state alone.
LEMMA StepSimulation ==
  Inv /\ [Next]_vars => [Abs!Next]_<<A, args, AbsX, AbsJ, ret>>
<1> SUFFICES ASSUME Inv, [Next]_vars
             PROVE  [Abs!Next]_<<A, args, AbsX, AbsJ, ret>>
  OBVIOUS
<1>n. A.n \in Nat /\ j \in Int
  BY MatricesLowerTriangular DEF Inv, TypeOK, LowerTriangular, IsCSC
<1>1. CASE CheckArgs
  <2>1. AbsX' = AbsX /\ AbsJ' = AbsJ
    BY <1>1 DEF CheckArgs, AbsX, AbsJ
  <2> QED
    BY <1>1, <2>1 DEF CheckArgs, Abs!Next, Abs!RejectArgs, Inv, LoopInv
<1>2. CASE Divide
  <2>1. Pending' = OffDiag(A, j)
    BY <1>2 DEF Divide, Pending, Busy, Inv, LoopInv, threadVars
  <2>2. AbsX = x /\ AbsJ = j /\ AbsJ' = j + 1 /\ j \in Rows(A)
    BY <1>2, <1>n DEF Divide, AbsX, AbsJ, Rows, Inv, TypeOK
  <2>3. x'[j] = Div(x[j], Lx(A.ptr[j])) /\ A' = A /\ j' = j
    BY <1>2, <2>2 DEF Divide, Inv, TypeOK
  <2>4. /\ Abs!OffDiag(A, j) = OffDiag(A, j)
        /\ \A S, i : Abs!EntryOf(A, S, i) = EntryOf(A, S, i)
    BY DEF Abs!OffDiag, OffDiag, Abs!EntryOf, EntryOf
  <2>5. AbsX' = Abs!Eliminate(A, x', OffDiag(A, j), x'[j])
    BY <1>2, <2>1, <2>3, <2>4 DEF Divide, AbsX, Abs!Eliminate, Abs!Rows, Rows
  <2>6. Abs!SolveColumn
    BY <1>2, <2>2, <2>3, <2>4, <2>5 DEF Divide, Abs!SolveColumn, Inv, LoopInv
  <2> QED
    BY <2>6 DEF Abs!Next
<1>3. CASE SerialIteration
  <2>1. PICK p \in todo : /\ x' = [x EXCEPT ![A.idx[p]] = MulSub(@, Lx(p), x[j])]
                          /\ todo' = todo \ {p}
    BY <1>3 DEF SerialIteration
  <2>2. \A t \in Threads : ~Busy(t) /\ ~Busy(t)'
    BY <1>3 DEF SerialIteration, Busy, Inv, LoopInv, threadVars
  <2>3. Pending = todo /\ Pending' = todo \ {p} /\ todo \subseteq OffDiag(A, j)
    BY <2>1, <2>2, <1>3 DEF Pending, SerialIteration, Inv, LoopInv
  <2>4. x' = [x EXCEPT ![A.idx[p]] = MulSub(x[A.idx[p]], Lx(p), x[j])]
    BY <2>1
  <2>5. AbsX' = AbsX
    BY <2>1, <2>3, <2>4, <1>3, WriteBack DEF SerialIteration
  <2> QED
    BY <2>5, <1>3 DEF SerialIteration, AbsJ
<1>4. CASE Join
  <2>1. Pending = {}
    BY <1>4 DEF Join, Pending, Busy
  <2>2. AbsX = [i \in Rows(A) |-> x[i]]
    BY <2>1, <1>4 DEF Join, AbsX
  <2>3. AbsX' = AbsX /\ AbsJ' = AbsJ
    BY <2>2, <1>4 DEF Join, AbsX, AbsJ, Inv, TypeOK
  <2> QED
    BY <1>4, <2>3 DEF Join
<1>5. CASE Return
  <2>1. AbsX = x /\ AbsX' = x /\ AbsJ = j /\ AbsJ' = j
    BY <1>5 DEF Return, AbsX, AbsJ
  <2>2. Abs!Finish
    BY <1>5, <2>1 DEF Return, Abs!Finish, Inv, LoopInv
  <2> QED
    BY <2>2 DEF Abs!Next
<1>6. ASSUME NEW t \in Threads, NEW p \in todo, Take(t, p)
      PROVE  AbsX' = AbsX /\ AbsJ' = AbsJ
  <2>1. \A u \in Threads : Busy(u)' <=> Busy(u) \/ u = t
    BY <1>6 DEF Take, Busy, Inv, TypeOK
  <2>2. ~Busy(t) /\ pos'[t] = p /\ \A u \in Threads : u # t => pos'[u] = pos[u]
    BY <1>6 DEF Take, Busy, Inv, TypeOK
  <2>3. Pending' = Pending
    BY <2>1, <2>2, <1>6 DEF Pending, Take
  <2> QED
    BY <2>3, <1>6 DEF Take, AbsX, AbsJ
<1>7. ASSUME NEW t \in Threads, Load(t)
      PROVE  AbsX' = AbsX /\ AbsJ' = AbsJ
  <2>1. \A u \in Threads : Busy(u)' <=> Busy(u)
    BY <1>7 DEF Load, Busy, Inv, TypeOK
  <2>2. Pending' = Pending
    BY <2>1, <1>7 DEF Pending, Load
  <2> QED
    BY <2>2, <1>7 DEF Load, AbsX, AbsJ
<1>8. ASSUME NEW t \in Threads, Store(t)
      PROVE  AbsX' = AbsX /\ AbsJ' = AbsJ
  <2>1. Busy(t) /\ pc = "inner"
    BY <1>8 DEF Store, Busy, Inv, LoopInv
  <2>2. \A u \in Threads : Busy(u)' <=> Busy(u) /\ u # t
    BY <1>8, <2>1 DEF Store, Busy, Inv, TypeOK
  <2>3. \A u \in Threads : Busy(u) => pos[u] \in OffDiag(A, j) /\ pos[u] \notin todo
    BY DEF Inv, TeamInv
  <2>4. \A u \in Threads : u # t => pos'[u] = pos[u]
    BY <1>8 DEF Store, Inv, TypeOK
  <2>5. Pending' = Pending \ {pos[t]} /\ pos[t] \in Pending
    BY <2>1, <2>2, <2>3, <2>4, <1>8 DEF Pending, Store, Inv, TeamInv
  <2>6. Pending \subseteq OffDiag(A, j)
    BY <2>1, <2>3 DEF Pending, Inv, LoopInv
  <2>7. x' = [x EXCEPT ![A.idx[pos[t]]] =
                MulSub(x[A.idx[pos[t]]], Lx(pos[t]), x[j])]
    BY <1>8, <2>1 DEF Store, Inv, RegisterInv
  <2>8. AbsX' = AbsX
    BY <2>1, <2>5, <2>6, <2>7, <1>8, WriteBack DEF Store
  <2> QED
    BY <2>8, <1>8 DEF Store, AbsJ
<1>9. CASE UNCHANGED vars
  BY <1>9 DEF vars, AbsX, AbsJ, Pending, Busy
<1>10. CASE \E t \in Threads : Worker(t)
  <2>1. A' = A /\ args' = args /\ ret' = ret
    BY <1>10 DEF Worker, Take, Load, Store
  <2> QED
    BY <2>1, <1>6, <1>7, <1>8, <1>10 DEF Worker
<1> QED
  BY <1>1, <1>2, <1>3, <1>4, <1>5, <1>9, <1>10 DEF Next, Caller

(***************************************************************************)
(* lsolve and lsolve_parInner both implement ForwardSubst, for every lower *)
(* triangular matrix, team, schedule and arithmetic: the parallel solve    *)
(* computes, rounding included, what the serial one computes.              *)
(***************************************************************************)
THEOREM Refinement == Spec => AbsSpec
<1>1. Init => Abs!Init
  BY DEF Init, Abs!Init, AbsX, AbsJ
<1> QED
  BY <1>1, StepSimulation, Invariance, PTL DEF Spec, AbsSpec, Abs!Spec
=============================================================================
