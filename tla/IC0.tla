--------------------------------- MODULE IC0 ---------------------------------
(***************************************************************************)
(* The incomplete Cholesky kernels of timeResults/src: ic0_csr, and the    *)
(* two versions of ic0_csr_parInner.  ic0_csc_m7.h has OpenMP share out    *)
(* the iterations of the m loop; ic0_csc_k.h, for each m in turn, those of *)
(* the k loop.  The iterations a thread is given are the updates [m, k, l] *)
(* it will make (the others change nothing), which it makes in loop order; *)
(* each is three steps of the thread: read val[m] and val[l], read val[k], *)
(* write val[k].  schedule(auto) may give any iteration to any thread.     *)
(***************************************************************************)
EXTENDS CholData

CONSTANTS
  Threads,            \* the OpenMP team
  Garbage,            \* what a register holds before it is loaded
  NoUpdate            \* a thread is not making an update

ASSUME GarbageType == Garbage \in Value

VARIABLES
  A,                  \* colPtr, rowIdx: the matrix; never written
  kernel,             \* which of the three functions was called
  val,                \* the entries, overwritten by the factor's
  i,                  \* the column loop's counter
  pc,                 \* where the calling thread is
  todo,               \* updates of this column in iterations not yet handed out
  own,                \* per thread: the updates of its iteration still to make
  cur, rm, rl, rk,    \* per thread: the one it makes; val[m], val[l], val[k] as read
  at,                 \* per thread: its place in that update
  done                \* the call has returned

threadVars == <<own, cur, rm, rl, rk, at>>
vars == <<A, kernel, val, i, pc, todo, own, cur, rm, rl, rk, at, done>>

Kernels == {"ic0_csr", "parInner_m", "parInner_k"}

\* The order of the m, k and l loops.
Before(g, h) ==
  \/ g.m < h.m
  \/ g.m = h.m /\ g.k < h.k
  \/ g.m = h.m /\ g.k = h.k /\ g.l < h.l

IsFirst(h, S) == h \in S /\ \A g \in S \ {h} : Before(h, g)

Busy(t) == own[t] # {}

Init ==
  /\ A \in Matrices
  /\ kernel \in Kernels
  /\ val \in Vals(A)
  /\ i = 0
  /\ pc = "column"
  /\ todo = {}
  /\ own = [t \in Threads |-> {}]
  /\ cur = [t \in Threads |-> NoUpdate]
  /\ rm = [t \in Threads |-> Garbage]
  /\ rl = [t \in Threads |-> Garbage]
  /\ rk = [t \in Threads |-> Garbage]
  /\ at = [t \in Threads |-> "idle"]
  /\ done = FALSE

-----------------------------------------------------------------------------
\* MUTANT: the last column is eliminated too, "i < n".
FactorLast ==
  /\ pc = "column" /\ i < A.n
  /\ val' = Scale(A, val, i)
  /\ todo' = IF i < A.n - 1 THEN Updates(A, i) ELSE {}
  /\ pc' = "update"
  /\ UNCHANGED <<A, kernel, i, threadVars, done>>

\* MUTANT: S2 is left to the threads that find val[m] unscaled: S1 only.
FactorNoScale ==
  /\ pc = "column" /\ i < A.n - 1
  /\ val' = [val EXCEPT ![A.ptr[i]] = Sqrt(@)]
  /\ todo' = Updates(A, i)
  /\ pc' = "update"
  /\ UNCHANGED <<A, kernel, i, threadVars, done>>

\* S1 and S2, by the calling thread alone.
Factor ==
  /\ pc = "column" /\ i < A.n - 1
  /\ val' = Scale(A, val, i)
  /\ todo' = Updates(A, i)
  /\ pc' = "update"
  /\ UNCHANGED <<A, kernel, i, threadVars, done>>

\* S3 in the serial kernel.
SerialUpdate ==
  /\ pc = "update" /\ kernel = "ic0_csr"
  /\ \E h \in todo :
       /\ IsFirst(h, todo)
       /\ val' = [val EXCEPT ![h.k] = MulSub(@, val[h.m], val[h.l])]
       /\ todo' = todo \ {h}
  /\ UNCHANGED <<A, kernel, i, pc, threadVars, done>>

(***************************************************************************)
(* The updates of the parallel iteration h belongs to: those of its m; or, *)
(* if k is the parallel loop, those of its m and k, once every update for  *)
(* a smaller m has been made (the barrier ending the k loop).              *)
(***************************************************************************)
Iteration(h) ==
  IF kernel = "parInner_m" THEN {g \in todo : g.m = h.m}
                           ELSE {g \in todo : g.m = h.m /\ g.k = h.k}

MayStart(h) ==
  \/ kernel = "parInner_m"
  \/ /\ kernel = "parInner_k"
     /\ \A g \in todo : h.m <= g.m
     /\ \A u \in Threads : \A g \in own[u] : h.m <= g.m

\* Thread t is given an iteration.
Take(t, h) ==
  /\ pc = "update" /\ h \in todo
  /\ MayStart(h)
  /\ ~Busy(t)
  /\ own' = [own EXCEPT ![t] = Iteration(h)]
  /\ todo' = todo \ Iteration(h)
  /\ UNCHANGED <<A, kernel, val, i, pc, cur, rm, rl, rk, at, done>>

\* Thread t reads val[m] and val[l] of its next update.
LoadFactors(t) ==
  /\ at[t] = "idle"
  /\ \E h \in own[t] :
       /\ IsFirst(h, own[t])
       /\ cur' = [cur EXCEPT ![t] = h]
       /\ rm' = [rm EXCEPT ![t] = val[h.m]]
       /\ rl' = [rl EXCEPT ![t] = val[h.l]]
  /\ at' = [at EXCEPT ![t] = "factors"]
  /\ UNCHANGED <<A, kernel, val, i, pc, todo, own, rk, done>>

\* Thread t reads val[k].
LoadTarget(t) ==
  /\ at[t] = "factors"
  /\ rk' = [rk EXCEPT ![t] = val[cur[t].k]]
  /\ at' = [at EXCEPT ![t] = "target"]
  /\ UNCHANGED <<A, kernel, val, i, pc, todo, own, cur, rm, rl, done>>

\* Thread t writes val[k]; its registers are dead.
Store(t) ==
  /\ at[t] = "target"
  /\ val' = [val EXCEPT ![cur[t].k] = MulSub(rk[t], rm[t], rl[t])]
  /\ own' = [own EXCEPT ![t] = @ \ {cur[t]}]
  /\ cur' = [cur EXCEPT ![t] = NoUpdate]
  /\ rm' = [rm EXCEPT ![t] = Garbage]
  /\ rl' = [rl EXCEPT ![t] = Garbage]
  /\ rk' = [rk EXCEPT ![t] = Garbage]
  /\ at' = [at EXCEPT ![t] = "idle"]
  /\ UNCHANGED <<A, kernel, i, pc, todo, done>>

\* MUTANT: a "nowait" loop, the next column begins while threads still work.
JoinNoWait ==
  /\ pc = "update" /\ todo = {}
  /\ i' = i + 1
  /\ pc' = "column"
  /\ UNCHANGED <<A, kernel, val, todo, threadVars, done>>

\* MUTANT: the caller waits for a thread to be at work.
JoinWaitsBusy ==
  /\ pc = "update" /\ todo = {}
  /\ \E t \in Threads : Busy(t)
  /\ i' = i + 1
  /\ pc' = "column"
  /\ UNCHANGED <<A, kernel, val, todo, threadVars, done>>

\* The barrier ending the parallel loop, and the column loop's i++.
Join ==
  /\ pc = "update" /\ todo = {}
  /\ \A t \in Threads : ~Busy(t)
  /\ i' = i + 1
  /\ pc' = "column"
  /\ UNCHANGED <<A, kernel, val, todo, threadVars, done>>

Return ==
  /\ pc = "column" /\ i = A.n - 1
  /\ pc' = "exit"
  /\ done' = TRUE
  /\ UNCHANGED <<A, kernel, val, i, todo, threadVars>>

Caller == Factor \/ SerialUpdate \/ Join \/ Return
Worker(t) ==
  (\E h \in todo : Take(t, h)) \/ LoadFactors(t) \/ LoadTarget(t) \/ Store(t)

Next == Caller \/ \E t \in Threads : Worker(t)

(***************************************************************************)
(* The calling thread runs on, and OpenMP runs every thread of the team    *)
(* to the end of the iterations it was given.                              *)
(***************************************************************************)
Fairness == WF_vars(Caller) /\ \A t \in Threads : WF_vars(Worker(t))

Spec == Init /\ [][Next]_vars /\ Fairness

-----------------------------------------------------------------------------
UpdateType(M) == [m : Positions(M), k : Positions(M), l : Positions(M)]

\* Every index the kernels use lies inside its array (ic0_csc_m7.h:12-57).
TypeOK ==
  /\ A \in Matrices
  /\ kernel \in Kernels
  /\ val \in [Positions(A) -> Value]
  /\ i \in 0 .. A.n - 1
  /\ pc \in {"column", "update", "exit"}
  /\ todo \subseteq UpdateType(A)
  /\ own \in [Threads -> SUBSET UpdateType(A)]
  /\ cur \in [Threads -> UpdateType(A) \cup {NoUpdate}]
  /\ rm \in [Threads -> Value]
  /\ rl \in [Threads -> Value]
  /\ rk \in [Threads -> Value]
  /\ at \in [Threads -> {"idle", "factors", "target"}]
  /\ done \in BOOLEAN

\* What the iteration a thread has been given reads and writes.
Reads(t) == UNION {{h.m, h.l, h.k} : h \in own[t]}
Writes(t) == {h.k : h \in own[t]}

(***************************************************************************)
(* No data race in "val[k] -= val[m] * val[l]" (ic0_csc_m7.h:51,           *)
(* ic0_csc_k.h:51): of the iterations two threads have been given, neither *)
(* will write an entry the other will read or write.                       *)
(***************************************************************************)
NoDataRace ==
  \A t, u \in Threads : t # u => Writes(t) \cap (Reads(u) \cup Writes(u)) = {}

(***************************************************************************)
(* An eliminated column is final, and during the updates it causes the     *)
(* current one is too: S3 writes later columns only (ic0_csc_m7.h:45-55),  *)
(* so the factor may be used as it is completed.                           *)
(***************************************************************************)
FactoredStable ==
  [][\A q \in Positions(A) :
       q < A.ptr[i] \/ (pc = "update" /\ q < A.ptr[i + 1]) => val'[q] = val[q]]_vars

\* The refinement mapping: iterations under way or to come count as done.
Pending == todo \cup UNION {own[t] : t \in Threads}

AbsVal == IF pc = "update" THEN Update(A, val, Pending) ELSE val

AbsI == IF pc = "update" THEN i + 1 ELSE i

Abs == INSTANCE ColumnChol WITH val <- AbsVal, i <- AbsI

(***************************************************************************)
(* The three kernels implement ColumnChol, whatever the team and schedule: *)
(* a column is eliminated when its updates begin, those not yet written    *)
(* counted as made.                                                        *)
(***************************************************************************)
AbsSpec == Abs!Spec

\* Every call returns: no iteration, barrier or thread is waited for in vain.
Terminates == <>done
=============================================================================
