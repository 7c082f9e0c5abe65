----------------------------- MODULE IC0_proofs -----------------------------
(***************************************************************************)
(* Proofs about IC0, for every set of lower triangular matrices, every     *)
(* team of threads and every arithmetic.                                   *)
(***************************************************************************)
EXTENDS IC0, Lemmas, TLAPS

(***************************************************************************)
(* The updates of a column: they read positions of the column and write    *)
(* positions of later ones, no position twice.                             *)
(***************************************************************************)
LEMMA UpdateFacts ==
  ASSUME NEW M \in Matrices, NEW c \in Rows(M)
  PROVE  /\ Updates(M, c) \subseteq UpdateType(M)
         /\ \A h \in Updates(M, c) :
              /\ h.m \in Positions(M) /\ h.k \in Positions(M) /\ h.l \in Positions(M)
              /\ h.m < M.ptr[c + 1] /\ h.l < M.ptr[c + 1] /\ M.ptr[c + 1] <= h.k
         /\ \A g, h \in Updates(M, c) : g.k = h.k => g = h
         /\ \A g, h \in Updates(M, c) : g.k # h.m /\ g.k # h.l
<1>1. /\ c \in 0 .. M.n /\ c + 1 \in 0 .. M.n /\ c \in Int /\ M.n \in Nat
      /\ OffDiag(M, c) \subseteq Positions(M)
      /\ \A p \in OffDiag(M, c) : M.idx[p] \in Rows(M) /\ c < M.idx[p]
      /\ \A p, q \in OffDiag(M, c) : M.idx[p] = M.idx[q] => p = q
  BY ColumnFacts, PtrFacts, MatricesLowerTriangular DEF Rows
<1>2. M.ptr[c] \in Nat /\ M.ptr[c + 1] \in Nat
  BY <1>1, PtrFacts, MatricesLowerTriangular
<1>3. ASSUME NEW h \in Updates(M, c)
      PROVE  /\ h \in UpdateType(M)
             /\ h.m \in OffDiag(M, c) /\ h.l \in OffDiag(M, c)
             /\ h.m \in Positions(M) /\ h.k \in Positions(M) /\ h.l \in Positions(M)
             /\ h.k \in Col(M, M.idx[h.m]) /\ M.idx[h.l] = M.idx[h.k]
  BY <1>1 DEF Updates, UpdateType
<1>4. ASSUME NEW h \in Updates(M, c)
      PROVE  h.m < M.ptr[c + 1] /\ h.l < M.ptr[c + 1] /\ M.ptr[c + 1] <= h.k
  <2>1. h.m < M.ptr[c + 1] /\ h.l < M.ptr[c + 1]
    BY <1>2, <1>3 DEF OffDiag
  <2> DEFINE d == M.idx[h.m]
  <2>2. d \in Rows(M) /\ c < d
    BY <1>1, <1>3
  <2>3. d \in Int /\ d \in 0 .. M.n /\ d + 1 \in 0 .. M.n /\ (c + 1 = d \/ c + 1 < d)
    BY <2>2, <1>1 DEF Rows
  <2>4. M.ptr[d] \in Nat /\ M.ptr[d + 1] \in Nat /\ M.ptr[c + 1] <= M.ptr[d]
    <3>1. M.ptr[d] \in Nat /\ M.ptr[d + 1] \in Nat
      BY <2>3, PtrFacts, MatricesLowerTriangular
    <3>2. c + 1 < d => M.ptr[c + 1] < M.ptr[d]
      BY <2>3, <1>1, PtrFacts, MatricesLowerTriangular
    <3> QED
      BY <3>1, <3>2, <2>3, <1>2
  <2>5. h.k \in Col(M, d)
    BY <1>3
  <2>6. h.k \in Int /\ M.ptr[d] <= h.k
    BY <2>4, <2>5 DEF Col
  <2> QED
    BY <2>1, <2>4, <2>6, <1>2
<1>5. ASSUME NEW g \in Updates(M, c), NEW h \in Updates(M, c), g.k = h.k
      PROVE  g = h
  <2>1. M.idx[g.m] = M.idx[h.m]
    <3>1. M.idx[g.m] \in Rows(M) /\ M.idx[h.m] \in Rows(M)
      BY <1>1, <1>3
    <3>2. g.k \in Col(M, M.idx[g.m]) /\ g.k \in Col(M, M.idx[h.m])
      BY <1>3, <1>5
    <3> QED
      BY <3>1, <3>2, ColumnsDisjoint, MatricesLowerTriangular
  <2>2. g.m = h.m /\ g.l = h.l
    BY <2>1, <1>1, <1>3, <1>5
  <2> QED
    BY <2>2, <1>3, <1>5 DEF UpdateType
<1>6. ASSUME NEW g \in Updates(M, c), NEW h \in Updates(M, c)
      PROVE  g.k # h.m /\ g.k # h.l
  <2>1. g.k \in Int /\ h.m \in Int /\ h.l \in Int
    BY <1>3, PtrFacts, MatricesLowerTriangular DEF Positions
  <2> QED
    BY <2>1, <1>2, <1>4
<1> QED
  BY <1>3, <1>4, <1>5, <1>6

(***************************************************************************)
(* The inductive invariant.  The conjuncts beyond TypeOK say that updates  *)
(* in progress are ones of the current column, each held by one thread and *)
(* not handed out again, and that what a thread has read is still what     *)
(* memory holds.                                                           *)
(***************************************************************************)
LoopInv ==
  /\ pc = "update" => /\ i < A.n - 1
                      /\ todo \subseteq Updates(A, i)
                      /\ \A t \in Threads : own[t] \subseteq Updates(A, i)
  /\ pc # "update" => todo = {} /\ \A t \in Threads : own[t] = {}
  /\ kernel = "ic0_csr" => \A t \in Threads : own[t] = {}
  /\ done <=> pc = "exit"

TeamInv ==
  /\ \A t \in Threads : own[t] \cap todo = {}
  /\ \A t, u \in Threads : t # u => own[t] \cap own[u] = {}
  /\ \A t \in Threads : at[t] # "idle" => cur[t] \in own[t]

RegisterInv ==
  \A t \in Threads :
    /\ at[t] # "idle" => rm[t] = val[cur[t].m] /\ rl[t] = val[cur[t].l]
    /\ at[t] = "target" => rk[t] = val[cur[t].k]

Inv == TypeOK /\ LoopInv /\ TeamInv /\ RegisterInv

\* The invariant holds when the call begins.
LEMMA InitInv == Init => Inv
<1> SUFFICES ASSUME Init PROVE Inv
  OBVIOUS
<1>1. A.n \in Nat \ {0}
  BY PtrFacts, MatricesLowerTriangular DEF Init
<1>2. val \in [Positions(A) -> Value]
  BY ValsType DEF Init
<1>3. TypeOK
  <2>1. own \in [Threads -> SUBSET UpdateType(A)]
    BY DEF Init
  <2>2. cur \in [Threads -> UpdateType(A) \cup {NoUpdate}]
    BY DEF Init
  <2>3. i \in 0 .. A.n - 1
    BY <1>1 DEF Init
  <2>4. /\ rm \in [Threads -> Value] /\ rl \in [Threads -> Value]
        /\ rk \in [Threads -> Value]
        /\ at \in [Threads -> {"idle", "factors", "target"}]
    BY GarbageType DEF Init
  <2>5. done \in BOOLEAN /\ todo \subseteq UpdateType(A)
    BY DEF Init
  <2>6. A \in Matrices /\ kernel \in Kernels /\ pc \in {"column", "update", "exit"}
    BY DEF Init
  <2> QED
    BY <1>2, <2>1, <2>2, <2>3, <2>4, <2>5, <2>6, Zenon DEF TypeOK
<1> QED
  BY <1>3 DEF Init, Inv, LoopInv, TeamInv, RegisterInv

\* The current column exists while it is being eliminated.
LEMMA CurrentColumn ==
  ASSUME TypeOK
  PROVE  i \in Rows(A) /\ i \in Int /\ A.n \in Nat \ {0}
  BY PtrFacts, MatricesLowerTriangular DEF TypeOK, Rows

\* One write by an update of the column leaves what the others read alone.
LEMMA OthersUnaffected ==
  ASSUME TypeOK, NEW g \in Updates(A, i), NEW v \in Value,
         val' = [val EXCEPT ![g.k] = v]
  PROVE  /\ val' \in [Positions(A) -> Value]
         /\ \A h \in Updates(A, i) : val'[h.m] = val[h.m] /\ val'[h.l] = val[h.l]
         /\ \A h \in Updates(A, i) : h # g => val'[h.k] = val[h.k]
<1>1. /\ \A h \in Updates(A, i) :
           h.m \in Positions(A) /\ h.k \in Positions(A) /\ h.l \in Positions(A)
      /\ \A h \in Updates(A, i) : g.k = h.k => g = h
      /\ \A h \in Updates(A, i) : g.k # h.m /\ g.k # h.l
  BY UpdateFacts, CurrentColumn DEF TypeOK
<1> QED
  BY <1>1 DEF TypeOK

\* One step of any action preserves the invariant.
LEMMA NextInv == Inv /\ [Next]_vars => Inv'
<1> SUFFICES ASSUME Inv, [Next]_vars PROVE Inv'
  OBVIOUS
<1> USE DEF Inv
<1>c. i \in Rows(A) /\ i \in Int /\ A.n \in Nat \ {0}
  BY CurrentColumn
<1>u. /\ Updates(A, i) \subseteq UpdateType(A)
      /\ \A h \in Updates(A, i) :
           h.m \in Positions(A) /\ h.k \in Positions(A) /\ h.l \in Positions(A)
  BY <1>c, UpdateFacts DEF TypeOK
<1>1. CASE Factor
  <2>1. A.ptr[i] \in Positions(A)
    BY <1>c, ColumnFacts, MatricesLowerTriangular DEF TypeOK
  <2>2. Scale(A, val, i) \in [Positions(A) -> Value]
    BY <2>1, ArithmeticClosed DEF Scale, TypeOK
  <2>3. TypeOK'
    BY <1>1, <1>u, <2>2 DEF Factor, TypeOK, threadVars
  <2>4. \A t \in Threads : own'[t] = {} /\ own[t] = {} /\ at'[t] = "idle"
    BY <1>1 DEF Factor, LoopInv, TeamInv, TypeOK, threadVars
  <2>5. LoopInv'
    BY <1>1, <2>4 DEF Factor, LoopInv
  <2> QED
    BY <2>3, <2>4, <2>5 DEF TeamInv, RegisterInv
<1>2. CASE SerialUpdate
  <2>1. PICK h \in todo : /\ val' = [val EXCEPT ![h.k] = MulSub(@, val[h.m], val[h.l])]
                          /\ todo' = todo \ {h}
    BY <1>2 DEF SerialUpdate
  <2>2. h \in Updates(A, i)
    BY <1>2 DEF SerialUpdate, LoopInv
  <2>3. MulSub(val[h.k], val[h.m], val[h.l]) \in Value
    BY <2>2, <1>u, ArithmeticClosed DEF TypeOK
  <2>4. val' \in [Positions(A) -> Value]
    BY <2>1, <2>2, <2>3, <1>u DEF TypeOK
  <2>5. TypeOK'
    BY <1>2, <2>1, <2>4 DEF SerialUpdate, TypeOK, threadVars
  <2>6. \A t \in Threads : own'[t] = {} /\ own[t] = {} /\ at'[t] = "idle"
    BY <1>2 DEF SerialUpdate, LoopInv, TeamInv, TypeOK, threadVars
  <2>7. LoopInv'
    BY <1>2, <2>1, <2>6 DEF SerialUpdate, LoopInv
  <2> QED
    BY <2>5, <2>6, <2>7 DEF TeamInv, RegisterInv
<1>3. CASE Join
  <2>1. TypeOK'
    BY <1>3, <1>c DEF Join, TypeOK, threadVars, LoopInv
  <2>2. \A t \in Threads : own'[t] = {} /\ own[t] = {} /\ at'[t] = "idle"
    BY <1>3 DEF Join, Busy, TeamInv, TypeOK, threadVars
  <2>3. LoopInv'
    BY <1>3, <2>2 DEF Join, LoopInv
  <2> QED
    BY <2>1, <2>2, <2>3 DEF TeamInv, RegisterInv
<1>4. CASE Return
  <2>1. TypeOK'
    BY <1>4 DEF Return, TypeOK, threadVars
  <2>2. LoopInv'
    BY <1>4 DEF Return, LoopInv, threadVars
  <2> QED
    BY <1>4, <2>1, <2>2 DEF Return, TeamInv, RegisterInv, threadVars
<1>5. ASSUME NEW t \in Threads, NEW h \in todo, Take(t, h)
      PROVE  Inv'
  <2>1. Iteration(h) \subseteq todo
    BY DEF Iteration
  <2>2. kernel # "ic0_csr" /\ own[t] = {} /\ at[t] = "idle"
    BY <1>5 DEF Take, MayStart, Busy, TeamInv, TypeOK
  <2> HIDE DEF Iteration
  <2>3. TypeOK'
    BY <1>5, <2>1 DEF Take, TypeOK
  <2>4. \A u \in Threads : own'[u] = IF u = t THEN Iteration(h) ELSE own[u]
    BY <1>5 DEF Take, TypeOK
  <2>5. LoopInv'
    BY <1>5, <2>1, <2>2, <2>4 DEF Take, LoopInv
  <2>6. TeamInv'
    BY <1>5, <2>1, <2>2, <2>4 DEF Take, TeamInv
  <2>7. RegisterInv'
    BY <1>5 DEF Take, RegisterInv
  <2> QED
    BY <2>3, <2>5, <2>6, <2>7
<1>6. ASSUME NEW t \in Threads, LoadFactors(t)
      PROVE  Inv'
  <2>1. PICK h \in own[t] : /\ cur' = [cur EXCEPT ![t] = h]
                            /\ rm' = [rm EXCEPT ![t] = val[h.m]]
                            /\ rl' = [rl EXCEPT ![t] = val[h.l]]
    BY <1>6 DEF LoadFactors
  <2>2. h \in Updates(A, i)
    BY <2>1 DEF LoopInv
  <2>3. val[h.m] \in Value /\ val[h.l] \in Value /\ h \in UpdateType(A)
    BY <2>2, <1>u DEF TypeOK
  <2>4. TypeOK'
    BY <1>6, <2>1, <2>3 DEF LoadFactors, TypeOK
  <2>5. LoopInv'
    BY <1>6 DEF LoadFactors, LoopInv
  <2>6. TeamInv'
    BY <1>6, <2>1 DEF LoadFactors, TeamInv, TypeOK
  <2>7. RegisterInv'
    BY <1>6, <2>1 DEF LoadFactors, RegisterInv, TypeOK
  <2> QED
    BY <2>4, <2>5, <2>6, <2>7
<1>7. ASSUME NEW t \in Threads, LoadTarget(t)
      PROVE  Inv'
  <2>1. cur[t] \in Updates(A, i)
    BY <1>7 DEF LoadTarget, TeamInv, LoopInv
  <2>2. val[cur[t].k] \in Value
    BY <2>1, <1>u DEF TypeOK
  <2>3. TypeOK'
    BY <1>7, <2>2 DEF LoadTarget, TypeOK
  <2>4. LoopInv'
    BY <1>7 DEF LoadTarget, LoopInv
  <2>5. TeamInv'
    BY <1>7 DEF LoadTarget, TeamInv, TypeOK
  <2>6. RegisterInv'
    BY <1>7 DEF LoadTarget, RegisterInv, TypeOK
  <2> QED
    BY <2>3, <2>4, <2>5, <2>6
<1>8. ASSUME NEW t \in Threads, Store(t)
      PROVE  Inv'
  <2>1. cur[t] \in own[t] /\ cur[t] \in Updates(A, i)
    BY <1>8 DEF Store, TeamInv, LoopInv
  <2>2. MulSub(rk[t], rm[t], rl[t]) \in Value
    BY ArithmeticClosed DEF TypeOK
  <2>3. /\ val' \in [Positions(A) -> Value]
        /\ \A h \in Updates(A, i) : val'[h.m] = val[h.m] /\ val'[h.l] = val[h.l]
        /\ \A h \in Updates(A, i) : h # cur[t] => val'[h.k] = val[h.k]
    BY <1>8, <2>1, <2>2, OthersUnaffected DEF Store
  <2>4. \A u \in Threads : own'[u] = IF u = t THEN own[t] \ {cur[t]} ELSE own[u]
    BY <1>8 DEF Store, TypeOK
  <2>5. TypeOK'
    <3>1. own' \in [Threads -> SUBSET UpdateType(A)]
      BY <1>8, <2>4 DEF Store, TypeOK
    <3> QED
      BY <1>8, <2>3, <3>1, GarbageType DEF Store, TypeOK
  <2>6. LoopInv'
    BY <1>8, <2>1, <2>4 DEF Store, LoopInv
  <2>7. TeamInv'
    BY <1>8, <2>1, <2>4 DEF Store, TeamInv, TypeOK
  <2>8. RegisterInv'
    <3> SUFFICES ASSUME NEW u \in Threads, at'[u] # "idle"
                 PROVE  /\ rm'[u] = val'[cur'[u].m] /\ rl'[u] = val'[cur'[u].l]
                        /\ at'[u] = "target" => rk'[u] = val'[cur'[u].k]
      BY DEF RegisterInv
    <3>1. u # t /\ at[u] = at'[u]
      BY <1>8 DEF Store, TypeOK
    <3>2. cur'[u] = cur[u] /\ rm'[u] = rm[u] /\ rl'[u] = rl[u] /\ rk'[u] = rk[u]
      BY <1>8, <3>1 DEF Store, TypeOK
    <3>3. cur[u] \in own[u] /\ cur[u] \in Updates(A, i) /\ cur[u] # cur[t]
      BY <2>1, <3>1 DEF TeamInv, LoopInv
    <3> QED
      BY <2>3, <3>1, <3>2, <3>3 DEF RegisterInv
  <2> QED
    BY <2>5, <2>6, <2>7, <2>8
<1>9. CASE UNCHANGED vars
  BY <1>9 DEF vars, TypeOK, LoopInv, TeamInv, RegisterInv
<1> QED
  BY <1>1, <1>2, <1>3, <1>4, <1>5, <1>6, <1>7, <1>8, <1>9
  DEF Next, Caller, Worker

\* So it holds throughout every behaviour.
LEMMA Invariance == Spec => []Inv
  BY InitInv, NextInv, PTL DEF Spec

(***************************************************************************)
(* The state of a call of ic0_csr or ic0_csr_parInner (ic0_csc_m7.h,       *)
(* ic0_csc_k.h) stays well typed; in particular every position used on val *)
(* is in bounds.                                                           *)
(***************************************************************************)
THEOREM TypeCorrect == Spec => []TypeOK
  BY Invariance, PTL DEF Inv

(***************************************************************************)
(* For every lower triangular matrix and every team of threads neither the *)
(* parallel m loop (ic0_csc_m7.h:44-55) nor the parallel k loop            *)
(* (ic0_csc_k.h:46-54) has a data race: the declared Monotonicity,         *)
(* Triangularity and CoMonotonicity suffice.                               *)
(***************************************************************************)
THEOREM RaceFree == Spec => []NoDataRace
<1>1. Inv => NoDataRace
  <2> SUFFICES ASSUME Inv, NEW t \in Threads, NEW u \in Threads, t # u
               PROVE  Writes(t) \cap (Reads(u) \cup Writes(u)) = {}
    BY DEF NoDataRace
  <2>1. own[t] \cap own[u] = {} /\ own[t] \subseteq Updates(A, i) /\ own[u] \subseteq Updates(A, i)
    BY DEF Inv, LoopInv, TeamInv
  <2>2. ASSUME NEW g \in own[t], NEW h \in own[u]
        PROVE  g.k # h.m /\ g.k # h.l /\ g.k # h.k
    <3>1. g \in Updates(A, i) /\ h \in Updates(A, i) /\ g # h /\ i \in Rows(A) /\ A \in Matrices
      BY <2>1, CurrentColumn DEF Inv, TypeOK
    <3> QED
      BY <3>1, UpdateFacts
  <2> QED
    BY <2>2 DEF Writes, Reads
<1> QED
  BY <1>1, Invariance, PTL

(***************************************************************************)
(* Neither an eliminated column nor, while its updates are made, the       *)
(* current one is ever written (ic0_csc_m7.h:37-56): S3 writes later       *)
(* columns only.                                                           *)
(***************************************************************************)
THEOREM ColumnsStable == Spec => FactoredStable
<1>1. ASSUME Inv, Next, NEW q \in Positions(A),
             q < A.ptr[i] \/ (pc = "update" /\ q < A.ptr[i + 1])
      PROVE  val'[q] = val[q]
  <2> USE <1>1
  <2>1. i \in Rows(A) /\ i \in Int /\ A \in Matrices
    BY CurrentColumn DEF Inv, TypeOK
  <2>2. /\ A.ptr[i] \in Nat /\ A.ptr[i + 1] \in Nat /\ A.ptr[i] < A.ptr[i + 1]
        /\ q \in Int
    <3>1. i \in 0 .. A.n /\ i + 1 \in 0 .. A.n /\ i < i + 1
      BY <2>1, ColumnFacts, MatricesLowerTriangular
    <3> QED
      BY <3>1, <2>1, PtrFacts, MatricesLowerTriangular DEF Positions
  <2>3. \A h \in Updates(A, i) : h.k \in Int /\ q # h.k
    <3>1. \A h \in Updates(A, i) : h.k \in Positions(A) /\ A.ptr[i + 1] <= h.k
      BY <2>1, UpdateFacts
    <3> QED
      BY <3>1, <2>2, PtrFacts, MatricesLowerTriangular, <2>1 DEF Positions
  <2>4. CASE Factor
    <3>1. q < A.ptr[i] /\ q \notin OffDiag(A, i)
      BY <2>2, <2>4 DEF Factor, OffDiag
    <3> QED
      BY <3>1, <2>2, <2>4 DEF Factor, Scale
  <2>5. CASE SerialUpdate
    <3>1. PICK h \in todo : val' = [val EXCEPT ![h.k] = MulSub(@, val[h.m], val[h.l])]
      BY <2>5 DEF SerialUpdate
    <3>2. h \in Updates(A, i)
      BY <2>5 DEF SerialUpdate, Inv, LoopInv
    <3> QED
      BY <3>1, <3>2, <2>3 DEF Inv, TypeOK
  <2>6. ASSUME NEW t \in Threads, Store(t) PROVE val'[q] = val[q]
    <3>1. cur[t] \in Updates(A, i)
      BY <2>6 DEF Store, Inv, TeamInv, LoopInv
    <3> QED
      BY <2>6, <3>1, <2>3 DEF Store, Inv, TypeOK
  <2> QED
    BY <2>4, <2>5, <2>6
    DEF Next, Caller, Worker, Join, Return, Take, LoadFactors, LoadTarget
<1>2. Inv /\ [Next]_vars =>
        [\A q \in Positions(A) :
           q < A.ptr[i] \/ (pc = "update" /\ q < A.ptr[i + 1]) => val'[q] = val[q]]_vars
  BY <1>1
<1> QED
  BY <1>2, Invariance, PTL DEF Spec, FactoredStable

-----------------------------------------------------------------------------
(***************************************************************************)
(* Making one pending update does not change the value AbsVal gives to     *)
(* val: the others write other positions and read unwritten ones.          *)
(***************************************************************************)
LEMMA WriteBack ==
  ASSUME Inv, pc = "update", pc' = "update", A' = A, i' = i,
         NEW g \in Pending,
         Pending \subseteq Updates(A, i), Pending' = Pending \ {g},
         val' = [val EXCEPT ![g.k] = MulSub(val[g.k], val[g.m], val[g.l])]
  PROVE  AbsVal' = AbsVal
<1>1. i \in Rows(A) /\ A \in Matrices /\ TypeOK
  BY CurrentColumn DEF Inv, TypeOK
<1>2. /\ \A h \in Pending :
           h.m \in Positions(A) /\ h.k \in Positions(A) /\ h.l \in Positions(A)
      /\ \A h, f \in Pending : h.k = f.k => h = f
      /\ \A h, f \in Pending : h.k # f.m /\ h.k # f.l
  BY <1>1, UpdateFacts
<1>3. ASSUME NEW q \in Positions(A)
      PROVE  Update(A, val', Pending')[q] = Update(A, val, Pending)[q]
  <2>1. CASE q = g.k
    <3>1. ~ \E h \in Pending' : h.k = q
      BY <1>2, <2>1
    <3>2. UpdateOf(Pending, q) = g
      BY <1>2, <2>1 DEF UpdateOf
    <3>3. Update(A, val', Pending')[q] = val'[q]
      BY <3>1 DEF Update
    <3>4. Update(A, val, Pending)[q] = MulSub(val[q], val[g.m], val[g.l])
      BY <2>1, <3>2 DEF Update
    <3> QED
      BY <3>3, <3>4, <2>1, <1>1 DEF TypeOK
  <2>2. CASE q # g.k
    <3>1. val'[q] = val[q]
      BY <2>2, <1>1 DEF TypeOK
    <3>2. \A h : (h \in Pending' /\ h.k = q) <=> (h \in Pending /\ h.k = q)
      BY <2>2
    <3>3. /\ (\E h \in Pending' : h.k = q) <=> (\E h \in Pending : h.k = q)
          /\ UpdateOf(Pending', q) = UpdateOf(Pending, q)
      BY <3>2 DEF UpdateOf
    <3>4. CASE ~ \E h \in Pending : h.k = q
      BY <3>1, <3>3, <3>4 DEF Update
    <3>5. CASE \E h \in Pending : h.k = q
      <4>1. UpdateOf(Pending, q) \in Pending
        BY <3>5 DEF UpdateOf
      <4>2. /\ val'[UpdateOf(Pending, q).m] = val[UpdateOf(Pending, q).m]
            /\ val'[UpdateOf(Pending, q).l] = val[UpdateOf(Pending, q).l]
        BY <4>1, <1>1, <1>2 DEF TypeOK
      <4> QED
        BY <3>1, <3>3, <3>5, <4>2 DEF Update
    <3> QED
      BY <3>4, <3>5
  <2> QED
    BY <2>1, <2>2
<1>4. Update(A, val', Pending') = Update(A, val, Pending)
  BY <1>3 DEF Update
<1> QED
  BY <1>4 DEF AbsVal

\* A step of the kernel is a step of ColumnChol or leaves its state alone.
LEMMA StepSimulation ==
  Inv /\ [Next]_vars => [Abs!Next]_<<A, AbsVal, AbsI, done>>
<1> SUFFICES ASSUME Inv, [Next]_vars
             PROVE  [Abs!Next]_<<A, AbsVal, AbsI, done>>
  OBVIOUS
<1>o. /\ \A S, q : Abs!UpdateOf(S, q) = UpdateOf(S, q)
      /\ \A M, v, c : Abs!Scale(M, v, c) = Scale(M, v, c)
      /\ \A M, c : Abs!Updates(M, c) = Updates(M, c)
  BY DEF Abs!UpdateOf, UpdateOf, Abs!Scale, Scale, Abs!Updates, Updates,
         Abs!Positions, Positions, Abs!OffDiag, OffDiag, Abs!Col, Col
<1>p. \A M, v, S : Abs!Update(M, v, S) = Update(M, v, S)
  BY <1>o DEF Abs!Update, Update, Abs!Positions, Positions
<1>1. CASE Factor
  <2>1. Pending' = Updates(A, i)
    BY <1>1 DEF Factor, Pending, Inv, LoopInv, threadVars
  <2>2. AbsVal = val /\ AbsI = i /\ AbsI' = i + 1
    BY <1>1 DEF Factor, AbsVal, AbsI
  <2>3. AbsVal' = Update(A, Scale(A, val, i), Updates(A, i))
    BY <1>1, <2>1 DEF Factor, AbsVal
  <2>4. Abs!EliminateColumn
    BY <1>1, <1>o, <1>p, <2>2, <2>3 DEF Factor, Abs!EliminateColumn, Inv, LoopInv
  <2> QED
    BY <2>4 DEF Abs!Next
<1>2. CASE SerialUpdate
  <2>1. PICK h \in todo : /\ val' = [val EXCEPT ![h.k] = MulSub(@, val[h.m], val[h.l])]
                          /\ todo' = todo \ {h}
    BY <1>2 DEF SerialUpdate
  <2>2. \A t \in Threads : own[t] = {} /\ own'[t] = {}
    BY <1>2 DEF SerialUpdate, Inv, LoopInv, threadVars
  <2>3. Pending = todo /\ Pending' = todo \ {h} /\ todo \subseteq Updates(A, i)
    BY <2>1, <2>2, <1>2 DEF Pending, SerialUpdate, Inv, LoopInv
  <2>4. val' = [val EXCEPT ![h.k] = MulSub(val[h.k], val[h.m], val[h.l])]
    BY <2>1
  <2>5. AbsVal' = AbsVal
    BY <2>1, <2>3, <2>4, <1>2, WriteBack DEF SerialUpdate
  <2> QED
    BY <2>5, <1>2 DEF SerialUpdate, AbsI
<1>3. CASE Join
  <2>1. Pending = {}
    BY <1>3 DEF Join, Pending, Busy
  <2>2. AbsVal = [q \in Positions(A) |-> val[q]]
    BY <2>1, <1>3 DEF Join, AbsVal, Update
  <2>3. AbsVal' = AbsVal /\ AbsI' = AbsI
    BY <2>2, <1>3 DEF Join, AbsVal, AbsI, Inv, TypeOK
  <2> QED
    BY <1>3, <2>3 DEF Join
<1>4. CASE Return
  <2>1. AbsVal = val /\ AbsVal' = val /\ AbsI = i /\ AbsI' = i
    BY <1>4 DEF Return, AbsVal, AbsI
  <2>2. Abs!Finish
    BY <1>4, <2>1 DEF Return, Abs!Finish, Inv, LoopInv
  <2> QED
    BY <2>2 DEF Abs!Next
<1>5. ASSUME NEW t \in Threads, NEW h \in todo, Take(t, h)
      PROVE  AbsVal' = AbsVal /\ AbsI' = AbsI
  <2>1. Iteration(h) \subseteq todo /\ own[t] = {}
    BY <1>5 DEF Iteration, Take, Busy
  <2>2. \A u \in Threads : own'[u] = IF u = t THEN Iteration(h) ELSE own[u]
    BY <1>5 DEF Take, Inv, TypeOK
  <2>3. todo' = todo \ Iteration(h)
    BY <1>5 DEF Take
  <2>4. Pending' = Pending
    BY <2>1, <2>2, <2>3 DEF Pending
  <2> QED
    BY <2>4, <1>5 DEF Take, AbsVal, AbsI
<1>6. ASSUME NEW t \in Threads, LoadFactors(t) \/ LoadTarget(t)
      PROVE  AbsVal' = AbsVal /\ AbsI' = AbsI
  <2>1. UNCHANGED <<A, val, i, pc, todo, own>>
    BY <1>6 DEF LoadFactors, LoadTarget
  <2>2. Pending' = Pending
    BY <2>1 DEF Pending
  <2> QED
    BY <2>1, <2>2 DEF AbsVal, AbsI
<1>7. ASSUME NEW t \in Threads, Store(t)
      PROVE  AbsVal' = AbsVal /\ AbsI' = AbsI
  <2>1. cur[t] \in own[t] /\ pc = "update" /\ pc' = "update"
    BY <1>7 DEF Store, Inv, LoopInv, TeamInv
  <2>2. \A u \in Threads : own'[u] = IF u = t THEN own[t] \ {cur[t]} ELSE own[u]
    BY <1>7 DEF Store, Inv, TypeOK
  <2>3. cur[t] \notin todo /\ \A u \in Threads : u # t => cur[t] \notin own[u]
    BY <2>1 DEF Inv, TeamInv
  <2>4. todo' = todo
    BY <1>7 DEF Store
  <2>5. Pending' = Pending \ {cur[t]} /\ cur[t] \in Pending
    BY <2>1, <2>2, <2>3, <2>4 DEF Pending
  <2>6. Pending \subseteq Updates(A, i)
    BY <2>1 DEF Pending, Inv, LoopInv
  <2>7. val' = [val EXCEPT ![cur[t].k] =
                  MulSub(val[cur[t].k], val[cur[t].m], val[cur[t].l])]
    BY <1>7 DEF Store, Inv, RegisterInv
  <2>8. AbsVal' = AbsVal
    BY <2>1, <2>5, <2>6, <2>7, <1>7, WriteBack DEF Store
  <2> QED
    BY <2>8, <1>7 DEF Store, AbsI
<1>8. CASE UNCHANGED vars
  BY <1>8 DEF vars, AbsVal, AbsI, Pending
<1>9. CASE \E t \in Threads : Worker(t)
  <2>1. A' = A /\ done' = done
    BY <1>9 DEF Worker, Take, LoadFactors, LoadTarget, Store
  <2> QED
    BY <2>1, <1>5, <1>6, <1>7, <1>9 DEF Worker
<1> QED
  BY <1>1, <1>2, <1>3, <1>4, <1>8, <1>9 DEF Next, Caller

(***************************************************************************)
(* ic0_csr and both versions of ic0_csr_parInner implement ColumnChol, for *)
(* every lower triangular matrix, team, schedule and arithmetic: the       *)
(* parallel factorisations compute, rounding included, what the serial one *)
(* computes.                                                               *)
(***************************************************************************)
THEOREM Refinement == Spec => AbsSpec
<1>1. Init => Abs!Init
  BY DEF Init, Abs!Init, AbsVal, AbsI
<1> QED
  BY <1>1, StepSimulation, Invariance, PTL DEF Spec, AbsSpec, Abs!Spec
=============================================================================
