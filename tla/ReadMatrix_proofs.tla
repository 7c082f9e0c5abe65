-------------------------- MODULE ReadMatrix_proofs --------------------------
(***************************************************************************)
(* Proofs about ReadMatrix, for files of every size.                       *)
(***************************************************************************)
EXTENDS ReadMatrix, TLAPS

Good(f) == ColumnOrdered(f) /\ NoEmptyColumn(f)

(***************************************************************************)
(* The inductive invariant: the columns up to i are delimited by col as    *)
(* far as entries have been read, and the last entry read is in column i.  *)
(***************************************************************************)
PrefixInv ==
  /\ i < file.n
  /\ nnzCnt = 0 => i = 0
  /\ nnzCnt > 0 => ColOf(nnzCnt - 1) = i
  /\ col[0] = 0 /\ col[i] <= nnzCnt /\ colCnt = nnzCnt - col[i]
  /\ \A p \in 0 .. nnzCnt - 1 : row[p] = RowOf(p) /\ ColOf(p) <= i
  /\ \A c \in 0 .. i, p \in 0 .. nnzCnt - 1 : p < col[c] <=> ColOf(p) < c

Delimited ==
  \A c \in 0 .. file.n, p \in 0 .. file.nnz - 1 : p < col[c] <=> ColOf(p) < c

\* In a file in order of columns i does not pass the last entry read.
OrderInv ==
  /\ nnzCnt = 0 => i = 0
  /\ pc = "entries" => file.n > 0
  /\ InColumnOrder(file) /\ 0 < nnzCnt /\ nnzCnt <= Len(file.entries) => i <= ColOf(nnzCnt - 1)

Inv ==
  /\ TypeOK
  /\ pc \in {"header", "comments"} => nnzCnt = 0 /\ i = 0 /\ colCnt = 0 /\ ~ret
  /\ pc = "entries" => ~ret /\ (Good(file) => PrefixInv)
  /\ ret => pc = "end" /\ (Good(file) => Represents /\ Delimited)
  /\ Good(file) => pc # "overrun" /\ (pc = "end" => ret)

\* The invariant holds when the call begins.
LEMMA InitInv == Init => Inv
<1> SUFFICES ASSUME Init PROVE Inv
  OBVIOUS
<1>1. file.n \in Nat /\ file.nnz \in Nat
  BY FilesType DEF Init
<1>2. row \in [0 .. nnzCnt - 1 -> Int]
  BY DEF Init
<1>3. x \in Int /\ y \in Int
  BY GarbageType DEF Init, Unread
<1>4. /\ i \in 0 .. file.n /\ colCnt \in Nat /\ nnzCnt \in 0 .. file.nnz
      /\ skipped \in 0 .. file.comments
  BY <1>1, FilesType DEF Init
<1>5. TypeOK
  BY <1>2, <1>3, <1>4, Zenon DEF Init, TypeOK
<1> QED
  BY <1>5, Zenon DEF Init, Inv

\* The entries of a well-formed file, counted from 0.
LEMMA EntryFacts ==
  ASSUME file \in Files, Good(file)
  PROVE  /\ file.n \in Nat \ {0} /\ file.nnz \in Nat \ {0}
         /\ Len(file.entries) = file.nnz
         /\ \A p \in 0 .. file.nnz - 1 : RowOf(p) \in 0 .. file.n - 1 /\ ColOf(p) \in 0 .. file.n - 1
         /\ \A p, q \in 0 .. file.nnz - 1 : p < q => ColOf(p) <= ColOf(q)
         /\ \A c \in 0 .. file.n - 1 : \E p \in 0 .. file.nnz - 1 : ColOf(p) = c
<1>1. file.n \in Nat \ {0} /\ file.nnz \in Nat \ {0} /\ Len(file.entries) = file.nnz
  BY FilesType DEF Good, ColumnOrdered
<1>2. ASSUME NEW p \in 0 .. file.nnz - 1
      PROVE  RowOf(p) \in 0 .. file.n - 1 /\ ColOf(p) \in 0 .. file.n - 1
  <2>1. p + 1 \in 1 .. file.nnz
    BY <1>1
  <2>2. file.entries[p + 1][1] \in 1 .. file.n /\ file.entries[p + 1][2] \in 1 .. file.n
    BY <2>1 DEF Good, ColumnOrdered
  <2>3. \A r \in 1 .. file.n : r - 1 \in 0 .. file.n - 1
    BY <1>1
  <2> QED
    BY <2>2, <2>3, Zenon DEF RowOf, ColOf
<1>3. ASSUME NEW p \in 0 .. file.nnz - 1, NEW q \in 0 .. file.nnz - 1, p < q
      PROVE  ColOf(p) <= ColOf(q)
  <2>1. p + 1 \in 1 .. file.nnz /\ q + 1 \in 1 .. file.nnz /\ p + 1 < q + 1
    BY <1>1, <1>3
  <2>2. /\ file.entries[p + 1][2] <= file.entries[q + 1][2]
        /\ file.entries[p + 1][2] \in 1 .. file.n /\ file.entries[q + 1][2] \in 1 .. file.n
    BY <2>1 DEF Good, ColumnOrdered
  <2>3. \A r, s \in 1 .. file.n : r <= s => r - 1 <= s - 1
    BY <1>1
  <2> QED
    BY <2>2, <2>3, Zenon DEF ColOf
<1>4. ASSUME NEW c \in 0 .. file.n - 1
      PROVE  \E p \in 0 .. file.nnz - 1 : ColOf(p) = c
  <2>1. c + 1 \in 1 .. file.n
    BY <1>1
  <2>2. PICK p \in 1 .. file.nnz : file.entries[p][2] = c + 1
    BY <2>1 DEF Good, NoEmptyColumn
  <2>3. p - 1 \in 0 .. file.nnz - 1 /\ (p - 1) + 1 = p
    BY <1>1
  <2>4. ColOf(p - 1) = c
    BY <2>2, <2>3, <1>1 DEF ColOf
  <2> QED
    BY <2>3, <2>4
<1> QED
  BY <1>1, <1>2, <1>3, <1>4

\* In a well-formed file the next entry is in column i or opens column i + 1.
LEMMA NextEntry ==
  ASSUME TypeOK, Good(file), PrefixInv, nnzCnt < file.nnz
  PROVE  /\ NextX = RowOf(nnzCnt) /\ NextY = ColOf(nnzCnt)
         /\ nnzCnt \in 0 .. file.nnz - 1
         /\ NextY \in {i, i + 1} /\ NextY < file.n
<1>1. file \in Files /\ nnzCnt \in Nat /\ i \in Nat
  BY FilesType DEF TypeOK
<1>2. /\ file.n \in Nat \ {0} /\ file.nnz \in Nat \ {0} /\ Len(file.entries) = file.nnz
      /\ nnzCnt \in 0 .. file.nnz - 1
  BY <1>1, EntryFacts
<1>3. NextX = RowOf(nnzCnt) /\ NextY = ColOf(nnzCnt)
  BY <1>2 DEF NextX, NextY, RowOf, ColOf
<1>4. NextY \in 0 .. file.n - 1
  BY <1>1, <1>2, <1>3, EntryFacts
<1>5. i <= NextY
  <2>1. CASE nnzCnt = 0
    BY <2>1, <1>4 DEF PrefixInv
  <2>2. CASE nnzCnt > 0
    <3>1. nnzCnt - 1 \in 0 .. file.nnz - 1 /\ nnzCnt - 1 < nnzCnt
      BY <2>2, <1>2
    <3> QED
      BY <2>2, <3>1, <1>1, <1>2, <1>3, EntryFacts DEF PrefixInv
  <2> QED
    BY <2>1, <2>2, <1>1
<1>6. NextY <= i + 1
  <2> SUFFICES ASSUME i + 1 < NextY PROVE FALSE
    BY <1>1, <1>4
  <2>1. i + 1 \in 0 .. file.n - 1
    BY <1>1, <1>2, <1>4
  <2>2. PICK p \in 0 .. file.nnz - 1 : ColOf(p) = i + 1
    BY <2>1, <1>1, EntryFacts
  <2>3. ~(p < nnzCnt)
    <3> SUFFICES ASSUME p < nnzCnt PROVE FALSE
      OBVIOUS
    <3>1. p \in 0 .. nnzCnt - 1
      BY <1>1, <1>2
    <3>2. ColOf(p) <= i
      BY <3>1 DEF PrefixInv
    <3> QED
      BY <3>2, <2>2, <1>1
  <2>4. p = nnzCnt \/ nnzCnt < p
    BY <2>3, <1>1, <1>2
  <2>5. ColOf(nnzCnt) <= i + 1
    BY <2>2, <2>4, <1>1, <1>2, EntryFacts
  <2> QED
    BY <2>5, <1>3, <1>4, <1>1
<1> QED
  BY <1>1, <1>2, <1>3, <1>4, <1>5, <1>6

\* The matrix returned for a well-formed file.
LEMMA FinishRepresents ==
  ASSUME TypeOK, pc = "entries", Good(file), PrefixInv, Finish
  PROVE  Represents' /\ Delimited'
<1>1. /\ file \in Files /\ nnzCnt \in Nat /\ i \in Nat /\ file' = file
      /\ col \in [0 .. file.n -> Nat] /\ row' = row /\ i' = i
  BY FilesType DEF TypeOK, Finish
<1>2. file.n \in Nat \ {0} /\ file.nnz \in Nat \ {0} /\ nnzCnt = file.nnz
  BY <1>1, EntryFacts DEF TypeOK, Finish
<1>3. i = file.n - 1
  <2>1. file.n - 1 \in 0 .. file.n - 1
    BY <1>2
  <2>2. PICK p \in 0 .. file.nnz - 1 : ColOf(p) = file.n - 1
    BY <2>1, <1>1, EntryFacts
  <2>3. ColOf(p) <= i
    BY <1>2, <2>2 DEF PrefixInv
  <2> QED
    BY <2>2, <2>3, <1>1, <1>2 DEF PrefixInv
<1>4. col[file.n - 1] + colCnt = file.nnz
  BY <1>1, <1>2, <1>3 DEF PrefixInv
<1>5. /\ col' \in [0 .. file.n -> Nat] /\ col'[file.n] = file.nnz
      /\ \A c \in 0 .. file.n - 1 : col'[c] = col[c]
  BY <1>1, <1>2, <1>4 DEF Finish
<1>6. /\ Matrix'.n = file.n /\ Matrix'.ptr = col' /\ Matrix'.idx = row
      /\ Positions(Matrix)' = 0 .. file.nnz - 1
      /\ Rows(Matrix)' = 0 .. file.n - 1
      /\ \A c : Col(Matrix, c)' = col'[c] .. col'[c + 1] - 1
  BY <1>1, <1>5 DEF Matrix, Positions, Rows, Col
<1>7. row \in [0 .. file.nnz - 1 -> 0 .. file.n - 1]
  <2>1. row \in [0 .. file.nnz - 1 -> Int]
    BY <1>2 DEF TypeOK
  <2>2. \A p \in 0 .. file.nnz - 1 : row[p] = RowOf(p) /\ RowOf(p) \in 0 .. file.n - 1
    BY <1>1, <1>2, EntryFacts DEF PrefixInv
  <2> QED
    BY <2>1, <2>2
<1>8. IsCSC(Matrix)'
  <2>1. col'[0] = 0
    BY <1>5, <1>2 DEF PrefixInv
  <2> QED
    BY <2>1, <1>2, <1>5, <1>6, <1>7 DEF IsCSC
<1>9. ASSUME NEW c \in 0 .. file.n - 1, NEW p \in 0 .. file.nnz - 1
      PROVE  /\ p \in col'[c] .. col'[c + 1] - 1 <=> ColOf(p) = c
             /\ row[p] = RowOf(p)
  <2>1. /\ p < col[c] <=> ColOf(p) < c
        /\ row[p] = RowOf(p)
    BY <1>2, <1>3 DEF PrefixInv
  <2>2. p < col'[c + 1] <=> ColOf(p) < c + 1
    <3>1. CASE c = file.n - 1
      <4>1. c + 1 = file.n
        BY <3>1, <1>2
      <4>2. ColOf(p) \in 0 .. file.n - 1
        BY <1>1, EntryFacts
      <4> QED
        BY <4>1, <4>2, <1>2, <1>5
    <3>2. CASE c # file.n - 1
      <4>1. c + 1 \in 0 .. i /\ c + 1 \in 0 .. file.n - 1
        BY <3>2, <1>2, <1>3
      <4>2. p < col[c + 1] <=> ColOf(p) < c + 1
        BY <4>1, <1>2 DEF PrefixInv
      <4> QED
        BY <4>1, <4>2, <1>5
    <3> QED
      BY <3>1, <3>2
  <2>3. /\ col'[c] = col[c] /\ col'[c] \in Nat /\ col'[c + 1] \in Nat
        /\ ColOf(p) \in Int
    <3>1. c \in 0 .. file.n /\ c + 1 \in 0 .. file.n
      BY <1>2
    <3>2. ColOf(p) \in 0 .. file.n - 1
      BY <1>1, EntryFacts
    <3> QED
      BY <3>1, <3>2, <1>2, <1>5
  <2> QED
    BY <2>1, <2>2, <2>3
<1>10. \A p : RowOf(p)' = RowOf(p) /\ ColOf(p)' = ColOf(p)
  BY <1>1 DEF RowOf, ColOf
<1> QED
  <2>1. Represents'
    BY <1>1, <1>6, <1>8, <1>9, <1>10 DEF Represents
  <2>2. ASSUME NEW c \in 0 .. file.n, NEW p \in 0 .. file.nnz - 1
        PROVE  p < col'[c] <=> ColOf(p) < c
    <3>1. CASE c = file.n
      <4>1. ColOf(p) \in 0 .. file.n - 1
        BY <1>1, EntryFacts
      <4> QED
        BY <3>1, <4>1, <1>2, <1>5
    <3>2. CASE c # file.n
      <4>1. c \in 0 .. file.n - 1 /\ c \in 0 .. i
        BY <3>2, <1>2, <1>3
      <4> QED
        BY <4>1, <1>2, <1>5 DEF PrefixInv
    <3> QED
      BY <3>1, <3>2
  <2>3. Delimited'
    BY <2>2, <1>1, <1>10 DEF Delimited
  <2> QED
    BY <2>1, <2>3

\* No column begun so far begins after the entries read so far.
LEMMA BoundsBehind ==
  ASSUME TypeOK, pc = "entries", PrefixInv, NEW c \in 0 .. i
  PROVE  col[c] \in Nat /\ col[c] <= nnzCnt
<1>1. /\ file.n \in Nat /\ nnzCnt \in Nat /\ i \in 0 .. file.n
      /\ col \in [0 .. file.n -> Nat]
  BY FilesType DEF TypeOK
<1>2. col[c] \in Nat
  BY <1>1
<1>3. ASSUME nnzCnt < col[c] PROVE FALSE
  <2>1. c < i
    BY <1>1, <1>2, <1>3 DEF PrefixInv
  <2>2. nnzCnt > 0 /\ ColOf(nnzCnt - 1) = i
    BY <2>1, <1>1 DEF PrefixInv
  <2>3. nnzCnt - 1 \in 0 .. nnzCnt - 1 /\ nnzCnt - 1 < col[c]
    BY <2>2, <1>1, <1>2, <1>3
  <2>4. ColOf(nnzCnt - 1) < c
    BY <2>3 DEF PrefixInv
  <2> QED
    BY <2>1, <2>2, <2>4, <1>1
<1> QED
  BY <1>1, <1>2, <1>3

\* One step of readMatrix preserves the invariant.
LEMMA NextInv == Inv /\ [Next]_vars => Inv'
<1> SUFFICES ASSUME Inv, [Next]_vars PROVE Inv'
  OBVIOUS
<1>t. TypeOK /\ file \in Files /\ file.n \in Nat /\ file.nnz \in Nat
  BY FilesType DEF Inv, TypeOK
<1>n. /\ file.entries \in Seq(Nat \X Nat)
      /\ NextX \in Int /\ NextY \in Int
  <2>1. file.entries \in Seq(Nat \X Nat) /\ nnzCnt \in Nat /\ x \in Int /\ y \in Int
    BY <1>t, FilesType DEF TypeOK
  <2>2. CASE nnzCnt < Len(file.entries)
    <3>1. nnzCnt + 1 \in 1 .. Len(file.entries)
      BY <2>1, <2>2
    <3>2. file.entries[nnzCnt + 1] \in Nat \X Nat
      BY <3>1, <2>1
    <3>3. file.entries[nnzCnt + 1][1] \in Nat /\ file.entries[nnzCnt + 1][2] \in Nat
      BY <3>2
    <3> QED
      BY <2>1, <2>2, <3>3 DEF NextX, NextY
  <2>3. CASE ~(nnzCnt < Len(file.entries))
    BY <2>1, <2>3 DEF NextX, NextY
  <2> QED
    BY <2>1, <2>2, <2>3
<1>g. file' = file => (Good(file)' <=> Good(file)) /\ \A p : RowOf(p)' = RowOf(p) /\ ColOf(p)' = ColOf(p)
  BY DEF Good, ColumnOrdered, NoEmptyColumn, RowOf, ColOf
<1>1. CASE ReadHeader
  <2>1. TypeOK'
    BY <1>1, <1>t DEF ReadHeader, TypeOK
  <2>2. pc' = "end" => ~Good(file)
    BY <1>1 DEF ReadHeader, Good, ColumnOrdered
  <2> QED
    BY <1>1, <2>1, <2>2, <1>g DEF ReadHeader, Inv
<1>7. CASE SkipComment
  <2>1. skipped' \in 0 .. file.comments
    <3>1. file.comments \in Nat /\ skipped \in 0 .. file.comments
      BY <1>t, FilesType DEF TypeOK
    <3> QED
      BY <1>7, <3>1 DEF SkipComment
  <2>2. TypeOK'
    BY <1>7, <1>t, <2>1 DEF SkipComment, TypeOK
  <2> QED
    BY <1>7, <2>2, <1>g DEF SkipComment, Inv
<1>8. CASE ReadSizes
  <2>1. CASE pc' = "end"
    <3>1. TypeOK'
      BY <1>8, <2>1, <1>t DEF ReadSizes, TypeOK
    <3>2. ~Good(file)
      BY <1>8, <2>1 DEF ReadSizes, Good, ColumnOrdered
    <3> QED
      BY <1>8, <2>1, <3>1, <3>2, <1>g DEF ReadSizes, Inv
  <2>2. CASE pc' = "entries"
    <3>1. col' = [c \in 0 .. file.n |-> 0] /\ file.n > 0
      BY <1>8, <2>2 DEF ReadSizes
    <3>2. TypeOK'
      BY <1>8, <2>2, <3>1, <1>t DEF ReadSizes, TypeOK
    <3>3. nnzCnt' = 0 /\ i' = 0 /\ colCnt' = 0 /\ ret' = FALSE /\ file' = file
      BY <1>8 DEF ReadSizes, Inv
    <3>4. PrefixInv'
      BY <3>1, <3>3, <1>t DEF PrefixInv
    <3> QED
      BY <2>2, <3>2, <3>3, <3>4 DEF Inv
  <2> QED
    BY <1>8, <2>1, <2>2 DEF ReadSizes
<1>2. CASE OutOfRange
  <2>1. TypeOK'
    BY <1>2, <1>n, <1>t DEF OutOfRange, BeyondColumns, MoreEntries, TypeOK
  <2>2. ~Good(file)
    <3> SUFFICES ASSUME Good(file) PROVE FALSE
      OBVIOUS
    <3>1. NextY \in {i, i + 1} /\ NextY < file.n
      BY <1>2, <1>t, NextEntry DEF OutOfRange, BeyondColumns, MoreEntries, Inv
    <3> QED
      BY <3>1, <1>2, <1>n, <1>t DEF OutOfRange, BeyondColumns, TypeOK
  <2> QED
    BY <1>2, <2>1, <2>2, <1>g DEF OutOfRange, BeyondColumns, MoreEntries, Inv
<1>3. CASE SameColumn
  <2>1. /\ pc = "entries" /\ pc' = "entries" /\ nnzCnt < file.nnz /\ nnzCnt \in Nat
        /\ nnzCnt' = nnzCnt + 1 /\ colCnt' = colCnt + 1 /\ i' = i /\ col' = col
        /\ file' = file /\ ret' = ret /\ ~ret /\ skipped' = skipped
        /\ x' = NextX /\ y' = NextY /\ NextY = i
        /\ row' = [p \in 0 .. nnzCnt |-> IF p < nnzCnt THEN row[p] ELSE NextX]
    BY <1>3 DEF SameColumn, InRange, BeyondColumns, MoreEntries, StoreRow, Inv, TypeOK
  <2>2. row' \in [0 .. nnzCnt' - 1 -> Int]
    <3>1. nnzCnt' - 1 = nnzCnt /\ row \in [0 .. nnzCnt - 1 -> Int]
      BY <2>1, <1>t DEF TypeOK
    <3>2. \A p \in 0 .. nnzCnt : row'[p] \in Int
      BY <2>1, <3>1, <1>n
    <3> QED
      BY <2>1, <3>1, <3>2
  <2>3. TypeOK'
    BY <2>1, <2>2, <1>n, <1>t DEF TypeOK
  <2>4. ASSUME Good(file), PrefixInv PROVE PrefixInv'
    <3>1. /\ NextX = RowOf(nnzCnt) /\ NextY = ColOf(nnzCnt)
          /\ nnzCnt \in 0 .. file.nnz - 1
      BY <2>1, <2>4, <1>t, NextEntry
    <3>2. /\ col \in [0 .. file.n -> Nat] /\ i \in 0 .. file.n /\ colCnt \in Nat
      BY <2>1, <1>t DEF TypeOK
    <3>3. \A p \in 0 .. nnzCnt : row'[p] = RowOf(p) /\ ColOf(p) <= i
      BY <2>1, <2>4, <3>1, <3>2, <1>t DEF PrefixInv
    <3>4. ASSUME NEW c \in 0 .. i, NEW p \in 0 .. nnzCnt
          PROVE  p < col[c] <=> ColOf(p) < c
      <4>1. CASE p < nnzCnt
        BY <2>1, <2>4, <4>1 DEF PrefixInv
      <4>2. CASE p = nnzCnt
        <5>1. col[c] \in Nat /\ col[c] <= nnzCnt
          BY <2>1, <2>4, <1>t, BoundsBehind
        <5>2. ColOf(p) = i
          BY <4>2, <3>1, <2>1
        <5> QED
          BY <4>2, <5>1, <5>2, <2>1, <3>2, <1>t
      <4> QED
        BY <4>1, <4>2, <2>1
    <3>5. /\ i < file.n /\ col[0] = 0 /\ col[i] <= nnzCnt + 1
          /\ colCnt + 1 = (nnzCnt + 1) - col[i]
      BY <2>1, <2>4, <3>2 DEF PrefixInv
    <3>6. (nnzCnt + 1) - 1 = nnzCnt
      BY <2>1
    <3> QED
      BY <2>1, <3>1, <3>3, <3>4, <3>5, <3>6, <1>g DEF PrefixInv
  <2> QED
    BY <2>1, <2>3, <2>4, <1>g DEF Inv
<1>4. CASE NewColumn
  <2>0. /\ pc = "entries" /\ nnzCnt < file.nnz /\ nnzCnt \in Nat
        /\ file' = file /\ ret' = ret /\ ~ret /\ skipped' = skipped
        /\ x' = NextX /\ y' = NextY /\ NextY # i
    BY <1>4 DEF NewColumn, InRange, BeyondColumns, MoreEntries, Inv, TypeOK
  <2>a. CASE ~(i < file.n)
    <3>1. TypeOK'
      BY <1>4, <2>0, <2>a, <1>n, <1>t DEF NewColumn, TypeOK
    <3> QED
      BY <1>4, <2>0, <2>a, <3>1, <1>g DEF NewColumn, Inv, PrefixInv
  <2>b. CASE i < file.n
    <3>1. /\ pc' = "entries" /\ nnzCnt' = nnzCnt + 1 /\ colCnt' = 1 /\ i' = i + 1
          /\ col' = [col EXCEPT ![i + 1] = col[i] + colCnt]
          /\ row' = [p \in 0 .. nnzCnt |-> IF p < nnzCnt THEN row[p] ELSE NextX]
      BY <1>4, <2>0, <2>b DEF NewColumn, StoreRow
    <3>2. col \in [0 .. file.n -> Nat] /\ i \in 0 .. file.n /\ colCnt \in Nat
      BY <2>0, <1>t DEF TypeOK
    <3>3. row' \in [0 .. nnzCnt' - 1 -> Int]
      BY <2>0, <3>1, <1>n, <1>t DEF TypeOK
    <3>4. col' \in [0 .. file.n -> Nat] /\ i + 1 \in 0 .. file.n
      BY <2>b, <3>1, <3>2, <1>t
    <3>5. TypeOK'
      BY <2>0, <3>1, <3>3, <3>4, <1>n, <1>t DEF TypeOK
    <3>6. ASSUME Good(file), PrefixInv PROVE PrefixInv'
      <4>1. /\ NextX = RowOf(nnzCnt) /\ NextY = ColOf(nnzCnt)
            /\ nnzCnt \in 0 .. file.nnz - 1
            /\ NextY = i + 1 /\ i + 1 < file.n
        BY <2>0, <3>6, <1>t, NextEntry
      <4>2. col'[i + 1] = nnzCnt /\ \A c \in 0 .. i : col'[c] = col[c]
        <5>1. col[i] + colCnt = nnzCnt
          BY <2>0, <3>2, <3>6 DEF PrefixInv
        <5> QED
          BY <5>1, <2>b, <3>1, <3>2, <1>t
      <4>3. \A p \in 0 .. nnzCnt : row'[p] = RowOf(p) /\ ColOf(p) <= i + 1
        <5>1. \A p \in 0 .. nnzCnt - 1 : row[p] = RowOf(p) /\ ColOf(p) <= i /\ ColOf(p) \in Int
          <6>1. \A p \in 0 .. nnzCnt - 1 : p \in 0 .. file.nnz - 1
            BY <4>1, <2>0, <1>t
          <6> QED
            BY <6>1, <3>6, <1>t, EntryFacts DEF PrefixInv
        <5>2. ASSUME NEW p \in 0 .. nnzCnt
              PROVE  row'[p] = RowOf(p) /\ ColOf(p) <= i + 1
          <6>1. CASE p = nnzCnt
            BY <6>1, <4>1, <3>1, <3>2, <2>0
          <6>2. CASE p # nnzCnt
            <7>1. p \in 0 .. nnzCnt - 1
              BY <6>2, <2>0
            <7> QED
              BY <7>1, <5>1, <3>1, <3>2, <2>0, <1>t
          <6> QED
            BY <6>1, <6>2
        <5> QED
          BY <5>2
      <4>4. ASSUME NEW c \in 0 .. i + 1, NEW p \in 0 .. nnzCnt
            PROVE  p < col'[c] <=> ColOf(p) < c
        <5>0. p \in 0 .. file.nnz - 1 /\ ColOf(p) \in Int
          <6>1. p \in 0 .. file.nnz - 1
            BY <4>1, <2>0, <1>t
          <6> QED
            BY <6>1, <3>6, <1>t, EntryFacts
        <5>1. CASE c = i + 1 /\ p < nnzCnt
          <6>1. ColOf(p) <= i
            BY <5>1, <2>0, <3>6 DEF PrefixInv
          <6> QED
            BY <6>1, <5>0, <5>1, <4>2, <3>2
        <5>2. CASE p = nnzCnt
          <6>1. col'[c] <= nnzCnt
            <7>1. CASE c = i + 1
              BY <7>1, <4>2, <2>0
            <7>2. CASE c # i + 1
              <8>1. c \in 0 .. i
                BY <7>2, <3>2, <1>t
              <8> QED
                BY <8>1, <4>2, <2>0, <3>6, <1>t, BoundsBehind
            <7> QED
              BY <7>1, <7>2
          <6>2. col'[c] \in Nat
            BY <3>4, <1>t
          <6> QED
            BY <5>2, <6>1, <6>2, <4>1, <3>2, <2>0
        <5>3. CASE c # i + 1 /\ p < nnzCnt
          <6>1. c \in 0 .. i /\ p \in 0 .. nnzCnt - 1
            BY <5>3, <3>2, <2>0
          <6> QED
            BY <6>1, <4>2, <3>6 DEF PrefixInv
        <5> QED
          BY <5>1, <5>2, <5>3, <2>0
      <4>5. col'[0] = 0
        BY <4>2, <3>2, <3>6 DEF PrefixInv
      <4>6. (nnzCnt + 1) - 1 = nnzCnt /\ nnzCnt <= nnzCnt + 1 /\ 1 = (nnzCnt + 1) - nnzCnt
        BY <2>0
      <4>7. \A p : RowOf(p)' = RowOf(p) /\ ColOf(p)' = ColOf(p)
        BY <2>0, <1>g
      <4>8. /\ (i < file.n)' /\ (nnzCnt = 0 => i = 0)'
            /\ (nnzCnt > 0 => ColOf(nnzCnt - 1) = i)'
        <5>1. (ColOf(nnzCnt - 1))' = ColOf(nnzCnt)
          BY <2>0, <3>1, <4>6 DEF ColOf
        <5> QED
          BY <2>0, <3>1, <4>1, <5>1
      <4>9. (col[0] = 0 /\ col[i] <= nnzCnt /\ colCnt = nnzCnt - col[i])'
        BY <3>1, <4>2, <4>5, <4>6
      <4>10. (\A p \in 0 .. nnzCnt - 1 : row[p] = RowOf(p) /\ ColOf(p) <= i)'
        BY <3>1, <4>3, <4>6, <4>7
      <4>11. (\A c \in 0 .. i, p \in 0 .. nnzCnt - 1 : p < col[c] <=> ColOf(p) < c)'
        BY <3>1, <4>4, <4>6, <4>7
      <4> QED
        BY <4>8, <4>9, <4>10, <4>11 DEF PrefixInv
    <3> QED
      BY <2>0, <3>1, <3>5, <3>6, <1>g DEF Inv
  <2> QED
    BY <2>a, <2>b
<1>5. CASE Finish
  <2>1. TypeOK'
    BY <1>5, <1>t DEF Finish, TypeOK
  <2>2. ASSUME Good(file) PROVE Represents' /\ Delimited'
    BY <1>5, <1>t, <2>2, FinishRepresents DEF Finish, Inv
  <2> QED
    BY <1>5, <2>1, <2>2, <1>g DEF Finish, Inv
<1>6. CASE UNCHANGED vars
  <2>1. /\ Represents' = Represents /\ Delimited' = Delimited
        /\ PrefixInv' = PrefixInv /\ TypeOK' = TypeOK
    BY <1>6 DEF vars, Represents, Delimited, PrefixInv, TypeOK, Matrix, IsCSC, Positions,
                Rows, Col, RowOf, ColOf
  <2> QED
    BY <1>6, <2>1, <1>g DEF vars, Inv
<1> QED
  BY <1>1, <1>2, <1>3, <1>4, <1>5, <1>6, <1>7, <1>8 DEF Next

\* So it holds throughout every behaviour.
LEMMA Invariance == Spec => []Inv
  BY InitInv, NextInv, PTL DEF Spec

\* The columns of a file's entries are numbers.
LEMMA ColumnsAreNumbers ==
  ASSUME file \in Files, NEW q \in 1 .. Len(file.entries)
  PROVE  ColOf(q - 1) = file.entries[q][2] - 1 /\ file.entries[q][2] \in Nat
<1>1. file.entries \in Seq(Nat \X Nat)
  BY FilesType
<1>2. file.entries[q] \in Nat \X Nat
  BY <1>1
<1>3. file.entries[q][2] \in Nat
  BY <1>2
<1>4. (q - 1) + 1 = q
  OBVIOUS
<1> QED
  BY <1>3, <1>4 DEF ColOf

\* The next entry of a file in order of columns is not before the last one.
LEMMA NextInOrder ==
  ASSUME TypeOK, OrderInv, InColumnOrder(file), nnzCnt < Len(file.entries), NextY >= 0
  PROVE  NextY = ColOf(nnzCnt) /\ NextY \in Int /\ i <= NextY
<1>1. /\ file \in Files /\ nnzCnt \in Nat /\ i \in Nat
      /\ file.entries \in Seq(Nat \X Nat) /\ Len(file.entries) \in Nat
  BY FilesType DEF TypeOK
<1>2. nnzCnt + 1 \in 1 .. Len(file.entries) /\ (nnzCnt + 1) - 1 = nnzCnt
  BY <1>1
<1> DEFINE next == file.entries[nnzCnt + 1][2]
<1>3. ColOf(nnzCnt) = next - 1 /\ next \in Nat
  <2>1. ColOf((nnzCnt + 1) - 1) = next - 1 /\ next \in Nat
    BY <1>1, <1>2, ColumnsAreNumbers
  <2> QED
    BY <2>1, <1>2
<1>4. NextY = next - 1
  BY DEF NextY
<1>5. CASE nnzCnt = 0
  <2> HIDE DEF next
  <2> QED
    BY <1>1, <1>3, <1>4, <1>5 DEF OrderInv
<1>6. CASE nnzCnt > 0
  <2> DEFINE last == file.entries[nnzCnt][2]
  <2>1. nnzCnt \in 1 .. Len(file.entries) /\ nnzCnt < nnzCnt + 1
    BY <1>1, <1>6
  <2>2. ColOf(nnzCnt - 1) = last - 1 /\ last \in Nat
    BY <2>1, <1>1, ColumnsAreNumbers
  <2>3. last <= next
    BY <1>2, <2>1, Zenon DEF InColumnOrder
  <2>4. i <= ColOf(nnzCnt - 1)
    BY <1>1, <1>6 DEF OrderInv
  <2> HIDE DEF next, last
  <2> QED
    BY <1>1, <1>3, <1>4, <2>2, <2>3, <2>4
<1> QED
  BY <1>1, <1>5, <1>6

\* The file is not written.
LEMMA FileKept == [Next]_vars => file' = file
  BY DEF Next, vars, ReadHeader, SkipComment, ReadSizes, OutOfRange, SameColumn, NewColumn, Finish

\* A step keeps i behind the last entry read.
LEMMA OrderKept ==
  ASSUME Inv, Inv', OrderInv, [Next]_vars
  PROVE  OrderInv'
<1>1. /\ TypeOK /\ nnzCnt \in Nat /\ i \in Nat /\ file.n \in Nat
      /\ Len(file.entries) \in Nat /\ file' = file
  <2>1. TypeOK /\ file \in Files /\ file.entries \in Seq(Nat \X Nat)
    BY FilesType DEF Inv, TypeOK
  <2>2. nnzCnt \in Nat /\ i \in Nat /\ file.n \in Nat
    BY <2>1, FilesType DEF TypeOK
  <2>3. Len(file.entries) \in Nat
    BY <2>1
  <2> QED
    BY <2>1, <2>2, <2>3, FileKept
<1>2. /\ InColumnOrder(file)' = InColumnOrder(file)
      /\ \A p : ColOf(p)' = ColOf(p)
  BY <1>1 DEF InColumnOrder, ColOf
<1>3. CASE ReadHeader \/ SkipComment \/ ReadSizes
  <2>1. nnzCnt' = 0 /\ i' = 0 /\ (pc' = "entries" => file'.n > 0)
    BY <1>3, <1>1 DEF Inv, ReadHeader, SkipComment, ReadSizes
  <2> QED
    BY <2>1 DEF OrderInv
<1>4. CASE OutOfRange \/ Finish \/ UNCHANGED vars
  <2>1. nnzCnt' = nnzCnt /\ i' = i /\ (pc' = "entries" => pc = "entries")
    BY <1>4 DEF OutOfRange, Finish, vars
  <2>2. ColOf(nnzCnt - 1)' = ColOf(nnzCnt - 1)
    BY <2>1, <1>1 DEF ColOf
  <2> QED
    BY <2>1, <2>2, <1>1, <1>2 DEF OrderInv
<1>5. CASE SameColumn \/ NewColumn
  <2>1. CASE pc' = "overrun"
    <3>1. nnzCnt' = nnzCnt /\ i' = i
      BY <1>5, <2>1, <1>1 DEF SameColumn, NewColumn, InRange, BeyondColumns, MoreEntries
    <3>2. ColOf(nnzCnt - 1)' = ColOf(nnzCnt - 1)
      BY <3>1, <1>1 DEF ColOf
    <3> QED
      BY <2>1, <3>1, <3>2, <1>1, <1>2 DEF OrderInv
  <2>2. CASE pc' # "overrun"
    <3>1. /\ nnzCnt' = nnzCnt + 1 /\ NextY \in 0 .. file.n
          /\ (i' = i /\ NextY = i) \/ (i' = i + 1 /\ NextY # i)
          /\ pc = "entries"
      BY <1>5, <2>2, <1>1 DEF SameColumn, NewColumn, InRange, BeyondColumns, MoreEntries
    <3>2. ColOf(nnzCnt - 1)' = ColOf(nnzCnt)
      BY <3>1, <1>1 DEF ColOf
    <3>3. ASSUME InColumnOrder(file), nnzCnt + 1 <= Len(file.entries)
          PROVE  i' <= ColOf(nnzCnt)
      <4>1. nnzCnt < Len(file.entries) /\ NextY >= 0
        BY <3>1, <3>3, <1>1
      <4>2. NextY = ColOf(nnzCnt) /\ NextY \in Int /\ i <= NextY
        BY <4>1, <3>3, <1>1, NextInOrder
      <4> QED
        BY <4>2, <3>1, <1>1
    <3> QED
      BY <3>1, <3>2, <3>3, <1>1, <1>2 DEF OrderInv
  <2> QED
    BY <2>1, <2>2
<1> QED
  BY <1>3, <1>4, <1>5 DEF Next

(***************************************************************************)
(* For files of every size in order of columns, with empty columns or      *)
(* columns that do not exist, and with at most one entry missing: col is   *)
(* not written past its end (util.h:102).  Whatever the file, counters and *)
(* arrays keep their types, and no more rows are stored than announced.    *)
(***************************************************************************)
THEOREM WithinArrays == Spec => []StaysInArrays
<1>1. Init => OrderInv /\ NoOverrun
  BY FilesType DEF Init, OrderInv, NoOverrun
<1>2. ASSUME Inv, Inv', OrderInv, NoOverrun, [Next]_vars
      PROVE  NoOverrun'
  <2> SUFFICES ASSUME InColumnOrder(file)', LacksAtMostOne(file)', pc' = "overrun"
               PROVE  FALSE
    BY DEF NoOverrun
  <2>0. TypeOK /\ file \in Files /\ file.entries \in Seq(Nat \X Nat) /\ file' = file
    BY <1>2, FilesType, FileKept DEF Inv, TypeOK
  <2>1. /\ TypeOK /\ nnzCnt \in Nat /\ i \in 0 .. file.n /\ file.n \in Nat /\ file.nnz \in Nat
        /\ Len(file.entries) \in Nat /\ file' = file /\ file \in Files
    BY <2>0, FilesType DEF TypeOK
  <2>2. InColumnOrder(file) /\ LacksAtMostOne(file)
    BY <2>1 DEF InColumnOrder, LacksAtMostOne
  <2>3. pc # "overrun"
    BY <1>2, <2>2 DEF NoOverrun
  <2>4. NewColumn
    BY <1>2, <2>3 DEF Next, vars, ReadHeader, SkipComment, ReadSizes, OutOfRange, SameColumn,
                      Finish
  <2>5. /\ pc = "entries" /\ nnzCnt < file.nnz /\ NextY \in 0 .. file.n /\ NextY # i
        /\ i = file.n /\ file.n > 0
    BY <2>1, <2>3, <2>4, <1>2 DEF NewColumn, InRange, BeyondColumns, MoreEntries, OrderInv
  <2>6. CASE nnzCnt < Len(file.entries)
    <3>1. NextY \in Int /\ i <= NextY
      BY <2>1, <2>2, <2>5, <2>6, <1>2, NextInOrder
    <3> QED
      BY <3>1, <2>1, <2>5
  <2>7. CASE ~(nnzCnt < Len(file.entries))
    <3>1. nnzCnt = Len(file.entries) /\ \A p \in 1 .. Len(file.entries) : file.entries[p][2] <= file.n
      BY <2>1, <2>2, <2>5, <2>7 DEF LacksAtMostOne
    <3>2. nnzCnt > 0
      BY <2>1, <2>5, <1>2 DEF OrderInv
    <3>3. nnzCnt \in 1 .. Len(file.entries)
      BY <2>1, <3>1, <3>2
    <3> DEFINE last == file.entries[nnzCnt][2]
    <3>4. ColOf(nnzCnt - 1) = last - 1 /\ last \in Nat
      BY <2>1, <3>3, ColumnsAreNumbers
    <3>5. i <= ColOf(nnzCnt - 1) /\ last <= file.n
      BY <1>2, <2>1, <2>2, <3>1, <3>2, <3>3 DEF OrderInv
    <3> HIDE DEF last
    <3> QED
      BY <3>4, <3>5, <2>1, <2>5
  <2> QED
    BY <2>6, <2>7
<1>3. Inv /\ Inv' /\ OrderInv /\ NoOverrun /\ [Next]_vars => (OrderInv /\ NoOverrun)'
  BY <1>2, OrderKept
<1>4. Inv /\ NoOverrun => StaysInArrays
  BY DEF Inv, StaysInArrays
<1> QED
  BY <1>1, <1>3, <1>4, Invariance, PTL DEF Spec

(***************************************************************************)
(* For files of every size: a complete file ordered by column, with no     *)
(* empty column, is neither refused nor lets readMatrix write past its     *)
(* arrays (util.h:90-110).                                                 *)
(***************************************************************************)
THEOREM AcceptsNonEmpty == Spec => []ReadAccepts
<1>1. Inv => ReadAccepts
  BY DEF Inv, ReadAccepts, Good
<1> QED
  BY <1>1, Invariance, PTL

(***************************************************************************)
(* For files of every size: what readMatrix returns for a complete file    *)
(* ordered by column, with no empty column, is the CSC form of the file    *)
(* (util.h:90-110).                                                        *)
(***************************************************************************)
THEOREM ExactNonEmpty == Spec => []ReadExactNonEmpty
<1>1. Inv => ReadExactNonEmpty
  BY DEF Inv, ReadExactNonEmpty, Good
<1> QED
  BY <1>1, Invariance, PTL

\* A sorted lower triangular file, counted from 0.
LEMMA LowerFacts ==
  ASSUME file \in Files, Good(file), SortedLower(file)
  PROVE  /\ \A p \in 0 .. file.nnz - 1 : ColOf(p) <= RowOf(p)
         /\ \A p, q \in 0 .. file.nnz - 1 :
              p < q /\ ColOf(p) = ColOf(q) => RowOf(p) < RowOf(q)
<1>1. file.n \in Nat /\ file.nnz \in Nat
  BY EntryFacts
<1>2. \A p \in 1 .. file.nnz :
        file.entries[p][1] \in 1 .. file.n /\ file.entries[p][2] \in 1 .. file.n
  BY DEF Good, ColumnOrdered
<1>3. \A p \in 0 .. file.nnz - 1 : p + 1 \in 1 .. file.nnz
  BY <1>1
<1>4. ASSUME NEW p \in 0 .. file.nnz - 1 PROVE ColOf(p) <= RowOf(p)
  <2>1. file.entries[p + 1][2] <= file.entries[p + 1][1]
    BY <1>3 DEF SortedLower
  <2>2. \A r, c \in 1 .. file.n : c <= r => c - 1 <= r - 1
    BY <1>1
  <2>3. file.entries[p + 1][1] \in 1 .. file.n /\ file.entries[p + 1][2] \in 1 .. file.n
    BY <1>2, <1>3
  <2> QED
    BY <2>1, <2>2, <2>3, Zenon DEF RowOf, ColOf
<1>5. ASSUME NEW p \in 0 .. file.nnz - 1, NEW q \in 0 .. file.nnz - 1,
             p < q, ColOf(p) = ColOf(q)
      PROVE  RowOf(p) < RowOf(q)
  <2>1. p + 1 \in 1 .. file.nnz /\ q + 1 \in 1 .. file.nnz /\ p + 1 < q + 1
    BY <1>1, <1>5
  <2>2. /\ file.entries[p + 1][1] \in 1 .. file.n /\ file.entries[p + 1][2] \in 1 .. file.n
        /\ file.entries[q + 1][1] \in 1 .. file.n /\ file.entries[q + 1][2] \in 1 .. file.n
    BY <2>1, <1>2
  <2>3. \A c, d \in 1 .. file.n : c - 1 = d - 1 => c = d
    BY <1>1
  <2>4. file.entries[p + 1][2] = file.entries[q + 1][2]
    BY <2>2, <2>3, <1>5, Zenon DEF ColOf
  <2>5. file.entries[p + 1][1] < file.entries[q + 1][1]
    BY <2>1, <2>4 DEF SortedLower
  <2>6. \A r, t \in 1 .. file.n : r < t => r - 1 < t - 1
    BY <1>1
  <2> QED
    BY <2>2, <2>5, <2>6, Zenon DEF RowOf
<1> QED
  BY <1>4, <1>5

(***************************************************************************)
(* For files of every size: a lower triangular file in the expected order, *)
(* with a full diagonal, gives arrays with the Monotonicity, Triangularity *)
(* and CoMonotonicity that the kernels' race freedom rests on              *)
(* (data/fs_csc.json:39-62).                                               *)
(***************************************************************************)
THEOREM KernelsCanRely == Spec => []KernelReady
<1>1. ASSUME Inv, ret, ColumnOrdered(file), SortedLower(file)
      PROVE  LowerTriangular(Matrix)
  <2> USE <1>1
  <2>0. file \in Files /\ file.n \in Nat \ {0} /\ file.nnz \in Nat \ {0}
    BY FilesType DEF Inv, TypeOK, ColumnOrdered
  <2>1. NoEmptyColumn(file)
    <3> SUFFICES ASSUME NEW c \in 1 .. file.n
                 PROVE  \E p \in 1 .. file.nnz : file.entries[p][2] = c
      BY DEF NoEmptyColumn
    <3>1. PICK p \in 1 .. file.nnz : file.entries[p] = <<c, c>>
      BY DEF SortedLower
    <3> QED
      BY <3>1
  <2>2. Good(file) /\ Represents /\ Delimited
    BY <2>1 DEF Good, Inv
  <2>3. Matrix.n = file.n /\ Matrix.idx = row /\ Matrix.ptr = col
    BY DEF Matrix
  <2>4. /\ IsCSC(Matrix) /\ Positions(Matrix) = 0 .. file.nnz - 1
        /\ Rows(Matrix) = 0 .. file.n - 1
    BY <2>2, <2>3 DEF Represents, Rows
  <2>5. col \in [0 .. file.n -> Nat]
    BY <2>3, <2>4 DEF IsCSC
  <2>6. \A p \in 0 .. file.nnz - 1 :
          /\ row[p] = RowOf(p)
          /\ RowOf(p) \in 0 .. file.n - 1 /\ ColOf(p) \in 0 .. file.n - 1
    <3>1. \A p \in 0 .. file.nnz - 1 : row[p] = RowOf(p)
      BY <2>0, <2>2, <2>4 DEF Represents
    <3> QED
      BY <3>1, <2>0, <2>2, EntryFacts
  <2>7. PtrIncreasing(Matrix)
    <3> SUFFICES ASSUME NEW c \in 0 .. file.n, NEW d \in 0 .. file.n, c < d
                 PROVE  col[c] < col[d]
      BY <2>3 DEF PtrIncreasing
    <3>1. c \in 0 .. file.n - 1
      BY <2>0
    <3>2. PICK p \in 0 .. file.nnz - 1 : ColOf(p) = c
      BY <3>1, <2>0, <2>2, EntryFacts
    <3>3. ~(p < col[c]) /\ p < col[d]
      BY <3>2, <2>2 DEF Delimited
    <3> QED
      BY <3>3, <2>0, <2>5
  <2>8. Triangularity(Matrix)
    <3> SUFFICES ASSUME NEW c \in 0 .. file.n, NEW p \in 0 .. file.nnz - 1, col[c] < p
                 PROVE  c < row[p]
      BY <2>3, <2>4 DEF Triangularity
    <3>1. col[c] \in 0 .. file.nnz - 1
      BY <2>0, <2>5
    <3> DEFINE s == col[c]
    <3>2. ~(ColOf(s) < c) /\ ~(ColOf(p) < c)
      BY <3>1, <2>0, <2>2, <2>5 DEF Delimited
    <3>3. ColOf(s) <= ColOf(p) /\ ColOf(s) <= RowOf(s) /\ ColOf(p) <= RowOf(p)
      BY <3>1, <2>0, <2>2, EntryFacts, LowerFacts
    <3>4. ColOf(s) = ColOf(p) => RowOf(s) < RowOf(p)
      BY <3>1, <2>0, <2>2, LowerFacts
    <3>5. /\ ColOf(s) \in Int /\ ColOf(p) \in Int /\ RowOf(s) \in Int /\ RowOf(p) \in Int
          /\ row[p] = RowOf(p)
      BY <3>1, <2>6
    <3> HIDE DEF s
    <3> QED
      BY <3>2, <3>3, <3>4, <3>5, <2>0
  <2>9. CoMonotonicity(Matrix)
    <3> SUFFICES ASSUME NEW c \in 0 .. file.n - 1,
                        NEW p \in OffDiag(Matrix, c), NEW q \in OffDiag(Matrix, c), p < q
                 PROVE  row[p] < row[q]
      BY <2>3, <2>4 DEF CoMonotonicity
    <3>0. c \in 0 .. file.n /\ c + 1 \in 0 .. file.n /\ file.n \in 0 .. file.n
      BY <2>0
    <3>1. /\ col[c] \in Nat /\ col[c + 1] \in Nat /\ col[file.n] = file.nnz
          /\ p \in Int /\ q \in Int
          /\ col[c] < p /\ p < col[c + 1] /\ col[c] < q /\ q < col[c + 1]
      <4>1. 0 .. col[file.n] - 1 = 0 .. file.nnz - 1 /\ col[file.n] \in Nat
        BY <2>3, <2>4, <2>5, <3>0 DEF Positions
      <4>2. col[file.n] = file.nnz
        BY <4>1, <2>0
      <4>3. col[c] \in Nat /\ col[c + 1] \in Nat
        BY <3>0, <2>5
      <4> QED
        BY <4>2, <4>3, <2>3 DEF OffDiag
    <3>2. col[c + 1] <= col[file.n]
      BY <3>0, <3>1, <2>0, <2>3, <2>5, <2>7 DEF PtrIncreasing
    <3>3. p \in 0 .. file.nnz - 1 /\ q \in 0 .. file.nnz - 1
      BY <3>1, <3>2, <2>0
    <3>4. ColOf(p) = c /\ ColOf(q) = c
      <4>1. /\ ~(ColOf(p) < c) /\ ColOf(p) < c + 1
            /\ ~(ColOf(q) < c) /\ ColOf(q) < c + 1
        BY <3>0, <3>1, <3>3, <2>2 DEF Delimited
      <4> QED
        BY <4>1, <3>3, <2>6, <2>0
    <3> QED
      BY <3>3, <3>4, <2>0, <2>2, <2>6, LowerFacts
  <2> QED
    BY <2>4, <2>7, <2>8, <2>9 DEF LowerTriangular
<1>2. Inv => KernelReady
  BY <1>1 DEF KernelReady
<1> QED
  BY <1>2, Invariance, PTL
=============================================================================
