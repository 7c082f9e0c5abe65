----------------------------- MODULE ReadMatrix -----------------------------
(***************************************************************************)
(* readMatrix (timeResults/src/util.h): a Matrix Market file, entries in   *)
(* order of columns, becomes the colPtr and rowIdx of a CSC matrix.  val   *)
(* is written at the same positions as row and is left out.                *)
(*                                                                         *)
(* A file is [header, comments, after, n, nnz, entries]: whether each check*)
(* of the first line passes, the number of comment lines and what follows  *)
(* them, the dimension and entry count announced, and the entries it really*)
(* holds, <<row, column>> counted from 1.                                  *)
(***************************************************************************)
EXTENDS CSC, Sequences

CONSTANTS
  Files,                 \* the files a program may be run on
  Garbage                \* what an uninitialised int may hold

ASSUME GarbageType == Garbage \subseteq Int

\* How the first line may fail: each is refused with a message of its own.
Headers == {"ok", "short", "banner", "matrix", "coordinate", "complex",
            "pattern", "unknown"}

\* After the last comment: a line with the sizes, none with three numbers, or
\* nothing at all, the file stopping in a line that begins with % and has no
\* newline.
Followers == {"sizes", "none", "cut"}

ASSUME FilesType ==
  \A f \in Files : /\ f.header \in Headers
                   /\ f.comments \in Nat /\ f.after \in Followers
                   /\ f.n \in Nat /\ f.nnz \in Nat
                   /\ f.entries \in Seq(Nat \X Nat)

VARIABLES
  file,                  \* never written
  pc,                    \* "header", "comments", "entries", "end", or "overrun"
  skipped,               \* comment lines read, the first line not counted
  x, y,                  \* the last row and column read
  i, colCnt,             \* the column being filled, its entries so far
  nnzCnt,                \* entries stored
  col, row,              \* the arrays built so far
  ret                    \* what was returned

vars == <<file, pc, skipped, x, y, i, colCnt, nnzCnt, col, row, ret>>

\* x and y are not initialised, which shows if the file holds no entry.
Unread == IF file.entries = <<>> THEN Garbage ELSE {0}

Init ==
  /\ file \in Files
  /\ pc = "header" /\ skipped = 0
  /\ x \in Unread /\ y \in Unread
  /\ i = 0 /\ colCnt = 0 /\ nnzCnt = 0
  /\ col = [c \in {0} |-> 0]
  /\ row = [p \in {} |-> 0]
  /\ ret = FALSE

-----------------------------------------------------------------------------
\* The banner and the other words of the first line.
ReadHeader ==
  /\ pc = "header"
  /\ pc' = IF file.header = "ok" THEN "comments" ELSE "end"
  /\ UNCHANGED <<file, skipped, x, y, i, colCnt, nnzCnt, col, row, ret>>

(***************************************************************************)
(* while (!line.compare(0,1,"%")) getline(inFile, line), entered with the  *)
(* first line, which begins with % too.  When the file has ended in such a *)
(* line the stream is no longer good, getline leaves line as it is, and    *)
(* the loop goes round without changing anything.                          *)
(***************************************************************************)
SkipComment ==
  /\ pc = "comments"
  /\ \/ skipped < file.comments /\ skipped' = skipped + 1
     \/ skipped = file.comments /\ file.after = "cut" /\ UNCHANGED skipped
  /\ UNCHANGED <<file, pc, x, y, i, colCnt, nnzCnt, col, row, ret>>

\* The dimensions, and the allocation of zeroed column bounds.
ReadSizes ==
  /\ pc = "comments" /\ skipped = file.comments /\ file.after # "cut"
  /\ IF file.after = "sizes" /\ file.n > 0 /\ file.nnz > 0
       THEN pc' = "entries" /\ col' = [c \in 0 .. file.n |-> 0]
       ELSE pc' = "end" /\ UNCHANGED col
  /\ UNCHANGED <<file, skipped, x, y, i, colCnt, nnzCnt, row, ret>>

\* MUTANT: rows stay counted from 1.
NextXOneBased == IF nnzCnt < Len(file.entries) THEN file.entries[nnzCnt + 1][1] ELSE x

(***************************************************************************)
(* inFile >> x; x--; inFile >> y; y--.  Past the end of the file the       *)
(* extractions fail and leave x and y as they were.                        *)
(***************************************************************************)
NextX == IF nnzCnt < Len(file.entries) THEN file.entries[nnzCnt + 1][1] - 1 ELSE x - 1
NextY == IF nnzCnt < Len(file.entries) THEN file.entries[nnzCnt + 1][2] - 1 ELSE y - 1

StoreRow(v) == row' = [p \in 0 .. nnzCnt |-> IF p < nnzCnt THEN row[p] ELSE v]

MoreEntries == pc = "entries" /\ nnzCnt < file.nnz

\* MUTANT: "y > n + 1".
BeyondColumnsLate(v) == v \notin 0 .. file.n + 1

\* MUTANT: the column is compared as if still counted from 1.
BeyondColumnsStrict(v) == v \notin 0 .. file.n - 2

\* y > n, an unsigned comparison: negative numbers are large.
BeyondColumns(v) == v \notin 0 .. file.n

\* return false
OutOfRange ==
  /\ MoreEntries
  /\ BeyondColumns(NextY)
  /\ x' = NextX /\ y' = NextY
  /\ pc' = "end"
  /\ UNCHANGED <<file, skipped, i, colCnt, nnzCnt, col, row, ret>>

InRange == MoreEntries /\ ~BeyondColumns(NextY)

SameColumn ==
  /\ InRange /\ NextY = i
  /\ x' = NextX /\ y' = NextY
  /\ StoreRow(NextX)
  /\ colCnt' = colCnt + 1 /\ nnzCnt' = nnzCnt + 1
  /\ UNCHANGED <<file, skipped, pc, i, col, ret>>

\* MUTANT: the first entry of the new column is not counted.
NewColumnUncounted ==
  /\ InRange /\ NextY # i
  /\ x' = NextX /\ y' = NextY
  /\ i < file.n
  /\ pc' = pc
  /\ col' = [col EXCEPT ![i + 1] = col[i] + colCnt]
  /\ i' = i + 1 /\ colCnt' = 0 /\ nnzCnt' = nnzCnt + 1
  /\ StoreRow(NextX)
  /\ UNCHANGED <<file, skipped, ret>>

\* MUTANT: the entry that opens a column is neither stored nor passed over.
NewColumnStuck ==
  /\ InRange /\ NextY # i
  /\ x' = NextX /\ y' = NextY
  /\ UNCHANGED <<file, skipped, pc, i, colCnt, nnzCnt, col, row, ret>>

(***************************************************************************)
(* The entry opens the next column, whatever its y says.  col has n + 1    *)
(* elements: a write past them is undefined behaviour, kept as a crash.    *)
(***************************************************************************)
NewColumn ==
  /\ InRange /\ NextY # i
  /\ x' = NextX /\ y' = NextY
  /\ IF i < file.n
       THEN /\ col' = [col EXCEPT ![i + 1] = col[i] + colCnt]
            /\ i' = i + 1 /\ colCnt' = 1 /\ nnzCnt' = nnzCnt + 1
            /\ StoreRow(NextX)
            /\ UNCHANGED pc
       ELSE /\ pc' = "overrun"
            /\ UNCHANGED <<i, colCnt, nnzCnt, col, row>>
  /\ UNCHANGED <<file, skipped, ret>>

\* col[n] = col[n - 1] + colCnt; return true
Finish ==
  /\ pc = "entries" /\ nnzCnt >= file.nnz
  /\ col' = [col EXCEPT ![file.n] = col[file.n - 1] + colCnt]
  /\ ret' = TRUE
  /\ pc' = "end"
  /\ UNCHANGED <<file, skipped, x, y, i, colCnt, nnzCnt, row>>

Next ==
  \/ ReadHeader \/ SkipComment \/ ReadSizes
  \/ OutOfRange \/ SameColumn \/ NewColumn \/ Finish

\* A sequential function reading a local file.
Spec == Init /\ [][Next]_vars /\ WF_vars(Next)

-----------------------------------------------------------------------------
\* The matrix handed to the kernels.
Matrix == [n |-> file.n, ptr |-> col, idx |-> row]

RowOf(p) == file.entries[p + 1][1] - 1
ColOf(p) == file.entries[p + 1][2] - 1

\* A file in the format the comments describe: complete, and ordered by column.
ColumnOrdered(f) ==
  /\ f.header = "ok" /\ f.after = "sizes" /\ f.n > 0 /\ f.nnz > 0
  /\ Len(f.entries) = f.nnz
  /\ \A p \in 1 .. f.nnz : f.entries[p][1] \in 1 .. f.n /\ f.entries[p][2] \in 1 .. f.n
  /\ \A p, q \in 1 .. f.nnz : p < q => f.entries[p][2] <= f.entries[q][2]

NoEmptyColumn(f) ==
  \A c \in 1 .. f.n : \E p \in 1 .. f.nnz : f.entries[p][2] = c

\* No column before an earlier one; the columns may be empty or do not exist.
InColumnOrder(f) ==
  \A p, q \in 1 .. Len(f.entries) : p < q => f.entries[p][2] <= f.entries[q][2]

\* All entries are there, or all but the last and no column beyond the n-th.
LacksAtMostOne(f) ==
  \/ Len(f.entries) >= f.nnz
  \/ /\ Len(f.entries) = f.nnz - 1
     /\ \A p \in 1 .. Len(f.entries) : f.entries[p][2] <= f.n

(***************************************************************************)
(* The variables' types: no more rows are stored than announced, and i     *)
(* does not pass the last element of col.  The write past col (util.h:102),*)
(* which some files lead to, is the state "overrun": see NoOverrun.        *)
(***************************************************************************)
TypeOK ==
  /\ file \in Files
  /\ pc \in {"header", "comments", "entries", "end", "overrun"}
  /\ skipped \in 0 .. file.comments
  /\ x \in Int /\ y \in Int
  /\ i \in 0 .. file.n /\ colCnt \in Nat
  /\ nnzCnt \in 0 .. file.nnz
  /\ pc = "entries" => col \in [0 .. file.n -> Nat]
  /\ row \in [0 .. nnzCnt - 1 -> Int]
  /\ ret \in BOOLEAN

(***************************************************************************)
(* col[i+1] (util.h:102) is never written past the n + 1 elements of col   *)
(* if the file is in the order of columns it is said to be "stored" in     *)
(* (util.h:13), whatever columns are empty or beyond n (y > n lets y = n   *)
(* pass), and even if its last entry is missing.  With two entries missing *)
(* or the columns out of order the write does happen.                      *)
(***************************************************************************)
NoOverrun ==
  InColumnOrder(file) /\ LacksAtMostOne(file) => pc # "overrun"

\* Neither array is used past the size allocated for it (util.h:90-110).
StaysInArrays == TypeOK /\ NoOverrun

\* Column c of the matrix holds exactly the entries the file gives it.
Represents ==
  /\ IsCSC(Matrix)
  /\ Positions(Matrix) = 0 .. file.nnz - 1
  /\ \A c \in Rows(Matrix), p \in 0 .. file.nnz - 1 :
       (p \in Col(Matrix, c) <=> ColOf(p) = c) /\ row[p] = RowOf(p)

(***************************************************************************)
(* What is returned for a complete file in order of columns, none of which *)
(* is empty, is a CSC matrix whose column c holds exactly the entries the  *)
(* file gives it (util.h:90-111).  With an empty column it seldom is: a    *)
(* new column is taken for the next one whatever its number (util.h:101).  *)
(***************************************************************************)
ReadExactNonEmpty == ret /\ ColumnOrdered(file) /\ NoEmptyColumn(file) => Represents

\* A well-formed file none of whose columns is empty is never refused (util.h:90-111).
ReadAccepts ==
  pc \in {"end", "overrun"} /\ ColumnOrdered(file) /\ NoEmptyColumn(file) => ret

\* Lower triangular, sorted by row in each column, with a full diagonal.
SortedLower(f) ==
  /\ \A c \in 1 .. f.n : \E p \in 1 .. f.nnz : f.entries[p] = <<c, c>>
  /\ \A p \in 1 .. f.nnz : f.entries[p][2] <= f.entries[p][1]
  /\ \A p, q \in 1 .. f.nnz :
       p < q /\ f.entries[p][2] = f.entries[q][2] => f.entries[p][1] < f.entries[q][1]

(***************************************************************************)
(* For a lower triangular file sorted by row in each column, with a full   *)
(* diagonal, the arrays have the properties that the kernels' JSON files   *)
(* declare (data/fs_csc.json:39-62) and their parallel loops rely on.      *)
(***************************************************************************)
KernelReady == ret /\ ColumnOrdered(file) /\ SortedLower(file) => LowerTriangular(Matrix)

\* The file ends in a line that begins with %, without a newline.
StopsInComment(f) == f.header = "ok" /\ f.after = "cut"

(***************************************************************************)
(* readMatrix returns, or has overrun its array, for every file but those  *)
(* that stop in a comment: on these its loop over comments (util.h:69-72)  *)
(* never ends.                                                             *)
(***************************************************************************)
Terminates == ~StopsInComment(file) ~> pc \in {"end", "overrun"}
=============================================================================
