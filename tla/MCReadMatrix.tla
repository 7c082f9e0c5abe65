---------------------------- MODULE MCReadMatrix ----------------------------
(***************************************************************************)
(* readMatrix on every column-ordered file over small patterns, and on     *)
(* files that are truncated, unsorted, out of range, badly headed or end   *)
(* in their comments.                                                      *)
(***************************************************************************)
EXTENDS ReadMatrix, FiniteSets

CONSTANT N

MCGarbage == -1 .. N + 2

Grid == (1 .. N) \X (1 .. N)

\* The grid by column, and by row within a column; and the entries E of it.
GridInOrder == [p \in 1 .. N * N |-> <<((p - 1) % N) + 1, ((p - 1) \div N) + 1>>]

InOrder(E) == SelectSeq(GridInOrder, LAMBDA e : e \in E)

File(h, nnz, entries) ==
  [header |-> h, comments |-> 1, after |-> "sizes", n |-> N, nnz |-> nnz, entries |-> entries]

Sorted(E) == File("ok", Cardinality(E), InOrder(E))

NonEmptyColumns(E) == \A c \in 1 .. N : \E e \in E : e[2] = c

\* Complete files with no empty column.
FullFiles == {Sorted(E) : E \in {S \in SUBSET Grid : NonEmptyColumns(S)}}

\* Complete files some of whose columns are empty.
GappedFiles == {Sorted(E) : E \in {S \in SUBSET Grid : S # {} /\ ~NonEmptyColumns(S)}}

\* A column's entries in the opposite order of rows.
Mirrored(f) ==
  [f EXCEPT !.entries = [p \in 1 .. f.nnz |-> <<N + 1 - f.entries[p][1], f.entries[p][2]>>]]

MirroredFiles == {Mirrored(f) : f \in FullFiles}

\* Files whose entries are all in the last column or in one beyond it.
BeyondFiles ==
  {File("ok", nnz, [p \in 1 .. nnz |-> <<1, c>>]) : nnz \in 1 .. N + 2, c \in N .. N + 2}

\* Files with no, one or two comments, followed by the sizes or not.
CommentedFiles ==
  {[File("ok", 1, <<<<1, 1>>>>) EXCEPT !.comments = m, !.after = a] :
     m \in 0 .. 2, a \in Followers}

\* Files that announce one or two more entries than they hold, list a column's
\* entries before an earlier column's, or do not get past the header.
MalformedFiles ==
  LET some == {Sorted(E) : E \in {S \in SUBSET Grid : Cardinality(S) \in 1 .. N}}
  IN {[f EXCEPT !.nnz = @ + 1] : f \in some}
     \cup {[f EXCEPT !.nnz = @ + 2] : f \in some}
     \cup {[f EXCEPT !.entries = [p \in 1 .. f.nnz |-> <<@[p][2], @[p][1]>>]] : f \in some}
     \cup {[f EXCEPT !.entries[1] = <<1, c>>] : f \in some, c \in {N + 1, N + 2}}
     \cup {File(h, 1, <<<<1, 1>>>>) : h \in Headers}
     \cup {File("ok", nnz, <<>>) : nnz \in 0 .. 3}

AllFiles == FullFiles \cup MirroredFiles \cup GappedFiles
            \cup BeyondFiles \cup CommentedFiles \cup MalformedFiles

\* A definition of its own, so that TLC evaluates the set once.
MCFiles == AllFiles
=============================================================================
