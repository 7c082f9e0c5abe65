------------------------------ MODULE MCTiming ------------------------------
(***************************************************************************)
(* The timing programs on lists of at most two lines, with an array of     *)
(* three durations, and ints of five bits.  Of the first lines, 7 threads  *)
(* are the most whose double is an int; with 8, or an unset maxTC of 15,   *)
(* tc wraps around.                                                        *)
(***************************************************************************)
EXTENDS Timing

\* Lower triangular of order 3, and one with an entry above its diagonal.
AsCSC(n, columns, values) ==
  [n |-> n,
   ptr |-> [c \in 0 .. n |-> SumFunctionOnSet([k \in DOMAIN columns |-> Len(columns[k])], 1 .. c)],
   idx |-> LET all == FlattenSeq(columns) IN [p \in 0 .. Len(all) - 1 |-> all[p + 1]],
   val |-> LET all == FlattenSeq(values) IN [p \in 0 .. Len(all) - 1 |-> all[p + 1]]]

LowerMatrix == AsCSC(3, <<<<0, 1, 2>>, <<1, 2>>, <<2>>>>, <<<<1, 2, -3>>, <<-1, 2>>, <<1>>>>)
GeneralMatrix == AsCSC(2, <<<<0, 1>>, <<0, 1>>>>, <<<<1, 1>>, <<1, -1>>>>)

TheLines == {LowerMatrix, GeneralMatrix, Blank, Unreadable}
TheLists == {<<>>} \cup {<<a>> : a \in TheLines} \cup {<<a, b>> : a, b \in TheLines}
TheHeaders == {<<>>, <<4>>, <<2, 1>>, <<4, 2, 2>>, <<2, 1, 3>>, <<3, 2, 1>>, <<2, 1, 0>>, <<2, 1, 4>>, <<1, 1, -1>>, <<7, 1, 1>>, <<8, 1, 1>>}
BothPrograms == {"solve", "chol"}
UnsetInts == {-1, 2, 15}
TwoDurations == 1 .. 2
=============================================================================
