----------------------------- MODULE MCRelations -----------------------------
(***************************************************************************)
(* Small sets and relations, with one invertible function f.               *)
(***************************************************************************)
EXTENDS Relations

MCNames == {"f", "f_inv"}
InverseNames == [n \in {"f", "f_inv"} |-> IF n = "f" THEN "f_inv" ELSE "f"]

TV(i) == Single(TupleVar(i))
Plus(a, k) == addExp(a, Const(k))
Minus(a, b) == addExp(a, multiplyBy(b, -1))
F(a) == Single(UFCall("f", a))

Conj(arity, eqs, ineqs) ==
  [decl |-> Variables(arity), eqs |-> {normalizeForEquality(e) : e \in eqs}, ineqs |-> ineqs]

Rel(in, out, eqs, ineqs) == [in |-> in, out |-> out, conjs |-> {Conj(in + out, eqs, ineqs)}]

Relations11 ==
  {Rel(1, 1, {Minus(TV(2), Plus(TV(1), 1))}, {TV(1)}),         \* j = i + 1, i >= 0
   Rel(1, 1, {Minus(TV(2), multiplyBy(TV(1), 2))}, {}),        \* j = 2i
   Rel(1, 1, {Minus(TV(1), F(TV(2)))}, {}),                    \* i = f(j)
   Rel(1, 1, {Minus(TV(2), F(Plus(TV(1), 1)))}, {Minus(Const(2), TV(1))})} \* j = f(i+1), i <= 2

\* From one loop to a loop nest of two and back.
Others ==
  {Rel(1, 2, {Minus(TV(2), F(TV(1))), Minus(TV(3), TV(1))}, {}),    \* j = f(i), k = i
   Rel(1, 2, {Minus(TV(2), TV(3))}, {Minus(TV(2), TV(1))}),         \* j = k, i <= j
   Rel(2, 1, {Minus(TV(3), F(TV(2)))}, {Minus(TV(2), Plus(TV(1), 1))}),  \* k = f(j), i < j
   Rel(0, 2, {}, {Minus(F(TV(2)), Plus(F(TV(1)), 1)), TV(1)})}      \* f(i) < f(j), i >= 0

Sets1 ==
  {Rel(0, 1, {Plus(TV(1), -1)}, {}),                           \* i = 1
   Rel(0, 1, {Plus(TV(1), -2)}, {}),                           \* i = 2
   Rel(0, 1, {}, {TV(1), Minus(Const(2), TV(1))}),             \* 0 <= i <= 2
   Rel(0, 1, {}, {Plus(F(TV(1)), -1)})}                        \* f(i) >= 1

Exotic ==
  {NewSet(1), [NewSet(1) EXCEPT !.conjs = {}],
   [in |-> 0, out |-> 1, conjs |-> {[True(1) EXCEPT !.decl = <<{1}>>]}]}

Perms == {p \in [0 .. 2 -> 0 .. 2] : \A a, b \in 0 .. 2 : a # b => p[a] # p[b]}
AllMeanings == {[n \in {"f", "f_inv"} |->
                  IF n = "f" THEN p ELSE [v \in 0 .. 2 |-> CHOOSE a \in 0 .. 2 : p[a] = v]] :
                p \in Perms}
TheMeanings == {m \in AllMeanings : m["f"] \in {[v \in 0 .. 2 |-> (v + 1) % 3], [v \in 0 .. 2 |-> 2 - v]}}

MCLibrary == Relations11 \cup Sets1 \cup Others \cup Exotic
MCBox == 0 .. 3
MCWide == -4 .. 8
=============================================================================
