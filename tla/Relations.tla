------------------------------ MODULE Relations ------------------------------
(***************************************************************************)
(* IEGenLib's Set and Relation (set_relation.cc), unions of conjunctions,  *)
(* as a client uses them: it holds one of them and makes another of it,    *)
(* operation by operation.  A value is [in, out, conjs]; a Set has in = 0. *)
(***************************************************************************)
EXTENDS Conjunctions, SequencesExt

CONSTANTS
  Library,       \* the sets and relations the client can name
  MaxOps,        \* bound on the number of operations
  Meanings,      \* what each function may be: permutations of small numbers
  Box, Wide      \* the values tuples are compared over, and of inner tuples

\* A declaration and finitely many constraints over its locations, none of
\* them 0 = 0 or 0 >= 0, and an equality starts with a positive coefficient.
IsConj(c, arity) ==
  /\ c = [decl |-> c.decl, eqs |-> c.eqs, ineqs |-> c.ineqs]
  /\ c.decl \in [1 .. arity -> SUBSET Int]
  /\ \A i \in 1 .. arity : c.decl[i] = {} \/ \E k \in c.decl[i] : c.decl[i] = {k}
  /\ IsFiniteSet(c.eqs) /\ IsFiniteSet(c.ineqs)
  /\ \A e \in c.eqs \cup c.ineqs : e # Zero /\ IsExp(e, 1 .. arity)
  /\ \A e \in c.eqs : DOMAIN e.terms # {} => FirstCoefficient(e) > 0

IsValue(v) ==
  /\ v = [in |-> v.in, out |-> v.out, conjs |-> v.conjs]
  /\ v.in \in Nat /\ v.out \in Nat /\ IsFiniteSet(v.conjs)
  /\ \A c \in v.conjs : IsConj(c, v.in + v.out)

\* A function with an inverse permutes a set of numbers, and its inverse
\* undoes that.
IsMeaning(m) ==
  /\ Names \subseteq DOMAIN m
  /\ \A n \in Names : DOMAIN m[n] \subseteq Int /\ \A v \in DOMAIN m[n] : m[n][v] \in Int
  /\ \A n \in DOMAIN Inverses :
       LET inverse == m[Inverses[n]]
       IN /\ DOMAIN inverse = DOMAIN m[n]
          /\ \A v \in DOMAIN m[n] : m[n][v] \in DOMAIN m[n] /\ inverse[m[n][v]] = v

ASSUME RelationsConstants ==
  /\ MaxOps \in Nat /\ Box \subseteq Int /\ Wide \subseteq Int
  /\ \A v \in Library : IsValue(v)
  /\ \A m \in Meanings : IsMeaning(m)

VARIABLES
  cur,           \* the value the client holds
  op,            \* the last operation and its operand, or <<"New">>
  prev,          \* the value before it
  ops            \* operations so far

vars == <<cur, op, prev, ops>>

IsSet(v) == v.in = 0
True(arity) == [decl |-> Variables(arity), eqs |-> {}, ineqs |-> {}]

\* The constructors: a Set starts as TRUE, a Relation as FALSE.
NewSet(arity) == [in |-> 0, out |-> arity, conjs |-> {True(arity)}]
NewRelation(in, out) == [in |-> in, out |-> out, conjs |-> {}]

\* TupleDecl::operator<.
DeclBefore(d1, d2) ==
  \E i \in DOMAIN d1 :
    /\ \A j \in 1 .. i - 1 : d1[j] = d2[j]
    /\ d2[i] # {} /\ \A k1 \in d1[i], k2 \in d2[i] : k1 < k2

\* Conjunction::operator<, as far as it places conjunctions without
\* constraints; the constraints themselves are compared in any fixed order.
Before(c, d) ==
  IF c.decl # d.decl THEN DeclBefore(c.decl, d.decl)
  ELSE \/ Cardinality(c.eqs) < Cardinality(d.eqs)
       \/ /\ Cardinality(c.eqs) = Cardinality(d.eqs)
          /\ Cardinality(c.ineqs) <= Cardinality(d.ineqs)

InOrder(v) ==
  CHOOSE s \in SetToSeqs(v.conjs) : \A i, j \in DOMAIN s : i < j => Before(s[i], s[j])

\* MUTANT: a single conjunction is always taken for the initial TRUE.
addConjunctionAlways(v, c) ==
  [v EXCEPT !.conjs = IF Cardinality(@) = 1 THEN {c} ELSE @ \cup {c}]

\* SparseConstraints::addConjunction: a single conjunction without
\* constraints is taken for the initial TRUE and dropped.
addConjunction(v, c) ==
  [v EXCEPT !.conjs = IF Cardinality(@) = 1 /\ \A d \in @ : ~ hasConstraints(d)
                        THEN {c} ELSE @ \cup {c}]

AddAll(v, seq) ==
  LET sum[n \in 0 .. Len(seq)] == IF n = 0 THEN v ELSE addConjunction(sum[n - 1], seq[n])
  IN sum[Len(seq)]

\* SparseConstraints::cleanUp.
CleanUp(v) == [v EXCEPT !.conjs = {c \in {cleanUp(d) : d \in @} : satisfiable(c)}]

\* The nested loops over the conjunctions of both operands.
AddPairs(start, v, w, Combine(_, _)) ==
  LET vs == InOrder(v) ws == InOrder(w)
      sum[n \in 0 .. Len(vs)] ==
        IF n = 0 THEN start
        ELSE AddAll(sum[n - 1], [k \in DOMAIN ws |-> Combine(vs[n], ws[k])])
  IN sum[Len(vs)]

\* Set::Union clears the initial TRUE first; a new Relation has none.
Union(v, w) ==
  AddAll([v EXCEPT !.conjs = {}], InOrder(v) \o InOrder(w))

Intersect(v, w) ==
  AddPairs(IF IsSet(v) THEN NewSet(v.out) ELSE NewRelation(v.in, v.out),
           v, w, IntersectOf)

Inverted(v) ==
  LET seq == InOrder(v)
  IN CleanUp(AddAll(NewRelation(v.out, v.in), [n \in DOMAIN seq |-> InverseOf(seq[n], v.in)]))

\* l->Compose(r), of {[x] -> [y]} = r and {[y] -> [z]} = l.
Compose(l, r) ==
  CleanUp(AddPairs(NewRelation(r.in, l.out), l, r,
                   LAMBDA c, d : ComposeOf(c, d, l.in, r.in)))

Apply(r, s) == CleanUp(AddPairs(NewSet(r.out), r, s, ApplyOf))

\* The copy constructor and operator=.
Copy(v) == CleanUp(AddAll([v EXCEPT !.conjs = {}], InOrder(v)))

-----------------------------------------------------------------------------
\* Where the calls do not throw an assert_exception.
Quiet(c) == SolvesQuietly(c, DOMAIN c.decl)

CanCompose(l, r) ==
  /\ r.out = l.in
  /\ \A c \in l.conjs, d \in r.conjs :
       /\ Quiet(c) /\ Quiet(d) /\ Composable(c, d, l.in, r.in)
       /\ Eliminable(Composition(c, d, l.in, r.in))

CanApply(r, s) ==
  /\ s.out = r.in
  /\ \A c \in r.conjs, d \in s.conjs :
       /\ Quiet(c) /\ Quiet(d) /\ isFunctionInverse(c, r.in)
       /\ Eliminable(Image(c, d))

Did(name, operand, result) ==
  /\ ops < MaxOps /\ ops' = ops + 1
  /\ prev' = cur /\ op' = <<name, operand>> /\ cur' = result

SameArities(v, w) == v.in = w.in /\ v.out = w.out

DoUnion(w) == SameArities(cur, w) /\ Did("Union", w, Union(cur, w))

DoIntersect(w) == SameArities(cur, w) /\ Did("Intersect", w, Intersect(cur, w))

DoInverse == ~ IsSet(cur) /\ Did("Inverse", cur, Inverted(cur))

DoCompose(r) ==
  /\ ~ IsSet(cur) /\ ~ IsSet(r) /\ CanCompose(cur, r)
  /\ Did("Compose", r, Compose(cur, r))

DoApply(r) ==
  /\ IsSet(cur) /\ ~ IsSet(r) /\ CanApply(r, cur)
  /\ Did("Apply", r, Apply(r, cur))

DoCopy == Did("Copy", cur, Copy(cur))

Init ==
  /\ cur \in Library
  /\ prev = cur /\ op = <<"New">> /\ ops = 0

Next ==
  \/ \E w \in Library : DoUnion(w) \/ DoIntersect(w) \/ DoCompose(w) \/ DoApply(w)
  \/ DoInverse
  \/ DoCopy

Spec == Init /\ [][Next]_vars

-----------------------------------------------------------------------------
\* What an expression is worth at a tuple; a function leaves alone the
\* numbers its meaning does not permute.
Value(e, tuple, m) ==
  LET call(name, v) == IF v \in DOMAIN m[name] THEN m[name][v] ELSE v
      value[x \in Within(e)] ==
        x.const + SumFunction([f \in DOMAIN x.terms |-> x.terms[f] *
                    (IF IsCall(f) THEN call(f[2], value[f[3]]) ELSE tuple[f[2]])])
  IN value[e]

Satisfies(tuple, c, m) ==
  /\ \A i \in DOMAIN c.decl : \A k \in c.decl[i] : tuple[i] = k
  /\ \A e \in c.eqs : Value(e, tuple, m) = 0
  /\ \A e \in c.ineqs : Value(e, tuple, m) >= 0

Member(tuple, v, m) == \E c \in v.conjs : Satisfies(tuple, c, m)

Tuples(arity) == [1 .. arity -> Box]
Inner(arity) == [1 .. arity -> Wide]
Swap(tuple, n) == SubSeq(tuple, n + 1, Len(tuple)) \o SubSeq(tuple, 1, n)

\* The tuple belongs to what the last operation stands for.
Meant(t, m) ==
  LET w == op[2]
  IN CASE op[1] = "Union" -> Member(t, prev, m) \/ Member(t, w, m)
       [] op[1] = "Intersect" -> Member(t, prev, m) /\ Member(t, w, m)
       [] op[1] = "Inverse" -> Member(Swap(t, cur.in), prev, m)
       [] op[1] = "Copy" -> Member(t, prev, m)
       [] op[1] = "Compose" ->
            \E y \in Inner(prev.in) : /\ Member(SubSeq(t, 1, w.in) \o y, w, m)
                                      /\ Member(y \o SubSeq(t, w.in + 1, Len(t)), prev, m)
       [] op[1] = "Apply" ->
            \E x \in Inner(prev.out) : Member(x, prev, m) /\ Member(x \o t, w, m)

Result(t, m) == Member(t, cur, m)

Lost == \E m \in Meanings :
          \E t \in Tuples(cur.in + cur.out) : Meant(t, m) /\ ~ Result(t, m)

\* Contradictory pins aside: a meaning under which nothing is meant says
\* nothing.
Gained == \E m \in Meanings :
            /\ \E t \in Tuples(cur.in + cur.out) : Meant(t, m)
            /\ \E t \in Tuples(cur.in + cur.out) : ~ Meant(t, m) /\ Result(t, m)

\* What the last operation handed to Conjunction::cleanUp.
Cleaned ==
  LET w == op[2]
  IN CASE op[1] = "Copy" -> prev.conjs
       [] op[1] = "Inverse" -> {InverseOf(c, prev.in) : c \in prev.conjs}
       [] op[1] = "Compose" ->
            {Uncleaned(Composition(c, d, prev.in, w.in)) : c \in prev.conjs, d \in w.conjs}
              \cup {ComposeOf(c, d, prev.in, w.in) : c \in prev.conjs, d \in w.conjs}
       [] op[1] = "Apply" ->
            {Uncleaned(Image(c, d)) : c \in w.conjs, d \in prev.conjs}
              \cup {ApplyOf(c, d) : c \in w.conjs, d \in prev.conjs}
       [] OTHER -> {}

\* A coefficient within a call was lost on the way: composing j = f(i) with
\* i = 2k and with k = f_inv(l) gives j = l.
CoefficientLost == \E c \in Cleaned : HidesCoefficient(c)

One(v) == Cardinality(v.conjs) = 1
Whole(v) == v.conjs # {} /\ \A c \in v.conjs : hasConstraints(c)
Pure(v) == \A c \in v.conjs : c.decl = Variables(v.in + v.out)

-----------------------------------------------------------------------------
\* Every constraint of a value names declared locations only (no eliminated
\* variable survives a composition), none is a leftover 0 = 0, which would
\* count as a constraint, and an equality starts with a positive coefficient.
TypeOK == ops \in 0 .. MaxOps /\ IsValue(cur)

\* No operation loses a tuple: whatever the union, the intersection, the
\* inverse, the image, the composition or the copy stands for is in its
\* result.  Operands are values all of whose conjunctions have constraints
\* (addConjunction drops the others); those of Compose and Apply are single
\* conjunctions, as what they build may lose its constraints to the tuple
\* declaration before the next conjunction is added.  And no coefficient is
\* lost as f(2 * f_inv(i)) is taken for i (expression.cc:447).
NothingLost ==
  \/ op[1] = "New" \/ CoefficientLost
  \/ ~ (Whole(prev) /\ Whole(op[2]))
  \/ op[1] \in {"Compose", "Apply"} /\ ~ (One(prev) /\ One(op[2]))
  \/ ~ Lost

\* Nor does one add a tuple: replacing the inner variables by what the
\* equalities say of them keeps every constraint on them.  For single
\* conjunctions, the operand of Intersect having no constant in its tuple
\* declaration, which Conjunction::Intersect does not look at; and where no
\* coefficient is lost.
NothingGained ==
  op[1] # "New" /\ One(prev) /\ One(op[2]) /\ Pure(op[2]) => CoefficientLost \/ ~ Gained

\* What isFunction and isFunctionInverse report where they do not throw, and
\* Compose and Apply rely on, is true of the tuples: an input has one output,
\* an output one input.
FunctionsAreFunctions ==
  \A c \in cur.conjs, m \in Meanings : Quiet(c) =>
    LET members == {t \in Tuples(cur.in + cur.out) : Satisfies(t, c, m)}
        agree(t, u, S) == \A i \in S : t[i] = u[i]
        determine(S, T) == \A t, u \in members : agree(t, u, S) => agree(t, u, T)
        ins == Ins(cur.in)
        outs == Outs(c, cur.in)
    IN /\ isFunction(c, cur.in) => determine(ins, outs)
       /\ isFunctionInverse(c, cur.in) => determine(outs, ins)

\* A union holds the tuples of both operands, whatever they are: what
\* set_relation.h says of Set::Union and Relation::Union.
UnionHoldsBoth == op[1] = "Union" => ~ Lost
=============================================================================
