----------------------------- MODULE Conjunctions ----------------------------
(***************************************************************************)
(* IEGenLib's Conjunction (set_relation.cc): a tuple declaration with one  *)
(* set of equalities (e = 0) and one of inequalities (e >= 0).  A declared *)
(* element is {} for a variable and {k} for the constant k; names of       *)
(* variables are left out.  The lists of constraints are sorted and have   *)
(* no duplicates in the code, and are sets here.                           *)
(***************************************************************************)
EXTENDS Expressions, Sequences

Variables(arity) == [loc \in 1 .. arity |-> {}]
Arity(c) == Len(c.decl)

hasConstraints(c) == c.eqs # {} \/ c.ineqs # {}

\* MUTANT: a constraint that vanished stays in the list.
cleanUpKeepsZero(c) ==
  [c EXCEPT
     !.eqs = {normalizeForEquality(collapseNestedInvertibleFunctions(e)) : e \in @},
     !.ineqs = {collapseNestedInvertibleFunctions(e) : e \in @}]

\* Conjunction::cleanUp, whose addEquality and addInequality drop zeros.
cleanUp(c) ==
  [c EXCEPT
     !.eqs = {normalizeForEquality(collapseNestedInvertibleFunctions(e)) : e \in @} \ {Zero},
     !.ineqs = {collapseNestedInvertibleFunctions(e) : e \in @} \ {Zero}]

satisfiable(c) == ~ \E e \in c.eqs : DOMAIN e.terms = {} /\ e.const # 0

Substituted(c, sub) ==
  [c EXCEPT !.eqs = {substitute(e, sub) : e \in @}, !.ineqs = {substitute(e, sub) : e \in @}]

substituteInConstraints(c, sub) == cleanUp(Substituted(c, sub))

\* Conjunction::remapTupleVars; newLoc permutes or spreads the locations.
remapConstraints(c, newLoc) ==
  [c EXCEPT !.eqs = {normalizeForEquality(remapTupleVars(e, newLoc)) : e \in @},
            !.ineqs = {remapTupleVars(e, newLoc) : e \in @}]

copyConstraints(c, from) ==
  [c EXCEPT !.eqs = @ \cup from.eqs, !.ineqs = @ \cup from.ineqs]

\* The equality that says location loc is k.
Pin(loc, k) == normalizeForEquality(addExp(Single(TupleVar(loc)), Const(-k)))

pushConstToConstraints(c) ==
  [c EXCEPT !.decl = Variables(Arity(c)),
            !.eqs = @ \cup {Pin(loc, CHOOSE k \in c.decl[loc] : TRUE) :
                              loc \in {i \in DOMAIN c.decl : c.decl[i] # {}}}]

\* The equalities that give a variable location a constant value.
PinsOf(c, loc) ==
  {e \in c.eqs : \E s \in solveForFactor(e, TupleVar(loc)) : DOMAIN s.terms = {}}

\* The order of the list: by number of terms, then coefficients.
ListedAfter(e1, e2, loc) ==
  LET c1 == Coefficient(e1, TupleVar(loc)) c2 == Coefficient(e2, TupleVar(loc))
  IN IF (e1.const = 0) # (e2.const = 0) THEN e2.const = 0
     ELSE c1 > c2 \/ (c1 = c2 /\ e1.const >= e2.const)

\* pushConstConstraintsToTupleDecl: a location pinned by several equalities
\* gets the value of the last, and all of them are removed.
pushConstConstraintsToTupleDecl(c) ==
  LET open == {i \in DOMAIN c.decl : c.decl[i] = {}}
      last(i) == CHOOSE e \in PinsOf(c, i) : \A d \in PinsOf(c, i) : ListedAfter(e, d, i)
      value(i) == (CHOOSE s \in solveForFactor(last(i), TupleVar(i)) : TRUE).const
  IN [c EXCEPT !.decl = [i \in DOMAIN @ |->
                           IF i \in open /\ PinsOf(c, i) # {} THEN {value(i)} ELSE @[i]],
               !.eqs = @ \ UNION {PinsOf(c, i) : i \in open}]

\* MUTANT: a solution may mention any location.
findFunctionAnyRange(c, loc, range) ==
  IF c.decl[loc] # {} THEN {Const(k) : k \in c.decl[loc]}
  ELSE UNION {solveForFactor(e, TupleVar(loc)) : e \in c.eqs}

\* findFunction: location loc as an expression of the locations in range.
\* The code returns the first of these; all agree where the equalities hold.
findFunction(c, loc, range) ==
  LET forbidden == {TupleVar(i) : i \in DOMAIN c.decl \ range}
      acceptable(s) == \A t \in forbidden : ~ dependsOn(s, t)
  IN IF c.decl[loc] # {} THEN {Const(k) : k \in c.decl[loc]}
     ELSE {s \in UNION {solveForFactor(e, TupleVar(loc)) : e \in c.eqs} : acceptable(s)}

TheFunction(c, loc, range) == CHOOSE s \in findFunction(c, loc, range) : TRUE

Ins(inArity) == 1 .. inArity
Outs(c, inArity) == (inArity + 1) .. Arity(c)

isFunction(c, inArity) ==
  \A i \in Outs(c, inArity) : findFunction(c, i, Ins(inArity)) # {}

isFunctionInverse(c, inArity) ==
  \A i \in Ins(inArity) : findFunction(c, i, Outs(c, inArity)) # {}

-----------------------------------------------------------------------------
InverseOf(c, inArity) ==
  LET outArity == Arity(c) - inArity
      newLoc == [i \in DOMAIN c.decl |-> IF i <= inArity THEN i + outArity ELSE i - inArity]
  IN [remapConstraints(c, newLoc) EXCEPT
        !.decl = [i \in DOMAIN @ |-> IF i <= outArity THEN c.decl[i + inArity]
                                                      ELSE c.decl[i - outArity]]]

\* Conjunction::Intersect: the other's declaration is not looked at.
IntersectOf(c, d) == copyConstraints(c, d)

\* An elimination is a conjunction over arity + |inner| locations: each in
\* inner is replaced by its function of those in range and then dropped.
InnerFunctions(x) ==
  [t \in {TupleVar(i) : i \in x.inner} |-> TheFunction(x.conj, t[2], x.range)]

Eliminate(x) ==
  [substituteInConstraints(x.conj, InnerFunctions(x)) EXCEPT !.decl = Variables(x.arity)]

Composable(l, r, lIn, rIn) ==
  \/ isFunction(l, lIn) /\ isFunction(r, rIn)
  \/ isFunctionInverse(l, lIn) /\ isFunctionInverse(r, rIn)

\* Composition, {[x] -> [z] : exists y : r(x, y) and l(y, z)}, over
\* the locations x z y.
Composition(l, r, lIn, rIn) ==
  LET nz == Arity(l) - lIn
      n == rIn + nz
      lc == remapConstraints(pushConstToConstraints(l),
              [i \in DOMAIN l.decl |-> IF i <= lIn THEN i + n ELSE i - lIn + rIn])
      rc == remapConstraints(pushConstToConstraints(r),
              [i \in DOMAIN r.decl |-> IF i <= rIn THEN i ELSE i - rIn + n])
  IN [conj  |-> copyConstraints([rc EXCEPT !.decl = Variables(n + lIn)], lc),
      inner |-> (n + 1) .. (n + lIn),
      range |-> IF isFunction(l, lIn) /\ isFunction(r, rIn) THEN 1 .. rIn ELSE (rIn + 1) .. n,
      arity |-> n]

\* Conjunction::Compose.
ComposeOf(l, r, lIn, rIn) ==
  pushConstConstraintsToTupleDecl(Eliminate(Composition(l, r, lIn, rIn)))

\* The image, {[y] : exists x : r(x, y) and s(x)}, over y x.
Image(r, s) ==
  LET nx == Arity(s)
      ny == Arity(r) - nx
      rc == remapConstraints(pushConstToConstraints(r),
              [i \in DOMAIN r.decl |-> IF i <= nx THEN i + ny ELSE i - nx])
      sc == remapConstraints(pushConstToConstraints(s), [i \in DOMAIN s.decl |-> i + ny])
  IN [conj  |-> copyConstraints(rc, sc),
      inner |-> (ny + 1) .. (ny + nx),
      range |-> 1 .. ny,
      arity |-> ny]

\* Conjunction::Apply.
ApplyOf(r, s) == pushConstConstraintsToTupleDecl(Eliminate(Image(r, s)))

\* Solving the equalities for these locations throws no assert_exception.
SolvesQuietly(c, locs) == \A e \in c.eqs, i \in locs : ~ SolveThrows(e, TupleVar(i))

\* Eliminating x neither throws nor substitutes a function not found, and
\* nor does pushing constants to the declaration afterwards.
Eliminable(x) ==
  /\ SolvesQuietly(x.conj, x.inner)
  /\ \A i \in x.inner : findFunction(x.conj, i, x.range) # {}
  /\ SolvesQuietly(Eliminate(x), 1 .. x.arity)

\* A conjunction with some f(k * f_inv(a)), k not 1, which cleaning up takes
\* for f(f_inv(a)).
HidesCoefficient(c) == \E e \in c.eqs \cup c.ineqs : CollapsesTooMuch(e)

\* What Eliminate cleans up.
Uncleaned(x) == Substituted(x.conj, InnerFunctions(x))
=============================================================================
