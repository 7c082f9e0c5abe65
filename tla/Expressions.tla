----------------------------- MODULE Expressions -----------------------------
(***************************************************************************)
(* IEGenLib's expressions (expression.cc): a constant plus terms, a term   *)
(* being a non-zero coefficient times a factor, and a factor a tuple       *)
(* variable or a call of an uninterpreted function with one argument.      *)
(*                                                                         *)
(* Terms are a function from factors to coefficients, so that adding two   *)
(* terms with one factor is adding their coefficients, as addTerm does.    *)
(* Symbolic constants, calls with several arguments or indexed results and *)
(* tuple expressions are left out.  Locations count from 1.  A call also   *)
(* tells how deep calls are nested in it, so that what is said of nested   *)
(* expressions can be said by recursion over Within.                       *)
(***************************************************************************)
EXTENDS Integers, FiniteSets, FiniteSetsExt, Functions

CONSTANTS
  Names,      \* of uninterpreted functions
  Inverses    \* queryInverseCurrEnv: the functions with an inverse

\* What the environment keeps of inverses (Environment's InversesPaired).
ASSUME InversesAssumption ==
  /\ DOMAIN Inverses \subseteq Names
  /\ \A n \in DOMAIN Inverses : Inverses[n] \in DOMAIN Inverses /\ Inverses[Inverses[n]] = n

TupleVar(loc) == <<"tv", loc>>
IsCall(factor) == factor[1] = "uf"

Calls(e) == {f \in DOMAIN e.terms : IsCall(f)}
Nesting(e) == Max({0} \cup {f[4] : f \in Calls(e)})
UFCall(name, arg) == <<"uf", name, arg, Nesting(arg) + 1>>

\* The expression and the arguments in it, at whatever depth.
Within(e) ==
  LET level[d \in 0 .. Nesting(e)] ==
        IF d = 0 THEN {e} ELSE {f[3] : f \in UNION {Calls(x) : x \in level[d - 1]}}
  IN UNION {level[d] : d \in 0 .. Nesting(e)}

\* A finite sum of non-zero multiples of factors, over the given locations.
IsFactor(f, locs) ==
  \/ \E i \in locs : f = TupleVar(i)
  \/ IsCall(f) /\ f[2] \in Names /\ f[4] \in Nat \ {0} /\ f = UFCall(f[2], f[3])

IsSum(e, locs) ==
  /\ e.const \in Int /\ IsFiniteSet(DOMAIN e.terms)
  /\ \A f \in DOMAIN e.terms : IsFactor(f, locs) /\ e.terms[f] \in Int \ {0}

IsExp(e, locs) == IsSum(e, locs) /\ \A x \in Within(e) : IsSum(x, locs)

Const(k) == [const |-> k, terms |-> [f \in {} |-> 0]]
Zero == Const(0)
Single(factor) == [const |-> 0, terms |-> [f \in {factor} |-> 1]]

Coefficient(e, factor) == IF factor \in DOMAIN e.terms THEN e.terms[factor] ELSE 0

addExp(a, b) ==
  LET sum(f) == Coefficient(a, f) + Coefficient(b, f)
  IN [const |-> a.const + b.const,
      terms |-> [f \in {g \in DOMAIN a.terms \cup DOMAIN b.terms : sum(g) # 0} |-> sum(f)]]

multiplyBy(e, k) ==
  IF k = 0 THEN Zero
  ELSE [const |-> e.const * k, terms |-> [f \in DOMAIN e.terms |-> e.terms[f] * k]]

\* C++ remainders and quotients; divideBy is used where isDivisible holds.
Magnitude(k) == IF k < 0 THEN -k ELSE k

isDivisible(e, k) ==
  \A c \in {e.const} \cup {e.terms[f] : f \in DOMAIN e.terms} : Magnitude(c) % Magnitude(k) = 0

divideBy(e, k) ==
  LET quotient(c) == IF k < 0 THEN (-c) \div (-k) ELSE c \div k
  IN [const |-> quotient(e.const),
      terms |-> [f \in DOMAIN e.terms |-> quotient(e.terms[f])]]

Without(e, factor) ==
  [const |-> e.const, terms |-> [f \in DOMAIN e.terms \ {factor} |-> e.terms[f]]]

dependsOn(e, factor) == \E x \in Within(e) : factor \in DOMAIN x.terms

\* The sum of the terms after each factor f became the expression image[f].
MapFactors(e, image) ==
  FoldSet(LAMBDA f, sum : addExp(sum, multiplyBy(image[f], e.terms[f])),
          Const(e.const), DOMAIN e.terms)

\* Exp::substitute: all at once, within arguments too.
substitute(e, sub) ==
  LET image(f, arg) == IF f \in DOMAIN sub THEN sub[f]
                       ELSE IF IsCall(f) THEN Single(UFCall(f[2], arg[f[3]])) ELSE Single(f)
      result[x \in Within(e)] ==
        MapFactors(x, [f \in DOMAIN x.terms |-> image(f, result)])
  IN result[e]

remapTupleVars(e, newLoc) ==
  substitute(e, [f \in {TupleVar(i) : i \in DOMAIN newLoc} |-> Single(TupleVar(newLoc[f[2]]))])

\* The factor of the first term: tuple variables by location, then calls.
\* The order among calls, by name and printed argument, is any fixed one.
FirstFactor(e) ==
  LET tvs == {f \in DOMAIN e.terms : ~ IsCall(f)}
  IN IF tvs # {} THEN CHOOSE f \in tvs : \A g \in tvs : f[2] <= g[2]
                 ELSE CHOOSE f \in DOMAIN e.terms : TRUE

FirstCoefficient(e) == IF DOMAIN e.terms = {} THEN e.const ELSE e.terms[FirstFactor(e)]

normalizeForEquality(e) == IF FirstCoefficient(e) < 0 THEN multiplyBy(e, -1) ELSE e

\* The argument of a call is a multiple of a call of its inverse.
OfInverse(f) ==
  /\ f[3].const = 0 /\ f[2] \in DOMAIN Inverses
  /\ \E g \in DOMAIN f[3].terms :
       DOMAIN f[3].terms = {g} /\ IsCall(g) /\ g[2] = Inverses[f[2]]

\* UFCallTerm's: f(k * f_inv(x)) becomes x.  Only the name of the inner call
\* is looked at, not its coefficient k.
collapseNestedInvertibleFunctions(e) ==
  LET image(f, arg) == IF ~ IsCall(f) THEN Single(f)
                       ELSE IF OfInverse(f) THEN arg[(CHOOSE g \in DOMAIN f[3].terms : TRUE)[3]]
                       ELSE Single(UFCall(f[2], arg[f[3]]))
      result[x \in Within(e)] ==
        MapFactors(x, [f \in DOMAIN x.terms |-> image(f, result)])
  IN result[e]

\* It would drop a coefficient k other than 1.
CollapsesTooMuch(e) ==
  \E x \in Within(e) : \E f \in Calls(x) :
    OfInverse(f) /\ \E g \in DOMAIN f[3].terms : f[3].terms[g] # 1

-----------------------------------------------------------------------------
findMatchingFactor(e, factor) ==
  factor \in DOMAIN e.terms /\ isDivisible(e, e.terms[factor])

\* MUTANT: the other side keeps its sign.
IsolateNoSign(e, factor) == divideBy(Without(e, factor), e.terms[factor])

\* e = 0 solved for a factor it contains.
Isolate(e, factor) == divideBy(Without(e, factor), - e.terms[factor])

Invertible(e, factor) ==
  {f \in DOMAIN e.terms :
     IsCall(f) /\ f[2] \in DOMAIN Inverses /\ dependsOn(f[3], factor)}

(***************************************************************************)
(* c * f(a) + r = 0 becomes a - f_inv(r / -c) = 0.  The code keeps the name*)
(* of the inverse in a variable that a later call depending on the factor  *)
(* overwrites, with "" if it has no inverse (expression.cc:1190).  Exposed *)
(* does not follow it there: that other call is part of r, so the solution *)
(* depends on the factor whatever the name is, and the callers that solve  *)
(* for a tuple variable reject it: findFunction because the factor is not  *)
(* in its range, pushConstConstraintsToTupleDecl because it is no constant.*)
(***************************************************************************)
Exposed(e, call) ==
  LET rest == divideBy(Without(e, call), - e.terms[call])
  IN addExp(call[3], multiplyBy(Single(UFCall(Inverses[call[2]], rest)), -1))

invertFuncToExposeFactor(e, factor) == {Exposed(e, f) : f \in Invertible(e, factor)}

\* Where solving throws an assert_exception: two calls could be inverted, or
\* the rest is not divisible by the call's coefficient.
SolveThrows(e, factor) ==
  /\ ~ findMatchingFactor(e, factor)
  /\ \/ Cardinality(Invertible(e, factor)) > 1
     \/ \E f \in Invertible(e, factor) : ~ isDivisible(e, e.terms[f])

\* Exp::solveForFactor as the set of its solutions, at most one.  (Where an
\* inverted call does not expose the factor, the code returns an expression
\* that still contains it, and every caller rejects that.)
solveForFactor(e, factor) ==
  IF findMatchingFactor(e, factor) THEN {Isolate(e, factor)}
  ELSE {Isolate(x, factor) : x \in
          {y \in invertFuncToExposeFactor(e, factor) :
             findMatchingFactor(y, factor) /\ isDivisible(e, y.terms[factor])}}
=============================================================================
