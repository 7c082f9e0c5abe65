----------------------------- MODULE Environment -----------------------------
(***************************************************************************)
(* IEGenLib's current environment (set_relation/environment.cc): the       *)
(* uninterpreted functions that have been declared, which of them are each *)
(* other's inverse, and the universally quantified rules about them.       *)
(*                                                                         *)
(* A function name is <<base, k>>, k counting the "_inv" suffixes.  A      *)
(* declaration is a record [name, dom, ran, bijective, mono], in which a   *)
(* domain or range set is [tvs, cons]: its tuple variables, and its        *)
(* constraints as the sequence of tokens getString prints (no identifier   *)
(* is part of another).  A rule is [type, ufs, fact]: its kind, the        *)
(* functions it mentions, and an identification of what it asserts.        *)
(***************************************************************************)
EXTENDS Integers, Sequences

CONSTANT Undeclared        \* the "no such function" answer of the queries

VARIABLES
  mUninterpFuncMap,        \* declared function -> declaration
  mInverseMap,             \* function -> its inverse
  uniQuantRules,           \* the rules, in the order they were added
  threw                    \* an exception escaped since the last reset

envVars == <<mUninterpFuncMap, mInverseMap, uniQuantRules, threw>>

InvName(f) == <<f[1], f[2] + 1>>

\* A name as IEGenLib reads it: "_inv" is a suffix it can count.
WellNamed(d) == d.name[2] \in Nat

NoFunctions == [f \in {} |-> Undeclared]

\* What a sequence holds.
Elems(s) == {s[n] : n \in 1 .. Len(s)}

\* UniQuantRule::UniQuantRule: a kind it does not know becomes TheOthers.
UniQuantRule(type, ufs, fact) ==
  [type |-> IF type \in {"Monotonicity", "CoMonotonicity", "Triangularity",
                         "FuncConsistency"}
              THEN type ELSE "TheOthers",
   ufs |-> ufs, fact |-> fact]

\* The rules appendCurrEnv derives from a declaration's monotonicity.
MonotonicityRules(d) ==
  LET rule(what) == UniQuantRule("Monotonicity", {d.name}, <<d.name, what>>)
      unary == Len(d.dom.tvs) = 1 /\ Len(d.ran.tvs) = 1
  IN CASE ~unary -> <<>>
       [] unary /\ d.mono = "Monotonic_Increasing" ->
            <<rule("e1<e2 => f1<f2"), rule("f1<f2 => e1<e2")>>
       [] unary /\ d.mono = "Monotonic_Nondecreasing" ->
            <<rule("e1<e2 => f1<=f2")>>
       [] unary /\ d.mono = "Monotonic_Decreasing" ->
            <<rule("e1<e2 => f1>f2"), rule("f1<f2 => e1>e2")>>
       [] unary /\ d.mono = "Monotonic_Nonincreasing" ->
            <<rule("e1<e2 => f1>=f2")>>
       [] OTHER -> <<>>

\* Environment::Environment(UninterpFunc*): one function, and its inverse.
InverseDecl(d) ==
  [d EXCEPT !.name = InvName(d.name), !.dom = d.ran, !.ran = d.dom,
            !.mono = "Monotonic_NONE"]

\* The functions a declaration introduces.
Introduced(d) == {d.name} \cup (IF d.bijective THEN {InvName(d.name)} ELSE {})

CtorFuncs(d) == [f \in Introduced(d) |-> IF f = d.name THEN d ELSE InverseDecl(d)]

\* MUTANT: the inverse does not know the function it inverts.
CtorInversesOneWay(d) ==
  [f \in IF d.bijective THEN {d.name} ELSE {} |-> InvName(d.name)]

CtorInverses(d) ==
  [f \in IF d.bijective THEN Introduced(d) ELSE {} |->
     IF f = d.name THEN InvName(d.name) ELSE d.name]

\* std::map::insert: what the map has is not overwritten.
Insert(map, new) ==
  [f \in DOMAIN map \cup DOMAIN new |-> IF f \in DOMAIN map THEN map[f] ELSE new[f]]

\* The first position at or after p where the token v occurs; 0 if none does.
Find(s, v, p) ==
  LET at == {i \in p .. Len(s) : s[i] = v}
  IN IF at = {} THEN 0 ELSE CHOOSE i \in at : \A k \in at : i <= k

ReplaceToken(s, p, u) == SubSeq(s, 1, p - 1) \o u \o SubSeq(s, p + 1, Len(s))

Call(d) == <<d.name, "(", d.dom.tvs[1], ")">>

\* MUTANT: the second bound of the range keeps the range variable.
getUQRForFuncDomainRangeOnce(d) ==
  LET p == Find(d.ran.cons, d.ran.tvs[1], 1)
  IN IF p = 0 THEN Undeclared ELSE ReplaceToken(d.ran.cons, p, Call(d))

(***************************************************************************)
(* getUQRForFuncDomainRange: the right-hand side of the rule "a point of   *)
(* the domain is mapped into the range".  The range variable's first       *)
(* occurrence is replaced by the call, then the first occurrence after the *)
(* beginning of that call; Undeclared stands for the out_of_range          *)
(* exception of a replace at npos.                                         *)
(***************************************************************************)
getUQRForFuncDomainRange(d) ==
  LET v == d.ran.tvs[1]
      p == Find(d.ran.cons, v, 1)
      once == ReplaceToken(d.ran.cons, p, Call(d))
      q == Find(once, v, p + 1)
  IN IF p = 0 \/ q = 0 THEN Undeclared ELSE ReplaceToken(once, q, Call(d))

(***************************************************************************)
(* UniQuantRule::getZ3Form: a rule that mentions none of the functions of  *)
(* the query [ufs, facts] is left out; otherwise it is asserted, and the   *)
(* query mentions all of the rule's functions from then on.                *)
(* (environment.cc:578 reserves the name ALL_UFSs for rules relevant to    *)
(* every query.  No kernel, test or caller in the repository uses it, and  *)
(* the model has no function of that name.)                                *)
(***************************************************************************)
getZ3Form(rule, q) ==
  IF rule.ufs \cap q.ufs = {} THEN q
  ELSE [ufs |-> q.ufs \cup rule.ufs, facts |-> q.facts \cup {rule.fact}]

\* Every occurrence of the token v replaced, once.
ReplaceAll(s, v, new) ==
  LET upTo[i \in 0 .. Len(s)] ==
        IF i = 0 THEN <<>> ELSE upTo[i - 1] \o (IF s[i] = v THEN new ELSE <<s[i]>>)
  IN upTo[Len(s)]

\* What the rule should say.
InRange(d) == ReplaceAll(d.ran.cons, d.ran.tvs[1], Call(d))

Declared(f) == f \in DOMAIN mUninterpFuncMap

-----------------------------------------------------------------------------
EnvInit ==
  /\ mUninterpFuncMap = NoFunctions
  /\ mInverseMap = NoFunctions
  /\ uniQuantRules = <<>>
  /\ threw = FALSE

(***************************************************************************)
(* setCurrEnv(): Environment::reset clears the two maps.  The vector of    *)
(* rules is not touched, although environment.cc:25 says "Resets the       *)
(* current environment to empty".                                          *)
(***************************************************************************)
setCurrEnv ==
  /\ mUninterpFuncMap' = NoFunctions
  /\ mInverseMap' = NoFunctions
  /\ threw' = FALSE
  /\ UNCHANGED uniQuantRules

\* MUTANT: the monotonicity is recorded and not asserted.
appendCurrEnvQuiet(d) ==
  /\ mInverseMap' = Insert(mInverseMap, CtorInverses(d))
  /\ mUninterpFuncMap' = Insert(mUninterpFuncMap, CtorFuncs(d))
  /\ UNCHANGED <<threw, uniQuantRules>>

(***************************************************************************)
(* appendCurrEnv(d).  The inverses are merged first and never overwritten; *)
(* then the functions are copied in name order (a function before its      *)
(* inverse), a name already present throwing out of the middle of it, past *)
(* the monotonicity rules.                                                 *)
(***************************************************************************)
appendCurrEnv(d) ==
  /\ mInverseMap' = Insert(mInverseMap, CtorInverses(d))
  /\ \/ /\ Declared(d.name)
        /\ threw' = TRUE
        /\ UNCHANGED <<mUninterpFuncMap, uniQuantRules>>
     \/ /\ ~Declared(d.name) /\ d.bijective /\ Declared(InvName(d.name))
        /\ threw' = TRUE
        /\ mUninterpFuncMap' = Insert(mUninterpFuncMap, [f \in {d.name} |-> d])
        /\ UNCHANGED uniQuantRules
     \/ /\ ~Declared(d.name) /\ ~(d.bijective /\ Declared(InvName(d.name)))
        /\ mUninterpFuncMap' = Insert(mUninterpFuncMap, CtorFuncs(d))
        /\ uniQuantRules' = uniQuantRules \o MonotonicityRules(d)
        /\ UNCHANGED threw

\* addUniQuantRule(new UniQuantRule(...))
addUniQuantRule(r) ==
  /\ uniQuantRules' = Append(uniQuantRules, UniQuantRule(r.type, r.ufs, r.fact))
  /\ UNCHANGED <<mUninterpFuncMap, mInverseMap, threw>>

\* queryInverseCurrEnv: "" if the function has no inverse.
queryInverseCurrEnv(f) ==
  IF f \in DOMAIN mInverseMap THEN mInverseMap[f] ELSE Undeclared

\* queryMonoTypeEnv
queryMonoTypeEnv(f) ==
  IF Declared(f) THEN mUninterpFuncMap[f].mono ELSE "Monotonic_NONE"

\* Any user of the environment: the functions of Ds are declared, the rules of
\* Rs added and the environment reset, in any order and any number of times.
ClientStep(Ds, Rs) ==
  \/ setCurrEnv
  \/ \E d \in Ds : appendCurrEnv(d)
  \/ \E r \in Rs : addUniQuantRule(r)

Client(Ds, Rs) == EnvInit /\ [][ClientStep(Ds, Rs)]_envVars

-----------------------------------------------------------------------------
(***************************************************************************)
(* Inverses come in declared pairs with swapped domain and range, as long  *)
(* as no declaration was refused (environment.cc:293-337).                 *)
(***************************************************************************)
InversesPaired ==
  ~threw =>
    \A f \in DOMAIN mInverseMap :
      LET g == queryInverseCurrEnv(f)
      IN /\ Declared(f) /\ Declared(g)
         /\ queryInverseCurrEnv(g) = f
         /\ mUninterpFuncMap[f].dom = mUninterpFuncMap[g].ran
         /\ mUninterpFuncMap[f].ran = mUninterpFuncMap[g].dom

(***************************************************************************)
(* What queryMonoTypeEnv says of a function is also asserted as rules,     *)
(* unless a declaration was refused (environment.cc:63-171).               *)
(***************************************************************************)
MonotonicityAsserted ==
  ~threw =>
    \A f \in DOMAIN mUninterpFuncMap :
      Elems(MonotonicityRules(mUninterpFuncMap[f])) \subseteq Elems(uniQuantRules)

(***************************************************************************)
(* "forall e1: DLB <= e1 < DUB => RLB <= UF(e1) < RUB"                     *)
(* (environment.cc:278): the domain-and-range rule of every declared       *)
(* function says that its values lie in its range.                         *)
(***************************************************************************)
DomainRangeExact ==
  \A f \in DOMAIN mUninterpFuncMap :
    getUQRForFuncDomainRange(mUninterpFuncMap[f]) = InRange(mUninterpFuncMap[f])
=============================================================================
