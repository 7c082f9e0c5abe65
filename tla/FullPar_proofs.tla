--------------------------- MODULE FullPar_proofs ---------------------------
(***************************************************************************)
(* What the driver prints, for any list of kernels: which loops it judges, *)
(* and that its verdicts are sound and complete; and, first, what the      *)
(* environment it fills promises to it and to any other client.            *)
(***************************************************************************)
EXTENDS FullPar, Lemmas

(***************************************************************************)
(* What IEGenLib's environment promises, for any set of declarations and   *)
(* rules a client may hand it, in any order.  The driver is one client.    *)
(***************************************************************************)
\* The rules the environment may hold.
RulesOf(Ds, Rs) ==
  (UNION {Elems(MonotonicityRules(d)) : d \in Ds})
  \cup {UniQuantRule(r.type, r.ufs, r.fact) : r \in Rs}

\* A declaration asserts at most two rules, of the monotonicity kind.
LEMMA MonotonicityRulesSeq ==
  ASSUME NEW d
  PROVE  /\ MonotonicityRules(d) \in Seq(Elems(MonotonicityRules(d)))
         /\ d.mono = "Monotonic_NONE" => MonotonicityRules(d) = <<>>
<1> DEFINE R(a) == UniQuantRule("Monotonicity", {d.name}, <<d.name, a>>)
           unary == Len(d.dom.tvs) = 1 /\ Len(d.ran.tvs) = 1
           M == MonotonicityRules(d)
<1>1. M = CASE ~unary -> <<>>
            [] unary /\ d.mono = "Monotonic_Increasing" ->
                 <<R("e1<e2 => f1<f2"), R("f1<f2 => e1<e2")>>
            [] unary /\ d.mono = "Monotonic_Nondecreasing" -> <<R("e1<e2 => f1<=f2")>>
            [] unary /\ d.mono = "Monotonic_Decreasing" ->
                 <<R("e1<e2 => f1>f2"), R("f1<f2 => e1>e2")>>
            [] unary /\ d.mono = "Monotonic_Nonincreasing" -> <<R("e1<e2 => f1>=f2")>>
            [] OTHER -> <<>>
  BY Zenon DEF MonotonicityRules
<1> HIDE DEF R, M, unary
<1>2. \/ M = <<>> /\ (~unary \/ d.mono \notin {"Monotonic_Increasing", "Monotonic_Decreasing",
                                    "Monotonic_Nondecreasing", "Monotonic_Nonincreasing"})
      \/ /\ d.mono \in {"Monotonic_Increasing", "Monotonic_Decreasing"}
         /\ \E x, y : M = <<x, y>>
      \/ /\ d.mono \in {"Monotonic_Nondecreasing", "Monotonic_Nonincreasing"}
         /\ \E x : M = <<x>>
  BY <1>1
<1>3. M \in Seq(Elems(M))
  <2>1. CASE M = <<>>
    BY <2>1
  <2>2. ASSUME NEW x, NEW y, M = <<x, y>> PROVE M \in Seq(Elems(M))
    <3>1. Len(M) = 2 /\ M[1] = x /\ M[2] = y
      BY <2>2
    <3>2. x \in Elems(M) /\ y \in Elems(M)
      BY <3>1 DEF Elems
    <3> QED
      BY <2>2, <3>2
  <2>3. ASSUME NEW x, M = <<x>> PROVE M \in Seq(Elems(M))
    <3>1. Len(M) = 1 /\ M[1] = x
      BY <2>3
    <3>2. x \in Elems(M)
      BY <3>1 DEF Elems
    <3> QED
      BY <2>3, <3>2
  <2> QED
    BY <1>2, <2>1, <2>2, <2>3
<1>4. d.mono = "Monotonic_NONE" => M = <<>>
  BY <1>2
<1> QED
  BY <1>3, <1>4 DEF M

\* The maps only grow until the next reset.
LEMMA InsertFacts ==
  ASSUME NEW map, NEW new
  PROVE  /\ DOMAIN Insert(map, new) = DOMAIN map \cup DOMAIN new
         /\ \A f \in DOMAIN map : Insert(map, new)[f] = map[f]
         /\ \A f \in DOMAIN new : f \notin DOMAIN map => Insert(map, new)[f] = new[f]
  BY DEF Insert

\* A function is introduced with the declaration it is an inverse of.
LEMMA CtorFacts ==
  ASSUME NEW d, WellNamed(d)
  PROVE  /\ DOMAIN CtorFuncs(d) = Introduced(d)
         /\ d.name \in Introduced(d) /\ CtorFuncs(d)[d.name] = d
         /\ \A f \in Introduced(d) : f # d.name =>
              d.bijective /\ f = InvName(d.name) /\ CtorFuncs(d)[f] = InverseDecl(d)
         /\ d.bijective => InvName(d.name) \in Introduced(d)
         /\ InvName(d.name) # d.name
  BY DEF WellNamed, CtorFuncs, Introduced, InvName

-----------------------------------------------------------------------------
(***************************************************************************)
(* What the environment holds came from the client.                        *)
(***************************************************************************)
\* f was declared by d, or as the inverse of the function d declares.
DeclaredBy(f, d) ==
  \/ f = d.name /\ mUninterpFuncMap[f] = d
  \/ /\ d.bijective /\ f = InvName(d.name)
     /\ mUninterpFuncMap[f] = InverseDecl(d)

MapFrom(Ds) == \A f \in DOMAIN mUninterpFuncMap : \E d \in Ds : DeclaredBy(f, d)

RulesFrom(Ds, Rs) == uniQuantRules \in Seq(RulesOf(Ds, Rs))

ContentInv(Ds, Rs) == RulesFrom(Ds, Rs) /\ MapFrom(Ds)

\* A refused declaration leaves at most the function itself behind.
LEMMA AppendCases ==
  ASSUME NEW d, WellNamed(d), appendCurrEnv(d)
  PROVE  /\ mInverseMap' = Insert(mInverseMap, CtorInverses(d))
         /\ \/ threw' /\ UNCHANGED <<mUninterpFuncMap, uniQuantRules>>
            \/ /\ threw' /\ d.name \notin DOMAIN mUninterpFuncMap
               /\ mUninterpFuncMap' = Insert(mUninterpFuncMap, [f \in {d.name} |-> d])
               /\ UNCHANGED uniQuantRules
            \/ /\ Introduced(d) \cap DOMAIN mUninterpFuncMap = {}
               /\ mUninterpFuncMap' = Insert(mUninterpFuncMap, CtorFuncs(d))
               /\ uniQuantRules' = uniQuantRules \o MonotonicityRules(d)
               /\ UNCHANGED threw
  BY DEF appendCurrEnv, Declared, Introduced

\* A rule is added by a declaration or by the client.
LEMMA AppendKeepsRules ==
  ASSUME NEW Ds, NEW Rs, NEW d \in Ds, WellNamed(d), RulesFrom(Ds, Rs), appendCurrEnv(d)
  PROVE  RulesFrom(Ds, Rs)'
<1>1. uniQuantRules' \in Seq(RulesOf(Ds, Rs))
  <2>1. uniQuantRules' \in {uniQuantRules, uniQuantRules \o MonotonicityRules(d)}
    BY AppendCases
  <2>2. MonotonicityRules(d) \in Seq(RulesOf(Ds, Rs))
    <3>1. Elems(MonotonicityRules(d)) \subseteq RulesOf(Ds, Rs)
      BY DEF RulesOf
    <3> QED
      BY <3>1, MonotonicityRulesSeq, SeqMonotonic
  <2>3. uniQuantRules \in Seq(RulesOf(Ds, Rs))
    BY DEF RulesFrom
  <2> QED
    BY <2>1, <2>2, <2>3, ConcatProperties
<1> QED
  BY <1>1 DEF RulesFrom

\* What the map holds after a declaration.
LEMMA AppendKeepsMap ==
  ASSUME NEW Ds, NEW d \in Ds, WellNamed(d), MapFrom(Ds), appendCurrEnv(d)
  PROVE  MapFrom(Ds)'
<1>1. ASSUME NEW f \in DOMAIN mUninterpFuncMap' PROVE \E e \in Ds : DeclaredBy(f, e)'
  <2>1. CASE f \in DOMAIN mUninterpFuncMap /\ mUninterpFuncMap'[f] = mUninterpFuncMap[f]
    BY <2>1 DEF MapFrom, DeclaredBy
  <2>2. CASE f \in Introduced(d) /\ mUninterpFuncMap'[f] = CtorFuncs(d)[f]
    BY <2>2, CtorFacts DEF DeclaredBy
  <2>3. \/ f \in DOMAIN mUninterpFuncMap /\ mUninterpFuncMap'[f] = mUninterpFuncMap[f]
        \/ f \in Introduced(d) /\ mUninterpFuncMap'[f] = CtorFuncs(d)[f]
    <3>1. CASE mUninterpFuncMap' = mUninterpFuncMap
      BY <3>1, <1>1
    <3>2. CASE mUninterpFuncMap' = Insert(mUninterpFuncMap, [g \in {d.name} |-> d])
      <4> DEFINE new == [g \in {d.name} |-> d]
      <4>1. DOMAIN new = {d.name} /\ new[d.name] = d
        OBVIOUS
      <4> HIDE DEF new
      <4>2. /\ f \in DOMAIN mUninterpFuncMap \cup {d.name}
            /\ f \in DOMAIN mUninterpFuncMap => mUninterpFuncMap'[f] = mUninterpFuncMap[f]
            /\ f \notin DOMAIN mUninterpFuncMap => mUninterpFuncMap'[f] = new[f]
        BY <3>2, <4>1, <1>1 DEF Insert, new
      <4>3. d.name \in Introduced(d) /\ CtorFuncs(d)[d.name] = d
        BY CtorFacts
      <4> QED
        BY <4>1, <4>2, <4>3
    <3>3. CASE mUninterpFuncMap' = Insert(mUninterpFuncMap, CtorFuncs(d))
      <4>1. DOMAIN CtorFuncs(d) = Introduced(d)
        BY CtorFacts
      <4> QED
        BY <3>3, <4>1, <1>1 DEF Insert
    <3> QED
      BY <3>1, <3>2, <3>3, AppendCases
  <2> QED
    BY <2>1, <2>2, <2>3
<1> QED
  BY <1>1 DEF MapFrom

\* The client adds a rule.
LEMMA AddKeepsRules ==
  ASSUME NEW Ds, NEW Rs, NEW r \in Rs, RulesFrom(Ds, Rs), addUniQuantRule(r)
  PROVE  RulesFrom(Ds, Rs)'
<1>1. UniQuantRule(r.type, r.ufs, r.fact) \in RulesOf(Ds, Rs)
  <2> DEFINE added == {UniQuantRule(q.type, q.ufs, q.fact) : q \in Rs}
  <2>1. UniQuantRule(r.type, r.ufs, r.fact) \in added
    BY Zenon
  <2> QED
    BY <2>1 DEF RulesOf
<1> QED
  BY <1>1, AppendProperties DEF addUniQuantRule, RulesFrom

\* A step of any client keeps the environment's contents among what was declared.
LEMMA ContentKept ==
  ASSUME NEW Ds, NEW Rs, \A d \in Ds : WellNamed(d),
         ContentInv(Ds, Rs), [ClientStep(Ds, Rs)]_envVars
  PROVE  ContentInv(Ds, Rs)'
<1>1. CASE setCurrEnv
  BY <1>1 DEF setCurrEnv, ContentInv, MapFrom, RulesFrom, NoFunctions
<1>2. ASSUME NEW d \in Ds, appendCurrEnv(d) PROVE ContentInv(Ds, Rs)'
  BY <1>2, AppendKeepsRules, AppendKeepsMap DEF ContentInv
<1>3. ASSUME NEW r \in Rs, addUniQuantRule(r) PROVE ContentInv(Ds, Rs)'
  <2>1. RulesFrom(Ds, Rs)'
    BY <1>3, AddKeepsRules DEF ContentInv
  <2>2. MapFrom(Ds)'
    BY <1>3 DEF addUniQuantRule, ContentInv, MapFrom, DeclaredBy
  <2> QED
    BY <2>1, <2>2 DEF ContentInv
<1>4. CASE UNCHANGED envVars
  BY <1>4 DEF envVars, ContentInv, MapFrom, RulesFrom, DeclaredBy
<1> QED
  BY <1>1, <1>2, <1>3, <1>4 DEF ClientStep

\* Rules and functions are only ever those some client gave.
LEMMA Content ==
  ASSUME NEW Ds, NEW Rs, \A d \in Ds : WellNamed(d)
  PROVE  Client(Ds, Rs) => []ContentInv(Ds, Rs)
<1>1. EnvInit => ContentInv(Ds, Rs)
  BY DEF EnvInit, ContentInv, MapFrom, RulesFrom, NoFunctions
<1>2. ContentInv(Ds, Rs) /\ [ClientStep(Ds, Rs)]_envVars => ContentInv(Ds, Rs)'
  BY ContentKept
<1> QED
  BY <1>1, <1>2, PTL DEF Client

-----------------------------------------------------------------------------
\* InversesPaired, of the map itself rather than of the answer to a query.
PairsInv ==
  ~threw =>
    \A f \in DOMAIN mInverseMap :
      LET g == mInverseMap[f]
      IN /\ {f, g} \subseteq DOMAIN mUninterpFuncMap
         /\ g \in DOMAIN mInverseMap /\ mInverseMap[g] = f
         /\ mUninterpFuncMap[f].dom = mUninterpFuncMap[g].ran
         /\ mUninterpFuncMap[f].ran = mUninterpFuncMap[g].dom

\* A declaration that is accepted leaves every inverse paired.
LEMMA AppendKeepsPairs ==
  ASSUME NEW d, WellNamed(d), PairsInv, appendCurrEnv(d)
  PROVE  PairsInv'
<1> SUFFICES ASSUME ~threw', NEW f \in DOMAIN mInverseMap'
             PROVE  LET g == mInverseMap'[f]
                    IN /\ {f, g} \subseteq DOMAIN mUninterpFuncMap'
                       /\ g \in DOMAIN mInverseMap' /\ mInverseMap'[g] = f
                       /\ mUninterpFuncMap'[f].dom = mUninterpFuncMap'[g].ran
                       /\ mUninterpFuncMap'[f].ran = mUninterpFuncMap'[g].dom
  BY DEF PairsInv
<1>1. /\ ~threw
      /\ mInverseMap' = Insert(mInverseMap, CtorInverses(d))
      /\ Introduced(d) \cap DOMAIN mUninterpFuncMap = {}
      /\ mUninterpFuncMap' = Insert(mUninterpFuncMap, CtorFuncs(d))
  BY AppendCases
<1>2. /\ DOMAIN mInverseMap' = DOMAIN mInverseMap \cup DOMAIN CtorInverses(d)
      /\ \A h \in DOMAIN mInverseMap : mInverseMap'[h] = mInverseMap[h]
      /\ \A h \in DOMAIN CtorInverses(d) :
           h \notin DOMAIN mInverseMap => mInverseMap'[h] = CtorInverses(d)[h]
  BY <1>1 DEF Insert
<1>3. /\ DOMAIN mUninterpFuncMap' = DOMAIN mUninterpFuncMap \cup Introduced(d)
      /\ \A h \in DOMAIN mUninterpFuncMap : mUninterpFuncMap'[h] = mUninterpFuncMap[h]
      /\ \A h \in Introduced(d) : mUninterpFuncMap'[h] = CtorFuncs(d)[h]
  <2>1. DOMAIN CtorFuncs(d) = Introduced(d)
    BY CtorFacts
  <2> QED
    BY <1>1, <2>1 DEF Insert
<1>4. CASE f \in DOMAIN mInverseMap
  <2> DEFINE g == mInverseMap[f]
  <2>1. /\ {f, g} \subseteq DOMAIN mUninterpFuncMap
        /\ g \in DOMAIN mInverseMap /\ mInverseMap[g] = f
        /\ mUninterpFuncMap[f].dom = mUninterpFuncMap[g].ran
        /\ mUninterpFuncMap[f].ran = mUninterpFuncMap[g].dom
    BY <1>1, <1>4 DEF PairsInv
  <2>2. mInverseMap'[f] = g
    BY <1>2, <1>4
  <2> HIDE DEF g
  <2> QED
    BY <2>1, <2>2, <1>2, <1>3
<1>5. CASE f \notin DOMAIN mInverseMap
  <2> DEFINE inv == InvName(d.name)
  <2>1. f \in DOMAIN CtorInverses(d)
    BY <1>2, <1>5
  <2>2. /\ d.bijective /\ Introduced(d) = {d.name, inv} /\ inv # d.name
        /\ DOMAIN CtorInverses(d) = {d.name, inv}
        /\ CtorInverses(d)[d.name] = inv /\ CtorInverses(d)[inv] = d.name
    BY <2>1, CtorFacts DEF CtorInverses, Introduced
  <2>3. CtorFuncs(d)[d.name] = d /\ CtorFuncs(d)[inv] = InverseDecl(d)
    BY <2>2, CtorFacts
  <2>4. InverseDecl(d).dom = d.ran /\ InverseDecl(d).ran = d.dom
    BY DEF InverseDecl
  <2> HIDE DEF inv
  <2>5. d.name \notin DOMAIN mInverseMap /\ inv \notin DOMAIN mInverseMap
    BY <2>2, <1>1 DEF PairsInv
  <2>6. /\ {d.name, inv} \subseteq DOMAIN mInverseMap'
        /\ mInverseMap'[d.name] = inv /\ mInverseMap'[inv] = d.name
    BY <2>2, <2>5, <1>2
  <2>7. /\ {d.name, inv} \subseteq DOMAIN mUninterpFuncMap'
        /\ mUninterpFuncMap'[d.name] = d /\ mUninterpFuncMap'[inv] = InverseDecl(d)
    BY <2>2, <2>3, <1>3
  <2> QED
    BY <2>1, <2>2, <2>4, <2>6, <2>7
<1> QED
  BY <1>4, <1>5

\* environment.cc:293: no declaration parts a pair of inverses, and the one
\* that introduces a pair swaps domain and range; setCurrEnv drops all.
THEOREM Inverses ==
  ASSUME NEW Ds, NEW Rs, \A d \in Ds : WellNamed(d)
  PROVE  Client(Ds, Rs) => []InversesPaired
<1>1. EnvInit => PairsInv
  BY DEF EnvInit, PairsInv, NoFunctions
<1>2. PairsInv /\ [ClientStep(Ds, Rs)]_envVars => PairsInv'
  <2>1. setCurrEnv => PairsInv'
    BY DEF setCurrEnv, PairsInv, NoFunctions
  <2>2. PairsInv /\ UNCHANGED envVars => PairsInv'
    BY DEF PairsInv, envVars
  <2>3. ASSUME NEW r PROVE PairsInv /\ addUniQuantRule(r) => PairsInv'
    BY DEF PairsInv, addUniQuantRule
  <2> QED
    BY <2>1, <2>2, <2>3, AppendKeepsPairs DEF ClientStep
<1>3. PairsInv => InversesPaired
  BY DEF PairsInv, InversesPaired, queryInverseCurrEnv, Declared
<1> QED
  BY <1>1, <1>2, <1>3, PTL DEF Client

\* environment.cc:63: a declaration that is accepted brings its monotonicity
\* rules, and rules are never dropped.
LEMMA AppendKeepsMono ==
  ASSUME NEW Ds, NEW Rs, NEW d \in Ds, \A e \in Ds : WellNamed(e),
         ContentInv(Ds, Rs), MonotonicityAsserted, appendCurrEnv(d)
  PROVE  MonotonicityAsserted'
<1> SUFFICES ASSUME ~threw', NEW f \in DOMAIN mUninterpFuncMap',
                    NEW n \in 1 .. Len(MonotonicityRules(mUninterpFuncMap'[f]))
             PROVE  \E m \in 1 .. Len(uniQuantRules') :
                      uniQuantRules'[m] = MonotonicityRules(mUninterpFuncMap'[f])[n]
  BY Zenon DEF MonotonicityAsserted, Elems
<1> DEFINE S == RulesOf(Ds, Rs) \cup Elems(MonotonicityRules(d))
<1>1. /\ ~threw
      /\ Introduced(d) \cap DOMAIN mUninterpFuncMap = {}
      /\ mUninterpFuncMap' = Insert(mUninterpFuncMap, CtorFuncs(d))
      /\ uniQuantRules' = uniQuantRules \o MonotonicityRules(d)
  BY AppendCases
<1>2. uniQuantRules \in Seq(S) /\ MonotonicityRules(d) \in Seq(S)
  <2>1. uniQuantRules \in Seq(RulesOf(Ds, Rs))
    BY DEF ContentInv, RulesFrom
  <2>2. RulesOf(Ds, Rs) \subseteq S /\ Elems(MonotonicityRules(d)) \subseteq S
    OBVIOUS
  <2> HIDE DEF S
  <2> QED
    BY <2>1, <2>2, MonotonicityRulesSeq, SeqMonotonic
<1> HIDE DEF S
<1>3. /\ Len(uniQuantRules) \in Nat /\ Len(MonotonicityRules(d)) \in Nat
      /\ Len(uniQuantRules') = Len(uniQuantRules) + Len(MonotonicityRules(d))
      /\ \A m \in 1 .. Len(uniQuantRules) : uniQuantRules'[m] = uniQuantRules[m]
      /\ \A m \in 1 .. Len(MonotonicityRules(d)) :
           uniQuantRules'[Len(uniQuantRules) + m] = MonotonicityRules(d)[m]
  BY <1>1, <1>2, ConcatProperties, LenProperties
<1>4. CASE f \in DOMAIN mUninterpFuncMap
  <2>1. mUninterpFuncMap'[f] = mUninterpFuncMap[f]
    BY <1>1, <1>4 DEF Insert
  <2>2. \E m \in 1 .. Len(uniQuantRules) :
          uniQuantRules[m] = MonotonicityRules(mUninterpFuncMap[f])[n]
    BY <2>1, <1>1, <1>4 DEF MonotonicityAsserted, Elems
  <2> QED
    BY <2>1, <2>2, <1>3
<1>5. CASE f = d.name /\ mUninterpFuncMap'[f] = d
  BY <1>5, <1>3
<1>6. CASE mUninterpFuncMap'[f] = InverseDecl(d)
  <2>1. InverseDecl(d).mono = "Monotonic_NONE"
    BY DEF InverseDecl
  <2>2. MonotonicityRules(InverseDecl(d)) = <<>>
    BY <2>1, MonotonicityRulesSeq
  <2> QED
    BY <1>6, <2>2
<1>7. f \notin DOMAIN mUninterpFuncMap =>
        f \in Introduced(d) /\ mUninterpFuncMap'[f] = CtorFuncs(d)[f]
  <2>1. DOMAIN CtorFuncs(d) = Introduced(d)
    BY CtorFacts
  <2> QED
    BY <1>1, <2>1 DEF Insert
<1>8. f \in Introduced(d) =>
        (f = d.name /\ CtorFuncs(d)[f] = d) \/ CtorFuncs(d)[f] = InverseDecl(d)
  BY CtorFacts
<1> QED
  BY <1>4, <1>5, <1>6, <1>7, <1>8

\* What queryMonoTypeEnv answers is asserted, in every state of every client.
THEOREM MonotonicityIsAsserted ==
  ASSUME NEW Ds, NEW Rs, \A d \in Ds : WellNamed(d)
  PROVE  Client(Ds, Rs) => []MonotonicityAsserted
<1>1. EnvInit => MonotonicityAsserted
  BY DEF EnvInit, MonotonicityAsserted, NoFunctions
<1>2. /\ ContentInv(Ds, Rs) /\ MonotonicityAsserted
      /\ [ClientStep(Ds, Rs)]_envVars
      => MonotonicityAsserted'
  <2>1. setCurrEnv => MonotonicityAsserted'
    BY DEF setCurrEnv, MonotonicityAsserted, NoFunctions
  <2>2. MonotonicityAsserted /\ UNCHANGED envVars => MonotonicityAsserted'
    BY DEF MonotonicityAsserted, envVars
  <2>3. ASSUME NEW r \in Rs, ContentInv(Ds, Rs), MonotonicityAsserted, addUniQuantRule(r)
        PROVE  MonotonicityAsserted'
    <3> DEFINE q == UniQuantRule(r.type, r.ufs, r.fact)
               S == RulesOf(Ds, Rs) \cup {q}
    <3>1. uniQuantRules \in Seq(S) /\ q \in S
      <4>1. RulesOf(Ds, Rs) \subseteq S /\ q \in S
        OBVIOUS
      <4> HIDE DEF S
      <4> QED
        BY <4>1, <2>3, SeqMonotonic DEF ContentInv, RulesFrom
    <3> HIDE DEF S, q
    <3>2. uniQuantRules' = Append(uniQuantRules, q)
      BY <2>3 DEF addUniQuantRule, q
    <3>3. /\ Len(uniQuantRules) \in Nat /\ Len(uniQuantRules') = Len(uniQuantRules) + 1
          /\ \A m \in 1 .. Len(uniQuantRules) : uniQuantRules'[m] = uniQuantRules[m]
      BY <3>1, <3>2, AppendProperties, LenProperties
    <3>4. UNCHANGED <<mUninterpFuncMap, threw>>
      BY <2>3 DEF addUniQuantRule
    <3>5. Elems(uniQuantRules) \subseteq Elems(uniQuantRules')
      BY <3>3 DEF Elems
    <3> QED
      BY <2>3, <3>4, <3>5 DEF MonotonicityAsserted
  <2> QED
    BY <2>1, <2>2, <2>3, AppendKeepsMono DEF ClientStep
<1> QED
  BY <1>1, <1>2, Content, PTL DEF Client

-----------------------------------------------------------------------------
(***************************************************************************)
(* The range of a function is printed with a lower and an upper bound, so  *)
(* its variable occurs twice; it is not the domain's variable.             *)
(***************************************************************************)
RangeBounded(d) ==
  LET v == d.ran.tvs[1]
      s == d.ran.cons
  IN /\ s \in Seq(Elems(s))
     /\ v \notin {"(", d.dom.tvs[1], ")"}
     /\ \E p, q \in 1 .. Len(s) :
          p < q /\ \A n \in 1 .. Len(s) : s[n] = v <=> n \in {p, q}

\* The first of the positions at which a token occurs is the one Find returns.
LEMMA FindFirst ==
  ASSUME NEW s, Len(s) \in Nat, NEW v, NEW a \in Nat, NEW p \in a .. Len(s), s[p] = v,
         \A n \in a .. p - 1 : s[n] # v
  PROVE  Find(s, v, a) = p
<1> DEFINE at == {n \in a .. Len(s) : s[n] = v}
<1>1. p \in at /\ \A e \in at : p <= e
  <2>1. \A e \in at : e \in a .. Len(s) /\ ~ (e \in a .. p - 1)
    OBVIOUS
  <2>2. p \in at
    OBVIOUS
  <2> HIDE DEF at
  <2> QED
    BY <2>1, <2>2
<1>2. \A e \in at : e \in Int
  OBVIOUS
<1>3. Find(s, v, a) = CHOOSE n \in at : \A e \in at : n <= e
  <2>1. at # {}
    BY <1>1
  <2> QED
    BY <2>1 DEF Find
<1> HIDE DEF at
<1>4. \A n \in at : (\A e \in at : n <= e) => n = p
  BY <1>1, <1>2
<1> QED
  BY <1>1, <1>3, <1>4

\* r is s with the token at p replaced by the four tokens of c.
Replaced(r, s, p, c, X) ==
  /\ r \in Seq(X) /\ Len(r) = Len(s) + 3
  /\ \A n \in 1 .. p - 1 : r[n] = s[n]
  /\ \A n \in 1 .. 4 : r[p + n - 1] = c[n]
  /\ \A n \in p + 1 .. Len(s) : r[n + 3] = s[n]

\* That is what ReplaceToken does.
LEMMA ReplaceFacts ==
  ASSUME NEW X, NEW s \in Seq(X), NEW c \in Seq(X), NEW p \in 1 .. Len(s), Len(c) = 4
  PROVE  Replaced(ReplaceToken(s, p, c), s, p, c, X)
<1> DEFINE a == SubSeq(s, 1, p - 1)
           b == SubSeq(s, p + 1, Len(s))
           N == Len(s)
<1>1. N \in Nat /\ p \in Nat /\ 1 <= p /\ p <= N /\ \A n \in 1 .. N : s[n] \in X
  BY LenProperties, ElementOfSeq
<1>2. a \in Seq(X) /\ Len(a) = p - 1 /\ \A n \in 1 .. p - 1 : a[n] = s[n]
  BY <1>1, SubSeqProperties
<1>3. b \in Seq(X) /\ Len(b) = N - p /\ \A n \in 1 .. N - p : b[n] = s[p + n]
  <2>1. \A n \in p + 1 .. N : s[n] \in X
    BY <1>1
  <2>2. /\ b \in Seq(X) /\ Len(b) = IF p + 1 <= N THEN N - (p + 1) + 1 ELSE 0
        /\ \A n \in 1 .. N - (p + 1) + 1 : b[n] = s[(p + 1) + n - 1]
    BY <2>1, <1>1, SubSeqProperties
  <2>3. Len(b) = N - p
    BY <2>2, <1>1
  <2>4. \A n \in 1 .. N - p : b[n] = s[p + n]
    <3> TAKE n \in 1 .. N - p
    <3>1. n \in 1 .. N - (p + 1) + 1 /\ (p + 1) + n - 1 = p + n
      BY <1>1
    <3> QED
      BY <2>2, <3>1
  <2> QED
    BY <2>2, <2>3, <2>4
<1> HIDE DEF a, b, N
<1> DEFINE t == a \o c
           r == t \o b
<1>4. /\ t \in Seq(X) /\ Len(t) = p + 3
      /\ \A n \in 1 .. p - 1 : t[n] = s[n]
      /\ \A n \in 1 .. 4 : t[p + n - 1] = c[n]
  <2>1. /\ t \in Seq(X) /\ Len(t) = Len(a) + Len(c)
        /\ \A n \in 1 .. Len(a) + Len(c) :
             t[n] = IF n <= Len(a) THEN a[n] ELSE c[n - Len(a)]
    BY <1>2, ConcatProperties
  <2> HIDE DEF t
  <2>2. Len(a) = p - 1 /\ Len(c) = 4
    BY <1>2
  <2>3. \A n \in 1 .. p - 1 : t[n] = s[n]
    <3> TAKE n \in 1 .. p - 1
    <3>1. n \in 1 .. Len(a) + Len(c) /\ n <= Len(a)
      BY <2>2, <1>1
    <3> QED
      BY <3>1, <2>1, <1>2
  <2>4. \A n \in 1 .. 4 : t[p + n - 1] = c[n]
    <3> TAKE n \in 1 .. 4
    <3>1. /\ p + n - 1 \in 1 .. Len(a) + Len(c) /\ ~ (p + n - 1 <= Len(a))
          /\ p + n - 1 - Len(a) = n
      BY <2>2, <1>1
    <3>2. PICK j \in 1 .. Len(a) + Len(c) : j = p + n - 1 /\ ~ (j <= Len(a)) /\ j - Len(a) = n
      BY <3>1
    <3>3. t[j] = c[j - Len(a)]
      BY <3>2, <2>1
    <3> QED
      BY <3>2, <3>3
  <2> QED
    BY <2>1, <2>2, <2>3, <2>4, <1>1
<1> HIDE DEF t
<1>5. /\ r \in Seq(X) /\ Len(r) = N + 3
      /\ \A n \in 1 .. p + 3 : r[n] = t[n]
      /\ \A n \in 1 .. N - p : r[p + 3 + n] = b[n]
  <2>1. /\ r \in Seq(X) /\ Len(r) = Len(t) + Len(b)
        /\ \A n \in 1 .. Len(t) + Len(b) :
             r[n] = IF n <= Len(t) THEN t[n] ELSE b[n - Len(t)]
    BY <1>3, <1>4, ConcatProperties
  <2> HIDE DEF r
  <2>2. Len(t) = p + 3 /\ Len(b) = N - p
    BY <1>3, <1>4
  <2>3. \A n \in 1 .. N - p : r[p + 3 + n] = b[n]
    <3> TAKE n \in 1 .. N - p
    <3>1. /\ p + 3 + n \in 1 .. Len(t) + Len(b) /\ ~ (p + 3 + n <= Len(t))
          /\ p + 3 + n - Len(t) = n
      BY <2>2, <1>1
    <3> QED
      BY <3>1, <2>1
  <2>4. \A n \in 1 .. p + 3 : r[n] = t[n]
    BY <2>1, <2>2, <1>1
  <2> QED
    BY <2>1, <2>2, <2>3, <2>4, <1>1
<1> HIDE DEF r
<1>6. \A n \in 1 .. p - 1 : r[n] = s[n]
  BY <1>1, <1>4, <1>5
<1>7. \A n \in 1 .. 4 : r[p + n - 1] = c[n]
  <2> TAKE n \in 1 .. 4
  <2>1. p + n - 1 \in 1 .. p + 3
    BY <1>1
  <2> QED
    BY <2>1, <1>4, <1>5
<1>8. ASSUME NEW n \in p + 1 .. N PROVE r[n + 3] = s[n]
  <2>1. n - p \in 1 .. N - p /\ p + 3 + (n - p) = n + 3 /\ p + (n - p) = n
    BY <1>1
  <2> QED
    BY <2>1, <1>3, <1>5
<1>9. r = ReplaceToken(s, p, c)
  BY DEF ReplaceToken, r, t, a, b, N
<1> QED
  BY <1>1, <1>5, <1>6, <1>7, <1>8, <1>9 DEF N, Replaced

\* What InRange collects up to a token, and how it goes on.
LEMMA InRangeSteps ==
  ASSUME NEW d, NEW X, d.ran.cons \in Seq(X), Call(d) \in Seq(X)
  PROVE  LET s == d.ran.cons
             piece(n) == IF s[n] = d.ran.tvs[1] THEN Call(d) ELSE <<s[n]>>
         IN \E f \in [0 .. Len(s) -> Seq(X)] :
              /\ f[0] = <<>>
              /\ \A n \in 1 .. Len(s) : f[n] = f[n - 1] \o piece(n)
              /\ InRange(d) = f[Len(s)]
<1> DEFINE s == d.ran.cons
           m == Len(s)
           piece(n) == IF s[n] = d.ran.tvs[1] THEN Call(d) ELSE <<s[n]>>
           Q(f) == f = [n \in 0 .. m |-> IF n = 0 THEN <<>> ELSE f[n - 1] \o piece(n)]
<1>1. m \in Nat /\ \A n \in 1 .. m : piece(n) \in Seq(X)
  BY LenProperties, ElementOfSeq
<1> HIDE DEF m, piece
<1>2. PICK f \in [0 .. m -> Seq(X)] :
        f[0] = <<>> /\ \A n \in 1 .. m : f[n] = f[n - 1] \o piece(n)
  <2> DEFINE T == [n \in 1 .. m |-> piece(n)]
  <2>1. \A n \in 1 .. m : T[n] \in Seq(X) /\ T[n] = piece(n)
    BY <1>1
  <2> HIDE DEF T
  <2>2. PICK f \in [0 .. m -> Seq(X)] :
          f[0] = <<>> /\ \A n \in 1 .. m : f[n] = f[n - 1] \o T[n]
    <3>1. Concats(m, X, T) # {}
      BY <1>1, <2>1, Concatenation
    <3> QED
      BY <3>1 DEF Concats
  <2> QED
    BY <2>1, <2>2
<1>6. Q(f)
  <2> DEFINE next(n) == IF n = 0 THEN <<>> ELSE f[n - 1] \o piece(n)
  <2>1. \A n \in 0 .. m : f[n] = next(n)
    <3> TAKE n \in 0 .. m
    <3>1. n = 0 \/ (n \in 1 .. m /\ n # 0)
      BY <1>1
    <3> QED
      BY <3>1, <1>2
  <2> HIDE DEF next
  <2>2. f = [n \in 0 .. m |-> next(n)]
    BY <2>1
  <2> QED
    BY <2>2 DEF next
<1>7. Q(CHOOSE g : Q(g))
  BY <1>6
<1> DEFINE h == CHOOSE g : Q(g)
<1>8. InRange(d) = h[m]
  BY DEF InRange, ReplaceAll, m, piece
<1>9. h = f
  <2> HIDE DEF h
  <2>1. Q(h)
    BY <1>7 DEF h
  <2>2. DOMAIN h = 0 .. m /\ DOMAIN f = 0 .. m
    BY <2>1, <1>6
  <2> DEFINE P == {n \in 0 .. m : h[n] = f[n]}
  <2>3. 0 \in P
    BY <2>1, <1>6, <1>1
  <2>4. ASSUME NEW n \in 1 .. m, n - 1 \in P PROVE n \in P
    <3>1. n \in 0 .. m /\ n # 0 /\ h[n - 1] = f[n - 1]
      BY <2>4, <1>1
    <3>2. h[n] = h[n - 1] \o piece(n) /\ f[n] = f[n - 1] \o piece(n)
      BY <3>1, <2>1, <1>6
    <3> QED
      BY <3>1, <3>2
  <2>5. \A n \in 0 .. m : n \in P
    <3> HIDE DEF P
    <3> QED
      BY <2>3, <2>4, <1>1, Induct
  <2> QED
    BY <2>1, <2>2, <2>5, <1>6
<1>10. f[0] = <<>> /\ \A n \in 1 .. m : f[n] = f[n - 1] \o piece(n)
  BY <1>2
<1> QED
  BY <1>8, <1>9, <1>10 DEF m, piece

\* environment.cc:265: both bounds of the range are rewritten, and no more.
LEMMA RangeRuleExact ==
  ASSUME NEW d, RangeBounded(d)
  PROVE  getUQRForFuncDomainRange(d) = InRange(d)
<1> DEFINE v == d.ran.tvs[1]
           s == d.ran.cons
           c == Call(d)
           N == Len(s)
           X == Elems(s) \cup {d.name, "(", d.dom.tvs[1], ")"}
           piece(n) == IF s[n] = v THEN c ELSE <<s[n]>>
<1>0. RangeBounded(d)
  OBVIOUS
<1>1. v \notin {"(", d.dom.tvs[1], ")"}
  BY <1>0 DEF RangeBounded
<1>2. PICK p \in 1 .. N, q \in 1 .. N : p < q /\ \A n \in 1 .. N : s[n] = v <=> n \in {p, q}
  BY <1>0 DEF RangeBounded
<1>3. s \in Seq(X) /\ N \in Nat
  <2>1. s \in Seq(Elems(s)) /\ Elems(s) \subseteq X
    BY <1>0 DEF RangeBounded
  <2> HIDE DEF X, s
  <2> QED
    BY <2>1, SeqMonotonic, LenProperties DEF N
<1>4. c \in Seq(X) /\ Len(c) = 4 /\ \A n \in 2 .. 4 : c[n] # v
  <2>1. c = <<d.name, "(", d.dom.tvs[1], ")">>
    BY DEF Call
  <2>2. {d.name, "(", d.dom.tvs[1], ")"} \subseteq X
    OBVIOUS
  <2> HIDE DEF X, c, v
  <2>3. c \in Seq(X) /\ Len(c) = 4
    BY <2>1, <2>2
  <2>4. c[2] # v /\ c[3] # v /\ c[4] # v
    BY <2>1, <1>1
  <2> QED
    BY <2>3, <2>4
<1> HIDE DEF X, s, c, v, N
<1>5. p \in Nat /\ q \in Nat /\ 1 <= p /\ p < q /\ q <= N
  BY <1>2, <1>3
<1>6. Find(s, v, 1) = p
  <2>1. p \in 1 .. Len(s) /\ s[p] = v /\ \A n \in 1 .. p - 1 : s[n] # v
    BY <1>2, <1>5, <1>3 DEF N
  <2> QED
    BY <2>1, <1>3, FindFirst DEF N
<1> DEFINE once == ReplaceToken(s, p, c)
<1>7. /\ once \in Seq(X) /\ Len(once) = N + 3
      /\ \A n \in 1 .. p - 1 : once[n] = s[n]
      /\ \A n \in 1 .. 4 : once[p + n - 1] = c[n]
      /\ \A n \in p + 1 .. N : once[n + 3] = s[n]
  <2>1. p \in 1 .. Len(s) /\ Len(s) = N /\ s \in Seq(X) /\ c \in Seq(X) /\ Len(c) = 4
    BY <1>2, <1>3, <1>4 DEF N
  <2>2. Replaced(once, s, p, c, X)
    BY <2>1, ReplaceFacts
  <2> HIDE DEF once
  <2> QED
    BY <2>1, <2>2 DEF Replaced
<1> HIDE DEF once
<1>8. Find(once, v, p + 1) = q + 3
  <2>1. once[q + 3] = v
    <3>1. q \in p + 1 .. N /\ s[q] = v
      BY <1>2, <1>5, <1>3
    <3> QED
      BY <3>1, <1>7
  <2>2. ASSUME NEW n \in p + 1 .. (q + 3) - 1 PROVE once[n] # v
    <3>1. CASE n <= p + 3
      <4>1. n - p + 1 \in 2 .. 4 /\ p + (n - p + 1) - 1 = n
        BY <3>1, <1>5
      <4> QED
        BY <4>1, <1>7, <1>4
    <3>2. CASE ~ (n <= p + 3)
      <4>1. n - 3 \in p + 1 .. N /\ (n - 3) + 3 = n /\ n - 3 \in 1 .. N /\ n - 3 \notin {p, q}
        BY <3>2, <1>5, <1>3
      <4> QED
        BY <4>1, <1>7, <1>2
    <3> QED
      BY <3>1, <3>2
  <2>3. p + 1 \in Nat /\ q + 3 \in p + 1 .. Len(once) /\ Len(once) \in Nat
    BY <1>5, <1>7, <1>3
  <2> QED
    BY <2>1, <2>2, <2>3, FindFirst
<1> DEFINE R == ReplaceToken(once, q + 3, c)
<1>9. getUQRForFuncDomainRange(d) = R
  BY <1>5, <1>6, <1>8 DEF getUQRForFuncDomainRange, once, v, s, c
<1>10. /\ R \in Seq(X) /\ Len(R) = N + 6
       /\ \A n \in 1 .. q + 2 : R[n] = once[n]
       /\ \A n \in 1 .. 4 : R[q + 2 + n] = c[n]
       /\ \A n \in q + 1 .. N : R[n + 6] = s[n]
  <2>1. q + 3 \in 1 .. Len(once) /\ Len(once) = N + 3 /\ Len(once) \in Nat
    BY <1>7, <1>5, <1>3
  <2>2. /\ R \in Seq(X) /\ Len(R) = Len(once) + 3
        /\ \A n \in 1 .. (q + 3) - 1 : R[n] = once[n]
        /\ \A n \in 1 .. 4 : R[(q + 3) + n - 1] = c[n]
        /\ \A n \in (q + 3) + 1 .. Len(once) : R[n + 3] = once[n]
    <3>1. Replaced(R, once, q + 3, c, X)
      BY <2>1, <1>7, <1>4, ReplaceFacts
    <3> HIDE DEF R
    <3> QED
      BY <3>1 DEF Replaced
  <2> HIDE DEF R
  <2>3. ASSUME NEW n \in q + 1 .. N PROVE R[n + 6] = s[n]
    <3>1. n + 3 \in (q + 3) + 1 .. Len(once) /\ n \in p + 1 .. N /\ (n + 3) + 3 = n + 6
      BY <2>1, <1>5, <1>3
    <3>2. R[(n + 3) + 3] = once[n + 3] /\ once[n + 3] = s[n]
      BY <3>1, <2>2, <1>7
    <3> QED
      BY <3>1, <3>2
  <2>4. \A n \in 1 .. q + 2 : R[n] = once[n]
    BY <2>2, <1>5
  <2>5. \A n \in 1 .. 4 : R[q + 2 + n] = c[n]
    <3> TAKE n \in 1 .. 4
    <3>1. (q + 3) + n - 1 = q + 2 + n
      BY <1>5
    <3> QED
      BY <3>1, <2>2
  <2>6. Len(R) = N + 6
    BY <2>1, <2>2, <1>3
  <2> QED
    BY <2>2, <2>3, <2>4, <2>5, <2>6
<1> HIDE DEF R
<1>11. ASSUME NEW a \in Nat, NEW b \in Nat, a <= b, b <= N + 6,
              NEW t \in Seq(X), Len(t) = b - a, \A j \in 1 .. b - a : R[a + j] = t[j]
       PROVE  SubSeq(R, a + 1, b) = t
  <2> DEFINE cut == SubSeq(R, a + 1, b)
  <2>1. \A j \in a + 1 .. b : R[j] \in X
    BY <1>10, <1>11, <1>3, ElementOfSeq
  <2>2. /\ cut \in Seq(X) /\ Len(cut) = IF a + 1 <= b THEN b - (a + 1) + 1 ELSE 0
        /\ \A j \in 1 .. b - (a + 1) + 1 : cut[j] = R[(a + 1) + j - 1]
    BY <2>1, SubSeqProperties
  <2> HIDE DEF cut
  <2>3. Len(cut) = b - a /\ b - (a + 1) + 1 = b - a
    BY <2>2, <1>11
  <2>4. \A j \in 1 .. Len(cut) : cut[j] = t[j]
    <3> TAKE j \in 1 .. Len(cut)
    <3>1. j \in 1 .. b - a /\ (a + 1) + j - 1 = a + j
      BY <2>3
    <3> QED
      BY <3>1, <2>2, <2>3, <1>11
  <2>5. cut = t
    BY <2>2, <2>3, <2>4, <1>11, SeqEqual
  <2> QED
    BY <2>5 DEF cut
\* Where the replacement of the n-th token of the range ends in R.
<1> DEFINE at(n) == IF n < p THEN n ELSE IF n < q THEN n + 3 ELSE n + 6
<1>12. ASSUME NEW n \in 1 .. N
       PROVE  /\ at(n - 1) \in Nat /\ at(n) \in Nat /\ at(n - 1) < at(n) /\ at(n) <= N + 6
              /\ SubSeq(R, at(n - 1) + 1, at(n)) = piece(n)
              /\ piece(n) \in Seq(X)
  <2>1. CASE n = p
    <3>1. at(n - 1) = p - 1 /\ at(n) = p + 3 /\ piece(n) = c
      BY <2>1, <1>2, <1>5
    <3> HIDE DEF at, piece
    <3>2. \A e \in 1 .. 4 : R[p - 1 + e] = c[e]
      <4> TAKE e \in 1 .. 4
      <4>1. p - 1 + e \in 1 .. q + 2 /\ p + e - 1 = p - 1 + e
        BY <1>5
      <4> QED
        BY <4>1, <1>7, <1>10
    <3>3. SubSeq(R, (p - 1) + 1, p + 3) = c
      <4>1. /\ p - 1 \in Nat /\ p + 3 \in Nat /\ p - 1 <= p + 3 /\ p + 3 <= N + 6
            /\ (p + 3) - (p - 1) = 4
        BY <1>5, <1>3
      <4> QED
        BY <4>1, <3>2, <1>4, <1>11
    <3> QED
      BY <3>1, <3>3, <1>4, <1>5, <1>3
  <2>2. CASE n = q
    <3>1. at(n - 1) = q + 2 /\ at(n) = q + 6 /\ piece(n) = c
      BY <2>2, <1>2, <1>5
    <3> HIDE DEF at, piece
    <3>2. SubSeq(R, (q + 2) + 1, q + 6) = c
      <4>1. /\ q + 2 \in Nat /\ q + 6 \in Nat /\ q + 2 <= q + 6 /\ q + 6 <= N + 6
            /\ (q + 6) - (q + 2) = 4
        BY <1>5, <1>3
      <4> QED
        BY <4>1, <1>10, <1>4, <1>11
    <3> QED
      BY <3>1, <3>2, <1>4, <1>5, <1>3
  <2>3. CASE n \notin {p, q}
    <3>1. /\ at(n - 1) \in Nat /\ at(n) = at(n - 1) + 1 /\ at(n) <= N + 6
          /\ piece(n) = <<s[n]>> /\ s[n] \in X
      <4>1. s[n] # v
        BY <2>3, <1>2
      <4>2. s[n] \in X
        BY <1>3, ElementOfSeq DEF N
      <4> QED
        BY <4>1, <4>2, <2>3, <1>5, <1>3
    <3>2. R[at(n)] = s[n]
      <4>1. CASE n < p
        <5>1. at(n) = n /\ n \in 1 .. p - 1 /\ n \in 1 .. q + 2
          BY <4>1, <1>5
        <5> QED
          BY <5>1, <1>7, <1>10
      <4>2. CASE p < n /\ n < q
        <5>1. at(n) = n + 3 /\ n \in p + 1 .. N /\ n + 3 \in 1 .. q + 2
          BY <4>2, <1>5
        <5> QED
          BY <5>1, <1>7, <1>10
      <4>3. CASE q < n
        <5>1. at(n) = n + 6 /\ n \in q + 1 .. N
          BY <4>3, <1>5, <1>3
        <5> QED
          BY <5>1, <1>10
      <4> QED
        BY <4>1, <4>2, <4>3, <2>3, <1>5, <1>3
    <3> DEFINE a == at(n - 1)
               t == <<s[n]>>
    <3>3. t \in Seq(X) /\ Len(t) = 1 /\ t[1] = s[n]
      BY <3>1
    <3>4. at(n) = a + 1 /\ a \in Nat /\ a + 1 <= N + 6 /\ R[a + 1] = s[n] /\ piece(n) = t
      BY <3>1, <3>2
    <3> HIDE DEF at, a, piece, t
    <3>5. SubSeq(R, a + 1, a + 1) = t
      <4>1. a + 1 \in Nat /\ a <= a + 1 /\ (a + 1) - a = 1
        BY <3>4
      <4>2. \A j \in 1 .. 1 : R[a + j] = t[j]
        BY <3>3, <3>4
      <4> QED
        BY <4>1, <4>2, <3>3, <3>4, <1>11
    <3>6. /\ a \in Nat /\ at(n) \in Nat /\ a < at(n) /\ at(n) <= N + 6
          /\ SubSeq(R, a + 1, at(n)) = piece(n) /\ piece(n) \in Seq(X)
      BY <3>3, <3>4, <3>5
    <3> QED
      BY <3>6 DEF a
  <2> QED
    BY <2>1, <2>2, <2>3
<1>13. PICK f \in [0 .. N -> Seq(X)] :
         /\ f[0] = <<>>
         /\ \A n \in 1 .. N : f[n] = f[n - 1] \o piece(n)
         /\ InRange(d) = f[N]
  <2>1. d.ran.cons \in Seq(X) /\ Call(d) \in Seq(X)
    BY <1>3, <1>4 DEF s, c
  <2> HIDE DEF piece
  <2> QED
    BY <2>1, InRangeSteps DEF s, c, v, N, piece
<1> DEFINE P == {n \in 0 .. N : f[n] = SubSeq(R, 1, at(n))}
<1>14. 0 \in P
  <2>1. at(0) = 0 /\ SubSeq(R, 1, 0) = <<>> /\ 0 \in 0 .. N
    BY <1>3, <1>5, SubSeqEmpty
  <2> QED
    BY <2>1, <1>13
<1>15. ASSUME NEW n \in 1 .. N, n - 1 \in P PROVE n \in P
  <2> DEFINE a == at(n - 1)
             b == at(n)
  <2>1. /\ a \in Nat /\ b \in Nat /\ a < b /\ b <= N + 6
        /\ SubSeq(R, a + 1, b) = piece(n)
    BY <1>12
  <2>2. f[n] = SubSeq(R, 1, a) \o piece(n)
    BY <1>13, <1>15
  <2> HIDE DEF a, b, at, piece
  <2>3. SubSeq(R, 1, a) \o SubSeq(R, a + 1, b) = SubSeq(R, 1, b)
    <3>1. /\ R \in Seq(X) /\ 1 \in 1 .. Len(R) + 1 /\ a \in 1 - 1 .. Len(R)
          /\ b \in a .. Len(R)
      BY <2>1, <1>10, <1>3
    <3> QED
      BY <3>1, ConcatAdjacentSubSeq
  <2>4. n \in 0 .. N
    BY <1>3
  <2> QED
    BY <2>1, <2>2, <2>3, <2>4 DEF b
<1>16. f[N] = SubSeq(R, 1, at(N))
  <2> HIDE DEF P
  <2>1. \A n \in 1 .. N : n - 1 \in P => n \in P
    BY <1>15
  <2>2. \A n \in 0 .. N : n \in P
    BY <1>3, <1>14, <2>1, Induct
  <2> QED
    BY <2>2, <1>3 DEF P
<1>17. at(N) = Len(R)
  BY <1>5, <1>3, <1>10
<1> QED
  BY <1>9, <1>10, <1>13, <1>16, <1>17, SubSeqFull

\* environment.cc:278: the domain-and-range rule of every function says that
\* its values lie in its range, if its declaration prints both bounds of a
\* variable of its own.
THEOREM RangesExact ==
  ASSUME NEW Ds, NEW Rs,
         \A d \in Ds : /\ WellNamed(d) /\ RangeBounded(d)
                       /\ d.bijective => RangeBounded(InverseDecl(d))
  PROVE  Client(Ds, Rs) => []DomainRangeExact
<1>1. ContentInv(Ds, Rs) => DomainRangeExact
  <2> SUFFICES ASSUME ContentInv(Ds, Rs), NEW f \in DOMAIN mUninterpFuncMap
               PROVE  getUQRForFuncDomainRange(mUninterpFuncMap[f])
                        = InRange(mUninterpFuncMap[f])
    BY DEF DomainRangeExact
  <2>1. RangeBounded(mUninterpFuncMap[f])
    BY DEF ContentInv, MapFrom, DeclaredBy
  <2> QED
    BY <2>1, RangeRuleExact
<1>2. Client(Ds, Rs) => []ContentInv(Ds, Rs)
  BY Content
<1> QED
  BY <1>1, <1>2, PTL

-----------------------------------------------------------------------------
(***************************************************************************)
(* CHiLL's file: the lines of one loop after those of another.             *)
(***************************************************************************)
IsLoops(loops) == IsSeq(loops) /\ \A loop \in Elems(loops) : IsSeq(loop)

\* A loop's lines are its header and one line for each relation.
LEMMA LinesOfLoop ==
  ASSUME NEW loop, IsSeq(loop)
  PROVE  /\ Lines(loop) \in Seq(Elems(Lines(loop)))
         /\ Len(Lines(loop)) = Len(loop) + 1 /\ Len(loop) \in Nat
         /\ Lines(loop)[1].nRels = Len(loop)
         /\ \A n \in 1 .. Len(loop) : Lines(loop)[n + 1].rel = loop[n]
<1> DEFINE line(n) == [header |-> FALSE, rel |-> loop[n]]
           head == [header |-> TRUE, nRels |-> Len(loop)]
           body == [n \in 1 .. Len(loop) |-> line(n)]
           X == {head} \cup {line(n) : n \in 1 .. Len(loop)}
<1>1. Len(loop) \in Nat
  BY DEF IsSeq
<1>2. body \in Seq(X) /\ Len(body) = Len(loop) /\ \A n \in 1 .. Len(loop) : body[n] = line(n)
  <2>1. \A n \in 1 .. Len(loop) : line(n) \in X
    OBVIOUS
  <2> HIDE DEF X, line
  <2> QED
    BY <2>1, <1>1
<1>3. <<head>> \in Seq(X) /\ Len(<<head>>) = 1 /\ <<head>>[1] = head
  OBVIOUS
<1>4. Lines(loop) = <<head>> \o body
  BY DEF Lines
<1> DEFINE h == <<head>>
<1> HIDE DEF X, body, h, line, head
<1>5. /\ Lines(loop) \in Seq(X) /\ Len(Lines(loop)) = Len(loop) + 1
      /\ Lines(loop)[1] = head
      /\ \A n \in 1 .. Len(loop) : Lines(loop)[n + 1] = line(n)
  <2>1. h \in Seq(X) /\ Len(h) = 1 /\ h[1] = head /\ Lines(loop) = h \o body
    BY <1>3, <1>4 DEF h
  <2> HIDE DEF h
  <2>2. /\ h \o body \in Seq(X) /\ Len(h \o body) = Len(h) + Len(body)
        /\ \A n \in 1 .. Len(h) + Len(body) :
             (h \o body)[n] = IF n <= Len(h) THEN h[n] ELSE body[n - Len(h)]
    BY <2>1, <1>2, ConcatProperties
  <2>3. (h \o body)[1] = head
    BY <2>1, <2>2, <1>1, <1>2
  <2>4. \A n \in 1 .. Len(loop) : (h \o body)[n + 1] = line(n)
    BY <2>1, <2>2, <1>1, <1>2
  <2> QED
    BY <2>1, <2>2, <2>3, <2>4, <1>1, <1>2
<1>6. Lines(loop) \in Seq(Elems(Lines(loop)))
  <2> DEFINE s == Lines(loop)
  <2>1. s \in Seq(X)
    BY <1>5
  <2> HIDE DEF s
  <2> QED
    BY <2>1 DEF Elems, s
<1>7. head.nRels = Len(loop) /\ \A n \in 1 .. Len(loop) : line(n).rel = loop[n]
  BY DEF head, line
<1> QED
  BY <1>1, <1>5, <1>6, <1>7

\* The file grows by the lines of one loop at a time.
LEMMA FileSteps ==
  ASSUME NEW loops, IsLoops(loops)
  PROVE  /\ FileOf(loops, 0) = <<>>
         /\ \A m \in 1 .. Len(loops) :
              FileOf(loops, m) = FileOf(loops, m - 1) \o Lines(loops[m])
         /\ \E X : /\ \A m \in 0 .. Len(loops) : FileOf(loops, m) \in Seq(X)
                   /\ \A m \in 1 .. Len(loops) : Lines(loops[m]) \in Seq(X)
<1> DEFINE N == Len(loops)
           X == UNION {Elems(Lines(loops[n])) : n \in 1 .. N}
           Q(g, m) == g = [n \in 0 .. m |-> IF n = 0 THEN <<>> ELSE g[n - 1] \o Lines(loops[n])]
<1>1. N \in Nat
  BY DEF IsLoops, IsSeq
<1>2. ASSUME NEW m \in 1 .. N PROVE Lines(loops[m]) \in Seq(X)
  <2>1. IsSeq(loops[m])
    BY DEF IsLoops, Elems
  <2>2. Lines(loops[m]) \in Seq(Elems(Lines(loops[m])))
    BY <2>1, LinesOfLoop
  <2>3. Elems(Lines(loops[m])) \subseteq X
    OBVIOUS
  <2> HIDE DEF X
  <2> QED
    BY <2>2, <2>3, SeqMonotonic
<1> HIDE DEF X, N
<1>3. PICK f \in [0 .. N -> Seq(X)] :
        f[0] = <<>> /\ \A n \in 1 .. N : f[n] = f[n - 1] \o Lines(loops[n])
  <2> DEFINE T == [n \in 1 .. N |-> Lines(loops[n])]
  <2>1. \A n \in 1 .. N : T[n] \in Seq(X) /\ T[n] = Lines(loops[n])
    BY <1>2
  <2> HIDE DEF T
  <2>2. Concats(N, X, T) # {}
    BY <1>1, <2>1, Concatenation
  <2> QED
    BY <2>1, <2>2 DEF Concats
<1>4. ASSUME NEW m \in 0 .. N PROVE FileOf(loops, m) = f[m]
  <2> DEFINE g == [n \in 0 .. m |-> f[n]]
  <2>1. m \in Nat /\ \A n \in 0 .. m : n \in 0 .. N
    BY <1>1
  <2>2. Q(g, m)
    <3> DEFINE next(n) == IF n = 0 THEN <<>> ELSE g[n - 1] \o Lines(loops[n])
    <3>1. \A n \in 0 .. m : f[n] = next(n)
      <4> TAKE n \in 0 .. m
      <4>1. n = 0 \/ (n \in 1 .. N /\ n # 0 /\ n - 1 \in 0 .. m)
        BY <2>1, <1>1
      <4> QED
        BY <4>1, <1>3
    <3> HIDE DEF next
    <3>2. g = [n \in 0 .. m |-> next(n)]
      BY <3>1
    <3> QED
      BY <3>2 DEF next
  <2> DEFINE h == CHOOSE e : Q(e, m)
  <2>3. Q(h, m)
    <3> HIDE DEF Q, g
    <3> QED
      BY <2>2
  <2>4. FileOf(loops, m) = h[m]
    BY DEF FileOf
  <2> HIDE DEF h, g
  <2> DEFINE P == {n \in 0 .. m : h[n] = f[n]}
  <2>5. 0 \in P
    BY <2>1, <2>3, <1>3
  <2>6. ASSUME NEW n \in 1 .. m, n - 1 \in P PROVE n \in P
    <3>1. n \in 0 .. m /\ n # 0 /\ n \in 1 .. N /\ h[n - 1] = f[n - 1]
      BY <2>6, <2>1, <1>1
    <3>2. h[n] = h[n - 1] \o Lines(loops[n])
      BY <3>1, <2>3
    <3> QED
      BY <3>1, <3>2, <1>3
  <2>7. m \in P
    <3> HIDE DEF P
    <3>1. \A n \in 1 .. m : n - 1 \in P => n \in P
      BY <2>6
    <3>2. \A n \in 0 .. m : n \in P
      BY <2>1, <2>5, <3>1, Induct
    <3> QED
      BY <3>2, <2>1
  <2> QED
    BY <2>4, <2>7
<1>5. \A m \in 1 .. N : m \in 0 .. N /\ m - 1 \in 0 .. N
  BY <1>1
<1>6. \A m \in 0 .. N : f[m] \in Seq(X)
  BY <1>3
<1>7. \A m \in 0 .. N : FileOf(loops, m) \in Seq(X)
  BY <1>4, <1>6
<1>8. \A m \in 1 .. N : FileOf(loops, m) = FileOf(loops, m - 1) \o Lines(loops[m])
  BY <1>3, <1>4, <1>5
<1>9. FileOf(loops, 0) = <<>>
  BY <1>1, <1>3, <1>4
<1> QED
  BY <1>2, <1>7, <1>8, <1>9 DEF N

\* Where the lines of each loop are, in a file of w loops.
Upto(loops, m) == Len(FileOf(loops, m))

LinesInPlace(loops, w) ==
  /\ FileOf(loops, w) \in Seq(Elems(FileOf(loops, w)))
  /\ Upto(loops, w) \in Nat
  /\ \A m \in 1 .. w :
       /\ Upto(loops, m) <= Upto(loops, w)
       /\ FileOf(loops, w)[Upto(loops, m - 1) + 1].nRels = Len(loops[m])
       /\ \A n \in 1 .. Len(loops[m]) :
            FileOf(loops, w)[Upto(loops, m - 1) + 1 + n].rel = loops[m][n]

\* Each loop's lines follow those of the loops before it, in any longer file.
LEMMA FileLines ==
  ASSUME NEW loops, IsLoops(loops)
  PROVE  /\ Len(loops) \in Nat
         /\ FileOf(loops, 0) = <<>> /\ Upto(loops, 0) = 0
         /\ \A m \in 1 .. Len(loops) :
              /\ Len(loops[m]) \in Nat
              /\ Upto(loops, m) = Upto(loops, m - 1) + 1 + Len(loops[m])
         /\ \A w \in 0 .. Len(loops) : LinesInPlace(loops, w)
<1> DEFINE N == Len(loops)
           F(m) == FileOf(loops, m)
           L(m) == Lines(loops[m])
<1>1. N \in Nat /\ F(0) = <<>> /\ Len(F(0)) = 0
  BY FileSteps DEF IsLoops, IsSeq
<1>2. PICK X : (\A m \in 0 .. N : F(m) \in Seq(X)) /\ \A m \in 1 .. N : L(m) \in Seq(X)
  BY FileSteps
<1>3. ASSUME NEW m \in 1 .. N
      PROVE  /\ F(m) = F(m - 1) \o L(m) /\ m \in 0 .. N /\ m - 1 \in 0 .. N
             /\ F(m) \in Seq(X) /\ F(m - 1) \in Seq(X) /\ L(m) \in Seq(X)
             /\ Len(L(m)) = Len(loops[m]) + 1 /\ Len(loops[m]) \in Nat
             /\ L(m)[1].nRels = Len(loops[m])
             /\ \A n \in 1 .. Len(loops[m]) : L(m)[n + 1].rel = loops[m][n]
  <2>1. IsSeq(loops[m])
    BY DEF IsLoops, Elems
  <2>2. m \in 0 .. N /\ m - 1 \in 0 .. N
    BY <1>1
  <2>3. F(m) = F(m - 1) \o L(m)
    BY FileSteps
  <2> QED
    BY <2>1, <2>2, <2>3, <1>2, LinesOfLoop
<1> HIDE DEF N, F, L
<1>4. ASSUME NEW m \in 1 .. N
      PROVE  /\ Len(F(m - 1)) \in Nat
             /\ Len(F(m)) = Len(F(m - 1)) + 1 + Len(loops[m])
             /\ \A j \in 1 .. Len(F(m - 1)) : F(m)[j] = F(m - 1)[j]
             /\ \A j \in 1 .. Len(loops[m]) + 1 : F(m)[Len(F(m - 1)) + j] = L(m)[j]
  <2>1. F(m - 1) \in Seq(X) /\ L(m) \in Seq(X) /\ F(m) = F(m - 1) \o L(m)
        /\ Len(L(m)) = Len(loops[m]) + 1 /\ Len(loops[m]) \in Nat
    BY <1>3
  <2>2. Len(F(m - 1)) \in Nat
    BY <2>1, LenProperties
  <2> DEFINE a == F(m - 1)
             b == L(m)
  <2> HIDE DEF a, b
  <2>3. /\ Len(a \o b) = Len(a) + Len(b)
        /\ \A j \in 1 .. Len(a) + Len(b) : (a \o b)[j] = IF j <= Len(a) THEN a[j] ELSE b[j - Len(a)]
    BY <2>1, ConcatProperties DEF a, b
  <2>4. /\ Len(a) \in Nat /\ Len(loops[m]) \in Nat /\ Len(b) = Len(loops[m]) + 1
        /\ F(m) = a \o b
    BY <2>1, <2>2 DEF a, b
  <2>5. ASSUME NEW j \in 1 .. Len(a) PROVE F(m)[j] = a[j]
    BY <2>3, <2>4
  <2>6. ASSUME NEW j \in 1 .. Len(loops[m]) + 1 PROVE F(m)[Len(a) + j] = b[j]
    <3>1. /\ Len(a) + j \in 1 .. Len(a) + Len(b) /\ ~ (Len(a) + j <= Len(a))
          /\ (Len(a) + j) - Len(a) = j
      BY <2>4
    <3> QED
      BY <3>1, <2>3, <2>4
  <2>7. Len(a) \in Nat /\ Len(F(m)) = Len(a) + 1 + Len(loops[m])
    <3> HIDE DEF F
    <3> DEFINE x == Len(a)
               y == Len(b)
               z == Len(loops[m])
               e == Len(F(m))
    <3>1. e = x + y /\ x \in Nat /\ z \in Nat /\ y = z + 1
      BY <2>3, <2>4, Zenon
    <3> HIDE DEF x, y, z, e
    <3>2. x \in Nat /\ e = x + 1 + z
      BY <3>1
    <3> QED
      BY <3>2, Zenon DEF x, z, e
  <2> QED
    BY <2>5, <2>6, <2>7, Zenon DEF a, b
<1>5. \A m \in 0 .. N : Len(F(m)) \in Nat
  BY <1>2, LenProperties
\* A file begins with every shorter one.
<1> DEFINE Begins(w) == \A m \in 0 .. w : /\ Len(F(m)) <= Len(F(w))
                                          /\ \A j \in 1 .. Len(F(m)) : F(w)[j] = F(m)[j]
           P == {w \in 0 .. N : Begins(w)}
<1>6. 0 \in P
  BY <1>1
<1>7. ASSUME NEW w \in 1 .. N, w - 1 \in P PROVE w \in P
  <2>1. /\ Len(F(w - 1)) \in Nat /\ Len(loops[w]) \in Nat /\ Len(F(w)) \in Nat
        /\ Len(F(w - 1)) <= Len(F(w))
        /\ \A j \in 1 .. Len(F(w - 1)) : F(w)[j] = F(w - 1)[j]
    BY <1>3, <1>4
  <2>2. Begins(w - 1)
    BY <1>7
  <2>3. ASSUME NEW m \in 0 .. w
        PROVE  Len(F(m)) <= Len(F(w)) /\ \A j \in 1 .. Len(F(m)) : F(w)[j] = F(m)[j]
    <3>1. CASE m = w
      BY <3>1, <2>1
    <3>2. CASE m # w
      <4>1. m \in 0 .. w - 1 /\ m \in 0 .. N
        BY <3>2, <1>1
      <4>2. /\ Len(F(m)) \in Nat /\ Len(F(m)) <= Len(F(w - 1))
            /\ \A j \in 1 .. Len(F(m)) : F(w - 1)[j] = F(m)[j]
        BY <4>1, <2>2, <1>5
      <4> QED
        BY <4>2, <2>1
    <3> QED
      BY <3>1, <3>2
  <2>4. w \in 0 .. N
    BY <1>1
  <2> QED
    BY <2>3, <2>4
<1>8. \A w \in 0 .. N : Begins(w)
  <2> HIDE DEF P
  <2>1. \A w \in 1 .. N : w - 1 \in P => w \in P
    BY <1>7
  <2>2. \A w \in 0 .. N : w \in P
    BY <1>1, <1>6, <2>1, Induct
  <2> QED
    BY <2>2 DEF P
<1>9. ASSUME NEW w \in 0 .. N PROVE LinesInPlace(loops, w)
  <2>1. F(w) \in Seq(Elems(F(w)))
    <3>1. F(w) \in Seq(X)
      BY <1>2
    <3> QED
      BY <3>1 DEF Elems
  <2>2. Len(F(w)) \in Nat
    BY <1>5
  <2>3. ASSUME NEW m \in 1 .. w
        PROVE  /\ Len(F(m)) <= Len(F(w))
               /\ F(w)[Len(F(m - 1)) + 1].nRels = Len(loops[m])
               /\ \A n \in 1 .. Len(loops[m]) :
                    F(w)[Len(F(m - 1)) + 1 + n].rel = loops[m][n]
    <3>1. m \in 1 .. N /\ m \in 0 .. w
      BY <1>1
    <3>2. /\ Len(F(m)) <= Len(F(w))
          /\ \A j \in 1 .. Len(F(m)) : F(w)[j] = F(m)[j]
      BY <3>1, <1>8
    <3>3. /\ Len(F(m - 1)) \in Nat /\ Len(loops[m]) \in Nat
          /\ Len(F(m)) = Len(F(m - 1)) + 1 + Len(loops[m])
          /\ \A j \in 1 .. Len(loops[m]) + 1 : F(m)[Len(F(m - 1)) + j] = L(m)[j]
          /\ L(m)[1].nRels = Len(loops[m])
          /\ \A n \in 1 .. Len(loops[m]) : L(m)[n + 1].rel = loops[m][n]
      BY <3>1, <1>3, <1>4
    <3>6. /\ Len(F(m - 1)) \in Nat /\ Len(loops[m]) \in Nat
          /\ Len(F(m)) = Len(F(m - 1)) + 1 + Len(loops[m])
      BY <3>3, Zenon
    <3>4. F(w)[Len(F(m - 1)) + 1] = L(m)[1]
      <4>1. 1 \in 1 .. Len(loops[m]) + 1 /\ Len(F(m - 1)) + 1 \in 1 .. Len(F(m))
        <5> DEFINE x == Len(F(m - 1))
                   y == Len(loops[m])
                   z == Len(F(m))
        <5>1. x \in Nat /\ y \in Nat /\ z = x + 1 + y
          BY <3>6, Zenon
        <5> HIDE DEF x, y, z
        <5>2. 1 \in 1 .. y + 1 /\ x + 1 \in 1 .. z
          BY <5>1
        <5> QED
          BY <5>2, Zenon DEF x, y, z
      <4> QED
        BY <4>1, <3>2, <3>3
    <3>5. ASSUME NEW n \in 1 .. Len(loops[m])
          PROVE  F(w)[Len(F(m - 1)) + 1 + n].rel = loops[m][n]
      <4>1. /\ n + 1 \in 1 .. Len(loops[m]) + 1
            /\ Len(F(m - 1)) + (n + 1) = Len(F(m - 1)) + 1 + n
            /\ Len(F(m - 1)) + 1 + n \in 1 .. Len(F(m))
        BY <3>6
      <4> QED
        BY <4>1, <3>2, <3>3
    <3> QED
      BY <3>2, <3>3, <3>4, <3>5
  <2> QED
    BY <2>1, <2>2, <2>3 DEF LinesInPlace, Upto, F
<1>10. \A m \in 1 .. N : Len(loops[m]) \in Nat /\ Len(F(m)) = Len(F(m - 1)) + 1 + Len(loops[m])
  BY <1>3, <1>4
<1> QED
  BY <1>1, <1>9, <1>10 DEF Upto, F, N

-----------------------------------------------------------------------------
(***************************************************************************)
(* Where the driver is: in the list, in the JSON file, in CHiLL's file.    *)
(***************************************************************************)
ControlInv ==
  /\ list \in KernelLists
  /\ pc \in {"list", "ufs", "rules", "loops", "rels", "decide", "done", "abort"}
  /\ k \in 0 .. Len(list) /\ (pc \notin {"list", "done"} => k >= 1)
  /\ pc = "ufs" => u \in 1 .. Len(Kernel.ufs) + 1
  /\ pc = "rules" => u \in 1 .. Len(Kernel.rules) + 1

\* What the JSON files hold.
LEMMA KernelFacts ==
  ASSUME NEW kernels \in KernelLists, NEW n \in 1 .. Len(kernels)
  PROVE  /\ Len(kernels) \in Nat
         /\ IsSeq(kernels[n].ufs) /\ IsSeq(kernels[n].rules) /\ IsLoops(kernels[n].loops)
         /\ Len(kernels[n].ufs) \in Nat /\ Len(kernels[n].rules) \in Nat
         /\ \A d \in Elems(kernels[n].ufs) : WellNamed(d)
<1>1. kernels[n] \in Elems(kernels)
  BY DEF Elems
<1> QED
  BY <1>1, DriverInputs DEF IsSeq, IsLoops

\* The kernel, declaration and rule at hand stay within the list.
LEMMA ControlKept ==
  ASSUME ControlInv, [Next]_vars
  PROVE  ControlInv'
<1>1. Len(list) \in Nat
  BY DriverInputs DEF ControlInv, IsSeq
<1>2. ASSUME NEW n \in 1 .. Len(list)
      PROVE  Len(list[n].ufs) \in Nat /\ Len(list[n].rules) \in Nat
  BY <1>2, KernelFacts DEF ControlInv
<1>3. CASE NextKernel
  <2>1. k' = k + 1 /\ k + 1 \in 1 .. Len(list) /\ Kernel' = list[k + 1]
    BY <1>3, <1>1 DEF NextKernel, ControlInv, Kernel
  <2>2. Len(list[k + 1].ufs) \in Nat
    BY <2>1, <1>2
  <2> QED
    BY <1>1, <1>3, <2>1, <2>2 DEF NextKernel, ControlInv
<1>4. CASE AddUFC \/ UFCsAdded \/ AddRule
  <2>1. k \in 1 .. Len(list) /\ Kernel' = list[k] /\ Kernel = list[k]
    BY <1>4, <1>1 DEF AddUFC, UFCsAdded, AddRule, ControlInv, Kernel
  <2>2. Len(list[k].ufs) \in Nat /\ Len(list[k].rules) \in Nat
    BY <2>1, <1>2
  <2> QED
    BY <1>4, <2>1, <2>2 DEF AddUFC, UFCsAdded, AddRule, ControlInv
<1>5. CASE EndOfList \/ RunChill \/ NextLoop \/ EndOfFile
  BY <1>5, <1>1 DEF EndOfList, RunChill, NextLoop, EndOfFile, ControlInv
<1>6. CASE ReadRelation \/ StartAnalysis \/ Skip
  BY <1>6 DEF ReadRelation, StartAnalysis, Skip, ControlInv
<1>7. CASE Decide \/ EndCombination
  BY <1>7 DEF Decide, EndCombination, ControlInv
<1>8. CASE UNCHANGED vars
  BY <1>8 DEF vars, driverVars, ControlInv, Kernel
<1> QED
  BY <1>3, <1>4, <1>5, <1>6, <1>7, <1>8 DEF Next

\* The control invariant, in every state.
LEMMA Control == Spec => []ControlInv
<1>1. Init => ControlInv
  BY DriverInputs DEF Init, ControlInv, IsSeq
<1> QED
  BY <1>1, ControlKept, PTL DEF Spec

\* The place in CHiLL's file.
File == FileOf(Kernel.loops, written)
ReadSoFar == Upto(Kernel.loops, loopNo) - ct

FileInv ==
  /\ ct \in Nat /\ loopNo \in Nat
  /\ pc \notin {"rels", "abort"} => ct = 0
  /\ pc \in {"ufs", "rules"} => loopNo = 0
  /\ pc \in {"list", "done"} /\ k > 0 => loopNo = written
  /\ pc \in {"loops", "rels", "decide"} =>
       /\ written \in 0 .. Len(Kernel.loops) /\ loopNo <= written
       /\ depf = SubSeq(File, ReadSoFar + 1, Len(File))
  /\ pc \in {"rels", "decide"} => loopNo >= 1
  /\ pc = "rels" => ct <= Len(TheLoop)

\* The next line, while there is one, and what remains after it.
LEMMA NextLine ==
  ASSUME ControlInv, FileInv, pc \in {"loops", "rels"}
  PROVE  /\ IsLoops(Kernel.loops) /\ Len(Kernel.loops) \in Nat
         /\ written \in Nat /\ written <= Len(Kernel.loops) /\ loopNo <= written
         /\ ReadSoFar \in Int
         /\ pc = "loops" /\ depf = <<>> => loopNo = written
         /\ pc = "loops" /\ depf # <<>> =>
              /\ loopNo + 1 <= written
              /\ Len(Kernel.loops[loopNo + 1]) \in Nat
              /\ Head(depf).nRels = Len(Kernel.loops[loopNo + 1])
              /\ Tail(depf) = SubSeq(File, ReadSoFar + 2, Len(File))
              /\ Upto(Kernel.loops, loopNo + 1) - Len(Kernel.loops[loopNo + 1]) = ReadSoFar + 1
         /\ pc = "rels" /\ ct > 0 =>
              /\ Len(TheLoop) \in Nat /\ Len(TheLoop) - ct + 1 \in 1 .. Len(TheLoop)
              /\ Head(depf).rel = TheLoop[Len(TheLoop) - ct + 1]
              /\ Tail(depf) = SubSeq(File, ReadSoFar + 2, Len(File))
<1> DEFINE L == Kernel.loops
           at(m) == Upto(L, m)
           S == Elems(File)
<1>1. IsLoops(L) /\ Len(L) \in Nat /\ Kernel = list[k]
  <2>1. list \in KernelLists /\ k \in 1 .. Len(list)
    BY DriverInputs DEF ControlInv, IsSeq
  <2>2. IsLoops(L) /\ Kernel = list[k]
    BY <2>1, KernelFacts DEF Kernel
  <2> QED
    BY <2>2 DEF IsLoops, IsSeq
<1>2. written \in 0 .. Len(L) /\ loopNo \in 0 .. written /\ ct \in Nat /\ (pc = "loops" => ct = 0)
  BY <1>1 DEF FileInv
<1>3. /\ at(0) = 0
      /\ \A m \in 1 .. Len(L) : Len(L[m]) \in Nat /\ at(m) = at(m - 1) + 1 + Len(L[m])
      /\ LinesInPlace(L, written)
  BY <1>1, <1>2, FileLines
<1>4. File \in Seq(S) /\ Len(File) \in Nat /\ at(written) = Len(File)
  BY <1>3 DEF LinesInPlace, File, Upto
<1>5. \A m \in 1 .. written :
        /\ at(m) <= Len(File) /\ Len(L[m]) \in Nat /\ at(m) = at(m - 1) + 1 + Len(L[m])
        /\ File[at(m - 1) + 1].nRels = Len(L[m])
        /\ \A n \in 1 .. Len(L[m]) : File[at(m - 1) + 1 + n].rel = L[m][n]
  <2> TAKE m \in 1 .. written
  <2>1. m \in 1 .. Len(L)
    BY <1>1, <1>2
  <2> QED
    BY <2>1, <1>3, <1>4 DEF LinesInPlace, File
<1>6. /\ \A m \in 0 .. written : at(m) \in Nat
      /\ depf = SubSeq(File, ReadSoFar + 1, Len(File))
  <2>1. \A m \in 0 .. Len(L) : at(m) \in Nat
    BY <1>1, FileLines DEF LinesInPlace
  <2> QED
    BY <2>1, <1>1, <1>2 DEF FileInv
<1>7. ReadSoFar = at(loopNo) - ct /\ at(loopNo) \in Nat /\ ReadSoFar \in Int
  BY <1>2, <1>6 DEF ReadSoFar
<1> HIDE DEF L, at, S
<1>8. ASSUME ReadSoFar + 1 \in 1 .. Len(File)
      PROVE  /\ Head(depf) = File[ReadSoFar + 1]
             /\ Tail(depf) = SubSeq(File, ReadSoFar + 2, Len(File))
  <2>1. (ReadSoFar + 1) + 1 = ReadSoFar + 2 /\ Len(File) \in ReadSoFar + 1 .. Len(File)
    BY <1>7, <1>8, <1>4
  <2> QED
    BY <2>1, <1>4, <1>6, <1>8, HeadTailOfSubSeq
<1>9. ASSUME pc = "loops", depf = <<>> PROVE loopNo = written
  <2> SUFFICES ASSUME loopNo # written PROVE FALSE
    OBVIOUS
  <2>1. loopNo + 1 \in 1 .. written /\ (loopNo + 1) - 1 = loopNo
    BY <1>2
  <2>2. /\ at(loopNo + 1) = at(loopNo) + 1 + Len(L[loopNo + 1])
        /\ Len(L[loopNo + 1]) \in Nat /\ at(loopNo + 1) <= Len(File)
    BY <2>1, <1>5
  <2>3. ReadSoFar = at(loopNo) /\ ReadSoFar + 1 <= Len(File)
    BY <2>2, <1>2, <1>4, <1>7, <1>9
  <2>4. \A j \in ReadSoFar + 1 .. Len(File) : File[j] \in S
    BY <2>3, <1>4, <1>7, ElementOfSeq
  <2>5. Len(depf) = Len(File) - (ReadSoFar + 1) + 1
    BY <2>3, <2>4, <1>4, <1>6, <1>7, SubSeqProperties
  <2>6. Len(depf) = 0
    BY <1>9
  <2> QED
    BY <2>3, <2>5, <2>6, <1>4, <1>7
<1>10. ASSUME pc = "loops", depf # <<>>
       PROVE  /\ loopNo + 1 <= written /\ Len(L[loopNo + 1]) \in Nat
              /\ Head(depf).nRels = Len(L[loopNo + 1])
              /\ Tail(depf) = SubSeq(File, ReadSoFar + 2, Len(File))
              /\ at(loopNo + 1) - Len(L[loopNo + 1]) = ReadSoFar + 1
  <2>1. ReadSoFar = at(loopNo)
    BY <1>2, <1>7, <1>10
  <2>2. loopNo # written
    <3>1. ASSUME loopNo = written PROVE Len(File) < ReadSoFar + 1
      <4>1. ReadSoFar = Len(File)
        BY <3>1, <2>1, <1>4, Zenon
      <4> QED
        BY <4>1, <1>4
    <3>2. Len(File) < ReadSoFar + 1 => depf = <<>>
      BY <1>4, <1>6, <1>7, SubSeqEmpty
    <3> QED
      BY <3>1, <3>2, <1>10
  <2>3. loopNo + 1 \in 1 .. written /\ (loopNo + 1) - 1 = loopNo
    BY <2>2, <1>2
  <2>4. /\ at(loopNo + 1) <= Len(File) /\ Len(L[loopNo + 1]) \in Nat
        /\ at(loopNo + 1) = at(loopNo) + 1 + Len(L[loopNo + 1])
        /\ File[at(loopNo) + 1].nRels = Len(L[loopNo + 1])
    BY <2>3, <1>5
  <2>5. ReadSoFar + 1 \in 1 .. Len(File) /\ at(loopNo + 1) - Len(L[loopNo + 1]) = ReadSoFar + 1
    BY <2>1, <2>4, <1>4, <1>7
  <2>6. Head(depf) = File[at(loopNo) + 1] /\ Tail(depf) = SubSeq(File, ReadSoFar + 2, Len(File))
    BY <2>1, <2>5, <1>8, Zenon
  <2>7. loopNo + 1 <= written
    BY <2>3, <1>2
  <2> QED
    BY <2>4, <2>5, <2>6, <2>7, Zenon
<1>11. ASSUME pc = "rels", ct > 0
       PROVE  /\ Len(TheLoop) \in Nat /\ Len(TheLoop) - ct + 1 \in 1 .. Len(TheLoop)
              /\ Head(depf).rel = TheLoop[Len(TheLoop) - ct + 1]
              /\ Tail(depf) = SubSeq(File, ReadSoFar + 2, Len(File))
  <2>1. loopNo \in 1 .. written /\ ct <= Len(TheLoop) /\ TheLoop = L[loopNo]
    BY <1>2, <1>11 DEF FileInv, TheLoop, L
  <2>2. /\ at(loopNo) <= Len(File) /\ Len(L[loopNo]) \in Nat /\ at(loopNo - 1) \in Nat
        /\ at(loopNo) = at(loopNo - 1) + 1 + Len(L[loopNo])
        /\ \A n \in 1 .. Len(L[loopNo]) : File[at(loopNo - 1) + 1 + n].rel = L[loopNo][n]
    <3>1. loopNo - 1 \in 0 .. written
      BY <2>1, <1>2
    <3> QED
      BY <2>1, <3>1, <1>5, <1>6
  <2> DEFINE n == Len(TheLoop) - ct + 1
             b == at(loopNo - 1)
  <2>3. n \in 1 .. Len(TheLoop) /\ Len(TheLoop) \in Nat
    BY <2>1, <2>2, <1>2, <1>11
  <2>4. ReadSoFar + 1 = b + 1 + n /\ ReadSoFar + 1 \in 1 .. Len(File)
    <3> DEFINE x == Len(TheLoop)
               y == at(loopNo)
    <3>1. /\ x \in Nat /\ b \in Nat /\ y = b + 1 + x /\ y <= Len(File) /\ Len(File) \in Nat
          /\ ct \in Nat /\ ct > 0 /\ ReadSoFar = y - ct /\ n = x - ct + 1 /\ n \in 1 .. x
      BY <2>1, <2>2, <2>3, <1>2, <1>4, <1>7, <1>11, Zenon
    <3> HIDE DEF x, y, b, n
    <3> QED
      BY <3>1
  <2> HIDE DEF n
  <2>5. File[ReadSoFar + 1].rel = TheLoop[n]
    BY <2>1, <2>2, <2>3, <2>4
  <2> QED
    BY <2>3, <2>4, <2>5, <1>8 DEF n
<1>12. written \in Nat /\ written <= Len(L) /\ loopNo <= written
  BY <1>1, <1>2
<1> QED
  BY <1>1, <1>7, <1>9, <1>10, <1>11, <1>12, Zenon DEF L, at

\* What is left to read stays the rest of CHiLL's file.
LEMMA FileKept ==
  ASSUME ControlInv, FileInv, [Next]_vars
  PROVE  FileInv'
<1>1. CASE NextKernel \/ EndOfList \/ AddUFC \/ UFCsAdded \/ AddRule
  BY <1>1 DEF NextKernel, EndOfList, AddUFC, UFCsAdded, AddRule, loopVars, FileInv, ControlInv
<1>2. CASE RunChill
  <2>1. /\ pc = "rules" /\ pc' = "loops" /\ Kernel' = Kernel /\ written' \in 0 .. Len(Kernel.loops)
        /\ UNCHANGED <<loopNo, ct>> /\ loopNo = 0 /\ ct = 0
        /\ depf' = FileOf(Kernel.loops, written')
    BY <1>2 DEF RunChill, loopVars, FileInv, Kernel
  <2>2. list \in KernelLists /\ k \in 1 .. Len(list)
    BY <2>1, DriverInputs DEF ControlInv, IsSeq
  <2>3. IsLoops(Kernel.loops)
    BY <2>2, KernelFacts DEF Kernel
  <2>4. /\ Len(Kernel.loops) \in Nat /\ Upto(Kernel.loops, 0) = 0
        /\ LinesInPlace(Kernel.loops, written')
    BY <2>1, <2>3, FileLines
  <2>5. File' = FileOf(Kernel.loops, written') /\ ReadSoFar' = 0
    BY <2>1, <2>4 DEF File, ReadSoFar
  <2>6. depf' = SubSeq(File', ReadSoFar' + 1, Len(File'))
    <3>1. File' \in Seq(Elems(File'))
      BY <2>4, <2>5 DEF LinesInPlace
    <3>2. SubSeq(File', 1, Len(File')) = File'
      BY <3>1, SubSeqFull
    <3> QED
      BY <2>1, <2>5, <3>2
  <2>7. loopNo' <= written'
    BY <2>1, <2>4
  <2> QED
    BY <2>1, <2>6, <2>7 DEF FileInv
<1>3. CASE NextLoop
  <2>1. /\ pc = "loops" /\ depf # <<>> /\ pc' = "rels" /\ Kernel' = Kernel /\ written' = written
        /\ ct' = Head(depf).nRels /\ depf' = Tail(depf) /\ loopNo' = loopNo + 1
    BY <1>3 DEF NextLoop, Kernel
  <2>2. /\ loopNo + 1 <= written /\ Len(Kernel.loops[loopNo + 1]) \in Nat
        /\ Head(depf).nRels = Len(Kernel.loops[loopNo + 1])
        /\ Tail(depf) = SubSeq(File, ReadSoFar + 2, Len(File))
        /\ Upto(Kernel.loops, loopNo + 1) - Len(Kernel.loops[loopNo + 1]) = ReadSoFar + 1
        /\ ReadSoFar \in Int
    BY <2>1, NextLine
  <2>3. File' = File /\ ReadSoFar' = ReadSoFar + 1 /\ TheLoop' = Kernel.loops[loopNo + 1]
    BY <2>1, <2>2 DEF File, ReadSoFar, TheLoop
  <2>4. depf' = SubSeq(File', ReadSoFar' + 1, Len(File'))
    <3>1. (ReadSoFar + 1) + 1 = ReadSoFar + 2
      BY <2>2
    <3> QED
      BY <2>1, <2>2, <2>3, <3>1
  <2>5. /\ ct' \in Nat /\ loopNo' \in Nat /\ loopNo' >= 1 /\ loopNo' <= written'
        /\ written' \in 0 .. Len(Kernel'.loops) /\ ct' <= Len(TheLoop')
    BY <2>1, <2>2, <2>3 DEF FileInv
  <2> QED
    BY <2>1, <2>4, <2>5 DEF FileInv
<1>4. CASE EndOfFile
  <2>1. loopNo = written
    BY <1>4, NextLine DEF EndOfFile
  <2> QED
    BY <1>4, <2>1 DEF EndOfFile, loopVars, FileInv
<1>5. CASE ReadRelation
  <2>1. /\ pc = "rels" /\ ct > 0 /\ pc' \in {"rels", "abort"} /\ Kernel' = Kernel
        /\ UNCHANGED <<written, loopNo, k>> /\ ct' = ct - 1 /\ depf' = Tail(depf)
    BY <1>5 DEF ReadRelation, Kernel
  <2>2. /\ Len(TheLoop) \in Nat /\ ReadSoFar \in Int
        /\ Tail(depf) = SubSeq(File, ReadSoFar + 2, Len(File))
    BY <2>1, NextLine
  <2>3. ct \in Nat /\ ct' \in Nat /\ ct <= Len(TheLoop) /\ loopNo \in Nat
    BY <2>1 DEF FileInv
  <2>4. Upto(Kernel.loops, loopNo) \in Int
    <3>1. list \in KernelLists /\ k \in 1 .. Len(list)
      BY <2>1, DriverInputs DEF ControlInv, IsSeq
    <3>2. IsLoops(Kernel.loops) /\ loopNo \in 0 .. Len(Kernel.loops)
      BY <2>1, <2>3, <3>1, NextLine
    <3> QED
      BY <3>2, FileLines DEF LinesInPlace
  <2>5. File' = File /\ ReadSoFar' = ReadSoFar + 1 /\ TheLoop' = TheLoop
    <3>1. ReadSoFar' = Upto(Kernel.loops, loopNo) - (ct - 1)
      BY <2>1 DEF ReadSoFar
    <3>2. ReadSoFar' = ReadSoFar + 1
      BY <3>1, <2>3, <2>4 DEF ReadSoFar
    <3> QED
      BY <2>1, <3>2 DEF File, TheLoop
  <2>6. depf' = SubSeq(File', ReadSoFar' + 1, Len(File'))
    <3>1. (ReadSoFar + 1) + 1 = ReadSoFar + 2
      BY <2>2
    <3> QED
      BY <2>1, <2>2, <2>5, <3>1
  <2>7. ct' <= Len(TheLoop')
    BY <2>1, <2>2, <2>3, <2>5
  <2> QED
    BY <2>1, <2>3, <2>6, <2>7 DEF FileInv
<1>6. CASE StartAnalysis \/ Skip \/ Decide \/ EndCombination
  <2>1. /\ pc \in {"rels", "decide"} /\ pc' \in {"decide", "loops", "abort"} /\ ct = 0
        /\ UNCHANGED <<written, loopNo, depf, ct, k, list>>
    <3>1. StartAnalysis => pc = "rels" /\ pc' = "decide" /\ ct = 0
                           /\ UNCHANGED <<written, loopNo, depf, ct, k, list>>
      BY DEF StartAnalysis
    <3>2. Skip \/ Decide \/ EndCombination =>
            /\ pc = "decide" /\ pc' \in {"decide", "loops", "abort"}
            /\ UNCHANGED <<written, loopNo, depf, ct, k, list>>
      BY DEF Skip, Decide, EndCombination
    <3>3. pc = "decide" => ct = 0
      BY DEF FileInv
    <3> QED
      BY <1>6, <3>1, <3>2, <3>3
  <2>2. /\ Kernel' = Kernel /\ File' = File /\ ReadSoFar' = ReadSoFar /\ TheLoop' = TheLoop
    BY <2>1 DEF Kernel, File, ReadSoFar, TheLoop
  <2> QED
    BY <2>1, <2>2 DEF FileInv
<1>7. CASE UNCHANGED vars
  BY <1>7 DEF vars, driverVars, FileInv, Kernel, File, ReadSoFar, TheLoop
<1> QED
  BY <1>1, <1>2, <1>3, <1>4, <1>5, <1>6, <1>7 DEF Next

\* The driver is always at the place in the file its counters say.
LEMMA InTheFile == Spec => [](ControlInv /\ FileInv)
<1>1. Init => FileInv
  BY DEF Init, FileInv
<1> QED
  BY <1>1, FileKept, Control, PTL DEF Spec

\* findFullParWithZ3.cc:210: when the driver leaves a kernel it has processed
\* every loop CHiLL wrote.
THEOREM NoLoopForgotten == Spec => []AllLoopsProcessed
<1>1. FileInv => AllLoopsProcessed
  BY DEF FileInv, AllLoopsProcessed
<1> QED
  BY <1>1, InTheFile, PTL

-----------------------------------------------------------------------------
(***************************************************************************)
(* What has been said about the loop.                                      *)
(***************************************************************************)
Verdicts == [par : BOOLEAN, by : 0 .. NRL - 1]

SaidInv ==
  /\ said \in Seq(Verdicts)
  /\ foundUnSat \in BOOLEAN
  /\ pc \in {"ufs", "rules"} => said = <<>>
  /\ pc = "loops" /\ loopNo > 0 => said # <<>>
  /\ pc = "rels" => ~foundUnSat
  /\ pc \in {"rels", "decide"} =>
       IF foundUnSat THEN Len(said) = 1 /\ said[1].par ELSE said = <<>>
  /\ pc = "decide" => rlc \in 0 .. NRL - 1

\* Each step leaves at most one positive verdict, and one before the next loop.
LEMMA SaidKept ==
  ASSUME SaidInv, FileInv, [Next]_vars
  PROVE  SaidInv'
<1>1. CASE NextKernel \/ NextLoop
  BY <1>1, EmptySeq DEF NextKernel, NextLoop, SaidInv
<1>2. CASE EndOfList \/ AddUFC \/ UFCsAdded \/ AddRule \/ RunChill \/ EndOfFile
  BY <1>2 DEF EndOfList, AddUFC, UFCsAdded, AddRule, RunChill, EndOfFile, loopVars, SaidInv, FileInv
<1>3. CASE ReadRelation \/ StartAnalysis \/ Skip \/ Decide
  BY <1>3 DEF ReadRelation, StartAnalysis, Skip, Decide, SaidInv, NRL
<1>4. CASE EndCombination
  <2> DEFINE yes == [par |-> TRUE, by |-> rlc]
             no == [par |-> FALSE, by |-> rlc]
  <2>1. /\ pc = "decide" /\ pc' \in {"decide", "loops"}
        /\ foundUnSat' \in {foundUnSat, TRUE}
        /\ \/ said' = said /\ foundUnSat' = foundUnSat /\ (rlc < NRL - 1 \/ foundUnSat)
           \/ said' = said /\ foundUnSat /\ foundUnSat'
           \/ said' = Append(said, yes) /\ ~foundUnSat /\ foundUnSat'
           \/ said' = Append(said, no) /\ pc' = "loops"
        /\ pc' = "decide" => rlc < NRL - 1 /\ rlc' = rlc + 1
        /\ pc' = "loops" => ~ (rlc < NRL - 1)
    <3>1. /\ pc = "decide" /\ rlc \in 0 .. NRL - 1
          /\ IF rlc < NRL - 1 THEN pc' = "decide" /\ rlc' = rlc + 1 ELSE pc' = "loops"
      BY <1>4 DEF EndCombination, SaidInv
    <3>2. /\ pc = "decide" /\ pc' \in {"decide", "loops"}
          /\ pc' = "decide" => rlc < NRL - 1 /\ rlc' = rlc + 1
          /\ pc' = "loops" => ~ (rlc < NRL - 1)
      BY <3>1
    <3>3. CASE unSatFound = Len(deps)
      <4>1. IF foundUnSat THEN said' = said ELSE said' = Append(said, yes)
        BY <1>4, <3>3 DEF EndCombination
      <4>2. foundUnSat'
        BY <1>4, <3>3 DEF EndCombination
      <4>3. foundUnSat' = TRUE
        BY <1>4, <3>3 DEF EndCombination
      <4> QED
        BY <3>2, <4>1, <4>2, <4>3, Zenon
    <3>4. CASE unSatFound # Len(deps)
      <4>1. IF rlc = NRL - 1 THEN said' = Append(said, no) ELSE said' = said
        BY <1>4, <3>4 DEF EndCombination
      <4>2. foundUnSat' = foundUnSat
        BY <1>4, <3>4 DEF EndCombination
      <4>3. IF rlc = NRL - 1 THEN pc' = "loops" ELSE rlc < NRL - 1
        BY <3>1 DEF NRL
      <4> QED
        BY <3>2, <4>1, <4>2, <4>3, Zenon
    <3> QED
      BY <3>3, <3>4
  <2>2. /\ said \in Seq(Verdicts) /\ yes \in Verdicts /\ no \in Verdicts /\ rlc \in 0 .. NRL - 1 /\ foundUnSat \in BOOLEAN
        /\ IF foundUnSat THEN Len(said) = 1 /\ said[1].par ELSE said = <<>>
        /\ yes.par = TRUE
    BY <2>1 DEF SaidInv, Verdicts
  <2> HIDE DEF yes, no
  <2>3. /\ Append(said, yes) \in Seq(Verdicts) /\ Append(said, yes) # <<>>
        /\ Len(Append(said, yes)) = Len(said) + 1 /\ Append(said, yes)[Len(said) + 1] = yes
        /\ Append(said, no) \in Seq(Verdicts) /\ Append(said, no) # <<>>
    BY <2>2, AppendProperties
  <2>4. Len(said) = 1 => said # <<>>
    OBVIOUS
  <2>5. said' \in Seq(Verdicts) /\ foundUnSat' \in BOOLEAN
    BY <2>1, <2>2, <2>3
  <2>6. pc' = "loops" => said' # <<>>
    BY <2>1, <2>2, <2>3, <2>4
  <2>7. pc' = "decide" => IF foundUnSat' THEN Len(said') = 1 /\ said'[1].par ELSE said' = <<>>
    <3>1. said = <<>> => Len(said) = 0
      OBVIOUS
    <3>2. ~foundUnSat => Len(Append(said, yes)) = 1 /\ Append(said, yes)[1].par
      BY <2>2, <2>3, <3>1
    <3> QED
      BY <2>1, <2>2, <3>2, Zenon
  <2>8. pc' = "decide" => rlc' \in 0 .. NRL - 1
    BY <2>1, <2>2 DEF NRL
  <2> QED
    BY <2>1, <2>5, <2>6, <2>7, <2>8 DEF SaidInv
<1>5. CASE UNCHANGED vars
  BY <1>5 DEF vars, driverVars, SaidInv
<1> QED
  BY <1>1, <1>2, <1>3, <1>4, <1>5 DEF Next

\* The same in every state.
LEMMA SaidAlways == Spec => []SaidInv
<1>1. Init => SaidInv
  BY EmptySeq DEF Init, SaidInv
<1>2. SaidInv /\ FileInv /\ [Next]_vars => SaidInv'
  BY SaidKept
<1> QED
  BY <1>1, <1>2, InTheFile, PTL DEF Spec

\* findFullParWithZ3.cc:285-302: no loop the driver has gone through is
\* left without a verdict.
THEOREM EveryLoopGetsVerdict == Spec => []EveryLoopJudged
<1>1. SaidInv => EveryLoopJudged
  BY DEF SaidInv, EveryLoopJudged
<1> QED
  BY <1>1, SaidAlways, PTL

-----------------------------------------------------------------------------
(***************************************************************************)
(* The query getUQR builds: how it depends on the rules and the kinds in   *)
(* use.                                                                    *)
(***************************************************************************)
Start(ufs) == [ufs |-> ufs, facts |-> {}]

\* getUQR, for any list of rules.
QueryOf(rules, r, ufs) ==
  LET upTo[n \in 0 .. Len(rules)] ==
        IF n = 0 THEN [ufs |-> ufs, facts |-> {}]
        ELSE IF rules[n].type \in check_useRule[r]
               THEN getZ3Form(rules[n], upTo[n - 1])
               ELSE upTo[n - 1]
  IN IF r > 0 THEN upTo[Len(rules)] ELSE [ufs |-> ufs, facts |-> {}]

\* The query after each rule.
After(rule, r, q) == IF rule.type \in check_useRule[r] THEN getZ3Form(rule, q) ELSE q

Builds(f, rules, r, ufs) ==
  /\ f[0] = Start(ufs)
  /\ \A n \in 1 .. Len(rules) : f[n] = After(rules[n], r, f[n - 1])
  /\ QueryOf(rules, r, ufs) = f[Len(rules)]

\* The recursion of getUQR has the values its lines compute.
LEMMA QueryBuilt ==
  ASSUME NEW rules, Len(rules) \in Nat, NEW r \in 0 .. NRL - 1, NEW ufs
  PROVE  \E f : Builds(f, rules, r, ufs)
<1> DEFINE N == Len(rules)
           A == ufs \cup UNION {rules[n].ufs : n \in 1 .. N}
           B == {rules[n].fact : n \in 1 .. N}
           V == [ufs : SUBSET A, facts : SUBSET B]
           S == [n \in 1 .. N |-> [q \in V |-> After(rules[n], r, q)]]
           z == Start(ufs)
           Q(g) == g = [n \in 0 .. N |-> IF n = 0 THEN [ufs |-> ufs, facts |-> {}]
                                         ELSE IF rules[n].type \in check_useRule[r]
                                                THEN getZ3Form(rules[n], g[n - 1])
                                                ELSE g[n - 1]]
<1>1. N \in Nat /\ z \in V
  BY DEF Start
<1>2. ASSUME NEW n \in 1 .. N, NEW q \in V PROVE After(rules[n], r, q) \in V
  <2>1. rules[n].ufs \subseteq A /\ rules[n].fact \in B
    OBVIOUS
  <2>2. q.ufs \subseteq A /\ q.facts \subseteq B /\ q = [ufs |-> q.ufs, facts |-> q.facts]
    OBVIOUS
  <2> HIDE DEF A, B
  <2> QED
    BY <2>1, <2>2 DEF After, getZ3Form
<1> HIDE DEF N, V, z
<1>3. S \in Steps(N, V)
  BY <1>2 DEF Steps
<1>4. \A n \in 1 .. N : \A q \in V : S[n][q] = After(rules[n], r, q)
  OBVIOUS
<1> HIDE DEF S
<1>5. PICK f \in [0 .. N -> V] : f[0] = z /\ \A n \in 1 .. N : f[n] = S[n][f[n - 1]]
  <2>1. Iterates(N, V, z, S) # {}
    BY <1>1, <1>3, Recursion
  <2> QED
    BY <2>1 DEF Iterates
<1>6. \A n \in 1 .. N : n \in 0 .. N /\ n - 1 \in 0 .. N /\ n # 0
  BY <1>1
<1>7. \A n \in 1 .. N : f[n] = After(rules[n], r, f[n - 1])
  BY <1>4, <1>5, <1>6
<1>8. Q(f)
  <2> DEFINE next(n) == IF n = 0 THEN [ufs |-> ufs, facts |-> {}]
                        ELSE IF rules[n].type \in check_useRule[r]
                               THEN getZ3Form(rules[n], f[n - 1])
                               ELSE f[n - 1]
  <2>1. \A n \in 0 .. N : f[n] = next(n)
    <3> TAKE n \in 0 .. N
    <3>1. CASE n = 0
      BY <3>1, <1>5 DEF z, Start
    <3>2. CASE n # 0
      <4>1. n \in 1 .. N
        BY <3>2, <1>1
      <4> QED
        BY <4>1, <3>2, <1>7, Zenon DEF After
    <3> QED
      BY <3>1, <3>2
  <2> HIDE DEF next
  <2>2. f = [n \in 0 .. N |-> next(n)]
    BY <2>1, <1>5
  <2> QED
    BY <2>2 DEF next
<1> DEFINE h == CHOOSE g : Q(g)
<1>9. Q(h)
  <2> HIDE DEF Q
  <2> QED
    BY <1>8
<1>10. QueryOf(rules, r, ufs) = IF r > 0 THEN h[N] ELSE [ufs |-> ufs, facts |-> {}]
  BY DEF QueryOf, N
<1> HIDE DEF h
<1>11. \A n \in 0 .. N : h[n] = f[n]
  <2> DEFINE P == {n \in 0 .. N : h[n] = f[n]}
  <2>1. 0 \in P
    <3>1. 0 \in 0 .. N
      BY <1>1
    <3> QED
      BY <3>1, <1>8, <1>9, Zenon
  <2>2. ASSUME NEW n \in 1 .. N, n - 1 \in P PROVE n \in P
    <3>1. n \in 0 .. N /\ n # 0 /\ h[n - 1] = f[n - 1]
      BY <2>2, <1>6
    <3> QED
      BY <3>1, <1>8, <1>9, Zenon
  <2> HIDE DEF P
  <2>3. \A n \in 1 .. N : n - 1 \in P => n \in P
    BY <2>2
  <2>4. \A n \in 0 .. N : n \in P
    BY <1>1, <2>1, <2>3, Induct
  <2> QED
    BY <2>4 DEF P
<1>12. CASE r > 0
  <2>1. N \in 0 .. N
    BY <1>1
  <2> QED
    BY <2>1, <1>12, <1>5, <1>7, <1>10, <1>11 DEF Builds, N, z
\* No rule is used in combination 0.
<1>13. CASE ~ (r > 0)
  <2>1. r = 0 /\ check_useRule[r] = {}
    BY <1>13 DEF NRL, check_useRule
  <2> DEFINE P == {n \in 0 .. N : f[n] = z}
  <2>2. 0 \in P
    BY <1>1, <1>5
  <2>3. \A n \in 1 .. N : n - 1 \in P => n \in P
    BY <2>1, <1>6, <1>7 DEF After
  <2> HIDE DEF P
  <2>4. \A n \in 0 .. N : n \in P
    BY <1>1, <2>2, <2>3, Induct
  <2>5. f[N] = z /\ QueryOf(rules, r, ufs) = z
    BY <2>1, <2>4, <1>1, <1>10 DEF P, z, Start
  <2> QED
    BY <2>5, <1>5, <1>7 DEF Builds, N, z
<1> QED
  BY <1>12, <1>13

\* One query mentions and asserts no more than another.
Within(q, p) == q.ufs \subseteq p.ufs /\ q.facts \subseteq p.facts

\* More kinds of rules, more facts.
LEMMA QueryMonotone ==
  ASSUME NEW rules, Len(rules) \in Nat, NEW ufs,
         NEW r \in 0 .. NRL - 1, NEW s \in 0 .. NRL - 1,
         check_useRule[r] \subseteq check_useRule[s]
  PROVE  Within(QueryOf(rules, r, ufs), QueryOf(rules, s, ufs))
<1>1. PICK f : Builds(f, rules, r, ufs)
  BY QueryBuilt
<1>2. PICK g : Builds(g, rules, s, ufs)
  BY QueryBuilt
<1> DEFINE N == Len(rules)
           P == {n \in 0 .. N : Within(f[n], g[n])}
<1>3. 0 \in P
  BY <1>1, <1>2 DEF Builds, Within
<1>4. ASSUME NEW n \in 1 .. N, n - 1 \in P PROVE n \in P
  <2>1. n \in 0 .. N /\ Within(f[n - 1], g[n - 1])
    BY <1>4
  <2>2. /\ f[n] = After(rules[n], r, f[n - 1])
        /\ g[n] = After(rules[n], s, g[n - 1])
    BY <1>1, <1>2 DEF Builds
  <2>3. ASSUME NEW q, NEW p, Within(q, p)
        PROVE  Within(After(rules[n], r, q), After(rules[n], s, p))
    BY <2>3 DEF Within, After, getZ3Form
  <2> QED
    BY <2>1, <2>2, <2>3
<1>5. N \in P
  <2> HIDE DEF P
  <2>1. \A n \in 1 .. N : n - 1 \in P => n \in P
    BY <1>4
  <2>2. \A n \in 0 .. N : n \in P
    BY <1>3, <2>1, Induct
  <2> QED
    BY <2>2
<1> QED
  BY <1>1, <1>2, <1>5 DEF Builds

\* A rule about a function of the relation is asserted, wherever it stands.
LEMMA QueryDirect ==
  ASSUME NEW rules, Len(rules) \in Nat, NEW ufs, NEW r \in 0 .. NRL - 1
  PROVE  /\ ufs \subseteq QueryOf(rules, r, ufs).ufs
         /\ \A n \in 1 .. Len(rules) :
              rules[n].type \in check_useRule[r] /\ rules[n].ufs \cap ufs # {}
              => rules[n].fact \in QueryOf(rules, r, ufs).facts
<1>1. PICK f : Builds(f, rules, r, ufs)
  BY QueryBuilt
<1> DEFINE N == Len(rules)
           T(n) == {rules[m].fact : m \in {j \in 1 .. n : /\ rules[j].type \in check_useRule[r]
                                                          /\ rules[j].ufs \cap ufs # {}}}
           P == {n \in 0 .. N : ufs \subseteq f[n].ufs /\ T(n) \subseteq f[n].facts}
<1>2. 0 \in P
  <2>1. T(0) = {}
    OBVIOUS
  <2>2. ufs \subseteq f[0].ufs /\ 0 \in 0 .. N
    BY <1>1 DEF Builds, Start
  <2> HIDE DEF T
  <2> QED
    BY <2>1, <2>2
<1>3. ASSUME NEW n \in 1 .. N, n - 1 \in P PROVE n \in P
  <2>1. n \in 0 .. N /\ ufs \subseteq f[n - 1].ufs /\ T(n - 1) \subseteq f[n - 1].facts
    BY <1>3
  <2>2. f[n] = After(rules[n], r, f[n - 1])
    BY <1>1 DEF Builds
  <2>3. ASSUME NEW q, NEW rule, ufs \subseteq q.ufs
        PROVE  /\ q.ufs \subseteq After(rule, r, q).ufs /\ q.facts \subseteq After(rule, r, q).facts
               /\ rule.type \in check_useRule[r] /\ rule.ufs \cap ufs # {}
                    => rule.fact \in After(rule, r, q).facts
    BY <2>3 DEF After, getZ3Form
  <2>4. /\ f[n - 1].ufs \subseteq f[n].ufs /\ f[n - 1].facts \subseteq f[n].facts
        /\ rules[n].type \in check_useRule[r] /\ rules[n].ufs \cap ufs # {}
             => rules[n].fact \in f[n].facts
    BY <2>1, <2>2, <2>3
  <2>5. ASSUME NEW x \in T(n) PROVE x \in f[n].facts
    <3>1. PICK m \in 1 .. n : /\ rules[m].type \in check_useRule[r]
                              /\ rules[m].ufs \cap ufs # {} /\ x = rules[m].fact
      OBVIOUS
    <3>2. m = n \/ m \in 1 .. n - 1
      OBVIOUS
    <3> QED
      BY <3>1, <3>2, <2>1, <2>4
  <2> QED
    BY <2>1, <2>4, <2>5
<1>4. N \in P
  <2> HIDE DEF P
  <2>1. \A n \in 1 .. N : n - 1 \in P => n \in P
    BY <1>3
  <2>2. \A n \in 0 .. N : n \in P
    BY <1>2, <2>1, Induct
  <2> QED
    BY <2>2
<1> QED
  BY <1>1, <1>4 DEF Builds

\* Nothing is asserted but rules of the kinds in use, and only rules about
\* functions the query can reach.
LEMMA QueryClosed ==
  ASSUME NEW rules, Len(rules) \in Nat, NEW ufs, NEW r \in 0 .. NRL - 1,
         NEW W, ufs \subseteq W, NEW G,
         \A n \in 1 .. Len(rules) :
           rules[n].type \in check_useRule[r] /\ rules[n].ufs \cap W # {}
           => rules[n].ufs \subseteq W /\ rules[n].fact \in G
  PROVE  QueryOf(rules, r, ufs).ufs \subseteq W /\ QueryOf(rules, r, ufs).facts \subseteq G
<1>1. PICK f : Builds(f, rules, r, ufs)
  BY QueryBuilt
<1> DEFINE N == Len(rules)
           P == {n \in 0 .. N : f[n].ufs \subseteq W /\ f[n].facts \subseteq G}
<1>2. 0 \in P
  BY <1>1 DEF Builds, Start
<1>3. ASSUME NEW n \in 1 .. N, n - 1 \in P PROVE n \in P
  <2>1. n \in 0 .. N /\ f[n - 1].ufs \subseteq W /\ f[n - 1].facts \subseteq G
    BY <1>3
  <2>2. f[n] = After(rules[n], r, f[n - 1])
    BY <1>1 DEF Builds
  <2>3. ASSUME NEW q, q.ufs \subseteq W, q.facts \subseteq G
        PROVE  After(rules[n], r, q).ufs \subseteq W /\ After(rules[n], r, q).facts \subseteq G
    <3>1. CASE rules[n].type \in check_useRule[r] /\ rules[n].ufs \cap q.ufs # {}
      <4>1. rules[n].ufs \cap W # {}
        BY <3>1, <2>3
      <4>2. rules[n].ufs \subseteq W /\ rules[n].fact \in G
        BY <3>1, <4>1
      <4> QED
        BY <4>2, <3>1, <2>3 DEF After, getZ3Form
    <3>2. CASE ~ (rules[n].type \in check_useRule[r] /\ rules[n].ufs \cap q.ufs # {})
      BY <3>2, <2>3 DEF After, getZ3Form
    <3> QED
      BY <3>1, <3>2
  <2> QED
    BY <2>1, <2>2, <2>3
<1>4. N \in P
  <2> HIDE DEF P
  <2>1. \A n \in 1 .. N : n - 1 \in P => n \in P
    BY <1>3
  <2>2. \A n \in 0 .. N : n \in P
    BY <1>2, <2>1, Induct
  <2> QED
    BY <2>2
<1> QED
  BY <1>1, <1>4 DEF Builds

-----------------------------------------------------------------------------
(***************************************************************************)
(* The driver as a client of the environment.                              *)
(***************************************************************************)
Decls(kernels, m) == UNION {{FromJson(d) : d \in Elems(kernels[n].ufs)} : n \in 1 .. m}
Rules(kernels, m) == UNION {Elems(kernels[n].rules) : n \in 1 .. m}

AllDecls == UNION {Decls(kernels, Len(kernels)) : kernels \in KernelLists}
AllRules == UNION {Rules(kernels, Len(kernels)) : kernels \in KernelLists}

\* addUFCs changes the monotonicity only.
LEMMA FromJsonFacts ==
  ASSUME NEW d
  PROVE  /\ FromJson(d).name = d.name /\ FromJson(d).bijective = d.bijective
         /\ FromJson(d).dom = d.dom /\ FromJson(d).ran = d.ran
         /\ WellNamed(d) => WellNamed(FromJson(d))
         /\ InRange(FromJson(d)) = InRange(d)
  BY DEF FromJson, WellNamed, InRange, Call

\* What a kernel of the list declares is among what the list declares.
LEMMA KernelDeclsFacts ==
  ASSUME NEW kernels \in KernelLists, NEW m \in 0 .. Len(kernels)
  PROVE  /\ \A d \in Decls(kernels, m) : WellNamed(d)
         /\ Decls(kernels, m) \subseteq AllDecls /\ Rules(kernels, m) \subseteq AllRules
<1>1. Len(kernels) \in Nat
  BY DriverInputs DEF IsSeq
<1>2. ASSUME NEW n \in 1 .. m PROVE n \in 1 .. Len(kernels)
  BY <1>1
<1>3. ASSUME NEW e \in Decls(kernels, m) PROVE WellNamed(e) /\ e \in AllDecls
  <2>1. PICK n \in 1 .. m : e \in {FromJson(d) : d \in Elems(kernels[n].ufs)}
    BY DEF Decls
  <2>2. n \in 1 .. Len(kernels)
    BY <1>2
  <2>3. PICK d \in Elems(kernels[n].ufs) : e = FromJson(d)
    BY <2>1
  <2>4. WellNamed(d)
    BY <2>2, KernelFacts
  <2>5. e \in Decls(kernels, Len(kernels))
    BY <2>1, <2>2 DEF Decls
  <2> QED
    BY <2>3, <2>4, <2>5, FromJsonFacts DEF AllDecls
<1>4. ASSUME NEW r \in Rules(kernels, m) PROVE r \in AllRules
  <2>1. r \in Rules(kernels, Len(kernels))
    BY <1>2 DEF Rules
  <2> QED
    BY <2>1 DEF AllRules
<1> QED
  BY <1>3, <1>4

\* addUFCs gives only names the environment can read.
LEMMA AllDeclsNamed == \A d \in AllDecls : WellNamed(d)
<1> SUFFICES ASSUME NEW kernels \in KernelLists, NEW d \in Decls(kernels, Len(kernels))
             PROVE  WellNamed(d)
  BY DEF AllDecls
<1>1. Len(kernels) \in 0 .. Len(kernels)
  BY DriverInputs DEF IsSeq
<1> QED
  BY <1>1, KernelDeclsFacts

\* What the driver hands the environment at a step.
LEMMA DriverSteps ==
  ASSUME ControlInv, [Next]_vars
  PROVE  \/ /\ NextKernel /\ setCurrEnv /\ k' \in 1 .. Len(list) /\ list' = list
         \/ /\ pc = "ufs" /\ UNCHANGED <<list, k>> /\ k \in 1 .. Len(list)
            /\ u \in 1 .. Len(Kernel.ufs) /\ FromJson(Kernel.ufs[u]) \in Decls(list, k)
            /\ appendCurrEnv(FromJson(Kernel.ufs[u])) /\ AddUFC
         \/ /\ pc = "rules" /\ UNCHANGED <<list, k>> /\ k \in 1 .. Len(list)
            /\ u \in 1 .. Len(Kernel.rules) /\ Kernel.rules[u] \in Rules(list, k)
            /\ addUniQuantRule(Kernel.rules[u]) /\ AddRule
         \/ UNCHANGED <<list, k, envVars>>
<1>1. list \in KernelLists /\ Len(list) \in Nat /\ k \in 0 .. Len(list)
  BY DriverInputs DEF ControlInv, IsSeq
<1>2. CASE NextKernel
  BY <1>1, <1>2 DEF NextKernel
<1>3. CASE AddUFC
  <2>1. k \in 1 .. Len(list) /\ u \in 1 .. Len(Kernel.ufs)
    <3>1. k \in 1 .. Len(list)
      BY <1>1, <1>3 DEF AddUFC, ControlInv
    <3>2. Len(Kernel.ufs) \in Nat
      BY <1>1, <3>1, KernelFacts DEF Kernel
    <3> QED
      BY <3>1, <3>2, <1>3 DEF AddUFC, ControlInv
  <2>2. FromJson(Kernel.ufs[u]) \in Decls(list, k)
    <3>1. k \in 1 .. k /\ Kernel.ufs[u] \in Elems(list[k].ufs)
      BY <2>1 DEF Elems, Kernel
    <3>2. FromJson(Kernel.ufs[u]) \in {FromJson(d) : d \in Elems(list[k].ufs)}
      BY <3>1
    <3> QED
      BY <3>1, <3>2, Zenon DEF Decls
  <2> QED
    BY <1>3, <2>1, <2>2 DEF AddUFC
<1>4. CASE AddRule
  <2>1. k \in 1 .. Len(list) /\ u \in 1 .. Len(Kernel.rules)
    <3>1. k \in 1 .. Len(list)
      BY <1>1, <1>4 DEF AddRule, ControlInv
    <3>2. Len(Kernel.rules) \in Nat
      BY <1>1, <3>1, KernelFacts DEF Kernel
    <3> QED
      BY <3>1, <3>2, <1>4 DEF AddRule, ControlInv
  <2>2. Kernel.rules[u] \in Rules(list, k)
    <3>1. k \in 1 .. k /\ Kernel.rules[u] \in Elems(list[k].rules)
      BY <2>1 DEF Elems, Kernel
    <3> QED
      BY <3>1, Zenon DEF Rules
  <2> QED
    BY <1>4, <2>1, <2>2 DEF AddRule
<1>5. CASE EndOfList \/ UFCsAdded \/ RunChill \/ NextLoop \/ EndOfFile \/ ReadRelation
  BY <1>5 DEF EndOfList, UFCsAdded, RunChill, NextLoop, EndOfFile, ReadRelation
<1>6. CASE StartAnalysis \/ Skip \/ Decide \/ EndCombination
  BY <1>6 DEF StartAnalysis, Skip, Decide, EndCombination
<1>7. CASE UNCHANGED vars
  BY <1>7 DEF vars, driverVars
<1> QED
  BY <1>2, <1>3, <1>4, <1>5, <1>6, <1>7 DEF Next

\* Each step of the driver is a client's step, or leaves the environment alone.
LEMMA DriverStep ==
  ASSUME ControlInv, [Next]_vars
  PROVE  [ClientStep(AllDecls, AllRules)]_envVars
<1>1. list \in KernelLists /\ \A n \in 1 .. Len(list) : n \in 0 .. Len(list)
  BY DriverInputs DEF ControlInv, IsSeq
<1>2. \A n \in 1 .. Len(list) : Decls(list, n) \subseteq AllDecls /\ Rules(list, n) \subseteq AllRules
  BY <1>1, KernelDeclsFacts
<1> QED
  BY <1>2, DriverSteps DEF ClientStep

\* The driver uses the environment as any client may: what holds of the
\* environment for all clients holds of it in the driver.
THEOREM DriverIsClient == Spec => Client(AllDecls, AllRules)
<1>1. ControlInv /\ [Next]_vars => [ClientStep(AllDecls, AllRules)]_envVars
  BY DriverStep
<1>2. Init => EnvInit
  BY DEF Init
<1> QED
  BY <1>1, <1>2, Control, PTL DEF Spec, Client

-----------------------------------------------------------------------------
(***************************************************************************)
(* The relations of the loop, and what is known of those already asked     *)
(* about.                                                                  *)
(***************************************************************************)
AskedOf(R) == [rel : R, unsat : BOOLEAN]
Asked == AskedOf(Elems(TheLoop))

DepsInv ==
  pc \in {"rels", "decide"} =>
    /\ deps \in Seq(Asked)
    /\ \A m \in 1 .. Len(TheLoop) - ct : \E n \in 1 .. Len(deps) : deps[n].rel = TheLoop[m]
    /\ pc = "rels" => \A n \in 1 .. Len(deps) : ~deps[n].unsat
    /\ pc = "decide" => i \in 1 .. Len(deps) + 1 /\ unSatFound \in 0 .. i - 1

\* What "relation i is unsatisfiable" does to the relations.
Mark(s, j) == [s EXCEPT ![j].unsat = TRUE]

\* Marking a relation changes nothing else of the loop's relations.
LEMMA MarkUnsat ==
  ASSUME NEW R, NEW s \in Seq(AskedOf(R)), NEW j \in 1 .. Len(s)
  PROVE  /\ Mark(s, j) \in Seq(AskedOf(R)) /\ Len(Mark(s, j)) = Len(s)
         /\ \A n \in 1 .. Len(s) : /\ Mark(s, j)[n].rel = s[n].rel
                                   /\ n # j => Mark(s, j)[n].unsat = s[n].unsat
         /\ Mark(s, j)[j].unsat = TRUE
<1> DEFINE S == AskedOf(R)
           x == [s[j] EXCEPT !.unsat = TRUE]
           e(n) == IF n = j THEN x ELSE s[n]
           t == [n \in 1 .. Len(s) |-> e(n)]
<1>1. s[j] \in S /\ x \in S /\ x.rel = s[j].rel /\ x.unsat = TRUE
  <2>1. s[j] \in S
    BY ElementOfSeq
  <2> QED
    BY <2>1 DEF AskedOf
<1>2. Mark(s, j) = [s EXCEPT ![j] = x]
  BY DEF Mark
<1> HIDE DEF x, S
<1>3. s \in Seq(S)
  BY DEF S
<1>4. Len(s) \in Nat /\ \A n \in 1 .. Len(s) : e(n) \in S
  BY <1>1, <1>3, LenProperties, ElementOfSeq
<1>5. Mark(s, j) = t
  BY <1>2, <1>3, LenProperties
<1>6. t \in Seq(S) /\ Len(t) = Len(s) /\ \A n \in 1 .. Len(s) : t[n] = e(n)
  <2> HIDE DEF e
  <2> QED
    BY <1>4
<1> HIDE DEF t
<1> QED
  BY <1>1, <1>5, <1>6 DEF S

\* findFullParWithZ3.cc:216-232: each relation of the loop is kept, once.
LEMMA DepsKept ==
  ASSUME ControlInv, FileInv, DepsInv, [Next]_vars
  PROVE  DepsInv'
<1>1. CASE NextLoop
  <2>1. /\ pc = "loops" /\ depf # <<>> /\ pc' = "rels" /\ Kernel' = Kernel
        /\ ct' = Head(depf).nRels /\ loopNo' = loopNo + 1 /\ deps' = <<>>
    BY <1>1 DEF NextLoop, Kernel
  <2>2. ct' = Len(TheLoop') /\ Len(TheLoop') \in Nat
    BY <2>1, NextLine DEF TheLoop
  <2> QED
    BY <2>1, <2>2, EmptySeq DEF DepsInv
<1>2. CASE ReadRelation
  <2> DEFINE rel == Head(depf).rel
             new == \A n \in 1 .. Len(deps) : deps[n].rel # rel
             x == [rel |-> rel, unsat |-> FALSE]
  <2>1. /\ pc = "rels" /\ ct > 0 /\ ct' = ct - 1 /\ ct \in Nat
        /\ TheLoop' = TheLoop /\ pc' \in {"rels", "abort"}
        /\ pc' = "rels" => deps' = IF new THEN Append(deps, x) ELSE deps
    BY <1>2 DEF ReadRelation, Kernel, TheLoop, FileInv
  <2>2. /\ Len(TheLoop) \in Nat /\ Len(TheLoop) - ct + 1 \in 1 .. Len(TheLoop)
        /\ rel = TheLoop[Len(TheLoop) - ct + 1]
    BY <2>1, NextLine
  <2>3. /\ deps \in Seq(Asked) /\ Asked' = Asked /\ Len(deps) \in Nat
        /\ \A m \in 1 .. Len(TheLoop) - ct : \E n \in 1 .. Len(deps) : deps[n].rel = TheLoop[m]
        /\ \A n \in 1 .. Len(deps) : ~deps[n].unsat
    BY <2>1, LenProperties DEF DepsInv, Asked
  <2>4. x \in Asked /\ x.rel = rel /\ ~x.unsat
    BY <2>2 DEF Asked, AskedOf, Elems
  <2> HIDE DEF rel, x
  <2>5. ASSUME pc' = "rels"
        PROVE  /\ deps' \in Seq(Asked)
               /\ \A n \in 1 .. Len(deps') : ~deps'[n].unsat
               /\ \E n \in 1 .. Len(deps') : deps'[n].rel = rel
               /\ \A m \in 1 .. Len(deps) : m \in 1 .. Len(deps') /\ deps'[m] = deps[m]
    <3>1. CASE new
      <4>1. deps' = Append(deps, x)
        BY <2>1, <2>5, <3>1
      <4>2. /\ deps' \in Seq(Asked) /\ Len(deps') = Len(deps) + 1
            /\ \A n \in 1 .. Len(deps) : deps'[n] = deps[n]
            /\ deps'[Len(deps) + 1] = x
        BY <4>1, <2>3, <2>4, AppendProperties
      <4>3. \A n \in 1 .. Len(deps') : n \in 1 .. Len(deps) \/ n = Len(deps) + 1
        BY <4>2, <2>3
      <4>4. Len(deps) + 1 \in 1 .. Len(deps') /\ \A n \in 1 .. Len(deps) : n \in 1 .. Len(deps')
        BY <4>2, <2>3
      <4> QED
        BY <4>2, <4>3, <4>4, <2>3, <2>4
    <3>2. CASE ~new
      BY <2>1, <2>3, <2>5, <3>2
    <3> QED
      BY <3>1, <3>2
  <2>6. ASSUME pc' = "rels", NEW m \in 1 .. Len(TheLoop) - ct'
        PROVE  \E n \in 1 .. Len(deps') : deps'[n].rel = TheLoop[m]
    <3>1. m \in 1 .. Len(TheLoop) - ct \/ m = Len(TheLoop) - ct + 1
      BY <2>1, <2>2
    <3> QED
      BY <3>1, <2>2, <2>3, <2>5, <2>6
  <2> QED
    BY <2>1, <2>3, <2>5, <2>6 DEF DepsInv
<1>3. CASE StartAnalysis
  <2>1. /\ pc = "rels" /\ pc' = "decide" /\ TheLoop' = TheLoop /\ UNCHANGED <<ct, deps>>
        /\ i' = 1 /\ unSatFound' = 0
    BY <1>3 DEF StartAnalysis, Kernel, TheLoop
  <2>2. Len(deps) \in Nat
    BY <2>1, LenProperties DEF DepsInv
  <2> QED
    BY <2>1, <2>2 DEF DepsInv, Asked
<1>4. CASE Skip \/ Decide
  <2>1. /\ pc = "decide" /\ TheLoop' = TheLoop /\ ct' = ct /\ i <= Len(deps)
        /\ pc' = "decide" => /\ i' = i + 1 /\ unSatFound' \in {unSatFound, unSatFound + 1}
                             /\ deps' \in {deps, [deps EXCEPT ![i].unsat = TRUE]}
        /\ pc' \in {"decide", "abort"}
    BY <1>4 DEF Skip, Decide, Kernel, TheLoop
  <2>2. /\ deps \in Seq(Asked) /\ Asked' = Asked /\ Len(deps) \in Nat
        /\ \A m \in 1 .. Len(TheLoop) - ct : \E n \in 1 .. Len(deps) : deps[n].rel = TheLoop[m]
        /\ i \in 1 .. Len(deps) /\ unSatFound \in 0 .. i - 1
    BY <2>1, LenProperties DEF DepsInv, Asked
  <2>3. pc' = "decide" =>
          /\ deps' \in Seq(Asked) /\ Len(deps') = Len(deps)
          /\ \A n \in 1 .. Len(deps) : deps'[n].rel = deps[n].rel
    <3>1. deps \in Seq(AskedOf(Elems(TheLoop)))
      BY <2>2 DEF Asked
    <3>2. i \in 1 .. Len(deps)
      BY <2>2
    <3>3. /\ Mark(deps, i) \in Seq(AskedOf(Elems(TheLoop))) /\ Len(Mark(deps, i)) = Len(deps)
          /\ \A n \in 1 .. Len(deps) : Mark(deps, i)[n].rel = deps[n].rel
      BY <3>1, <3>2, MarkUnsat
    <3>4. pc' = "decide" => deps' \in {deps, Mark(deps, i)}
      BY <2>1, Zenon DEF Mark
    <3> QED
      BY <2>2, <3>3, <3>4 DEF Asked
  <2>4. pc' = "decide" => i' \in 1 .. Len(deps) + 1 /\ unSatFound' \in 0 .. i' - 1
    BY <2>1, <2>2
  <2> QED
    BY <2>1, <2>2, <2>3, <2>4 DEF DepsInv
<1>5. CASE EndCombination
  <2>1. /\ pc = "decide" /\ TheLoop' = TheLoop /\ UNCHANGED <<ct, deps>>
        /\ pc' = "decide" => i' = 1 /\ unSatFound' = 0
        /\ pc' \in {"decide", "loops"}
    BY <1>5 DEF EndCombination, Kernel, TheLoop
  <2>2. Len(deps) \in Nat
    BY <2>1, LenProperties DEF DepsInv
  <2> QED
    BY <2>1, <2>2 DEF DepsInv, Asked
<1>6. CASE NextKernel \/ EndOfList \/ AddUFC \/ UFCsAdded \/ AddRule \/ RunChill \/ EndOfFile
  BY <1>6 DEF NextKernel, EndOfList, AddUFC, UFCsAdded, AddRule, RunChill, EndOfFile, DepsInv
<1>7. CASE UNCHANGED vars
  BY <1>7 DEF vars, driverVars, DepsInv, Asked, Kernel, TheLoop
<1> QED
  BY <1>1, <1>2, <1>3, <1>4, <1>5, <1>6, <1>7 DEF Next

\* The relations at hand are the loop's, in every state.
LEMMA DepsAlways == Spec => []DepsInv
<1>1. Init => DepsInv
  BY DEF Init, DepsInv
<1>2. DepsInv /\ ControlInv /\ FileInv /\ [Next]_vars => DepsInv'
  BY DepsKept
<1> QED
  BY <1>1, <1>2, InTheFile, PTL DEF Spec

-----------------------------------------------------------------------------
(***************************************************************************)
(* What z3 can answer does not change while a loop is analysed, and with   *)
(* more kinds of rules it answers "unsatisfiable" no less often.           *)
(***************************************************************************)
AssertedOf(map, q) == q.facts \cup {RangeFact(f, map[f]) : f \in q.ufs}

AnswerOf(map, rules, r, rel) == Refuted(rel, AssertedOf(map, QueryOf(rules, r, rel.ufs)))

Answer(r, rel) == AnswerOf(mUninterpFuncMap, uniQuantRules, r, rel)

\* It is what Decide goes by.
LEMMA AnswerIs ==
  \A r, rel : Answer(r, rel) = Refuted(rel, Asserted(getUQR(r, rel.ufs)))
  BY DEF Answer, AnswerOf, AssertedOf, Asserted, getUQR, QueryOf

AnswerInv ==
  /\ decisive => Len(said) <= 1
  /\ pc = "decide" =>
       /\ \A n \in 1 .. Len(deps) : deps[n].unsat => Answer(0, deps[n].rel)
       /\ unSatFound = i - 1 => \A n \in 1 .. i - 1 : Answer(rlc, deps[n].rel)
       /\ decisive /\ (\A n \in 1 .. i - 1 : Answer(rlc, deps[n].rel)) => unSatFound = i - 1
       /\ foundUnSat => \A n \in 1 .. Len(deps) : Answer(NRL - 1, deps[n].rel)

\* The last row of check_useRule includes every other, and each the first.
LEMMA Kinds ==
  \A r \in 0 .. NRL - 1 : /\ check_useRule[0] \subseteq check_useRule[r]
                          /\ check_useRule[r] \subseteq check_useRule[NRL - 1]
<1> TAKE r \in 0 .. NRL - 1
<1>1. check_useRule[0] = {}
  BY DEF check_useRule, NRL
<1>2. check_useRule[NRL - 1] = {"Monotonicity", "CoMonotonicity", "Triangularity"}
  BY DEF check_useRule, NRL
<1>3. r \in {0, 1, 2, 3, 4, 5, 6, 7}
  BY DEF NRL
<1>4. check_useRule[r] \subseteq {"Monotonicity", "CoMonotonicity", "Triangularity"}
  BY <1>3 DEF check_useRule, NRL
<1> QED
  BY <1>1, <1>2, <1>4

\* A query with more kinds of rules is refuted no less.
LEMMA AnswerMonotone ==
  ASSUME Len(uniQuantRules) \in Nat, NEW rel, NEW r \in 0 .. NRL - 1
  PROVE  /\ Answer(0, rel) => Answer(r, rel)
         /\ Answer(r, rel) => Answer(NRL - 1, rel)
<1> DEFINE Q(s) == QueryOf(uniQuantRules, s, rel.ufs)
           A(q) == AssertedOf(mUninterpFuncMap, q)
<1>1. ASSUME NEW q, NEW p, Within(q, p), Refuted(rel, A(q)) PROVE Refuted(rel, A(p))
  <2>1. A(q) \subseteq A(p)
    BY <1>1, Zenon DEF Within, AssertedOf
  <2> HIDE DEF A
  <2> QED
    BY <1>1, <2>1 DEF Refuted
<1>2. 0 \in 0 .. NRL - 1 /\ NRL - 1 \in 0 .. NRL - 1
  BY DEF NRL
<1>3. Within(Q(0), Q(r)) /\ Within(Q(r), Q(NRL - 1))
  BY <1>2, Kinds, QueryMonotone
<1> HIDE DEF Q, A
<1>4. /\ Refuted(rel, A(Q(0))) => Refuted(rel, A(Q(r)))
      /\ Refuted(rel, A(Q(r))) => Refuted(rel, A(Q(NRL - 1)))
  BY <1>1, <1>3, Zenon
<1> QED
  BY <1>4 DEF Answer, AnswerOf, Q, A

\* A step of the analysis, at relation i.
LEMMA AskedKeepsAnswer ==
  ASSUME DepsInv, AnswerInv, SaidInv, Len(uniQuantRules) \in Nat, Skip \/ Decide
  PROVE  AnswerInv'
<1>1. /\ pc = "decide" /\ pc' \in {"decide", "abort"} /\ UNCHANGED <<said, envVars, decisive>>
  BY DEF Skip, Decide
<1> SUFFICES ASSUME pc' = "decide" PROVE AnswerInv'
  BY <1>1 DEF AnswerInv
<1>2. /\ deps \in Seq(AskedOf(Elems(TheLoop))) /\ i \in 1 .. Len(deps) /\ Len(deps) \in Nat
      /\ rlc \in 0 .. NRL - 1 /\ unSatFound \in 0 .. i - 1
      /\ UNCHANGED <<rlc, foundUnSat>> /\ i' = i + 1
  <2>1. i <= Len(deps) /\ UNCHANGED <<rlc, foundUnSat>> /\ i' = i + 1
    BY <1>1 DEF Skip, Decide
  <2> QED
    BY <1>1, <2>1, LenProperties DEF DepsInv, SaidInv, Asked
<1>3. UNCHANGED <<mUninterpFuncMap, uniQuantRules>>
  BY <1>1 DEF envVars
\* Relation i is counted exactly if z3 says so.
<1>4. \E unsat \in BOOLEAN :
        /\ unSatFound' = IF unsat THEN unSatFound + 1 ELSE unSatFound
        /\ unsat => Answer(rlc, deps[i].rel)
        /\ decisive /\ Answer(rlc, deps[i].rel) => unsat
        /\ deps' = deps \/ (deps' = Mark(deps, i) /\ unsat /\ rlc = 0)
  <2>1. CASE Skip
    <3>1. deps[i].unsat /\ unSatFound' = unSatFound + 1 /\ deps' = deps
      BY <2>1 DEF Skip
    <3>2. Answer(rlc, deps[i].rel)
      BY <3>1, <1>1, <1>2, AnswerMonotone DEF AnswerInv
    <3> QED
      BY <3>1, <3>2
  <2>2. CASE Decide
    <3>1. PICK sat \in BOOLEAN :
            /\ ~sat => Refuted(deps[i].rel, Asserted(getUQR(rlc, deps[i].rel.ufs)))
            /\ decisive /\ Refuted(deps[i].rel, Asserted(getUQR(rlc, deps[i].rel.ufs))) => ~sat
            /\ unSatFound' = IF sat THEN unSatFound ELSE unSatFound + 1
            /\ deps' = IF ~sat /\ rlc = 0 THEN [deps EXCEPT ![i].unsat = TRUE] ELSE deps
      BY <1>1, <2>2, Zenon DEF Decide
    <3> DEFINE unsat == ~sat
    <3>2. /\ unSatFound' = IF unsat THEN unSatFound + 1 ELSE unSatFound
          /\ unsat => Answer(rlc, deps[i].rel)
          /\ decisive /\ Answer(rlc, deps[i].rel) => unsat
          /\ deps' = deps \/ (deps' = Mark(deps, i) /\ unsat /\ rlc = 0)
      BY <3>1, AnswerIs, Zenon DEF Mark
    <3> QED
      BY <3>2, Zenon
  <2> QED
    BY <2>1, <2>2
<1>5. /\ Len(deps') = Len(deps)
      /\ \A n \in 1 .. Len(deps) : /\ deps'[n].rel = deps[n].rel
                                   /\ deps'[n].unsat => Answer(0, deps[n].rel)
  <2>1. \A n \in 1 .. Len(deps) : deps[n].unsat => Answer(0, deps[n].rel)
    BY <1>1 DEF AnswerInv
  <2>2. CASE deps' = deps
    BY <2>1, <2>2
  <2>3. CASE deps' # deps
    <3>1. deps' = Mark(deps, i) /\ Answer(0, deps[i].rel)
      BY <1>4, <2>3
    <3>2. /\ Len(Mark(deps, i)) = Len(deps)
          /\ \A n \in 1 .. Len(deps) : /\ Mark(deps, i)[n].rel = deps[n].rel
                                       /\ n # i => Mark(deps, i)[n].unsat = deps[n].unsat
      BY <1>2, MarkUnsat
    <3> QED
      BY <2>1, <3>1, <3>2
  <2> QED
    BY <2>2, <2>3
<1>6. \A n \in 1 .. i' - 1 : n \in 1 .. Len(deps) /\ (n \in 1 .. i - 1 \/ n = i)
  BY <1>2
<1>7. unSatFound' = i' - 1 => \A n \in 1 .. i' - 1 : Answer(rlc, deps[n].rel)
  <2> SUFFICES ASSUME unSatFound' = i' - 1 PROVE \A n \in 1 .. i' - 1 : Answer(rlc, deps[n].rel)
    OBVIOUS
  <2>1. unSatFound = i - 1 /\ Answer(rlc, deps[i].rel)
    BY <1>2, <1>4
  <2> QED
    BY <2>1, <1>1, <1>6 DEF AnswerInv
<1>8. decisive /\ (\A n \in 1 .. i' - 1 : Answer(rlc, deps[n].rel)) => unSatFound' = i' - 1
  <2> SUFFICES ASSUME decisive, \A n \in 1 .. i' - 1 : Answer(rlc, deps[n].rel)
               PROVE  unSatFound' = i' - 1
    OBVIOUS
  <2>1. i \in 1 .. i' - 1 /\ \A n \in 1 .. i - 1 : n \in 1 .. i' - 1
    BY <1>2
  <2>2. unSatFound = i - 1
    BY <2>1, <1>1 DEF AnswerInv
  <2>3. Answer(rlc, deps[i].rel)
    BY <2>1
  <2> QED
    BY <2>2, <2>3, <1>2, <1>4
<1>9. foundUnSat => \A n \in 1 .. Len(deps) : Answer(NRL - 1, deps[n].rel)
  BY <1>1 DEF AnswerInv
<1>10. decisive => Len(said) <= 1
  BY DEF AnswerInv
<1>11. (\A n \in 1 .. Len(deps) : deps[n].unsat => Answer(0, deps[n].rel))'
  BY <1>3, <1>5 DEF Answer
<1>12. (unSatFound = i - 1 => \A n \in 1 .. i - 1 : Answer(rlc, deps[n].rel))'
  BY <1>2, <1>3, <1>5, <1>6, <1>7 DEF Answer
<1>13. (decisive /\ (\A n \in 1 .. i - 1 : Answer(rlc, deps[n].rel)) => unSatFound = i - 1)'
  BY <1>1, <1>2, <1>3, <1>5, <1>6, <1>8 DEF Answer
<1>14. (foundUnSat => \A n \in 1 .. Len(deps) : Answer(NRL - 1, deps[n].rel))'
  BY <1>2, <1>3, <1>5, <1>9 DEF Answer
<1>15. (decisive => Len(said) <= 1)'
  BY <1>1, <1>10
<1> QED
  BY <1>11, <1>12, <1>13, <1>14, <1>15 DEF AnswerInv

\* The end of a combination: what has been printed, and what is known after it.
LEMMA EndKeepsAnswer ==
  ASSUME DepsInv, AnswerInv, SaidInv, Len(uniQuantRules) \in Nat, EndCombination
  PROVE  AnswerInv'
<1>1. /\ pc = "decide" /\ i > Len(deps) /\ UNCHANGED <<deps, envVars, decisive>>
      /\ UNCHANGED <<mUninterpFuncMap, uniQuantRules>>
  BY DEF EndCombination, envVars
<1>2. /\ Len(deps) \in Nat /\ i - 1 = Len(deps) /\ i \in Nat /\ rlc \in 0 .. NRL - 1
      /\ foundUnSat \in BOOLEAN /\ IF foundUnSat THEN Len(said) = 1 ELSE said = <<>>
      /\ said \in Seq(Verdicts)
  BY <1>1, LenProperties DEF DepsInv, SaidInv
\* What is known of combination rlc holds of the one with every kind of rule.
<1>3. foundUnSat' => \A n \in 1 .. Len(deps) : Answer(NRL - 1, deps[n].rel)
  <2>1. CASE unSatFound = Len(deps)
    <3>1. \A n \in 1 .. Len(deps) : Answer(rlc, deps[n].rel)
      BY <2>1, <1>1, <1>2 DEF AnswerInv
    <3> QED
      BY <3>1, <1>2, AnswerMonotone
  <2>2. CASE unSatFound # Len(deps)
    <3>1. foundUnSat' = foundUnSat
      BY <2>2 DEF EndCombination
    <3> QED
      BY <3>1, <1>1 DEF AnswerInv
  <2> QED
    BY <2>1, <2>2
<1>4. decisive => Len(said') <= 1
  <2> SUFFICES ASSUME decisive PROVE Len(said') <= 1
    OBVIOUS
  <2> DEFINE yes == [par |-> TRUE, by |-> rlc]
             no == [par |-> FALSE, by |-> rlc]
  <2>1. Len(said) <= 1 /\ (~foundUnSat => Len(said) = 0)
    BY <1>2 DEF AnswerInv
  <2>2. Len(Append(said, yes)) = Len(said) + 1 /\ Len(Append(said, no)) = Len(said) + 1
    BY <1>2, AppendProperties DEF Verdicts
  <2>3. CASE unSatFound = Len(deps)
    BY <2>1, <2>2, <2>3, <1>2 DEF EndCombination
  <2>4. CASE unSatFound # Len(deps)
    <3>1. said' = said \/ (rlc = NRL - 1 /\ said' = Append(said, no))
      BY <2>4 DEF EndCombination
    <3>2. ASSUME rlc = NRL - 1, foundUnSat PROVE FALSE
      <4>1. \A n \in 1 .. i - 1 : Answer(rlc, deps[n].rel)
        BY <3>2, <1>1, <1>2 DEF AnswerInv
      <4>2. unSatFound = i - 1
        BY <4>1, <1>1 DEF AnswerInv
      <4> QED
        BY <4>2, <2>4, <1>2
    <3> QED
      BY <3>1, <3>2, <2>1, <2>2, <1>2
  <2> QED
    BY <2>3, <2>4
<1>5. pc' = "decide" => i' = 1 /\ unSatFound' = 0
  BY DEF EndCombination
<1>6. \A n \in 1 .. Len(deps) : deps[n].unsat => Answer(0, deps[n].rel)
  BY <1>1 DEF AnswerInv
<1>7. (pc = "decide" => \A n \in 1 .. Len(deps) : deps[n].unsat => Answer(0, deps[n].rel))'
  BY <1>1, <1>6 DEF Answer
<1>8. (foundUnSat => \A n \in 1 .. Len(deps) : Answer(NRL - 1, deps[n].rel))'
  BY <1>1, <1>3 DEF Answer
<1>9. (pc = "decide" =>
        /\ unSatFound = i - 1 => \A n \in 1 .. i - 1 : Answer(rlc, deps[n].rel)
        /\ unSatFound = i - 1)'
  BY <1>5
<1>10. (decisive => Len(said) <= 1)'
  BY <1>1, <1>4
<1> QED
  BY <1>7, <1>8, <1>9, <1>10 DEF AnswerInv

\* Every step keeps the count in agreement with z3's answers.
LEMMA AnswerKept ==
  ASSUME DepsInv, AnswerInv, SaidInv, Len(uniQuantRules) \in Nat, [Next]_vars
  PROVE  AnswerInv'
<1>1. CASE StartAnalysis
  <2>1. /\ pc = "rels" /\ UNCHANGED <<deps, envVars, decisive, said, foundUnSat>>
        /\ i' = 1 /\ unSatFound' = 0
    BY <1>1 DEF StartAnalysis
  <2>2. ~foundUnSat /\ \A n \in 1 .. Len(deps) : ~deps[n].unsat
    BY <2>1 DEF DepsInv, SaidInv
  <2>3. (decisive => Len(said) <= 1)'
    BY <2>1 DEF AnswerInv
  <2>4. (~foundUnSat /\ \A n \in 1 .. Len(deps) : ~deps[n].unsat)'
    BY <2>1, <2>2
  <2>5. (unSatFound = i - 1 /\ 1 .. i - 1 = {})'
    BY <2>1
  <2> QED
    BY <2>3, <2>4, <2>5 DEF AnswerInv
<1>2. CASE Skip \/ Decide
  BY <1>2, AskedKeepsAnswer
<1>3. CASE EndCombination
  BY <1>3, EndKeepsAnswer
<1>4. CASE NextKernel \/ NextLoop
  <2>1. said' = <<>> /\ pc' # "decide"
    BY <1>4 DEF NextKernel, NextLoop
  <2> QED
    BY <2>1 DEF AnswerInv
<1>5. CASE EndOfList \/ AddUFC \/ UFCsAdded \/ AddRule \/ RunChill \/ EndOfFile \/ ReadRelation
  <2>1. UNCHANGED <<said, decisive>> /\ pc' # "decide"
    BY <1>5 DEF EndOfList, AddUFC, UFCsAdded, AddRule, RunChill, EndOfFile, ReadRelation, loopVars
  <2> QED
    BY <2>1 DEF AnswerInv
<1>6. CASE UNCHANGED vars
  BY <1>6 DEF vars, driverVars, envVars, AnswerInv, Answer
<1> QED
  BY <1>1, <1>2, <1>3, <1>4, <1>5, <1>6 DEF Next

\* The environment's rules are a sequence.
LEMMA RulesAlways == Spec => [](Len(uniQuantRules) \in Nat)
<1> DEFINE I == ContentInv(AllDecls, AllRules)
<1>1. Init => I
  BY DEF Init, EnvInit, ContentInv, MapFrom, RulesFrom, NoFunctions
<1>2. I /\ ControlInv /\ [Next]_vars => I'
  BY AllDeclsNamed, DriverStep, ContentKept
<1>3. I => Len(uniQuantRules) \in Nat
  BY LenProperties DEF ContentInv, RulesFrom
<1> QED
  BY <1>1, <1>2, <1>3, Control, PTL DEF Spec

\* findFullParWithZ3.cc:285-302: unless z3 gives up on a query, a loop called
\* fully parallel under some rules is not called serial at the end.
THEOREM NoSecondVerdict == Spec => []OneVerdictIfDecided
<1>1. Init => AnswerInv
  BY DEF Init, AnswerInv
<1>2. /\ AnswerInv /\ DepsInv /\ SaidInv /\ Len(uniQuantRules) \in Nat /\ [Next]_vars
      => AnswerInv'
  BY AnswerKept
<1>3. AnswerInv => OneVerdictIfDecided
  BY DEF AnswerInv, OneVerdictIfDecided
<1> QED
  BY <1>1, <1>2, <1>3, DepsAlways, SaidAlways, RulesAlways, PTL DEF Spec

-----------------------------------------------------------------------------
(***************************************************************************)
(* Where the rules and the functions the driver works with came from.      *)
(* reset keeps the rules (environment.cc:25), so they may be those of any  *)
(* kernel so far; the functions are the kernel's own.                      *)
(***************************************************************************)
OwnDecls == {FromJson(d) : d \in Elems(Kernel.ufs)}

OriginInv ==
  /\ RulesFrom(Decls(list, k), Rules(list, k))
  /\ k = 0 => DOMAIN mUninterpFuncMap = {}
  /\ k > 0 => MapFrom(OwnDecls)

\* Every step adds only rules and functions of the kernels read so far.
LEMMA OriginKept ==
  ASSUME ControlInv, OriginInv, [Next]_vars
  PROVE  OriginInv'
<1>1. list \in KernelLists /\ Len(list) \in Nat /\ k \in 0 .. Len(list)
  BY DriverInputs DEF ControlInv, IsSeq
<1>2. CASE NextKernel
  <2>1. /\ k' = k + 1 /\ list' = list /\ DOMAIN mUninterpFuncMap' = {}
        /\ uniQuantRules' = uniQuantRules
    BY <1>2 DEF NextKernel, setCurrEnv, NoFunctions
  <2>2. \A n \in 1 .. k : n \in 1 .. k + 1
    BY <1>1
  <2>3. Decls(list, k) \subseteq Decls(list, k + 1) /\ Rules(list, k) \subseteq Rules(list, k + 1)
    BY <2>2 DEF Decls, Rules
  <2> DEFINE A == RulesOf(Decls(list, k), Rules(list, k))
             B == RulesOf(Decls(list, k + 1), Rules(list, k + 1))
  <2>4. A \subseteq B
    BY <2>3 DEF RulesOf
  <2>5. uniQuantRules \in Seq(A)
    BY DEF OriginInv, RulesFrom
  <2>6. uniQuantRules \in Seq(B)
    <3> HIDE DEF A, B
    <3> QED
      BY <2>4, <2>5, SeqMonotonic
  <2>7. RulesFrom(Decls(list, k), Rules(list, k))'
    BY <2>1, <2>6 DEF RulesFrom
  <2> QED
    BY <2>1, <2>7, <1>1 DEF OriginInv, MapFrom
<1>3. CASE AddUFC /\ appendCurrEnv(FromJson(Kernel.ufs[u])) /\ UNCHANGED <<list, k>>
           /\ k \in 1 .. Len(list) /\ u \in 1 .. Len(Kernel.ufs)
           /\ FromJson(Kernel.ufs[u]) \in Decls(list, k)
  <2> DEFINE d == FromJson(Kernel.ufs[u])
             Ds == Decls(list, k)
             Rs == Rules(list, k)
  <2>1. d \in Ds /\ d \in OwnDecls /\ k > 0 /\ k \in 0 .. Len(list)
    <3>1. Kernel.ufs[u] \in Elems(Kernel.ufs)
      BY <1>3 DEF Elems
    <3> QED
      BY <3>1, <1>1, <1>3 DEF OwnDecls
  <2>2. WellNamed(d)
    BY <2>1, <1>1, KernelDeclsFacts
  <2>3. appendCurrEnv(d)
    BY <1>3
  <2>4. UNCHANGED <<Decls(list, k), Rules(list, k), OwnDecls>> /\ k' > 0
    BY <1>3, <2>1 DEF OwnDecls, Kernel, Decls, Rules
  <2>5. RulesFrom(Ds, Rs)
    BY DEF OriginInv
  <2>6. MapFrom(OwnDecls)
    BY <2>1 DEF OriginInv
  <2> HIDE DEF d, Ds, Rs
  <2> DEFINE Own == OwnDecls
  <2>7. Own' = Own /\ Ds' = Ds /\ Rs' = Rs /\ d \in Own /\ MapFrom(Own)
    BY <2>1, <2>4, <2>6 DEF Ds, Rs
  <2> HIDE DEF Own
  <2>8. uniQuantRules' \in Seq(RulesOf(Ds, Rs))
    <3>1. uniQuantRules' \in {uniQuantRules, uniQuantRules \o MonotonicityRules(d)}
      BY <2>2, <2>3, AppendCases
    <3> QED
      BY <2>1, <2>2, <2>3, <2>5, AppendKeepsRules DEF RulesFrom
  <2>9. \A f \in DOMAIN mUninterpFuncMap' : \E e \in Own : DeclaredBy(f, e)'
    BY <2>2, <2>3, <2>7, AppendKeepsMap DEF MapFrom
  <2>10. RulesFrom(Decls(list, k), Rules(list, k))'
    BY <2>8, <2>7 DEF RulesFrom, Ds, Rs
  <2>11. MapFrom(OwnDecls)'
    BY <2>9, <2>7 DEF MapFrom, Own
  <2> QED
    BY <2>4, <2>10, <2>11, <1>3 DEF OriginInv
<1>4. CASE AddRule /\ addUniQuantRule(Kernel.rules[u]) /\ UNCHANGED <<list, k>>
           /\ k \in 1 .. Len(list) /\ Kernel.rules[u] \in Rules(list, k)
  <2>1. /\ UNCHANGED <<Decls(list, k), Rules(list, k), OwnDecls, mUninterpFuncMap>>
    BY <1>4 DEF OwnDecls, Kernel, Decls, Rules, addUniQuantRule
  <2> DEFINE Ds == Decls(list, k)
             Rs == Rules(list, k)
             r == Kernel.rules[u]
  <2>2. RulesFrom(Ds, Rs) /\ r \in Rs /\ addUniQuantRule(r) /\ Ds' = Ds /\ Rs' = Rs
    BY <1>4, <2>1 DEF OriginInv
  <2> HIDE DEF Ds, Rs, r
  <2>3. uniQuantRules' \in Seq(RulesOf(Ds, Rs))
    BY <2>2, AddKeepsRules DEF RulesFrom
  <2>4. RulesFrom(Decls(list, k), Rules(list, k))'
    BY <2>2, <2>3 DEF RulesFrom, Ds, Rs
  <2> QED
    BY <1>4, <2>1, <2>4 DEF OriginInv, MapFrom, DeclaredBy
<1>5. CASE UNCHANGED <<list, k, envVars>>
  <2>1. UNCHANGED <<Decls(list, k), Rules(list, k), OwnDecls, mUninterpFuncMap, uniQuantRules>>
    BY <1>5 DEF OwnDecls, Kernel, Decls, Rules, envVars
  <2> QED
    BY <1>5, <2>1 DEF OriginInv, MapFrom, RulesFrom, DeclaredBy
<1> QED
  BY <1>2, <1>3, <1>4, <1>5, DriverSteps

\* The same in every state.
LEMMA OriginAlways == Spec => []OriginInv
<1>1. Init => OriginInv
  BY DEF Init, EnvInit, OriginInv, RulesFrom, NoFunctions
<1>2. OriginInv /\ ControlInv /\ [Next]_vars => OriginInv'
  BY OriginKept
<1> QED
  BY <1>1, <1>2, Control, PTL DEF Spec

\* Each rule is one of the JSON file of this kernel or of an earlier one.
LEMMA RuleOrigin ==
  ASSUME OriginInv, NEW n \in 1 .. Len(uniQuantRules)
  PROVE  \E a \in 1 .. k : uniQuantRules[n] \in KernelRules(list[a])
<1>1. uniQuantRules[n] \in RulesOf(Decls(list, k), Rules(list, k))
  BY ElementOfSeq DEF OriginInv, RulesFrom
<1> DEFINE x == uniQuantRules[n]
<1> HIDE DEF x
<1>2. CASE \E d \in Decls(list, k) : x \in Elems(MonotonicityRules(d))
  <2>1. PICK d \in Decls(list, k) : x \in Elems(MonotonicityRules(d))
    BY <1>2
  <2>2. PICK a \in 1 .. k : d \in {FromJson(e) : e \in Elems(list[a].ufs)}
    BY <2>1 DEF Decls
  <2>3. PICK e \in Elems(list[a].ufs) : d = FromJson(e)
    BY <2>2
  <2>4. x \in UNION {Elems(MonotonicityRules(FromJson(c))) : c \in Elems(list[a].ufs)}
    BY <2>1, <2>3, Zenon
  <2>5. x \in KernelRules(list[a])
    BY <2>4 DEF KernelRules
  <2> QED
    BY <2>5 DEF x
<1>3. CASE \E r \in Rules(list, k) : x = UniQuantRule(r.type, r.ufs, r.fact)
  <2>1. PICK r \in Rules(list, k) : x = UniQuantRule(r.type, r.ufs, r.fact)
    BY <1>3
  <2>2. PICK a \in 1 .. k : r \in Elems(list[a].rules)
    BY <2>1 DEF Rules
  <2>3. x \in {UniQuantRule(s.type, s.ufs, s.fact) : s \in Elems(list[a].rules)}
    BY <2>1, <2>2, Zenon
  <2>4. x \in KernelRules(list[a])
    BY <2>3 DEF KernelRules
  <2> QED
    BY <2>4 DEF x
<1> QED
  BY <1>1, <1>2, <1>3, Zenon DEF RulesOf, x

-----------------------------------------------------------------------------
(***************************************************************************)
(* A verdict rests on the kernel's own JSON file, if no two kernels of the *)
(* list share a name.                                                      *)
(***************************************************************************)
Relations(kernel) == UNION {Elems(loop) : loop \in Elems(kernel.loops)}

\* The functions a kernel's files mention.
Vocabulary(kernel) ==
  {d.name : d \in Elems(kernel.ufs)}
  \cup (UNION {r.ufs : r \in Elems(kernel.rules)})
  \cup (UNION {rel.ufs : rel \in Relations(kernel)})

\* Each kernel of the list has names of its own, none of them an inverse's.
OwnNames(kernels) ==
  /\ \A a, b \in 1 .. Len(kernels) :
       a # b => Vocabulary(kernels[a]) \cap Vocabulary(kernels[b]) = {}
  /\ \A a \in 1 .. Len(kernels) : \A f \in Vocabulary(kernels[a]) : f[2] = 0

\* Every range declared prints a lower and an upper bound of its variable.
RangesBounded(kernels) ==
  \A a \in 1 .. Len(kernels) : \A d \in Elems(kernels[a].ufs) : RangeBounded(d)

\* A monotonicity rule is about the function it was derived from.
LEMMA MonotonicityUfs ==
  ASSUME NEW d, NEW x \in Elems(MonotonicityRules(d))
  PROVE  x.ufs = {d.name}
<1> DEFINE R(a) == UniQuantRule("Monotonicity", {d.name}, <<d.name, a>>)
           unary == Len(d.dom.tvs) = 1 /\ Len(d.ran.tvs) = 1
           M == MonotonicityRules(d)
<1>1. M = CASE ~unary -> <<>>
            [] unary /\ d.mono = "Monotonic_Increasing" ->
                 <<R("e1<e2 => f1<f2"), R("f1<f2 => e1<e2")>>
            [] unary /\ d.mono = "Monotonic_Nondecreasing" -> <<R("e1<e2 => f1<=f2")>>
            [] unary /\ d.mono = "Monotonic_Decreasing" ->
                 <<R("e1<e2 => f1>f2"), R("f1<f2 => e1>e2")>>
            [] unary /\ d.mono = "Monotonic_Nonincreasing" -> <<R("e1<e2 => f1>=f2")>>
            [] OTHER -> <<>>
  BY Zenon DEF MonotonicityRules
<1>2. \A a : R(a).ufs = {d.name}
  BY DEF UniQuantRule
<1>3. PICK n \in 1 .. Len(M) : x = M[n]
  BY DEF Elems
<1> HIDE DEF R, M, unary
<1>4. \/ M = <<>> \/ (\E a, b : M = <<R(a), R(b)>>) \/ (\E a : M = <<R(a)>>)
  BY <1>1
<1>5. ASSUME NEW a, NEW b, M = <<R(a), R(b)>> PROVE x \in {R(a), R(b)}
  BY <1>3, <1>5
<1>6. ASSUME NEW a, M = <<R(a)>> PROVE x = R(a)
  BY <1>3, <1>6
<1>7. M # <<>>
  BY <1>3
<1> QED
  BY <1>2, <1>4, <1>5, <1>6, <1>7

\* A kernel's rules mention its own functions.
LEMMA RuleVocabulary ==
  ASSUME NEW kernel, NEW x \in KernelRules(kernel)
  PROVE  x.ufs \subseteq Vocabulary(kernel)
<1>1. CASE \E r \in Elems(kernel.rules) : x = UniQuantRule(r.type, r.ufs, r.fact)
  <2>1. PICK r \in Elems(kernel.rules) : x = UniQuantRule(r.type, r.ufs, r.fact)
    BY <1>1
  <2>2. x.ufs = r.ufs
    BY <2>1 DEF UniQuantRule
  <2>3. r.ufs \subseteq UNION {s.ufs : s \in Elems(kernel.rules)}
    OBVIOUS
  <2> QED
    BY <2>2, <2>3 DEF Vocabulary
<1>2. CASE \E d \in Elems(kernel.ufs) : x \in Elems(MonotonicityRules(FromJson(d)))
  <2>1. PICK d \in Elems(kernel.ufs) : x \in Elems(MonotonicityRules(FromJson(d)))
    BY <1>2
  <2>2. x.ufs = {d.name}
    BY <2>1, MonotonicityUfs, FromJsonFacts
  <2> QED
    BY <2>2 DEF Vocabulary
<1> QED
  BY <1>1, <1>2, Zenon DEF KernelRules

\* What a query of the kernel asserts, the JSON file of the kernel declares.
LEMMA AssertedDeclared ==
  ASSUME ControlInv, OriginInv, OwnNames(list), RangesBounded(list), k >= 1,
         NEW rel \in Relations(Kernel), NEW r \in 0 .. NRL - 1,
         ~Unbuildable(getUQR(r, rel.ufs))
  PROVE  Asserted(getUQR(r, rel.ufs)) \subseteq DeclaredFacts(r)
<1> DEFINE q == getUQR(r, rel.ufs)
           W == Vocabulary(Kernel)
           G == {rule.fact : rule \in {s \in DeclaredRules : s.type \in check_useRule[r]}}
<1>1. /\ list \in KernelLists /\ Len(list) \in Nat /\ k \in 1 .. Len(list)
      /\ Kernel = list[k] /\ Len(uniQuantRules) \in Nat
  <2>1. list \in KernelLists /\ Len(list) \in Nat /\ k \in 1 .. Len(list)
    BY DriverInputs DEF ControlInv, IsSeq
  <2>2. Len(uniQuantRules) \in Nat
    BY LenProperties DEF OriginInv, RulesFrom
  <2> QED
    BY <2>1, <2>2 DEF Kernel
<1>2. rel.ufs \subseteq W
  <2>1. rel.ufs \subseteq UNION {e.ufs : e \in Relations(Kernel)}
    OBVIOUS
  <2> QED
    BY <2>1 DEF Vocabulary
<1>3. ASSUME NEW n \in 1 .. Len(uniQuantRules),
             uniQuantRules[n].type \in check_useRule[r], uniQuantRules[n].ufs \cap W # {}
      PROVE  uniQuantRules[n].ufs \subseteq W /\ uniQuantRules[n].fact \in G
  <2>1. PICK a \in 1 .. k : uniQuantRules[n] \in KernelRules(list[a])
    BY RuleOrigin
  <2>2. uniQuantRules[n].ufs \subseteq Vocabulary(list[a])
    BY <2>1, RuleVocabulary
  <2>3. a = k
    <3>1. a \in 1 .. Len(list)
      BY <1>1
    <3> QED
      BY <3>1, <2>2, <1>1, <1>3 DEF OwnNames
  <2>4. uniQuantRules[n] \in DeclaredRules
    BY <2>1, <2>3, <1>1 DEF DeclaredRules
  <2> QED
    BY <2>2, <2>3, <2>4, <1>1, <1>3
<1>4. q.ufs \subseteq W /\ q.facts \subseteq G
  <2>1. q = QueryOf(uniQuantRules, r, rel.ufs)
    BY DEF getUQR, QueryOf
  <2> HIDE DEF q, W, G
  <2>2. \A n \in 1 .. Len(uniQuantRules) :
          uniQuantRules[n].type \in check_useRule[r] /\ uniQuantRules[n].ufs \cap W # {}
          => uniQuantRules[n].ufs \subseteq W /\ uniQuantRules[n].fact \in G
    BY <1>3
  <2>3. /\ QueryOf(uniQuantRules, r, rel.ufs).ufs \subseteq W
        /\ QueryOf(uniQuantRules, r, rel.ufs).facts \subseteq G
    BY <2>2, <1>1, <1>2, QueryClosed
  <2> QED
    BY <2>1, <2>3
<1>5. ASSUME NEW f \in q.ufs
      PROVE  RangeFact(f, mUninterpFuncMap[f])
               \in {<<"range", d.name, InRange(d)>> : d \in Elems(Kernel.ufs)}
  <2>1. f \in DOMAIN mUninterpFuncMap
    BY DEF Unbuildable, Declared
  <2>2. PICK e \in OwnDecls : DeclaredBy(f, e)
    BY <2>1, <1>1 DEF OriginInv, MapFrom
  <2>3. PICK d \in Elems(Kernel.ufs) : e = FromJson(d)
    BY <2>2 DEF OwnDecls
  <2>4. d.name \in W /\ f \in W
    BY <1>4 DEF Vocabulary
  <2>5. f[2] = 0 /\ d.name[2] = 0
    BY <2>4, <1>1 DEF OwnNames
  <2>6. f = d.name /\ mUninterpFuncMap[f] = FromJson(d)
    <3>1. InvName(d.name)[2] = 1
      BY <2>5 DEF InvName
    <3> QED
      BY <3>1, <2>2, <2>3, <2>5, FromJsonFacts DEF DeclaredBy
  <2>7. RangeBounded(FromJson(d))
    <3>1. RangeBounded(d)
      BY <2>3, <1>1 DEF RangesBounded
    <3> DEFINE c == FromJson(d)
    <3>2. c.ran = d.ran /\ c.dom = d.dom
      BY FromJsonFacts
    <3> HIDE DEF c
    <3>3. RangeBounded(c)
      BY <3>1, <3>2 DEF RangeBounded
    <3> QED
      BY <3>3 DEF c
  <2>8. getUQRForFuncDomainRange(FromJson(d)) = InRange(d)
    BY <2>7, RangeRuleExact, FromJsonFacts
  <2> QED
    BY <2>6, <2>8 DEF RangeFact
<1> HIDE DEF q
<1>6. q.facts \subseteq DeclaredFacts(r)
  BY <1>4 DEF DeclaredFacts
<1>7. {RangeFact(f, mUninterpFuncMap[f]) : f \in q.ufs} \subseteq DeclaredFacts(r)
  BY <1>5 DEF DeclaredFacts
<1> QED
  BY <1>6, <1>7 DEF Asserted, q

\* Within a loop, and in what has been said of it, a relation counts as
\* refuted only if declared facts refute it.
SoundInv ==
  /\ VerdictSound
  /\ pc = "decide" =>
       /\ \A n \in 1 .. Len(deps) : deps[n].unsat => Refuted(deps[n].rel, DeclaredFacts(0))
       /\ unSatFound = i - 1 =>
            \A n \in 1 .. i - 1 : Refuted(deps[n].rel, DeclaredFacts(rlc))

\* A combination with more kinds rests on no fewer facts.
LEMMA FactsMonotone ==
  ASSUME NEW rel, NEW r \in 0 .. NRL - 1, Refuted(rel, DeclaredFacts(0))
  PROVE  Refuted(rel, DeclaredFacts(r))
<1>1. DeclaredFacts(0) \subseteq DeclaredFacts(r)
  <2>1. check_useRule[0] \subseteq check_useRule[r]
    BY Kinds
  <2>2. \A s \in DeclaredRules : s.type \in check_useRule[0] => s.type \in check_useRule[r]
    BY <2>1
  <2> DEFINE A(x) == {rule.fact : rule \in {s \in DeclaredRules : s.type \in check_useRule[x]}}
  <2>3. A(0) \subseteq A(r)
    BY <2>2
  <2> QED
    BY <2>3, Zenon DEF DeclaredFacts
<1> QED
  BY <1>1 DEF Refuted

\* A step of the analysis, at relation i.
LEMMA AskedKeepsSound ==
  ASSUME ControlInv, FileInv, DepsInv, OriginInv, SaidInv, SoundInv,
         OwnNames(list), RangesBounded(list), Skip \/ Decide
  PROVE  SoundInv'
<1>1. /\ pc = "decide" /\ pc' \in {"decide", "abort"} /\ UNCHANGED <<said, list, k, loopNo>>
  BY DEF Skip, Decide
<1>2. UNCHANGED <<Kernel, TheLoop>>
  BY <1>1 DEF Kernel, TheLoop
<1> DEFINE DF(r) == DeclaredFacts(r)
<1>3. (\A r : DF(r)' = DF(r)) /\ VerdictSound'
  <2>1. \A r : DeclaredFacts(r)' = DeclaredFacts(r)
    BY <1>2 DEF DeclaredFacts, DeclaredRules
  <2>2. VerdictSound'
    BY <1>1, <1>2, <2>1 DEF SoundInv, VerdictSound, AllRefuted, DeclaredFacts, DeclaredRules
  <2> QED
    BY <2>1, <2>2
<1> SUFFICES ASSUME pc' = "decide" PROVE SoundInv'
  BY <1>1, <1>3 DEF SoundInv
<1>4. /\ deps \in Seq(AskedOf(Elems(TheLoop))) /\ i \in 1 .. Len(deps) /\ Len(deps) \in Nat
      /\ rlc \in 0 .. NRL - 1 /\ unSatFound \in 0 .. i - 1 /\ UNCHANGED rlc /\ i' = i + 1
  <2>1. i <= Len(deps) /\ UNCHANGED rlc /\ i' = i + 1
    BY <1>1 DEF Skip, Decide
  <2> QED
    BY <1>1, <2>1, LenProperties DEF DepsInv, SaidInv, Asked
<1>5. deps[i].rel \in Relations(Kernel) /\ k >= 1
  <2>1. deps[i].rel \in Elems(TheLoop)
    <3>1. deps[i] \in AskedOf(Elems(TheLoop))
      BY <1>4, ElementOfSeq
    <3> QED
      BY <3>1 DEF AskedOf
  <2>2. TheLoop \in Elems(Kernel.loops) /\ k >= 1
    <3>1. loopNo \in 1 .. Len(Kernel.loops)
      <4>1. k \in 1 .. Len(list) /\ list \in KernelLists
        BY <1>1, DriverInputs DEF ControlInv, IsSeq
      <4>2. Len(Kernel.loops) \in Nat
        BY <4>1, KernelFacts DEF Kernel, IsLoops, IsSeq
      <4> QED
        BY <4>2, <1>1 DEF FileInv
    <3> QED
      BY <3>1, <1>1 DEF TheLoop, Elems, ControlInv
  <2> QED
    BY <2>1, <2>2 DEF Relations
\* Relation i is counted only if what is declared refutes it.
<1>6. \/ unSatFound' = unSatFound /\ deps' = deps
      \/ /\ unSatFound' = unSatFound + 1 /\ Refuted(deps[i].rel, DF(rlc))
         /\ deps' = deps \/ (deps' = Mark(deps, i) /\ rlc = 0)
  <2>1. CASE Skip
    <3>1. deps[i].unsat /\ unSatFound' = unSatFound + 1 /\ deps' = deps
      BY <2>1 DEF Skip
    <3>2. Refuted(deps[i].rel, DF(rlc))
      BY <3>1, <1>1, <1>4, FactsMonotone DEF SoundInv
    <3> QED
      BY <3>1, <3>2
  <2>2. CASE Decide
    <3> DEFINE q == getUQR(rlc, deps[i].rel.ufs)
    <3>1. /\ ~Unbuildable(q)
          /\ \E sat \in BOOLEAN :
               /\ ~sat => Refuted(deps[i].rel, Asserted(q))
               /\ unSatFound' = IF sat THEN unSatFound ELSE unSatFound + 1
               /\ deps' = IF ~sat /\ rlc = 0 THEN [deps EXCEPT ![i].unsat = TRUE] ELSE deps
      <4>1. ~ (pc' = "abort")
        OBVIOUS
      <4> QED
        BY <4>1, <2>2, Zenon DEF Decide
    <3>2. Asserted(q) \subseteq DF(rlc)
      BY <3>1, <1>4, <1>5, AssertedDeclared
    <3>3. Refuted(deps[i].rel, Asserted(q)) => Refuted(deps[i].rel, DF(rlc))
      <4> HIDE DEF q, DF
      <4> QED
        BY <3>2 DEF Refuted
    <3> HIDE DEF q, DF
    <3> QED
      BY <3>1, <3>3, Zenon DEF Mark
  <2> QED
    BY <2>1, <2>2
<1> HIDE DEF DF
<1>7. /\ Len(deps') = Len(deps)
      /\ \A n \in 1 .. Len(deps) : /\ deps'[n].rel = deps[n].rel
                                   /\ deps'[n].unsat => Refuted(deps[n].rel, DF(0))
  <2>1. \A n \in 1 .. Len(deps) : deps[n].unsat => Refuted(deps[n].rel, DF(0))
    BY <1>1 DEF SoundInv, DF
  <2>2. CASE deps' = deps
    BY <2>1, <2>2
  <2>3. CASE deps' # deps
    <3>1. deps' = Mark(deps, i) /\ Refuted(deps[i].rel, DF(0))
      BY <1>6, <2>3
    <3>2. /\ Len(Mark(deps, i)) = Len(deps)
          /\ \A n \in 1 .. Len(deps) : /\ Mark(deps, i)[n].rel = deps[n].rel
                                       /\ n # i => Mark(deps, i)[n].unsat = deps[n].unsat
      BY <1>4, MarkUnsat
    <3> QED
      BY <2>1, <3>1, <3>2
  <2> QED
    BY <2>2, <2>3
<1>8. unSatFound' = i' - 1 => \A n \in 1 .. i' - 1 : Refuted(deps[n].rel, DF(rlc))
  <2> SUFFICES ASSUME unSatFound' = i' - 1, NEW n \in 1 .. i' - 1
               PROVE  Refuted(deps[n].rel, DF(rlc))
    OBVIOUS
  <2>1. unSatFound = i - 1 /\ Refuted(deps[i].rel, DF(rlc))
    BY <1>4, <1>6
  <2>2. n \in 1 .. i - 1 \/ n = i
    BY <1>4
  <2> QED
    BY <2>1, <2>2, <1>1 DEF SoundInv, DF
<1>9. \A n \in 1 .. i' - 1 : n \in 1 .. Len(deps)
  BY <1>4
<1>10. (\A n \in 1 .. Len(deps) : deps[n].unsat => Refuted(deps[n].rel, DeclaredFacts(0)))'
  BY <1>3, <1>7 DEF DF, Refuted
<1>11. (unSatFound = i - 1 => \A n \in 1 .. i - 1 : Refuted(deps[n].rel, DeclaredFacts(rlc)))'
  BY <1>3, <1>4, <1>7, <1>8, <1>9 DEF DF, Refuted
<1> QED
  BY <1>3, <1>10, <1>11 DEF SoundInv

\* The list of kernels is never written.
LEMMA ListKept ==
  ASSUME [Next]_vars
  PROVE  UNCHANGED <<list, decisive>>
  BY DEF Next, NextKernel, EndOfList, AddUFC, UFCsAdded, AddRule, RunChill, NextLoop,
         EndOfFile, ReadRelation, StartAnalysis, Skip, Decide, EndCombination, vars

\* The loop is called fully parallel when each of its relations was counted.
LEMMA EndKeepsSound ==
  ASSUME FileInv, DepsInv, SaidInv, SoundInv, EndCombination
  PROVE  SoundInv'
<1>1. /\ pc = "decide" /\ i > Len(deps) /\ UNCHANGED <<deps, list, k, loopNo>>
      /\ pc' = "decide" => i' = 1 /\ unSatFound' = 0
  BY DEF EndCombination
<1>2. UNCHANGED <<Kernel, TheLoop>>
  BY <1>1 DEF Kernel, TheLoop
<1> DEFINE DF(r) == DeclaredFacts(r)
<1>3. \A r : DF(r)' = DF(r) /\ AllRefuted(r)' = AllRefuted(r)
  BY <1>2 DEF DeclaredFacts, DeclaredRules, AllRefuted
<1>4. /\ Len(deps) \in Nat /\ i - 1 = Len(deps) /\ i \in Nat /\ rlc \in 0 .. NRL - 1 /\ ct = 0
      /\ said \in Seq(Verdicts)
  BY <1>1, LenProperties DEF DepsInv, SaidInv, FileInv
<1> DEFINE yes == [par |-> TRUE, by |-> rlc]
           no == [par |-> FALSE, by |-> rlc]
<1>5. /\ Len(Append(said, yes)) = Len(said) + 1 /\ Append(said, yes)[Len(said) + 1] = yes
      /\ Len(Append(said, no)) = Len(said) + 1 /\ Append(said, no)[Len(said) + 1] = no
      /\ \A n \in 1 .. Len(said) : Append(said, yes)[n] = said[n] /\ Append(said, no)[n] = said[n]
      /\ Len(said) \in Nat
  <2>1. yes \in Verdicts /\ no \in Verdicts
    BY <1>4 DEF Verdicts
  <2> HIDE DEF yes, no
  <2> QED
    BY <2>1, <1>4, AppendProperties, LenProperties
<1>6. unSatFound = Len(deps) => AllRefuted(rlc)
  <2> SUFFICES ASSUME unSatFound = Len(deps), NEW m \in 1 .. Len(TheLoop)
               PROVE  Refuted(TheLoop[m], DF(rlc))
    BY DEF AllRefuted
  <2>1. PICK n \in 1 .. Len(deps) : deps[n].rel = TheLoop[m]
    <3>1. m \in 1 .. Len(TheLoop) - ct
      BY <1>4
    <3> QED
      BY <3>1, <1>1 DEF DepsInv
  <2>2. Refuted(deps[n].rel, DF(rlc))
    BY <1>1, <1>4 DEF SoundInv
  <2> QED
    BY <2>1, <2>2
<1>7. \/ said' = said
      \/ said' = Append(said, yes) /\ AllRefuted(rlc)
      \/ said' = Append(said, no)
  BY <1>6 DEF EndCombination
<1>8. \A n \in 1 .. Len(said) : said[n].par => AllRefuted(said[n].by)
  BY DEF SoundInv, VerdictSound
<1>9. \A n \in 1 .. Len(said') : said'[n].par => AllRefuted(said'[n].by)
  <2>1. CASE said' = said
    BY <2>1, <1>8
  <2>2. CASE said' = Append(said, yes) /\ AllRefuted(rlc)
    <3> TAKE n \in 1 .. Len(said')
    <3>1. yes.by = rlc
      OBVIOUS
    <3> HIDE DEF yes, no
    <3>2. n \in 1 .. Len(said) \/ n = Len(said) + 1
      BY <2>2, <1>5
    <3> QED
      BY <3>1, <3>2, <2>2, <1>5, <1>8
  <2>3. CASE said' = Append(said, no)
    <3> TAKE n \in 1 .. Len(said')
    <3>1. ~no.par
      OBVIOUS
    <3> HIDE DEF yes, no
    <3>2. n \in 1 .. Len(said) \/ n = Len(said) + 1
      BY <2>3, <1>5
    <3> QED
      BY <3>1, <3>2, <2>3, <1>5, <1>8
  <2> QED
    BY <1>7, <2>1, <2>2, <2>3
<1>10. VerdictSound'
  <2>1. \A n \in 1 .. Len(said') : said'[n].par => AllRefuted(said'[n].by)
    BY <1>9
  <2>2. UNCHANGED <<TheLoop, Kernel>>
    BY <1>2
  <2> QED
    BY <2>1, <2>2 DEF VerdictSound, AllRefuted, DeclaredFacts, DeclaredRules
<1>11. (\A n \in 1 .. Len(deps) : deps[n].unsat => Refuted(deps[n].rel, DeclaredFacts(0)))'
  <2>1. \A n \in 1 .. Len(deps) : deps[n].unsat => Refuted(deps[n].rel, DeclaredFacts(0))
    BY <1>1 DEF SoundInv
  <2> QED
    BY <2>1, <1>1, <1>2 DEF Refuted, DeclaredFacts, DeclaredRules
<1>12. (pc = "decide" => 1 .. i - 1 = {})'
  BY <1>1
<1> QED
  BY <1>10, <1>11, <1>12 DEF SoundInv

\* Every step keeps verdicts and counts founded on declared facts.
LEMMA SoundKept ==
  ASSUME ControlInv, FileInv, DepsInv, OriginInv, SaidInv, SoundInv,
         OwnNames(list), RangesBounded(list), [Next]_vars
  PROVE  SoundInv'
<1>1. CASE Skip \/ Decide
  BY <1>1, AskedKeepsSound
<1>2. CASE EndCombination
  BY <1>2, EndKeepsSound
<1>3. CASE NextKernel \/ NextLoop
  BY <1>3 DEF NextKernel, NextLoop, SoundInv, VerdictSound
<1>4. ASSUME UNCHANGED <<said, list, k, loopNo>> PROVE VerdictSound'
  <2>1. UNCHANGED <<Kernel, TheLoop>>
    BY <1>4 DEF Kernel, TheLoop
  <2>2. VerdictSound
    BY DEF SoundInv
  <2> QED
    BY <2>1, <2>2, <1>4 DEF VerdictSound, AllRefuted, DeclaredFacts, DeclaredRules
<1>5. CASE StartAnalysis
  <2>1. UNCHANGED <<said, list, k, loopNo, deps>> /\ pc = "rels" /\ i' = 1
    BY <1>5 DEF StartAnalysis
  <2>2. \A n \in 1 .. Len(deps) : ~deps[n].unsat
    BY <2>1 DEF DepsInv
  <2>3. (\A n \in 1 .. Len(deps) : ~deps[n].unsat)' /\ 1 .. i' - 1 = {}
    BY <2>1, <2>2
  <2> QED
    BY <2>1, <2>3, <1>4 DEF SoundInv
<1>6. CASE EndOfList \/ AddUFC \/ UFCsAdded \/ AddRule \/ RunChill \/ EndOfFile \/ ReadRelation
  <2>1. UNCHANGED <<said, list, k, loopNo>> /\ pc' # "decide"
    BY <1>6 DEF EndOfList, AddUFC, UFCsAdded, AddRule, RunChill, EndOfFile, ReadRelation, loopVars
  <2> QED
    BY <2>1, <1>4 DEF SoundInv
<1>7. CASE UNCHANGED vars
  <2>1. UNCHANGED <<said, list, k, loopNo, pc, deps, unSatFound, i, rlc>>
    BY <1>7 DEF vars, driverVars
  <2>2. UNCHANGED <<Kernel, TheLoop>>
    BY <2>1 DEF Kernel, TheLoop
  <2> QED
    BY <2>1, <2>2, <1>4 DEF SoundInv, Refuted, DeclaredFacts, DeclaredRules
<1> QED
  BY <1>1, <1>2, <1>3, <1>5, <1>6, <1>7 DEF Next

\* README.md:40-41: a loop is called fully parallel only if what its kernel's
\* own JSON file declares refutes every dependence of it, as long as no two
\* kernels share a name (see MCFullParShared) and each range prints its bounds.
THEOREM VerdictsAreSound ==
  Spec /\ OwnNames(list) /\ RangesBounded(list) => []VerdictSound
<1> DEFINE Hyp == OwnNames(list) /\ RangesBounded(list)
<1>1. Init => SoundInv
  BY DEF Init, SoundInv, VerdictSound
<1>2. Hyp /\ [Next]_vars => Hyp'
  BY ListKept DEF OwnNames, RangesBounded
<1>3. /\ Hyp /\ SoundInv /\ ControlInv /\ FileInv /\ DepsInv /\ OriginInv /\ SaidInv
      /\ [Next]_vars
      => SoundInv'
  BY SoundKept
<1>4. SoundInv => VerdictSound
  BY DEF SoundInv
<1> HIDE DEF Hyp
<1>5. Spec /\ Hyp => []VerdictSound
  BY <1>1, <1>2, <1>3, <1>4, InTheFile, DepsAlways, OriginAlways, SaidAlways, PTL DEF Spec
<1> QED
  BY <1>5, PTL DEF Hyp

-----------------------------------------------------------------------------
(***************************************************************************)
(* Everything the JSON file declares has reached the environment by the    *)
(* time the kernel's loops are analysed, or an exception ended the run.    *)
(***************************************************************************)
KnownIn(map, rules, d) ==
  /\ d.name \in DOMAIN map /\ map[d.name] = FromJson(d)
  /\ Elems(MonotonicityRules(FromJson(d))) \subseteq Elems(rules)

AddedIn(rules, r) == UniQuantRule(r.type, r.ufs, r.fact) \in Elems(rules)

Known(d) == KnownIn(mUninterpFuncMap, uniQuantRules, d)
Added(r) == AddedIn(uniQuantRules, r)

LoadedInv ==
  /\ pc = "ufs" => \A n \in 1 .. u - 1 : Known(Kernel.ufs[n])
  /\ pc \in {"rules", "loops", "rels", "decide"} => \A d \in Elems(Kernel.ufs) : Known(d)
  /\ pc = "rules" => \A n \in 1 .. u - 1 : Added(Kernel.rules[n])
  /\ pc \in {"loops", "rels", "decide"} => \A r \in Elems(Kernel.rules) : Added(r)

\* A declaration that is accepted is known, and forgets none.
LEMMA AppendLoads ==
  ASSUME NEW d, WellNamed(FromJson(d)), NEW S, uniQuantRules \in Seq(S),
         appendCurrEnv(FromJson(d)), ~threw'
  PROVE  /\ KnownIn(mUninterpFuncMap', uniQuantRules', d)
         /\ \A e : Known(e) => KnownIn(mUninterpFuncMap', uniQuantRules', e)
<1> DEFINE c == FromJson(d)
           M == MonotonicityRules(c)
           X == S \cup Elems(M)
<1>1. /\ Introduced(c) \cap DOMAIN mUninterpFuncMap = {}
      /\ mUninterpFuncMap' = Insert(mUninterpFuncMap, CtorFuncs(c))
      /\ uniQuantRules' = uniQuantRules \o M
  BY AppendCases
<1>2. c.name = d.name /\ c.name \in Introduced(c) /\ CtorFuncs(c)[c.name] = c
      /\ DOMAIN CtorFuncs(c) = Introduced(c)
  BY FromJsonFacts, CtorFacts
<1>3. uniQuantRules \in Seq(X) /\ M \in Seq(X)
  <2>1. S \subseteq X /\ Elems(M) \subseteq X
    OBVIOUS
  <2>2. M \in Seq(Elems(M))
    BY MonotonicityRulesSeq
  <2> HIDE DEF X, M
  <2> QED
    BY <2>1, <2>2, SeqMonotonic
<1> HIDE DEF c, X, M
<1>4. /\ Len(uniQuantRules) \in Nat /\ Len(M) \in Nat
      /\ Len(uniQuantRules') = Len(uniQuantRules) + Len(M)
      /\ \A n \in 1 .. Len(uniQuantRules) : uniQuantRules'[n] = uniQuantRules[n]
      /\ \A n \in 1 .. Len(M) : uniQuantRules'[Len(uniQuantRules) + n] = M[n]
  BY <1>1, <1>3, ConcatProperties, LenProperties
<1>5. Elems(uniQuantRules) \subseteq Elems(uniQuantRules')
  <2>1. \A n \in 1 .. Len(uniQuantRules) : n \in 1 .. Len(uniQuantRules')
    BY <1>4
  <2> QED
    BY <2>1, <1>4 DEF Elems
<1>6. Elems(M) \subseteq Elems(uniQuantRules')
  <2>1. \A n \in 1 .. Len(M) : Len(uniQuantRules) + n \in 1 .. Len(uniQuantRules')
    BY <1>4
  <2> QED
    BY <2>1, <1>4 DEF Elems
<1>7. /\ DOMAIN mUninterpFuncMap' = DOMAIN mUninterpFuncMap \cup Introduced(c)
      /\ \A f \in DOMAIN mUninterpFuncMap : mUninterpFuncMap'[f] = mUninterpFuncMap[f]
      /\ \A f \in Introduced(c) : mUninterpFuncMap'[f] = CtorFuncs(c)[f]
  BY <1>1, <1>2 DEF Insert
<1>8. KnownIn(mUninterpFuncMap', uniQuantRules', d)
  <2>1. d.name \in DOMAIN mUninterpFuncMap' /\ mUninterpFuncMap'[d.name] = c
    BY <1>2, <1>7
  <2> QED
    BY <2>1, <1>6 DEF KnownIn, c, M
<1>9. ASSUME NEW e, Known(e) PROVE KnownIn(mUninterpFuncMap', uniQuantRules', e)
  <2>1. e.name \in DOMAIN mUninterpFuncMap' /\ mUninterpFuncMap'[e.name] = FromJson(e)
    BY <1>7, <1>9 DEF Known, KnownIn
  <2> QED
    BY <2>1, <1>5, <1>9 DEF Known, KnownIn
<1> QED
  BY <1>8, <1>9

\* addUniQuantRule appends.
LEMMA AddLoads ==
  ASSUME NEW r, NEW S, uniQuantRules \in Seq(S), addUniQuantRule(r)
  PROVE  /\ AddedIn(uniQuantRules', r) /\ \A s : Added(s) => AddedIn(uniQuantRules', s)
         /\ \A e : Known(e) => KnownIn(mUninterpFuncMap', uniQuantRules', e)
<1> DEFINE x == UniQuantRule(r.type, r.ufs, r.fact)
           X == S \cup {x}
<1>1. uniQuantRules' = Append(uniQuantRules, x) /\ mUninterpFuncMap' = mUninterpFuncMap
  BY DEF addUniQuantRule
<1>2. uniQuantRules \in Seq(X) /\ x \in X
  <2>1. S \subseteq X /\ x \in X
    OBVIOUS
  <2> HIDE DEF X, x
  <2> QED
    BY <2>1, SeqMonotonic
<1> HIDE DEF x, X
<1>3. /\ Len(uniQuantRules) \in Nat /\ Len(uniQuantRules') = Len(uniQuantRules) + 1
      /\ \A n \in 1 .. Len(uniQuantRules) : uniQuantRules'[n] = uniQuantRules[n]
      /\ uniQuantRules'[Len(uniQuantRules) + 1] = x
  BY <1>1, <1>2, AppendProperties, LenProperties
<1>4. Elems(uniQuantRules) \subseteq Elems(uniQuantRules') /\ x \in Elems(uniQuantRules')
  <2>1. /\ \A n \in 1 .. Len(uniQuantRules) : n \in 1 .. Len(uniQuantRules')
        /\ Len(uniQuantRules) + 1 \in 1 .. Len(uniQuantRules')
    BY <1>3
  <2> QED
    BY <2>1, <1>3 DEF Elems
<1> QED
  BY <1>1, <1>4 DEF Added, AddedIn, Known, KnownIn, x

\* Every step keeps what has been loaded.
LEMMA LoadedKept ==
  ASSUME ControlInv, LoadedInv, NEW S, uniQuantRules \in Seq(S), [Next]_vars
  PROVE  LoadedInv'
<1>1. list \in KernelLists /\ Len(list) \in Nat /\ k \in 0 .. Len(list)
  BY DriverInputs DEF ControlInv, IsSeq
<1>2. CASE NextKernel
  BY <1>2 DEF NextKernel, LoadedInv
<1>3. CASE AddUFC
  <2> DEFINE d == Kernel.ufs[u]
  <2>1. /\ pc = "ufs" /\ pc' \in {"ufs", "abort"} /\ (pc' = "ufs" => ~threw') /\ Kernel' = Kernel
        /\ u' = u + 1 /\ u <= Len(Kernel.ufs) /\ appendCurrEnv(FromJson(d))
    BY <1>3 DEF AddUFC, Kernel
  <2>2. k \in 1 .. Len(list) /\ u \in 1 .. Len(Kernel.ufs)
    <3>1. k \in 1 .. Len(list)
      BY <1>1, <2>1 DEF ControlInv
    <3>2. Len(Kernel.ufs) \in Nat
      BY <1>1, <3>1, KernelFacts DEF Kernel
    <3> QED
      BY <3>1, <3>2, <2>1 DEF ControlInv
  <2>3. WellNamed(FromJson(d))
    <3>1. d \in Elems(Kernel.ufs)
      BY <2>2 DEF Elems
    <3> QED
      BY <3>1, <1>1, <2>2, KernelFacts, FromJsonFacts DEF Kernel
  <2>4. ASSUME pc' = "ufs" 
        PROVE  /\ KnownIn(mUninterpFuncMap', uniQuantRules', d)
               /\ \A e : Known(e) => KnownIn(mUninterpFuncMap', uniQuantRules', e)
    <3>1. ~threw'
      BY <2>1, <2>4
    <3> QED
      BY <3>1, <2>1, <2>3, AppendLoads
  <2>5. \A n \in 1 .. u - 1 : Known(Kernel.ufs[n])
    BY <2>1 DEF LoadedInv
  <2>6. \A n \in 1 .. u' - 1 : n \in 1 .. u - 1 \/ n = u
    BY <2>1, <2>2
  <2>7. ASSUME pc' = "ufs" PROVE (\A n \in 1 .. u - 1 : Known(Kernel.ufs[n]))'
    <3>1. \A n \in 1 .. u' - 1 : KnownIn(mUninterpFuncMap', uniQuantRules', Kernel.ufs[n])
      BY <2>4, <2>5, <2>6, <2>7
    <3>2. Kernel' = Kernel
      BY <2>1
    <3> QED
      BY <3>1, <3>2 DEF Known
  <2> QED
    BY <2>1, <2>7 DEF LoadedInv
<1>4. CASE UFCsAdded
  <2>1. /\ pc = "ufs" /\ pc' = "rules" /\ u > Len(Kernel.ufs) /\ u' = 1
        /\ UNCHANGED <<Kernel, mUninterpFuncMap, uniQuantRules>>
    BY <1>4 DEF UFCsAdded, Kernel, envVars
  <2>2. \A n \in 1 .. Len(Kernel.ufs) : n \in 1 .. u - 1
    <3>1. k \in 1 .. Len(list)
      BY <1>1, <2>1 DEF ControlInv
    <3>2. Len(Kernel.ufs) \in Nat
      BY <1>1, <3>1, KernelFacts DEF Kernel
    <3> QED
      BY <3>2, <2>1 DEF ControlInv
  <2>3. \A d \in Elems(Kernel.ufs) : Known(d)
    BY <2>1, <2>2 DEF LoadedInv, Elems
  <2>4. (\A d \in Elems(Kernel.ufs) : Known(d))'
    BY <2>1, <2>3 DEF Known
  <2> QED
    BY <2>1, <2>4 DEF LoadedInv
<1>5. CASE AddRule
  <2> DEFINE r == Kernel.rules[u]
             rules == Kernel.rules
             ufs == Kernel.ufs
  <2>1. /\ pc = "rules" /\ pc' = "rules" /\ rules' = rules /\ ufs' = ufs
        /\ u' = u + 1 /\ u <= Len(rules) /\ addUniQuantRule(r)
    BY <1>5 DEF AddRule, Kernel
  <2>2. u \in Nat
    <3>1. u \in 1 .. Len(rules) + 1
      BY <2>1 DEF ControlInv
    <3> QED
      BY <3>1
  <2>3. /\ AddedIn(uniQuantRules', r) /\ \A s : Added(s) => AddedIn(uniQuantRules', s)
        /\ \A e : Known(e) => KnownIn(mUninterpFuncMap', uniQuantRules', e)
    BY <2>1, AddLoads
  <2>4. /\ \A n \in 1 .. u - 1 : Added(rules[n])
        /\ \A d \in Elems(ufs) : Known(d)
    BY <2>1 DEF LoadedInv
  <2>5. \A n \in 1 .. u' - 1 : n \in 1 .. u - 1 \/ n = u
    BY <2>1, <2>2
  <2>6. \A n \in 1 .. u' - 1 : AddedIn(uniQuantRules', rules[n])
    BY <2>3, <2>4, <2>5
  <2>7. (\A n \in 1 .. u - 1 : Added(rules[n]))'
    BY <2>1, <2>6 DEF Added
  <2>8. (\A d \in Elems(ufs) : Known(d))'
    <3>1. \A d \in Elems(ufs) : KnownIn(mUninterpFuncMap', uniQuantRules', d)
      BY <2>3, <2>4
    <3> QED
      BY <2>1, <3>1 DEF Known
  <2> QED
    BY <2>1, <2>7, <2>8 DEF LoadedInv
<1>6. CASE RunChill
  <2>1. /\ pc = "rules" /\ pc' = "loops" /\ u > Len(Kernel.rules)
        /\ UNCHANGED <<Kernel, mUninterpFuncMap, uniQuantRules>>
    BY <1>6 DEF RunChill, Kernel, envVars
  <2>2. \A n \in 1 .. Len(Kernel.rules) : n \in 1 .. u - 1
    <3>1. k \in 1 .. Len(list)
      BY <1>1, <2>1 DEF ControlInv
    <3>2. Len(Kernel.rules) \in Nat
      BY <1>1, <3>1, KernelFacts DEF Kernel
    <3> QED
      BY <3>2, <2>1 DEF ControlInv
  <2>3. /\ \A r \in Elems(Kernel.rules) : Added(r)
        /\ \A d \in Elems(Kernel.ufs) : Known(d)
    BY <2>1, <2>2 DEF LoadedInv, Elems
  <2>4. (\A d \in Elems(Kernel.ufs) : Known(d))' /\ (\A r \in Elems(Kernel.rules) : Added(r))'
    BY <2>1, <2>3 DEF Known, Added
  <2> QED
    BY <2>1, <2>4 DEF LoadedInv
<1>7. CASE NextLoop \/ ReadRelation \/ StartAnalysis \/ Skip \/ Decide \/ EndCombination
  <2>1. /\ pc \in {"loops", "rels", "decide"}
        /\ pc' \in {"loops", "rels", "decide", "abort"}
        /\ UNCHANGED <<list, k, envVars>>
    BY <1>7 DEF NextLoop, ReadRelation, StartAnalysis, Skip, Decide, EndCombination
  <2>2. UNCHANGED <<Kernel, mUninterpFuncMap, uniQuantRules>>
    BY <2>1 DEF Kernel, envVars
  <2> QED
    BY <2>1, <2>2 DEF LoadedInv, Known, Added
<1>8. CASE EndOfList \/ EndOfFile
  BY <1>8 DEF EndOfList, EndOfFile, LoadedInv
<1>9. CASE UNCHANGED vars
  BY <1>9 DEF vars, driverVars, envVars, LoadedInv, Known, Added, Kernel
<1> QED
  BY <1>2, <1>3, <1>4, <1>5, <1>6, <1>7, <1>8, <1>9 DEF Next


\* The same in every state.
LEMMA LoadedAlways == Spec => []LoadedInv
<1>1. Init => LoadedInv
  BY DEF Init, LoadedInv
<1>2. LoadedInv /\ ControlInv /\ OriginInv /\ [Next]_vars => LoadedInv'
  BY LoadedKept DEF OriginInv, RulesFrom
<1> QED
  BY <1>1, <1>2, Control, OriginAlways, PTL DEF Spec

\* What is declared of the functions a relation mentions is in the query made
\* of it with every kind of rule.
LEMMA DirectAsserted ==
  ASSUME ControlInv, OriginInv, LoadedInv, RangesBounded(list),
         pc = "decide", NEW rel, Refuted(rel, DirectFacts(rel))
  PROVE  Answer(NRL - 1, rel)
<1> DEFINE q == QueryOf(uniQuantRules, NRL - 1, rel.ufs)
           A == AssertedOf(mUninterpFuncMap, q)
<1>1. /\ k \in 1 .. Len(list) /\ Len(uniQuantRules) \in Nat /\ NRL - 1 \in 0 .. NRL - 1
      /\ \A d \in Elems(Kernel.ufs) : Known(d)
      /\ \A r \in Elems(Kernel.rules) : Added(r)
  <2>1. k \in 1 .. Len(list) /\ NRL - 1 \in 0 .. NRL - 1
    BY DriverInputs DEF ControlInv, IsSeq, NRL
  <2>2. Len(uniQuantRules) \in Nat
    BY LenProperties DEF OriginInv, RulesFrom
  <2> QED
    BY <2>1, <2>2 DEF LoadedInv
<1>2. DeclaredRules \subseteq Elems(uniQuantRules)
  <2> SUFFICES ASSUME NEW x \in DeclaredRules PROVE x \in Elems(uniQuantRules)
    OBVIOUS
  <2>1. CASE \E r \in Elems(Kernel.rules) : x = UniQuantRule(r.type, r.ufs, r.fact)
    BY <2>1, <1>1 DEF Added, AddedIn
  <2>2. CASE \E d \in Elems(Kernel.ufs) : x \in Elems(MonotonicityRules(FromJson(d)))
    BY <2>2, <1>1 DEF Known, KnownIn
  <2> QED
    BY <2>1, <2>2, Zenon DEF DeclaredRules, KernelRules
<1>3. ASSUME NEW s \in DeclaredRules, s.type \in check_useRule[NRL - 1], s.ufs \cap rel.ufs # {}
      PROVE  s.fact \in A
  <2>1. PICK n \in 1 .. Len(uniQuantRules) : s = uniQuantRules[n]
    BY <1>2, <1>3 DEF Elems
  <2>2. s.fact \in q.facts
    BY <2>1, <1>1, <1>3, QueryDirect
  <2> HIDE DEF q
  <2> QED
    BY <2>2 DEF AssertedOf
<1>4. ASSUME NEW d \in Elems(Kernel.ufs), d.name \in rel.ufs
      PROVE  <<"range", d.name, InRange(d)>> \in A
  <2>1. rel.ufs \subseteq q.ufs
    BY <1>1, QueryDirect
  <2>2. mUninterpFuncMap[d.name] = FromJson(d)
    BY <1>1, <1>4 DEF Known, KnownIn
  <2> DEFINE c == FromJson(d)
  <2>3. c.ran = d.ran /\ c.dom = d.dom /\ c.name = d.name /\ RangeBounded(d)
    BY <1>1, FromJsonFacts DEF RangesBounded, Kernel
  <2> HIDE DEF c
  <2>4. RangeBounded(c)
    BY <2>3 DEF RangeBounded
  <2>5. getUQRForFuncDomainRange(c) = InRange(d)
    <3>1. InRange(c) = InRange(d)
      BY <2>3 DEF InRange, Call
    <3> QED
      BY <3>1, <2>4, RangeRuleExact
  <2>6. RangeFact(d.name, mUninterpFuncMap[d.name]) = <<"range", d.name, InRange(d)>>
    BY <2>2, <2>5 DEF RangeFact, c
  <2> HIDE DEF q
  <2> QED
    BY <2>1, <2>6, <1>4 DEF AssertedOf
<1> HIDE DEF A
<1>5. DirectFacts(rel) \subseteq A
  BY <1>3, <1>4, Zenon DEF DirectFacts
<1> QED
  BY <1>5 DEF Refuted, Answer, AnswerOf, A

\* The last combination: a relation directly refuted was counted.
LEMMA EndIsComplete ==
  ASSUME ControlInv, FileInv, DepsInv, SaidInv, AnswerInv, OriginInv, LoadedInv,
         RangesBounded(list), EndCombination, pc' = "loops", decisive,
         \A n \in 1 .. Len(TheLoop) : Refuted(TheLoop[n], DirectFacts(TheLoop[n]))
  PROVE  \E n \in 1 .. Len(said') : said'[n].par
<1>1. /\ pc = "decide" /\ i > Len(deps) /\ deps \in Seq(AskedOf(Elems(TheLoop)))
      /\ Len(deps) \in Nat /\ i - 1 = Len(deps) /\ rlc \in 0 .. NRL - 1
      /\ said \in Seq(Verdicts)
  <2>1. pc = "decide" /\ i > Len(deps)
    BY DEF EndCombination
  <2> QED
    BY <2>1, LenProperties DEF DepsInv, SaidInv, Asked
<1>2. rlc = NRL - 1
  <2>1. ~ (rlc < NRL - 1)
    BY <1>1 DEF EndCombination
  <2> QED
    BY <2>1, <1>1 DEF NRL
<1>3. \A n \in 1 .. Len(deps) : Answer(rlc, deps[n].rel)
  <2> TAKE n \in 1 .. Len(deps)
  <2>1. deps[n].rel \in Elems(TheLoop)
    <3>1. deps[n] \in AskedOf(Elems(TheLoop))
      BY <1>1, ElementOfSeq
    <3> QED
      BY <3>1 DEF AskedOf
  <2>2. Refuted(deps[n].rel, DirectFacts(deps[n].rel))
    BY <2>1 DEF Elems
  <2> QED
    BY <2>2, <1>1, <1>2, DirectAsserted
<1>4. unSatFound = Len(deps)
  BY <1>1, <1>3 DEF AnswerInv
<1> DEFINE yes == [par |-> TRUE, by |-> rlc]
<1>5. yes \in Verdicts /\ yes.par
  BY <1>1 DEF Verdicts
<1>6. said' = IF foundUnSat THEN said ELSE Append(said, yes)
  BY <1>4 DEF EndCombination
<1>7. foundUnSat => Len(said) = 1 /\ said[1].par
  BY <1>1 DEF SaidInv
<1> HIDE DEF yes
<1>8. CASE foundUnSat
  BY <1>6, <1>7, <1>8
<1>9. CASE ~foundUnSat
  <2>1. /\ Len(said) \in Nat /\ Len(Append(said, yes)) = Len(said) + 1
        /\ Append(said, yes)[Len(said) + 1] = yes
    BY <1>1, <1>5, AppendProperties, LenProperties
  <2> QED
    BY <2>1, <1>5, <1>6, <1>9
<1> QED
  BY <1>8, <1>9

\* A loop is left only through EndCombination, which EndIsComplete covers.
LEMMA CompleteKept ==
  ASSUME ControlInv, FileInv, DepsInv, SaidInv, AnswerInv, OriginInv, LoadedInv,
         RangesBounded(list), VerdictComplete, [Next]_vars
  PROVE  VerdictComplete'
<1>1. CASE EndCombination
  <2>1. UNCHANGED <<list, k, loopNo, decisive>>
    BY <1>1 DEF EndCombination
  <2>2. UNCHANGED <<Kernel, TheLoop>>
    BY <2>1 DEF Kernel, TheLoop
  <2>3. \A rel : Refuted(rel, DirectFacts(rel))' => Refuted(rel, DirectFacts(rel))
    BY <2>2 DEF Refuted, DirectFacts, DeclaredRules
  <2> QED
    BY <1>1, <2>1, <2>2, <2>3, EndIsComplete DEF VerdictComplete
<1>2. CASE RunChill
  <2>1. pc = "rules" /\ loopNo' = loopNo
    BY <1>2 DEF RunChill
  <2>2. loopNo = 0
    BY <2>1 DEF FileInv
  <2> QED
    BY <2>1, <2>2 DEF VerdictComplete
<1>3. CASE NextKernel \/ EndOfList \/ AddUFC \/ UFCsAdded \/ NextLoop \/ EndOfFile
           \/ ReadRelation \/ StartAnalysis
  <2>1. pc' # "loops"
    BY <1>3 DEF NextKernel, EndOfList, AddUFC, UFCsAdded, NextLoop, EndOfFile, ReadRelation,
                StartAnalysis
  <2> QED
    BY <2>1 DEF VerdictComplete
<1>4. CASE AddRule \/ Skip \/ Decide
  <2>1. pc \in {"rules", "decide"} /\ pc' \in {pc, "abort"}
    BY <1>4 DEF AddRule, Skip, Decide
  <2> QED
    BY <2>1 DEF VerdictComplete
<1>5. CASE UNCHANGED vars
  <2>1. UNCHANGED <<list, k, loopNo, decisive, pc, said>>
    BY <1>5 DEF vars, driverVars
  <2>2. UNCHANGED <<Kernel, TheLoop>>
    BY <2>1 DEF Kernel, TheLoop
  <2> QED
    BY <2>1, <2>2 DEF VerdictComplete, Refuted, DirectFacts, DeclaredRules
<1> QED
  BY <1>1, <1>2, <1>3, <1>4, <1>5 DEF Next

\* findFullParWithZ3.cc:204-304: if z3 never gives up, neither the relevance
\* filter nor the skipping of refuted relations nor the dropping of duplicates
\* loses the verdict of a loop whose relations are refuted by what is declared
\* of the functions they mention.  Names may be shared: more rules do no harm.
THEOREM VerdictsAreComplete == Spec /\ RangesBounded(list) => []VerdictComplete
<1> DEFINE Hyp == RangesBounded(list)
<1>1. Init => VerdictComplete
  BY DEF Init, VerdictComplete
<1>2. Hyp /\ [Next]_vars => Hyp'
  BY ListKept DEF RangesBounded
<1>3. Init => AnswerInv
  BY DEF Init, AnswerInv
<1>4. /\ AnswerInv /\ DepsInv /\ SaidInv /\ Len(uniQuantRules) \in Nat /\ [Next]_vars
      => AnswerInv'
  BY AnswerKept
<1>5. /\ Hyp /\ VerdictComplete /\ ControlInv /\ FileInv /\ DepsInv /\ SaidInv /\ AnswerInv
      /\ OriginInv /\ LoadedInv /\ [Next]_vars
      => VerdictComplete'
  BY CompleteKept
<1> HIDE DEF Hyp
<1>6. Spec /\ Hyp => []VerdictComplete
  BY <1>1, <1>2, <1>3, <1>4, <1>5, InTheFile, DepsAlways, SaidAlways, OriginAlways,
     LoadedAlways, RulesAlways, PTL DEF Spec
<1> QED
  BY <1>6, PTL DEF Hyp
=============================================================================
