---------------------------- MODULE MCEnvironment ----------------------------
(***************************************************************************)
(* The environment under an arbitrary client: declarations, rules and      *)
(* resets in any order, exceptions caught and ignored.                     *)
(***************************************************************************)
EXTENDS Environment

CONSTANTS
  DomVar, RanVar,          \* the names a client gives the tuple variables
  MaxRules                 \* bound on the number of rules

Lower(v) == <<"0", "<=", v>>
Between(v, ub) == Lower(v) \o <<"&&", v, "<", ub>>
Reversed(v, ub) == <<v, "<=", ub, "&&", "0", "<=", v>>

SetOf(v, cons) == [tvs |-> <<v>>, cons |-> cons]

Bases == {"f", "g"}
Monos == {"Monotonic_NONE", "Monotonic_Nondecreasing", "Monotonic_Increasing",
          "Monotonic_Decreasing", "Monotonic_Nonincreasing"}

\* Declarations of f, g and of a function that already has an "_inv" suffix.
Decls ==
  {[name |-> nm, dom |-> SetOf(DomVar, Between(DomVar, "nnz")), ran |-> SetOf(RanVar, c),
    bijective |-> b, mono |-> m] :
     nm \in {<<"f", 0>>, <<"f", 1>>, <<"g", 0>>},
     c \in {Between(RanVar, "n"), Reversed(RanVar, "n")},
     b \in BOOLEAN, m \in Monos}

Rules ==
  {[type |-> t, ufs |-> {<<"f", 0>>, <<"g", 0>>}, fact |-> <<"user", t>>] :
     t \in {"Triangularity", "Triangulairty"}}

Declare == \E d \in Decls :
  Len(uniQuantRules) + Len(MonotonicityRules(d)) <= MaxRules /\ appendCurrEnv(d)
AddRule == \E r \in Rules : Len(uniQuantRules) < MaxRules /\ addUniQuantRule(r)

Next == setCurrEnv \/ Declare \/ AddRule

Spec == EnvInit /\ [][Next]_envVars
=============================================================================
