------------------------------- MODULE FullPar -------------------------------
(***************************************************************************)
(* The driver findFullParWithZ3.cc: for every kernel of the list, declare  *)
(* its index arrays and their properties in IEGenLib's environment, have   *)
(* CHiLL write the dependence relations of its loops to a file, and ask z3 *)
(* about each relation under eight combinations of the properties.         *)
(*                                                                         *)
(* A kernel is [ufs, rules, loops]; a loop is the sequence of dependence   *)
(* relations CHiLL prints for it; a relation is [id, ufs, cores], the      *)
(* functions it mentions and the sets of facts that refute it.  Facts are  *)
(* the "fact" of a rule and <<"range", f, constraints>>.                   *)
(***************************************************************************)
EXTENDS Environment, FiniteSets

CONSTANTS
  KernelLists,       \* the lists of kernels the driver may be run on
  MaxDeps            \* "dependences (100)": slots for a loop's relations

IsSeq(s) == Len(s) \in Nat /\ s \in Seq(Elems(s))

\* A list of JSON files, and what each holds, are sequences.
ASSUME DriverInputs ==
  /\ MaxDeps \in Nat
  /\ \A kernels \in KernelLists :
       /\ IsSeq(kernels)
       /\ \A kernel \in Elems(kernels) :
            /\ IsSeq(kernel.ufs) /\ IsSeq(kernel.rules) /\ IsSeq(kernel.loops)
            /\ \A d \in Elems(kernel.ufs) : WellNamed(d)
            /\ \A loop \in Elems(kernel.loops) : IsSeq(loop)

VARIABLES
  list,              \* the kernels, in order; never written
  decisive,          \* z3 never gives up in this run; never written
  pc, k, u,          \* place, kernel, next declaration or rule
  written,           \* history: the loops CHiLL wrote of this kernel
  depf,              \* what is left to read of CHiLL's output file
  loopNo,            \* loops read so far in this kernel
  ct,                \* relations of the loop still to read
  deps,              \* the loop's distinct relations: [rel, unsat]
  rlc, i,            \* property combination, relation
  unSatFound,        \* relations found unsatisfiable in this combination
  foundUnSat,        \* "Fully parallel!" was printed for this loop
  said               \* what was printed about this loop

driverVars == <<pc, k, u, depf, loopNo, ct, deps, rlc, i, unSatFound, foundUnSat, said>>
vars == <<list, decisive, written, driverVars, envVars>>

NRL == 8

\* MUTANT: the last row forgets its third kind.
check_useRuleShort ==
  [r \in 0 .. NRL - 1 |->
     CASE r \in {0} -> {}
       [] r \in {1, 5} -> {"Monotonicity"}
       [] r \in {2} -> {"CoMonotonicity"}
       [] r \in {3} -> {"Triangularity"}
       [] OTHER -> {"Monotonicity", "CoMonotonicity"}]

\* check_useRule: the kinds of rules each combination uses.
check_useRule ==
  [r \in 0 .. NRL - 1 |->
     CASE r = 0 -> {}
       [] r = 1 -> {"Monotonicity"}
       [] r = 2 -> {"CoMonotonicity"}
       [] r = 3 -> {"Triangularity"}
       [] r = 4 -> {"Monotonicity", "CoMonotonicity"}
       [] r = 5 -> {"Monotonicity", "Triangularity"}
       [] r = 6 -> {"CoMonotonicity", "Triangularity"}
       [] r = 7 -> {"Monotonicity", "CoMonotonicity", "Triangularity"}]

Kernel == list[k]

\* The lines of CHiLL's file for a loop: the header, then the relations.
Lines(loop) == <<[header |-> TRUE, nRels |-> Len(loop)]>>
               \o [n \in 1 .. Len(loop) |-> [header |-> FALSE, rel |-> loop[n]]]

\* The file after CHiLL wrote the first m loops of the kernel.
FileOf(loops, m) ==
  LET upTo[n \in 0 .. m] ==
        IF n = 0 THEN <<>> ELSE upTo[n - 1] \o Lines(loops[n])
  IN upTo[m]

\* MUTANT: a rule is used only if the query mentions all its functions.
getUQRAll(r, ufs) ==
  LET used == {n \in 1 .. Len(uniQuantRules) :
                 uniQuantRules[n].type \in check_useRule[r] /\ uniQuantRules[n].ufs \subseteq ufs}
  IN [ufs |-> ufs, facts |-> {uniQuantRules[n].fact : n \in used}]

\* getUQR: the rules of the kinds in use, in order; the query grows with each.
getUQR(r, ufs) ==
  LET upTo[n \in 0 .. Len(uniQuantRules)] ==
        IF n = 0 THEN [ufs |-> ufs, facts |-> {}]
        ELSE IF uniQuantRules[n].type \in check_useRule[r]
               THEN getZ3Form(uniQuantRules[n], upTo[n - 1])
               ELSE upTo[n - 1]
  IN IF r > 0 THEN upTo[Len(uniQuantRules)] ELSE [ufs |-> ufs, facts |-> {}]

\* decideWithZ3 adds each function's domain-and-range rule to the query.
RangeFact(f, d) == <<"range", f, getUQRForFuncDomainRange(d)>>

\* The query cannot be built: an exception escapes the driver.
Unbuildable(q) ==
  \E f \in q.ufs :
    Declared(f) => getUQRForFuncDomainRange(mUninterpFuncMap[f]) = Undeclared

Asserted(q) == q.facts \cup {RangeFact(f, mUninterpFuncMap[f]) : f \in q.ufs}

Refuted(rel, facts) == \E c \in rel.cores : c \subseteq facts

-----------------------------------------------------------------------------
Init ==
  /\ EnvInit
  /\ list \in KernelLists
  /\ decisive \in BOOLEAN
  /\ pc = "list" /\ k = 0 /\ u = 0
  /\ depf = <<>> /\ written = 0 /\ loopNo = 0 /\ ct = 0
  /\ deps = <<>> /\ rlc = 0 /\ i = 0
  /\ unSatFound = 0 /\ foundUnSat = FALSE /\ said = <<>>

loopVars == <<ct, deps, rlc, i, unSatFound, foundUnSat, said>>

\* getline(inL, ...); setCurrEnv()
NextKernel ==
  /\ pc = "list" /\ k < Len(list)
  /\ k' = k + 1 /\ u' = 1 /\ loopNo' = 0
  /\ setCurrEnv
  /\ said' = <<>>
  /\ pc' = "ufs"
  /\ UNCHANGED <<list, decisive, written, depf, ct, deps, rlc, i, unSatFound, foundUnSat>>

EndOfList ==
  /\ pc = "list" /\ k = Len(list)
  /\ pc' = "done"
  /\ UNCHANGED <<list, decisive, written, k, u, depf, loopNo, loopVars, envVars>>

\* addUFCs: only the two increasing kinds of monotonicity are recognised.
FromJson(d) ==
  [d EXCEPT !.mono = IF @ \in {"Monotonic_Nondecreasing", "Monotonic_Increasing"}
                       THEN @ ELSE "Monotonic_NONE"]

AddUFC ==
  /\ pc = "ufs" /\ u <= Len(Kernel.ufs)
  /\ appendCurrEnv(FromJson(Kernel.ufs[u]))
  /\ u' = u + 1
  /\ pc' = IF threw' THEN "abort" ELSE "ufs"
  /\ UNCHANGED <<list, decisive, written, k, depf, loopNo, loopVars>>

UFCsAdded ==
  /\ pc = "ufs" /\ u > Len(Kernel.ufs)
  /\ u' = 1
  /\ pc' = "rules"
  /\ UNCHANGED <<list, decisive, written, k, depf, loopNo, loopVars, envVars>>

\* addUniQuantRules
AddRule ==
  /\ pc = "rules" /\ u <= Len(Kernel.rules)
  /\ addUniQuantRule(Kernel.rules[u])
  /\ u' = u + 1
  /\ UNCHANGED <<list, decisive, written, pc, k, depf, loopNo, loopVars>>

(***************************************************************************)
(* system("chill ..."), whose result nobody looks at.  CHiLL flushes each  *)
(* line and analyses a loop before it prints the loop's header, so if it   *)
(* dies the file holds a prefix of the loops.                              *)
(***************************************************************************)
RunChill ==
  /\ pc = "rules" /\ u > Len(Kernel.rules)
  /\ written' \in 0 .. Len(Kernel.loops)
  /\ depf' = FileOf(Kernel.loops, written')
  /\ pc' = "loops"
  /\ UNCHANGED <<list, decisive, k, u, loopNo, loopVars, envVars>>

\* The while loop over the file: readLoop, and a loop's variables.
NextLoop ==
  /\ pc = "loops" /\ depf # <<>>
  /\ ct' = Head(depf).nRels
  /\ depf' = Tail(depf)
  /\ loopNo' = loopNo + 1
  /\ deps' = <<>> /\ foundUnSat' = FALSE /\ said' = <<>>
  /\ pc' = "rels"
  /\ UNCHANGED <<list, decisive, written, k, u, rlc, i, unSatFound, envVars>>

\* MUTANT: the last line of the file is not looked at.
EndOfFileEarly ==
  /\ pc = "loops" /\ Len(depf) <= 1
  /\ pc' = "list"
  /\ UNCHANGED <<list, decisive, written, k, u, depf, loopNo, loopVars, envVars>>

EndOfFile ==
  /\ pc = "loops" /\ depf = <<>>
  /\ pc' = "list"
  /\ UNCHANGED <<list, decisive, written, k, u, depf, loopNo, loopVars, envVars>>

\* MUTANT: the last slot is not used.
ReadRelationShort ==
  /\ pc = "rels" /\ ct > 0
  /\ deps' = Append(deps, [rel |-> Head(depf).rel, unsat |-> FALSE])
  /\ pc' = IF Len(deps) >= MaxDeps - 1 THEN "abort" ELSE "rels"
  /\ ct' = ct - 1
  /\ depf' = Tail(depf)
  /\ UNCHANGED <<list, decisive, written, k, u, loopNo, rlc, i, unSatFound, foundUnSat, said, envVars>>

(***************************************************************************)
(* Read one relation; a duplicate is dropped.  The slot after the last one *)
(* of "dependences" does not exist: the write is undefined behaviour, of   *)
(* which the model keeps the crash.                                        *)
(***************************************************************************)
ReadRelation ==
  /\ pc = "rels" /\ ct > 0
  /\ LET rel == Head(depf).rel
         new == \A n \in 1 .. Len(deps) : deps[n].rel # rel
         full == new /\ Len(deps) = MaxDeps
     IN /\ deps' = IF new /\ ~full THEN Append(deps, [rel |-> rel, unsat |-> FALSE])
                                   ELSE deps
        /\ pc' = IF full THEN "abort" ELSE "rels"
  /\ ct' = ct - 1
  /\ depf' = Tail(depf)
  /\ UNCHANGED <<list, decisive, written, k, u, loopNo, rlc, i, unSatFound, foundUnSat, said, envVars>>

StartAnalysis ==
  /\ pc = "rels" /\ ct = 0
  /\ rlc' = 0 /\ i' = 1 /\ unSatFound' = 0
  /\ pc' = "decide"
  /\ UNCHANGED <<list, decisive, written, k, u, depf, loopNo, ct, deps, foundUnSat, said, envVars>>

\* A relation refuted by functional consistency alone is not asked about again.
Skip ==
  /\ pc = "decide" /\ i <= Len(deps) /\ deps[i].unsat
  /\ unSatFound' = unSatFound + 1
  /\ i' = i + 1
  /\ UNCHANGED <<list, decisive, written, pc, k, u, depf, loopNo, ct, deps, rlc, foundUnSat, said, envVars>>

(***************************************************************************)
(* getZ3form, getUQR and decideWithZ3 for relation i.  z3 says "unsat"     *)
(* only if that is so; anything else it says, or its silence when it fails *)
(* or times out, counts as satisfiable.                                    *)
(***************************************************************************)
Decide ==
  /\ pc = "decide" /\ i <= Len(deps) /\ ~deps[i].unsat
  /\ LET q == getUQR(rlc, deps[i].rel.ufs)
     IN \/ /\ Unbuildable(q)
           /\ pc' = "abort"
           /\ UNCHANGED <<deps, i, unSatFound>>
        \/ /\ ~Unbuildable(q)
           /\ \E sat \in BOOLEAN :
                /\ ~sat => Refuted(deps[i].rel, Asserted(q))
                /\ decisive /\ Refuted(deps[i].rel, Asserted(q)) => ~sat
                /\ unSatFound' = IF sat THEN unSatFound ELSE unSatFound + 1
                /\ deps' = IF ~sat /\ rlc = 0 THEN [deps EXCEPT ![i].unsat = TRUE]
                                              ELSE deps
           /\ i' = i + 1
           /\ UNCHANGED pc
  /\ UNCHANGED <<list, decisive, written, k, u, depf, loopNo, ct, rlc, foundUnSat, said, envVars>>

\* MUTANT: the count of one combination carries over to the next.
EndCombinationNoReset ==
  /\ pc = "decide" /\ i > Len(deps)
  /\ IF unSatFound = Len(deps)
       THEN /\ said' = IF foundUnSat THEN said ELSE Append(said, [par |-> TRUE, by |-> rlc])
            /\ foundUnSat' = TRUE
       ELSE /\ said' = IF rlc = NRL - 1 THEN Append(said, [par |-> FALSE, by |-> rlc])
                                        ELSE said
            /\ UNCHANGED foundUnSat
  /\ IF rlc < NRL - 1
       THEN rlc' = rlc + 1 /\ i' = 1 /\ UNCHANGED <<unSatFound, pc>>
       ELSE pc' = "loops" /\ UNCHANGED <<rlc, i, unSatFound>>
  /\ UNCHANGED <<list, decisive, written, k, u, depf, loopNo, ct, deps, envVars>>

\* MUTANT: the negative verdict is tied to a combination that does not exist.
EndCombinationSilent ==
  /\ pc = "decide" /\ i > Len(deps)
  /\ IF unSatFound = Len(deps)
       THEN /\ said' = IF foundUnSat THEN said ELSE Append(said, [par |-> TRUE, by |-> rlc])
            /\ foundUnSat' = TRUE
       ELSE /\ said' = IF rlc = NRL THEN Append(said, [par |-> FALSE, by |-> rlc])
                                        ELSE said
            /\ UNCHANGED foundUnSat
  /\ IF rlc < NRL - 1
       THEN rlc' = rlc + 1 /\ i' = 1 /\ unSatFound' = 0 /\ UNCHANGED pc
       ELSE pc' = "loops" /\ UNCHANGED <<rlc, i, unSatFound>>
  /\ UNCHANGED <<list, decisive, written, k, u, depf, loopNo, ct, deps, envVars>>

\* The verdict under combination rlc, and the next combination or loop.
EndCombination ==
  /\ pc = "decide" /\ i > Len(deps)
  /\ IF unSatFound = Len(deps)
       THEN /\ said' = IF foundUnSat THEN said ELSE Append(said, [par |-> TRUE, by |-> rlc])
            /\ foundUnSat' = TRUE
       ELSE /\ said' = IF rlc = NRL - 1 THEN Append(said, [par |-> FALSE, by |-> rlc])
                                        ELSE said
            /\ UNCHANGED foundUnSat
  /\ IF rlc < NRL - 1
       THEN rlc' = rlc + 1 /\ i' = 1 /\ unSatFound' = 0 /\ UNCHANGED pc
       ELSE pc' = "loops" /\ UNCHANGED <<rlc, i, unSatFound>>
  /\ UNCHANGED <<list, decisive, written, k, u, depf, loopNo, ct, deps, envVars>>

Next ==
  \/ NextKernel \/ EndOfList \/ AddUFC \/ UFCsAdded \/ AddRule \/ RunChill
  \/ NextLoop \/ EndOfFile \/ ReadRelation \/ StartAnalysis
  \/ Skip \/ Decide \/ EndCombination

\* A sequential program; CHiLL and z3 (which runs with a time limit) return.
Spec == Init /\ [][Next]_vars /\ WF_vars(Next)

-----------------------------------------------------------------------------
(***************************************************************************)
(* What the JSON file of a kernel states.  DeclaredFacts restricts it to   *)
(* the kinds of rules combination r names.                                 *)
(***************************************************************************)
KernelRules(kernel) ==
  {UniQuantRule(r.type, r.ufs, r.fact) : r \in Elems(kernel.rules)}
  \cup (UNION {Elems(MonotonicityRules(FromJson(d))) : d \in Elems(kernel.ufs)})

DeclaredRules == KernelRules(Kernel)

DeclaredFacts(r) ==
  {rule.fact : rule \in {s \in DeclaredRules : s.type \in check_useRule[r]}}
  \cup {<<"range", d.name, InRange(d)>> : d \in Elems(Kernel.ufs)}

TheLoop == Kernel.loops[loopNo]

AllRefuted(r) == \A n \in 1 .. Len(TheLoop) : Refuted(TheLoop[n], DeclaredFacts(r))

(***************************************************************************)
(* "determines whether all dependences for a specific loop are             *)
(* unsatisfiable, in which case the loop is fully parallel"                *)
(* (README.md:40-41): a loop is called fully parallel based on a           *)
(* combination only if what the kernel's own JSON file declares of those   *)
(* kinds refutes every dependence of the loop.                             *)
(***************************************************************************)
VerdictSound ==
  \A n \in 1 .. Len(said) : said[n].par => AllRefuted(said[n].by)

\* The declared facts about functions the relation itself mentions.
DirectFacts(rel) ==
  {rule.fact : rule \in {s \in DeclaredRules :
                           s.type \in check_useRule[NRL - 1] /\ s.ufs \cap rel.ufs # {}}}
  \cup {<<"range", d.name, InRange(d)>> :
          d \in {e \in Elems(Kernel.ufs) : e.name \in rel.ufs}}

(***************************************************************************)
(* If z3 never gives up, a loop each of whose dependences is refuted by    *)
(* what is declared of the functions it mentions is called fully parallel: *)
(* neither the relevance filter of getZ3Form nor the skipping of refuted   *)
(* relations nor the dropping of duplicates loses a verdict                *)
(* (findFullParWithZ3.cc:204-304).  For facts reached only through other   *)
(* rules the filter depends on the order of the rules.                     *)
(***************************************************************************)
VerdictComplete ==
  /\ decisive /\ pc = "loops" /\ loopNo > 0
  /\ \A n \in 1 .. Len(TheLoop) : Refuted(TheLoop[n], DirectFacts(TheLoop[n]))
  => \E n \in 1 .. Len(said) : said[n].par

\* A loop is not called both fully parallel and not, if z3 never gives up:
\* more rules then refute no less (findFullParWithZ3.cc:285-302).
OneVerdictIfDecided == decisive => Len(said) <= 1

\* A processed loop has been given a verdict on standard output.
EveryLoopJudged == pc = "loops" /\ loopNo > 0 => said # <<>>

(***************************************************************************)
(* "The driver extracts dependences of all loops in each kernels"          *)
(* (README.md:39): it is done with a kernel only when it has processed     *)
(* each of its loops, or each CHiLL wrote before it died.                  *)
(***************************************************************************)
AllLoopsProcessed == pc = "list" /\ k > 0 => loopNo = written

\* The index arrays a kernel declares, inverses included.
Names(kernel) == UNION {Introduced(d) : d \in Elems(kernel.ufs)}

\* A kernel the driver can work on: see Completes.
WellFormed(kernel) ==
  /\ \A m, n \in 1 .. Len(kernel.ufs) :
       m # n => Introduced(kernel.ufs[m]) \cap Introduced(kernel.ufs[n]) = {}
  /\ \A d \in Elems(kernel.ufs) : \A f \in Introduced(d) :
       getUQRForFuncDomainRange(CtorFuncs(d)[f]) # Undeclared
  /\ \A r \in Elems(kernel.rules) : r.ufs \subseteq Names(kernel)
  /\ \A loop \in Elems(kernel.loops) :
       /\ \A rel \in Elems(loop) : rel.ufs \subseteq Names(kernel)
       /\ Cardinality(Elems(loop)) <= MaxDeps

\* The rules a kernel leaves behind, which setCurrEnv does not clear, bring no
\* index array into a later kernel's queries that this one does not declare.
LeftoversFit(kernels) ==
  \A m, n \in 1 .. Len(kernels) :
    m < n => \A rule \in KernelRules(kernels[m]) :
               \/ rule.ufs \cap Names(kernels[n]) = {}
               \/ rule.ufs \subseteq Names(kernels[n])

(***************************************************************************)
(* The driver gets through its list, with no exception, slot overrun or    *)
(* hang (findFullParWithZ3.cc:158-310), if                                 *)
(*   - each kernel declares every index array it mentions, and no name     *)
(*     twice, the inverses of bijective arrays counted in;                 *)
(*   - every declared range prints its variable twice, as environment.cc:  *)
(*     274 expects;                                                        *)
(*   - no loop has more than MaxDeps distinct relations; and               *)
(*   - the rules of earlier kernels, which stay (environment.cc:360), fit  *)
(*     the later kernels: sharing one name of a rule and not declaring the *)
(*     other is enough to throw.                                           *)
(* The run has lists that break each of the conditions, all of which may   *)
(* end in an abort, next to those that meet them.                          *)
(***************************************************************************)
Completes ==
  (\A n \in 1 .. Len(list) : WellFormed(list[n])) /\ LeftoversFit(list)
    ~> pc = "done"
=============================================================================
