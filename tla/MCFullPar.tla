----------------------------- MODULE MCFullPar -----------------------------
(***************************************************************************)
(* The driver on small kernels shaped after data/*.json: a pointer array   *)
(* that increases strictly and an index array, a triangular kernel         *)
(* declaring Triangularity and CoMonotonicity, and a Gauss-Seidel kernel   *)
(* declaring CoMonotonicity only.                                          *)
(***************************************************************************)
EXTENDS FullPar

Bounds(v, ub) == [tvs |-> <<v>>, cons |-> <<"0", "<=", v, "&&", v, "<", ub>>]

Decl(name, dv, rv, mono) ==
  [name |-> name, dom |-> Bounds(dv, "nnz"), ran |-> Bounds(rv, "n"),
   bijective |-> FALSE, mono |-> mono]

PtrDecl(p) == Decl(p, "j", "i", "Monotonic_Increasing")
IdxDecl(x) == Decl(x, "i", "j", "Monotonic_NONE")

Tri(p, x) == <<"tri", p, x>>
CoMono(p, x) == <<"comono", p, x>>
Rng(d) == <<"range", d.name, InRange(d)>>
Inc(p) == <<p, "e1<e2 => f1<f2">>

TriRule(p, x) == [type |-> "Triangularity", ufs |-> {p, x}, fact |-> Tri(p, x)]
CoMonoRule(p, x) == [type |-> "CoMonotonicity", ufs |-> {p, x}, fact |-> CoMono(p, x)]

Rel(id, ufs, cores) == [id |-> id, ufs |-> ufs, cores |-> cores]

\* The facts a relation's refutation may need, and the ways to refute it.
CoreSets(p, x) ==
  LET facts == {Tri(p, x), CoMono(p, x), Inc(p), Rng(IdxDecl(x))}
      cores == {{}} \cup {{f} : f \in facts} \cup {{Inc(p), Tri(p, x)}}
  IN {{}} \cup {{c} : c \in cores} \cup {{{CoMono(p, x)}, {Tri(p, x), Rng(IdxDecl(x))}}}

Rels(p, x) == {Rel("rel", {x}, cs) : cs \in CoreSets(p, x)}
              \cup {Rel("rel", {p, x}, {{Inc(p), Tri(p, x)}})}

\* Loops with no, one and two distinct relations, and with a repeated one.
Loops(p, x) ==
  {<<>>} \cup {<<d, e>> : d \in Rels(p, x), e \in Rels(p, x)}

Triangular(p, x, loops) ==
  [ufs |-> <<IdxDecl(x), PtrDecl(p)>>,
   rules |-> <<TriRule(p, x), CoMonoRule(p, x)>>,
   loops |-> loops]

\* The matrix need not be triangular: only CoMonotonicity is declared.
GaussSeidel(p, x, loops) ==
  [ufs |-> <<PtrDecl(p), IdxDecl(x)>>,
   rules |-> <<CoMonoRule(p, x)>>,
   loops |-> loops]

Lp == <<"Lp", 0>>
Li == <<"Li", 0>>
rowPtr == <<"rowPtr", 0>>
colIdx == <<"colIdx", 0>>

\* No two kernels of the list share the name of an index array.
DisjointLists ==
  {<<Triangular(Lp, Li, <<l, <<>>>>), GaussSeidel(rowPtr, colIdx, <<>>)>> : l \in Loops(Lp, Li)}
  \cup {<<Triangular(Lp, Li, <<>>), GaussSeidel(rowPtr, colIdx, <<<<d>>>>)>> :
          d \in Rels(rowPtr, colIdx)}

\* Kernels with an index array declared twice or not at all (as a name of its own
\* or as an inverse), a range with one bound, or too many relations.
MalformedLists ==
  LET rel(n) == Rel(n, {Li}, {{Tri(Lp, Li)}})
      loop == <<rel(1), rel(2), rel(3)>>
      good == Triangular(Lp, Li, <<loop>>)
      bijection == [IdxDecl(Li) EXCEPT !.bijective = TRUE]
      halfOpen == [IdxDecl(Li) EXCEPT !.ran.cons = <<"0", "<=", "j">>]
  IN {<<[good EXCEPT !.ufs = @ \o <<IdxDecl(Li)>>]>>,
      <<[good EXCEPT !.ufs = <<PtrDecl(Lp)>>]>>,
      <<[good EXCEPT !.ufs = <<IdxDecl(Li)>>]>>,
      <<[good EXCEPT !.ufs = <<bijection, PtrDecl(Lp), IdxDecl(InvName(Li))>>]>>,
      <<[good EXCEPT !.ufs = <<halfOpen, PtrDecl(Lp)>>]>>,
      <<[good EXCEPT !.loops = <<loop \o <<rel(1), rel(4)>>>>]>>,
      <<[good EXCEPT !.ufs = <<bijection, PtrDecl(Lp)>>]>>,
      <<good>>}

\* Kernels that share names: of the first pair one name only, so that a rule of
\* the first kernel does not fit the second; of the second pair both names, and
\* the second kernel declares all that the first one leaves behind.
SharingLists ==
  {<<Triangular(Lp, Li, <<>>),
     GaussSeidel(rowPtr, Li, <<<<Rel("rel", {Li}, {{CoMono(rowPtr, Li)}})>>>>)>>}
  \cup {<<GaussSeidel(rowPtr, colIdx, <<>>), Triangular(rowPtr, colIdx, <<<<d>>>>)>> :
          d \in Rels(rowPtr, colIdx)}

AllLists == DisjointLists \cup MalformedLists \cup SharingLists

\* fs_csr.json and gs_csr.json, both on list.txt, use the same names.
SharedLists ==
  {<<Triangular(rowPtr, colIdx, <<>>), GaussSeidel(rowPtr, colIdx, <<l>>)>> :
     l \in Loops(rowPtr, colIdx)}
=============================================================================
