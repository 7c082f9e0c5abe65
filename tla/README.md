# Sparse loop parallelism: a TLA+ development

This directory holds TLA+ models of the sparse-loop-parallelism artifact, the
TLC configurations that check them on small instances, and TLAPS proofs of the
properties that matter most. `PROJECT.json` lists, in machine-readable form,
the components, the runs, the line ranges each definition models, the
disagreements found between code and documentation, the hazards, the mutants
and the theorems.

## 1. The system

The artifact answers one question: may a loop of a sparse matrix kernel run in
parallel, given what is known about the kernel's index arrays?

| Component | State | Operations | Interacts with |
|---|---|---|---|
| Driver, `findFullParWithZ3.cc` | position in the list of kernels, CHiLL's output file, the loop's relations and which were refuted, the tally of the current property combination | read a kernel's JSON, run CHiLL, read a loop's relations, ask z3 about each under eight combinations of properties, print a verdict | calls the environment; starts CHiLL and z3 as processes and reads files they write |
| IEGenLib environment, `environment.cc`, `jsonHelper.cc` | a global: declared functions, inverse pairs, universally quantified rules | reset, declare (deriving monotonicity rules), add a rule, query, build the domain-and-range rule, give a rule's Z3 form | used by the driver and by the relation algebra |
| Forward solve kernels, `triangularSolve.h` | the vector `x`, column counter, OpenMP threads | `lsolve`, `lsolve_parInner` (inner loop parallel) | take the arrays `readMatrix` built |
| Incomplete Cholesky kernels, `ic0_csc_m7.h`, `ic0_csc_k.h` | the entries `val`, column counter, OpenMP threads | `ic0_csr`, `ic0_csr_parInner` with the m or the k loop parallel | the same |
| Matrix reader, `util.h` | stream position, column and entry counters, arrays | `readMatrix` | feeds the kernels |
| Level set inspectors, `levelSet.h` | degrees, window `begin..end`, levels | `buildLevelSet_CSC`, `buildLevelSet_DAG` | take a matrix, or the graph of `iChol.h` |
| Dependence graph inspector, `iChol.h` | successor lists | `computeDAG`, `computeDAG_simplified` | feeds `buildLevelSet_DAG` |
| Timing programs, `timeResults/test` | the list's parameters, counters, arrays of durations, the solve's vector, two factors | read a matrix, solve or factor it several times with 1, 2, 4, .. threads, test, summarise | call the reader and the kernels |
| IEGenLib sets and relations, `set_relation.cc`, `TupleDecl.cc` | unions of conjunctions: a tuple declaration, equalities, inequalities | union, intersection, inverse, composition, image, copy; projection, rule instantiation, Z3 form | made of expressions; use the environment's inverses, and isl |
| IEGenLib expressions, `expression.cc` | sums of terms | add, substitute, move variables, collapse nested inverses, solve for a factor | used by the algebra; use the environment's inverses |
| IEGenLib union-find, call map, complexity, parser | small tables | as named | the call map by the bridge to isl; union-find and complexity by tests only |
| CHiLL `loop_sparse.cc` | CHiLL's intermediate representation | extract the dependence relations of each loop | writes the file the driver reads |

What makes each component correct, beyond the types of its state: a kernel run
in parallel computes what the serial one computes; a reader returns the matrix
of its file or refuses it; an inspector orders what the kernel orders; the
driver says "fully parallel" only of loops whose relations the kernel's own
declarations refute; an operation of the algebra returns the tuples its name
promises; a timing program reports medians of what it measured, of results that
agree.

The chain that makes the artifact's claim true has two ends, and the models
meet in the middle. The driver derives "this inner loop is parallel" from
*declared* index-array properties (`FullPar`, `Environment`); the timing
programs (`Timing`) run that loop in parallel (`LSolve`, `IC0`) on arrays the
reader built (`ReadMatrix`). `CSC!LowerTriangular` states the properties the JSON files
declare. The proofs show that the reader establishes them for sorted lower
triangular files and that the kernels need nothing else.

What is hard here: threads interleaving inside `x[Li[p]] -= ..` and
`val[k] -= ..`; state that survives a reset of a global environment and changes
the meaning of the next kernel's verdict; text substitution that silently
produces a different rule; external programs that time out, give up or die;
files that are not what the reader expects; loops that run over the end of an
array; an algebra in which a wrong place, sign or order gives another relation
and no error. The full list, at the line where each bites, is in `PROJECT.json` under
`hazards`.

## 2. Modules

| Module | Models | How state and actions correspond |
|---|---|---|
| `CSC` | CSC arrays and the properties of `data/fs_csc.json` | `ptr`, `idx` are `colPtr`/`Lp`, `rowIdx`/`Li`; `Col`, `OffDiag` are the kernels' loop ranges |
| `SolveData`, `CholUpdates`, `CholData` | the kernels' inputs | arithmetic on doubles is uninterpreted, so nothing holds because additions commute; `Updates` (of `CholUpdates`) is the set of `[m,k,l]` that pass the guard before S3 |
| `ForwardSubst`, `ColumnChol` | what the kernels promise | one atomic step per column |
| `LSolve` | `lsolve`, `lsolve_parInner` | one action per statement of the caller; an iteration is three steps of its thread (`Take` reads `x[j]`, `Load` reads `x[Li[p]]`, `Store` writes it); `Join` is the implicit barrier |
| `IC0` | `ic0_csr`, both `ic0_csr_parInner` | as above; a thread is given the updates of one m, or of one m and k, and makes them in loop order |
| `ReadMatrix` | `readMatrix` | `ReadHeader` for the first line, `SkipComment` for a turn of the loop over comments, `ReadSizes` up to the allocation; one action per branch of the entry loop; `OutOfRange` is the early return; a write past `col` is kept as the state `"overrun"` |
| `LevelSet` | both `buildLevelSet` functions | one action per loop step; a read past `inDegree` may give 1 or not, at most `Slack` times |
| `IChol` | `computeDAG`, `computeDAG_simplified` | the edges of the derived loop nest; the pushes of the simplified one, laid out as successor lists; `KernelEdges` are the flow dependences between iterations of the kernel, from an update (S3) to the square root or division that reads the entry |
| `Inspectors` | both inspectors on the same matrices | what the graph of `iChol.h` loses and what it does not |
| `Timing` | the three mains and `rhsInit`, `testTriangular` | one action per stretch of `main` between two loop tests; `i`, `l`, `tc`, `line` are the loops' counters; a freed array is `{}`, a fault is a value of `pc`; `tc *= 2` wraps at `IntMax`, after which `Spin` is a turn of the loop that then never ends |
| `Expressions` | `expression.cc` | an expression is its constant and a function from factors to coefficients; `Exp`'s methods are operators of their names; a call carries its depth of nesting, so that methods that recurse into arguments are recursive functions over `Within` |
| `Conjunctions` | `Conjunction` | a record of declaration, equalities, inequalities; `Composition` and `Image` build the conjunction over outer and inner locations, `Eliminate` replaces and drops the inner ones |
| `Relations` | `SparseConstraints`, `Set`, `Relation` | a client holds a value and makes another with each action; `Member` is what a conjunction means |
| `Environment` | `environment.cc` and the constructors it uses | the three containers are the three variables; `threw` records that a declaration was refused |
| `FullPar` | the driver with `jsonHelper.cc` | `NextKernel`, `AddUFC`, `AddRule`, `RunChill`, `NextLoop`, `ReadRelation`, `Skip`, `Decide`, `EndCombination` follow the driver's loops; it extends `Environment` and composes its actions |
| `MC*` | instances for TLC | constants, small inputs |
| `Lemmas`, `*_proofs` | theorems and what they rest on | see section 5 |

Abstractions. A dependence relation is the set of functions it mentions
and the sets of facts that refute it; z3 may say "unsat" only when the asserted
facts contain such a set, and may give up at any query; in the behaviours
with `decisive` it never does. CHiLL
writes the loops in order and may die after any of them. A
rule is its kind, its functions and an identification of what it asserts; a set
of the declaration is its variable and its constraints as a sequence of tokens,
because the domain-and-range rule is made by replacing tokens. No function
is called `ALL_UFSs`, a name `environment.cc:578` treats specially and nothing
uses. The values of
matrix entries are left out of the reader and of the level sets. In `Timing` a
solve is done in small integers and a factorisation only counts its calls,
since `LSolve` and `IC0` show that parallel and serial calls compute the same;
the three arrays of durations are one. In the algebra, names are
locations, lists kept sorted and free of duplicates are sets, and the order of
a list is used where the code's answer depends on it (which conjunction is
added first, which of two equalities is the last).

Operators whose names are those of an action with a suffix (`JoinNoWait`,
`EndCombinationNoReset`, ...) are plausible slips in that code. No
specification uses them; each is there to show that a property notices it.

## 3. Runs

Every run takes about two minutes or less.

| Run | Bounds | Shows |
|---|---|---|
| `lsolve` | all 64 lower triangular patterns of order 4, 3 threads | `NoDataRace`, `SolvedPrefixStable`, refinement of `ForwardSubst`, termination |
| `ic0` | the same | the same for the Cholesky kernels (`FactoredStable`, refinement of `ColumnChol`) |
| `read` | all 3x3 column-ordered files without empty column, mirrored ones, and files with gaps, with columns beyond the matrix, truncated, unsorted, empty, badly headed, with comments or ending in one | `StaysInArrays` (types, and no write past `col` for files in order of columns), acceptance, exactness without empty columns, `KernelReady`, termination unless the file stops in a comment |
| `levels` | all 1024 patterns of order 5, 2 words past the array | levels respect the dependences, are as early as possible, cover all nodes once; the simplified dependence graphs of the same patterns miss no edge of the full ones, and of the kernel's dependences exactly those into columns that hold only their diagonal (`OnlyDiagonalsLost`); termination |
| `levels_dag` | the graphs `computeDAG_simplified` makes of order-3 patterns | violation of `ZeroInDegreeProcessed` |
| `env` | 2 base names, a name with `_inv`, all monotonicities, at most 2 rules | inverse pairs, monotonicity asserted, exact domain-and-range rules |
| `env_same_var` | the same, one variable name | violation of `DomainRangeExact` |
| `driver` | two-kernel lists with 0 to 2 relations per loop, with names of their own or shared, malformed kernels, 3 slots | `VerdictSound`, `EveryLoopJudged`, `AllLoopsProcessed`, `Completes`; where z3 always decides, `VerdictComplete` and `OneVerdictIfDecided` |
| `driver_shared` | two kernels sharing names | violation of `VerdictSound` |
| `relations` | 15 sets and relations of up to three elements, 3 operations, 2 meanings of `f` | `NothingLost`, `NothingGained`, `FunctionsAreFunctions`: the result of an operation against its definition, tuple by tuple |
| `relations_union` | the same, 1 operation | violation of `UnionHoldsBoth` |
| `timing` | lists of 0 to 2 lines, 11 first lines, arrays of 3 durations, ints of five bits (`IntMax = 15`) | `SlotsSuffice`, `MediansTrue`, `SolvesEndInOnes`, `FactorsKeptApart`, `WorkedThrough`, termination if twice the number of threads is an int |

Why the bounds are enough. Order 4 has columns with three off-diagonal
entries, so three threads can be in one inner loop at once; an update chain
through two later columns exists; and every relative position of two entries in
two columns occurs. Order 5 lets a level set have a node placed in the middle of
the window while both ends wait. Order 3 files have a first, a middle and a last
column. Two kernels are what it takes for one to see what another left; two
relations, for one to be refuted in one combination and the other in another.
`MaxDeps = 3` stands for the 100 slots of the driver: the case of one relation
too many occurs. Of the conditions of `Completes` each is broken by a list of the
run that may end in an abort: an array declared twice, also as the inverse of
another, or not at all, a range with one bound, too many relations, and a rule
left behind of which the next kernel declares one name only; among the lists
that meet them are two kernels sharing both names. The arithmetic of `lsolve` and `ic0` is an integer hash, in
which a lost, repeated or reordered operation changes the result. Three
durations stand for the 20 of the code: lists ask for 0, 1, 2, 3 and 4 runs and
for a negative number. With ints of five bits, 7 threads are the most whose
double is an int, 8 and an unset 15 are too many, and all three occur. Two lines of a list are what it takes for a matrix to
see what another left; among the matrices one is not triangular, so that the
test has something to say. In the algebra, two operations compose an inverse
with a function; the third uses the result as an operand or turns it round. The
tuples compared have elements 0 to 3 and inner ones -4 to 8, which holds every
inner value an outer one in range can need; a function permutes 0 to 2.

`CHECK_DEADLOCK FALSE` is set where the program ends.

Fairness. `LSolve` and `IC0`: weak fairness of the calling thread and of each
thread of the team, since OpenMP runs every iteration it handed out and the
threads never wait for each other inside the loop. The other specifications are
sequential programs that keep running: weak fairness of `Next`; for the driver
this includes that z3 (which is given a time limit) and CHiLL return, and for
the timing programs that the kernels do. `Relations` is a library and promises
no progress. No
strong fairness is assumed anywhere.

## 4. Disagreements found

1. `Environment::reset` does not drop the rules, although its comments say the
   environment becomes empty; so a kernel that reuses an index array name is
   judged with an earlier kernel's properties (`driver_shared`).
   In `list.txt`, `fs_csr` precedes `gs_csr` and uses the same names.
2. With one variable name for domain and range, as in `data/fs_csc.json`, the
   domain-and-range rule constrains the wrong terms (`env_same_var`).
3. `buildLevelSet_DAG` expects every node to have an edge to itself, which the
   graphs of `iChol.h` never have (`levels_dag`). Neither function is called by
   the timing programs.
4. A set or relation loses a conjunction without constraints when another is
   added: the union of all tuples with some is some (`relations_union`).

Seven more are written into the conditions of properties, without a run of
their own:

5. `readMatrix` misreads most column-ordered files with an empty column, and
   accepts them: the current column is advanced by one whatever the new one is
   (`util.h:101`). Hence `NoEmptyColumn` in `ReadExactNonEmpty`.
6. The graphs of `iChol.h` have no edge for an update of a diagonal entry if
   the column holds nothing else, though the kernel takes that entry's square
   root in its own iteration (`iChol.h:74`, `ic0_csc_m7.h:16`). Hence the second
   part of `OnlyDiagonalsLost`, which says that these dependences are lost, and
   no others. Nothing in the repository executes these graphs.
7. A loop may be printed as fully parallel and as not, when z3 refutes its
   relations with few rules and gives up with all of them: the second message
   does not look at `foundUnSat` (`findFullParWithZ3.cc:299`). Hence
   `OneVerdictIfDecided`.
8. CHiLL's failure is not noticed: `chillErr` is never read (`:185`), and the
   loops it did not write are never judged. Hence `AllLoopsProcessed` counts the
   loops written.
9. `readMatrix` never returns from a file that stops inside a comment line
   (`util.h:69`), and the timing programs never end when `tc *= 2` overflows
   (`ForwardSolveCSC.cc:138`), which takes a first line that leaves `maxTC`
   uninitialised or sets it to 2^30 or more. Hence the conditions of the two
   `Terminates`.
10. `readMatrix` writes past `col` (`util.h:102`) for files whose columns are out of
   order and for some that end early. Hence the conditions of `NoOverrun`.
11. `f(2 f_inv(i))` is collapsed to `i` (`expression.cc:447`), so composing `f`,
   a doubling and the inverse of `f` gives the identity. Hence
   `CoefficientLost` in `NothingLost` and `NothingGained`.

The passing runs show that each property holds where the cause is absent. They
also name the restrictions of the algebra's operations: an operand of an
intersection has no constant in its tuple declaration (the code ignores it),
and an image or composition of unions may drop a conjunction that lost its
constraints to the tuple declaration.

## 5. Proofs

Proved for every value of the constants: any set of lower triangular matrices of
any order, any number of threads, any closed arithmetic, any set of files, lists
of kernels of any length, lists of matrices of any length, any library of sets
and relations.

Kernels and reader:

- `LSolve_proofs`: `TypeCorrect`, `RaceFree`, `PrefixStable`, `Refinement`.
  `NoDataRace` is not inductive: the invariant adds that iterations under way
  belong to the current column, are held by one thread each and are no longer
  on offer (`TeamInv`), that nobody works outside the inner loop (`LoopInv`) and
  that what a thread has read is still what memory holds (`RegisterInv`). Then
  rows of different positions differ by CoMonotonicity, and none is j by
  Triangularity. For the refinement the concrete `x` with all pending
  iterations applied is the abstract `x`: `Divide` is the abstract column step
  and `Store` a stutter, as the register still holds the value the pending
  iteration would read.
- `IC0_proofs`: the same four results. The key lemma, `UpdateFacts`, says that
  the updates a column causes read that column, write later ones, and write no
  entry twice; it needs disjoint columns (k determines m) and CoMonotonicity
  (k determines l).
- `ReadMatrix_proofs`: `WithinArrays`, `AcceptsNonEmpty`,
  `ExactNonEmpty`, `KernelsCanRely`. `OrderInv` says that while columns come in
  order the current column has not passed the last one read, so that a write past
  `col` would need a column the early return refuses. The invariant `PrefixInv` says that the bounds up to the
  current column delimit exactly the entries read so far and that the last
  entry read lies in the current column; with no empty column the next one can
  then only be in this column or the next.

Inspectors (`Inspectors_proofs`; the level set theorems are about
`buildLevelSet_CSC`, as run `levels_dag` shows that `buildLevelSet_DAG` does not
have these properties):

- `LevelsSound`, `LevelsEarly`, `AllPlacedOnce`, `TypeCorrect`. None of these
  properties speaks of degrees or of the window, which decide where a node is
  placed, so the invariant has six parts. `DegreeInv`: a degree is the number of
  entries of the row that are not below the diagonal of a column whose edges
  have been removed. `ReadyMeans` turns the code's test into a statement about
  the graph: the degree is 1 exactly when all columns with an entry of that row
  are finished; here the diagonal entry counts, and columns are disjoint.
  `WindowInv`: what lies outside `begin .. end` is placed, `begin` itself is
  not, and no ready node is left behind by the scan; so every pass of the outer
  loop places a node. The progress a level makes is the least unplaced node: it
  waits only for smaller ones.
- `SimplificationLosesNoEdge`, `KernelOrdered`, `GraphsLoseOnlyDiagonals`, for
  every matrix whose columns are well delimited. An edge of the derived nest
  comes from an m and an mp in column ip below its diagonal, which is an
  iteration of the simplified nest as well (`EdgePushed`): the loops dropped
  only ask for more. A dependence of the kernel into column ip comes from an m as
  well; any entry of column ip below the diagonal makes it an iteration of the
  nest, and without one there is no mp. So the simplified graph has an edge for it
  if and only if the column holds more than its diagonal.

Environment (the first part of `FullPar_proofs`) is proved about any client,
`Client(Ds, Rs)`: declarations of Ds, rules of Rs and resets in any order.

- `Inverses`, from `PairsInv`, which says it of the maps themselves: an accepted
  declaration is new to both, so `insert`, which overwrites nothing, parts no
  pair.
- `MonotonicityIsAsserted`, from `ContentInv`: every function in the map was
  declared, or is the inverse of one that was, and every rule was added or
  derived from a declaration.
- `RangesExact`: the text replacement of `getUQRForFuncDomainRange` is the
  intended substitution for constraints of any length, if the range prints its
  variable twice (both bounds) and the domain's variable has another name
  (`RangeBounded`). Without the second condition it is false: `env_same_var`.

Driver (the rest of `FullPar_proofs`). `DriverIsClient` is a step simulation: the driver
implements `Client`, so the theorems above hold in it. Then:

- `NoLoopForgotten` and `EveryLoopGetsVerdict` hold whatever CHiLL and z3 do.
  `FileInv` says that what is left of CHiLL's file starts at the line the loop
  and relation counters name; `SaidInv`, that while combinations are tried there
  is one positive verdict or none, as `foundUnSat` says.
- `NoSecondVerdict`: if z3 never gives up, a positive verdict and a negative one
  exclude each other. `AnswerInv` ties the tally to the relations that combination
  refutes; `getUQR` is monotone in the kinds of rules it may use, although a
  rule's relevance depends on the rules before it.
- `VerdictsAreSound` assumes `OwnNames(list)`, no two kernels of the list share
  a function name and no kernel uses a name with `_inv`, and
  `RangesBounded(list)`. `OriginInv` says that every
  function in the environment is the current kernel's and every rule is of this
  or an earlier kernel; rules of earlier kernels are then irrelevant to every
  query (`getZ3Form` leaves them out), although they are still there. Run
  `driver_shared` shows that the first hypothesis is needed and `env_same_var`
  the second; any kernel alone on its list satisfies the first, and five of the
  seven in `data/` the second (`fs_csc` and `gs_csr` use one variable name).
  `list.txt` as it stands satisfies neither, which is what the findings say.
- `VerdictsAreComplete` needs only `RangesBounded(list)`: names may be shared,
  since more rules refute no less. `LoadedInv` says that all of the kernel's
  declarations have arrived when its first loop is read.

Timing programs (`Timing_proofs`; until tc wraps it doubles, `DoublingStep`, and
once it has, nothing but tc changes):

- `SlotsAlwaysSuffice`: the only states at fault are entered
  with the run counter past the array or without a run.
- `FactorsAreKeptApart`: `FactorsInv` says of each place of `main` which of the
  two arrays is allocated, for which matrix and after how many calls.
- `MediansAreTrue`: `RunsInv` says that the first i elements of the array are
  the durations of the i runs measured. The rest is a fact about sorting:
  `CanSort` shows that an order of the elements exists (by insertion, so the
  `CHOOSE` in `Order` means something) and `KthSmallest` that the k-th element of
  the sorted array is the k-th smallest duration, by counting the runs below it
  and those not above it.
- `EverySolveEndsInOnes`. The right-hand side of a row is a sum of the row's
  entries in the order of the columns (`RhsSums`); when column j is reached,
  the columns before it have been taken away again in that order, so what is
  left of row j is the sum over the columns from j on (`RestOfRow`), which in a
  lower triangular matrix is the diagonal entry alone (`ColumnSolved`). Hence
  every element is 1 after its column and stays so (`SolveGivesOnes`), whatever
  the vector held before.
- `ListsAreWorkedThrough`. `ReportsInv` says which pairs of line and thread count
  have been reported, each once: all of the earlier lines, and of this line the
  counts below the current one. Doubling the count loses none, since no power
  of two lies between t and 2t (`DoublingsAgree`, `CountSteps`).

Sets and relations (`Relations_proofs`). All four properties, for values with any
number of conjunctions, constraints, nested calls and tuple elements. The
inductive invariant `AlgebraInv` is small: the value held and the one before are
well-formed, and the first is what the last operation makes of the second, its
call having met its conditions (`Operated`). Without the last part nothing
relates `cur` to `prev`. That an operation keeps it, and what the result holds,
is proved from below:

- An expression is worth a sum over its factors (`Lin`). `addExp`, `multiplyBy`,
  `divideBy` where it is exact, and replacing factors by expressions act on that
  worth as on numbers (`AddLin`, `MultiplyFacts`, `DivideLin`, `MapFacts`). The
  functions that recurse into arguments exist, by induction on the depth of
  nesting; so a substitution is worth what the expression is worth at the tuple
  the replacements make (`SubstituteValue`), and the collapse of `f(f_inv(x))`
  keeps the worth where no coefficient is hidden (`CollapseValue`).
- Solving an equality for a location, through inverted calls too, gives the
  worth of that location wherever the equality holds (`SolveFacts`), which is
  what makes `findFunction` determine it: `ReportedFunctionsAreFunctions`.
- On conjunctions, `cleanUp`, moving locations and moving constants between
  declaration and constraints keep who satisfies them. Eliminating the inner
  locations keeps exactly the tuples that the found functions extend
  (`EliminateHolds`). Moving constants into the declaration loses no tuple, and
  gains none if some tuple satisfies the rest: of two pins of one location to
  different values the last would win (`PushDeclLoses`, `PushDeclGains`). Hence
  `Gained` asks for a tuple that is meant.
- `Before` is total and transitive on well-formed conjunctions, so a list in
  order exists (`SortedExists`, which gives the `CHOOSE` in `InOrder` its
  meaning); adding conjunctions one by one, in one loop or two nested ones, drops
  none that has constraints (`ListingKeeps`, `LoopsFacts`).

`ValuesAreWellFormed` and `NoTupleIsLost` have no hypothesis beyond those in the
property. `NoTupleIsGained` assumes `Wide = Int`: the inner tuple through which a
composition passes may be any tuple of integers, and a smaller range, which TLC
needs, may miss it. The conditions under which tuples may still be lost or gained
are in the properties themselves: they are points 4 and 11 and the restrictions
named in section 4.

Assumptions on constants are named where they are declared
(`MatricesLowerTriangular`, `ArithmeticClosed`, `RhsType`, `ValsType`,
`GarbageType`, `FilesType`, `LevelSetInputs`, `DriverInputs`,
`TimingConstants`, `MatrixNumbers`, `InversesAssumption`, `RelationsConstants`) and
TLC evaluates them in the runs. `LevelSetInputs` asks for
lower triangular matrices whose columns start with the diagonal entry, which is
what `lsolve` divides by. `DriverInputs` asks that lists be sequences, and
`MatrixNumbers` that a solve's numbers are integers with 1 or -1 on the
diagonal, so that the quotients are exact. `InversesAssumption` says that
inverses come in pairs, which is what `InversesPaired` shows of the environment;
`RelationsConstants`, that a client starts from well-formed values, as the
parser makes them, and that a function with an inverse permutes its domain.

Induction. The library's induction theorems take an operator as a parameter and
cannot be instantiated here. `Lemmas` derives what the proofs need from
well-foundedness of inclusion on finite sets: `LeastNumber` (a set of numbers
has a least element), `Induct` (induction over an interval for a set of
numbers), `Recursion` (a function over an interval defined by steps exists,
which gives `FileOf`, `getUQR` and `ReplaceAll` their equations) and
`Concatenation`. The other lemmas of that module are about CSC matrices: from
`LowerTriangular`, the column bounds are ordered, an off-diagonal position of
column j names a row after j, two of them name different rows, the columns are
disjoint and cover all positions.

Only model-checked: all liveness (`Terminates`, `Completes`), which this prover
does not handle. Every invariant and action property that a passing run checks
is stated by a theorem.

## 6. Not modelled

Nearly all lines of the repository are third-party code kept in the tree: isl,
gmp, gtest, CHiLL with Omega and its code generators. The models take them at
what the artifact's own code asks of them, so the share of lines modelled
is small by nature.

Of the artifact's own code:

- IEGenLib's parser is generated; the bridge to isl and the call map rewrite
  strings character by character.
- Of the algebra, projection and unsatisfiability are decided by isl and Omega;
  rule instantiation, `setRelationship` and the Z3 form assemble strings for
  them; symbolic constants and calls with several arguments are left out.
- The cost classes of `complexityForPartialParallel.cc` are a heuristic no
  program calls, and only a test includes the union-find.
- `loop_sparse.cc` reads CHiLL's intermediate representation; the driver's model
  starts from the relations it prints.
- Of the driver, the text of the CHiLL script and of the smt2 files and
  `adMissingInductionConstraints`; of the timing programs, averages and other
  printed text; of `iChol.h`, the check compiled under `VERIFY`.

## 7. Plan

Done: the kernels, the reader, both with their proofs; the level sets and
dependence graphs; the environment and the driver; the timing programs; the set
and relation algebra.

Proved: every safety property that a passing run checks.

Next:

1. Restriction and bounds of the algebra, and what Compose and Apply keep of
   unions of conjunctions.
2. A level-by-level execution of the forward solve composed of `LevelSet` and
   `LSolve`.
