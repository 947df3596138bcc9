# A verification development of xmono

`xmono` (src/scripts) computes explanations of the predictions of monotonic
classifiers. Given a specification of the features (number, lower and upper
bounds, classes), an instance and a classifier, it computes

- an **abductive explanation** (AXp): a subset-minimal set of features that,
  fixed to their values in the instance, force the prediction; or
- a **contrastive explanation** (CXp): a subset-minimal set of features whose
  change alone can change the prediction; or
- all of them (or the first `-N`), with a SAT solver proposing where to look.

The classifier is a black box that is only ever *called*; monotonicity makes
two calls, at the two opposite corners of a box, tell whether the prediction is
constant on the box. This directory models the program in TLA+, checks the
models with TLC on small instances and proves their main properties with TLAPS.

## 1. Inventory of the system

| Component | State | Operations | Interacts with |
|---|---|---|---|
| `xmono` (main) | `%opts`, `%mxp`, `%inst`, `%stats` | read options, read files, choose -A / -C / enumeration, digest | everything below |
| `MonoXPs.pm` (engine) | the box: `Univs`, `Fixes`, `vLB`, `vUB`; the formula `CNF`; counters | `compute_one_axp`, `compute_one_cxp`, `compute_xps`, `process_xp` and helpers | classifier (calls), solver (calls), writers |
| `Solver.pm` | two fixed files, `current_cnt.cnf` and `sat_output` | `run_sat_solver` | Glucose, a child process; `parse_solver_outp` |
| `Model.pm` | `Preds`, the log of corrected predictions; a fixed file `clsf_output` | `run_classifier`, `cmt_classifier`, `mbt_classifier`, `enforce_monotonicity` | `HardCoded.pm`, `monosim.py`, `mbrun.py` |
| `HardCoded.pm`, `grdc`, `rdtc`, `*_anchor.py` | none | two classifiers as expressions | |
| `Parsers.pm` | a mode per file | specification, instance, classifier and solver output | |
| `Writers.pm` | none | `write_xp`, `write_cnf`, `write_digest` | |
| `Utils.pm` | callbacks and their arguments | `register_handlers`, `INT_handler`, clocks | signals |
| `monosim.py`, `Envelope.py`, `Solver_OptiMathSat.py`, `Utils.py` | a point, SMT files | upper and lower envelope predictions of a neural network (COMET) | OptiMathSAT, a child process |
| `mkmono`, `chkmono`, `mkinst`, `gensg`, `xbounds` | rows of a data set | select a monotone subset, check monotonicity, text filters | files |
| `run-xmono`, `gather-stats` | totals | run the experiments, sum the digests up | logs of xmono |
| `00Saved` | | retired text filters | |
| Glucose, `tools/glucose-syrup-4.1` | clauses, trail, watches, elimination record | `parse_DIMACS`, `eliminate`, `search`, `propagate`, `analyze`, `reduceDB`, `extendModel` | a vendored child process of `Solver.pm`; signals |
| the rest of `tools/` | | COMET, OptiMathSAT, monoboost | vendored, or drivers of libraries outside the repository |
| `bench/`, `exps/`, `scripts/tests` | | data | |

What is hard here, and where it is easy to be wrong without a test noticing:

- *the loops share one box*. A feature is moved, the classifier is called twice,
  the move is undone or kept; the enumeration reuses the same record for every
  model;
- *the solver chooses*. Any model may come back, in any order, and a model may
  leave variables out. Each explanation must exclude itself and nothing else;
- *child processes fail*. A solver or classifier that is stopped, missing or
  cut short leaves an output file that is read all the same;
- *signals*. The handler prints a digest of whatever the counters hold;
- *boundaries*: the empty formula, the empty explanation, `-N 0`, a classifier
  constant within the bounds;
- *a classifier that is not a function*: `enforce_monotonicity` makes the class
  of a point depend on the calls made before;
- *an object overwritten by its reader*: the search for a counter-example stores
  it into the instance it was given, and the next search starts from there;
- *the solver's own invariants*: watches, reasons and eliminated variables are
  each kept right by code far from the place where they are used.

What makes each component correct:

- engine: what is printed is a (subset-minimal) explanation; none twice; all of
  them at a normal end; an end; a known number of calls;
- solver interface: the answer read belongs to the formula last written; no
  answer is not the answer "unsatisfiable";
- classifier layer: the classes a run sees are those of a monotone function;
- writers: the digest agrees with the output;
- data preparation: `mkmono`'s output passes `chkmono`;
- COMET bridge: the upper envelope is not below the prediction, the lower one
  not above it, both computed from the instance;
- hard-coded classifiers: monotone on the data they are called with;
- Glucose: "UNSATISFIABLE" only of a formula without a model, a model otherwise,
  and an answer unless interrupted.

## 2. Modules

| Module | Role |
|---|---|
| `FeatureSpace` | the feature space of a specification, monotone classifiers, and the definition of weak, abductive and contrastive explanations. No step of the program: the reference the engine is judged by |
| `MonoXPs` | one run of `xmono` from the choice of -A / -C / enumeration to its exit |
| `MonoXPsProperties` | what such a run must satisfy |
| `XpEnum` | the abstract specification of the enumeration: report unreported explanations one at a time, an AXp first, end when all or `-N` of them are reported, or be cut short |
| `MCMonoXPs` + `MCMonoXPs_*.cfg` | small instances for TLC |
| `FeatureSpaceProofs` | lemmas and theorems on explanations of monotone classifiers |
| `MonoXPsProofs` | theorems on runs of `xmono`: types, soundness, the enumeration (freshness, completeness, duality, refinement), the digest and the number of calls |
| `ClassifierLayer` | `Model.pm` with `-t CMT`: a sequence of classifier calls, the mapping of a number to a class, and `enforce_monotonicity` with its log |
| `ClassifierLayerProofs` | types, monotonicity along a chain, one class per point, order without `-m`, and that a monotone predictor is left alone |
| `Envelope`, `EnvelopeProofs` | the COMET bridge: the two searches for counter-examples and the predictions printed |
| `HardCoded` | the classifiers of `HardCoded.pm` and the theorems on their monotonicity; it has no state and no run |
| `MonoSubset`, `MonoSubsetProofs` | `mkmono`, judged by the test of `chkmono` |
| `SatSolver` | the search of Glucose: propagation, conflict analysis, learning, restarts, reduction |
| `SimpSolver` | EXTENDS `SatSolver` with the reading of a formula, subsumption, variable elimination, model extension, the main program and signals |
| `SimpSolverProperties` | what the solver promises |
| `SimpSolverProofs`, `SimpSolverModelProofs` | soundness and reasons; then types, watches, eliminated variables and the models printed |
| `MCClassifierLayer`, `MCEnvelope`, `MCMonoSubset`, `MCSimpSolver` + `.cfg` | their small instances |

The layers meet at their interfaces. `MonoXPs` takes the classifier as a monotone
function and the solver as any correct one that may stop. `ClassifierLayer` says
when the classes a run gets are those of a monotone function, `Envelope` why the
number it reads is nearly one, `HardCoded` that two classifiers are one; and
`SimpSolver` says that the solver gives correct answers, and stops without one only
at a signal, with one exception: a signal during its simplification may make it print
a wrong model (run `signal_model`), which `MonoXPs` does not include.

### How MonoXPs corresponds to the code

`pc` says where control is; each action is the code between two values of it.

| Action | Code |
|---|---|
| `StartAxp`, `StartCxp`, `StartEnum` | xmono, step 3, with `set_axp_vect`, `set_cxp_vect`, `init_cnf` |
| `WriteCnf`, `LeaveLoop` | the head of the loop of `compute_xps` and `write_cnf` |
| `RunSolver` | `run_sat_solver` up to the return of the child process |
| `NoMoreModels`, `ReadModel` | `parse_solver_outp`, the padding of the model, the test of `$outc`, `mk_ref_vlb_vub` |
| `TestRef` | the choice between an AXp and a CXp |
| `SkipUniversal`, `TryUniversal` | one iteration of `compute_one_axp` |
| `SkipFixed`, `TryFixed` | one iteration of `compute_one_cxp` |
| `ReturnXp` | the return of either |
| `BlockXp`, `WriteXp`, `UpdateStats`, `CountXp` | `process_xp` and the test of `-N`, split where a signal can be observed |
| `Exit` | `write_digest` and the normal exit |
| `Interrupt` | `INT_handler` under `-S`, enabled between any two actions |

The moves of the loops are the operators `MakeFeatureUniversal` and
`MakeFeatureFixed`, composed as in the code: the undo is the second operator
applied to the result of the first, not a return to the old value.

Abstractions: feature values and classes are integers (the code compares them as
numbers and classes only for equality); clauses are sets and the formula is a set
of them with the counter `NC` beside it; the output is the set of explanations
printed with the number of lines; times and averages are left out. A literal of
`-l` is represented by the feature it names.

The environment: the classifier is any function of a given set of monotone
functions; the solver returns any model over the variables it knows (those up to
the largest in the file: it ignores the header), `UNSATISFIABLE` only if there
is none, and, if `SolverMayFail`, no answer at all. Perl delays signals to the
end of a statement and ignores `SIGINT` while in `system()`, so a signal is an
action between two others.

Assumed of the inputs (`SpaceAssumption`, `RunAssumption`, both evaluated by
TLC): at least one feature, bounds that are not crossed, an instance within the
bounds, a classifier monotone within the bounds, and a command line that
`read_opts` accepts. `read_opts` and the parsers check the last only; shipped
instances exist that are outside the bounds of their specification.

### How the other modules correspond to the code

`ClassifierLayer`. `Classify` is `cmt_classifier` up to the test of `-m`: the child
process leaves a line that the pattern of `parse_cmt_outp` can tell apart in four
ways (a plain number, one with a sign, one with an exponent, none), the number is
rounded as `sprintf("%.0f")` does and the largest class not above it taken. A line
without a sign stands for a number that is not negative and one with a sign for one
that is not positive (`OutputType`): Python prints no other.
`CheckEntry` is one iteration of the loop of `enforce_monotonicity`, `SkipKnown` its
early exit, `LogPrediction` what follows it. The predictor is any function; with
`fails` its process may leave nothing on any call. `-k`, `-t MBT`, clocks and
messages are left out.

`Envelope`. `Predict` is a new process up to the first search; `UpperFound` and
`UpperNone`, `LowerFound` and `LowerNone` are the two outcomes of `solve`, with the
instance overwritten by the first of each pair. `None` comes from "unsat" or, with
`fails`, from an exception, before the instance is touched. The network is any
function on a grid in place of the reals, and a search returns any optimum of the
constraints that the search function writes.

`MonoSubset`. `Split` files one row, `CallPick` and `PassTurn` are the two calls in the
loop with their `&&`, `Scan` is one iteration of the loop of `pick_mono_subset`, `Move`
and `GiveUp` its two ends. `$prd > 0` decides the side.

`HardCoded`. Integer points for `rdt_classifier`. `grd_classifier` computes in floating
point: the three coefficients are any numbers and every operation is followed by any
rounding that keeps order, which IEEE rounding does.

`SatSolver` and `SimpSolver`. Clauses are sets of literals with the two that are
watched; the trail holds literals with level and reason. `PropagateNext` takes the
next literal of the queue; `SkipClause`, `MoveWatch`, `EnqueueUnit` and `ConflictFound`
are what happens to one clause that watches it, binary clauses first. `StartAnalyze`,
`Resolve` (one resolution) and `Learn` (minimisation, backjump, attachment) are
`analyze` and the conflict branch of `search`; `Restart`, `Decide` (with `simplify` and
`reduceDB` before it) and `AllAssigned` the other branch. `ReadClause` is one clause
of the file with `addClause_`; the actions from `GatherTouched` to `RemoveOld` are
`eliminate`: one action per pop of the queue, per subsumed or strengthened clause,
per variable, per resolvent. `StoreModel`, `ExtendModel` and `PrintModel` end a run.
`Interrupt` is SIGINT: while the file is read the process exits, later a flag is set
that `backwardSubsumptionCheck`, `eliminate` and `solve_` test. The phase of a decision is the saved one
(`polarity`); from a restart to the next conflict it is the one of `forceUNSAT`, if the
variable has been met in a conflict since the program started (`Phase`, under the default
`-forceunsat`): the negation of the literal met last. Orders that come from
activities, the layout of lists and random numbers are any order; the restart policy
is a count of conflicts, since `lbdQueue` must fill up again after each restart.

Definitions named *faulty variant* in a comment are single plausible mistakes.
No specification uses them; each stands before the definition it would replace
and breaks one of the properties.

## 3. Runs

The first four use three features with bounds 0..1, 0..2 and 0..1 (so that an instance may
lie on no bound in the second), every monotone classifier with two classes (50
functions) and weighted scores with three classes.

| Run | What it shows |
|---|---|
| `enumerate` | the properties below for full enumerations, `-N 3` with signals, and `-A` and `-C` with and without signals; the solver may fail. Three instances: the lowest corner, one on no bound of the second feature, one at mixed bounds |
| `limit_zero` | **violation** of `ListsAtMostN`: `-N 0` prints explanations |
| `literals` | **violation**: `-l` prints the literals of the first features |
| `solver_stops` | **violation**: a solver without an answer ends the enumeration as if complete |

Properties (all in `MonoXPsProperties`):

- `TypeOK`; `LoopInv`, the invariants of the two loops;
- `EnumInv`: the inductive invariant of the enumeration (section 4);
- `SoundReport`: what is printed is an explanation; `NoRepeat`: none twice;
- `FirstIsAbductive`: the empty formula's special case does what it is for;
- `Complete`, `Duality`: at a normal end all explanations (or `-N` of them, `-N 0`
  excepted) have been printed, and at a full end the two kinds are each other's
  minimal hitting sets;
- `ListsAtMostN` (run `limit_zero` only): never more than `-N` of them are printed;
- `FreshRegion` (action property): each model read opens unexplored ground;
- `DigestMatches`, `InterruptedDigest`: the digest against the output, at the
  exit and at a signal; `OracleCost`: the number of calls;
- `Termination`, under `FairSpec`;
- `ImplementsXpEnum`: the enumeration implements `XpEnum`, liveness included. The
  limit of `XpEnum` is `-N`; `-A` and `-C` map to an enumeration that has ended
  before it starts, and `-N 0` is in no run of this property.

Why the bounds of these runs are enough: with three features the formulas reach six clauses,
explanations have every size from zero to three, both kinds occur with overlaps,
short models occur, and every order in which the solver may propose models is
explored. Nothing in the code depends on values beyond comparisons.

Fairness in `MonoXPs`: `WF_vars(Step)`. The program is one process that never waits except
for its children, which the model lets return; a signal is never required to
come.

What the violations say. `-N 0`: xmono:161 describes `-N` as the "number of NNN
explanations to list (the default is all)", but MonoXPs.pm:150 increments the counter
before it compares it for equality, so the limit 0 is never met and everything is
listed. `-l`: Writers.pm:37-40 never reads the explanation's
identifiers. Solver: Solver.pm:46 drops the status of `system()` and Parsers.pm:153 starts
from "no model", so an interrupted, killed or missing solver is "UNSAT". One more
case needs no run: on a classifier that is constant within the bounds, `-C` prints all
features as a contrastive explanation, although there is none, because MonoXPs.pm:84
never compares the two ends before its loop. `SoundReport` says so in its exception.

The other components:

| Run | What it shows |
|---|---|
| `classifier` | up to five calls, three points in a row and four on a grid, every predictor over three classes, with and without `-m`, processes that fail, numbers at the corners of rounding: `TypeOK`, `ChainMonotone`, `SingleValued`, `Transparent`, `PlainOrderKept` |
| `enforce` | **violation** of `EnforcesMonotonicity`: on the grid the corrected classes of one run need not be monotone |
| `reals` | **violation** of `ReadsReals`: `7e-05` is read as 7 and gets class 2, where 1.4 gets class 1 |
| `envelope` | 256 networks on a 3 x 3 grid, both directions, both objectives, failing searches, instances within and outside the bounds: `TypeOK`, `UpperIsEnvelope`, `UpperMonotone`, `LowerIsBelow` |
| `lower_envelope` | **violation** of `LowerOfInstance`: the second search starts from the first one's result, and the point it finds precedes the instance it should follow |
| `mono_subset` | all data sets of three rows over two features with three values, and of four rows over two Boolean ones, repeated rows among them: `MonotoneSubset` |
| `glucose` | ten formulas over five variables, all with preprocessing and seven also without, signals at any time in most, decisions of the saved and of the forced phase: the properties below |
| `signal_model` | **violation** of `ModelOfFile`: a signal during subsumption, and a model that falsifies a clause of the file |

`ClassifierLayer`: `ChainMonotone` is what `-m` does guarantee: the classes are ordered
when the points asked for are totally ordered, as they are while one feature moves. The
points of one explanation need not be: when the move of a feature is undone and another
feature is moved, the two points met are incomparable, and there the correction may
fail. `SingleValued`: the engine may ask a point twice and compare. `Transparent`: `-m`
does no harm. Five calls let a point be asked again after every other point of a chain
has been.

The counterexample of `enforce`: the log has class 10 for (0,1) and 20 for (1,0), and
the raw class of (1,1) is 0, which contradicts both. The first entry raises it to 10. The
second is then skipped, because it counts only if (1,0) follows (0,1), so (1,1) is
answered 10 although (1,0), which lies below it, was answered 20.

`Envelope`: `UpperMonotone` is what `Model.pm` relies on, and it holds up to the
constant `epsilon` only. `LowerIsBelow` shows that the second search, although it
starts elsewhere, errs on one side: its region contains the right one. It is not that of
the instance: in the counterexample of `lower_envelope` the instance is (2,2), the upper
counter-example (1,1), and the point of the lower prediction lies between the two, on
the wrong side of the instance.

`MonoSubset`: `Monotone` says of the rows moved which pairs from the two sides `chkmono`
rejects: those with equal features (`mkmono` compares with `>=` and keeps both), and no
other. Pairs on one side are not compared: with the two classes the scripts are written
for they have the same class. `NoneLost` counts: each row is in the two lists of its side
together as often as in the part of the file that has been split, and in no list of the
other side.
`Maximal` is not obvious, because each side stops for good the first time it finds
nothing; a row refused once stays refused as the other side only grows.

`SimpSolver`: `Soundness` (every clause held follows from the file, and so does
"UNSATISFIABLE"), `SatSound` (the model printed satisfies the file, eliminated
variables included), `PropagationComplete` (no clause that is false or unit has been
missed when the search goes on), `ReasonsKept`, `EliminatedGone`, `LearntIsNew` (action
property) and `Termination`.

`SatSound` and `PropagationComplete` make an exception that the code forces, and that
came up when they were to be proved. `strengthenClause` detaches a clause, removes a
literal and attaches the clause again without looking at the values of its literals. If
the literals it then watches have been false at level 0 for some time, propagation will
never visit it; normally this is put right by the subsumption queue, which the trail is
also run through. A signal empties that queue (SimpSolver.cc:452), the search goes on
(the flag is tested only between restarts), and if it meets no conflict the solver
prints "SATISFIABLE" with values that falsify the clause. `CutShort` is exactly that
situation: a signal came and some clause watches two literals false at level 0. The run
`signal_model` shows it with the formula `Twice`: {1,2,3,4,5} is shortened to {3,4,5}
when 3 and 4 are already false. The source compiled with the flag set at that iteration
of the loop prints the same model.

The formulas are chosen for what they make happen:
conflicts at several levels, minimisation through a reason, units, tautologies and
repeated clauses in the file, a conflict while reading, chains of strengthening, an
elimination with resolvents, removal of learnt clauses beside reasons. `NV` is 5,
`RestartGap` 1 (the worst case: a restart after any conflict), `MaxReduce` 1,
`ClauseLim` 2 (so that some variables may be eliminated and others not). In `Minimise`,
`Single` and `Reduce` a forced phase that is the opposite of the saved one decides after
a restart. A larger formula with signals, or `Minimise` without preprocessing, has too
many states since the phases are part of them.

Fairness in `SimpSolver`: `WF_vars(Step)`, one sequential process; a signal is never
required. `Termination` rests on `LearntIsNew` and on restarts being separated by
conflicts. `ClassifierLayer`, `Envelope` and `MonoSubset` state safety only.

## 4. Theorems

`FeatureSpaceProofs` (any classifier, any space):

- `TestIsExact`: for a monotone classifier the two ends of a box have the same
  class iff the fixed features force the prediction. The box's ends bound every
  point of the region, and the instance lies in it;
- `OneAtATime`: a weak explanation from which no single feature can be removed
  is subset-minimal, by monotonicity of both kinds of weak explanation;
- `HittingSetDuality`: the explanations of each kind are the minimal hitting sets
  of those of the other. A set is a weak CXp iff it meets every AXp, since
  otherwise its complement is a weak AXp and contains an AXp (`MinimalSet`: sets of
  features are well-founded under inclusion).

`MonoXPsProofs`, first part (any `NF`, bounds, set of monotone classifiers, instances within
the bounds, command lines, and any behaviour of the solver):

- `TypeCorrect`: `Spec => []TypeOK`;
- `LoopsCorrect`: `Spec => []LoopInv`;
- `ReportIsSound`: `Spec => []SoundReport`.

The argument: `SoundReport` alone is not inductive. `LoopInv` adds that in the
loops the record `mxp` is exactly the box of its universal features, that the
fixed features force the prediction (or, in the other loop, the universal ones can
change it), and that every feature passed and kept is necessary. The last part
survives later steps because a feature necessary for a set is necessary for its
subsets. At the end of a loop all features are passed, and `OneAtATime` gives
minimality. `BoxMake` shows that an undo restores the box. `TypeOK` supplies
that the box stays within the bounds.

`MonoXPsProofs`, second part: the enumeration (the same generality):

- `EnumCorrect`: `Spec => []EnumInv`;
- `NothingTwice`, `NothingMissing`, `PrintedDual`, `FirstAbductive`:
  `Spec => []NoRepeat`, `[]Complete` (nothing is said of `-N 0`), `[]Duality`,
  `[]FirstIsAbductive`;
- `ModelsAreFresh`: `Spec => FreshRegion`;
- `RefinesXpEnum`: an enumeration under `-w`, with any limit but 0, starts as `XpEnum` starts and each of
  its steps is a step of `XpEnum` or a stutter.

The argument: `EnumInv` is inductive together with `LoopInv`, `SoundReport` and
`NoRepeat`. Its parts are: `OneXp` (-A and -C print once), `FormulaInv` (the formula is
the clauses of what was printed, the file is the formula, the answer is one to the
file), `FreshInv` (between model and output the box contains nothing printed),
`FirstInv` (the first box fixes everything), `EndInv` (`$done` and the counter of
`-N`), `ExitInv` (after the loop everything is printed or the limit is met).
`FreshModel` shows that a clause is read back as what it was written for, also from
a model shorter than the features; `BoxShrinks` that the loops add nothing to the
set they minimise. Completeness is the converse: `ModelOfMissing` builds from an
explanation not yet printed a model of the formula, because the box of one
explanation contains no other (`OpensNoOther`, which rests on the fact that an AXp
and a CXp share a feature); so an unsatisfiable formula leaves none. The empty
explanation excludes every other (`EmptyXpIsAlone`), which is why `$done` may end
the loop without asking the solver.

`MonoXPsProofs`, third part: what the digest says (the same generality):

- `DigestCorrect`: `Spec => []DigestMatches`;
- `InterruptedCorrect`: `Spec => []InterruptedDigest`;
- `CostCorrect`: `Spec => []OracleCost`.

The counters are tied to the output by an invariant that knows which of blocking,
printing and counting has been done to the explanation in hand (`WriteTally`,
`TallyStep`): the sums grow by its size only because it is not in the output yet, which
is `FreshInv` again, and `report` is finite (`FiniteReport`). For the calls, the
invariant counts the features the loop has passed: two calls for each that had to be
tried, none for one skipped. In an enumeration a skipped feature is one the box had
fixed or freed, so the printed set is among those tried (`EnumCostStep`); `-A` and `-C`
start from a box that leaves every feature to be tried (`SingleStep`, `PassedStep`).

`ClassifierLayerProofs` (any points, classes, predictor, number of calls):
`LayerTypes`, `ChainsAreMonotone`, `MonotoneUntouched`, `ClassIsFunction`
(`Spec => []SingleValued`), `PlainOrder` (`Spec => []PlainOrderKept`). For chains the invariant is
`LogKept` (the log is monotone) with `ScanKept`: whichever direction the first
contradicting entry has, all others have it too, and no entry passed on that side
contradicts the correction taken so far. Two directions at once would put an entry
with a lower class above one with a higher class. `ClassIsFunction` needs more than
the log: the corrected class comes out of a walk over the log, which has grown when the
point is asked for again. The invariant `SingleInv` says that each entry came out of a
walk over the entries before it and that a later walk for the same point repeats that
one, takes the entry when it meets it and takes no later one. `PlainOrder` is order kept by
each of the three conversions; rounding needs that ties go to the even neighbour on both
sides, and clipping that a line with a sign is no positive number.

`EnvelopeProofs` (any network, bounds, direction, `Eps`): `EnvelopeTypes`,
`UpperCorrect`, `UpperOrdered`, `LowerCorrect`. The region of an instance contains that of any
instance before it, so its maximum is no smaller; `Eps` is lost once, where a
counter-example must exceed the prediction by more than that. For `LowerCorrect` the
second search starts at a point that precedes the instance, so all that follows the
instance is in its region too, and where the network is no lower than at the instance.

`MonoSubsetProofs` (any number of rows and features): `SubsetCorrect`. The invariant
says that every moved row of one side is above every moved row of the other
(`Ordered`), that a side that has stopped has no candidate (`Stuck`, kept because the
other side only grows), what the scan knows of the rows it has passed, and that every row
is accounted for (`AllAccounted`). The latter rests on how the number of copies of a row
changes when one is appended or removed by `SwapRemove` (`CopiesOfAppend`,
`CopiesOfSwapRemove`).

`HardCoded`: `RdtMonotone` (data counted from 1), `RdtShiftedNotMonotone` (data counted
from 0, as `rdtc_anchor.py` shifts them), `GrdMonotone` (any rounding that keeps order).

`SimpSolverProofs` (any number of variables, formula, limits, and any choice of the
search): `SolverSound` is `Spec => []Soundness`, `ReasonsAreKept` is
`Spec => []ReasonsKept`. The invariant `Inv` has the parts `TrailOK` (no variable twice,
levels do not fall, the other literals of a reason are false and earlier), `ControlOK`
(what is true of the data at each `pc`), `ReasonsHeld` and, for every model `A` of the
file, `Sound(A)`: `A` satisfies every clause held or used as a reason, every resolvent
still to add, the clause being analysed and the literals of level 0. Variable
elimination keeps it because resolvents follow from their parents. The hard step is
minimisation: the set `Redundant` is defined as a greatest one, and the proof that
dropping it keeps the clause implied takes the literal of least index on the trail
that an assignment falsifying the shorter clause makes true (`RedundantFalse`).

`SimpSolverModelProofs` (the same generality):

- `SolverTypes`: `Spec => []TypeOK`;
- `EliminatedAreGone`: `Spec => []EliminatedGone`;
- `PropagationIsComplete`: `Spec => []PropagationComplete`;
- `LearntAreNew`: `Spec => LearntIsNew`;
- `ModelsAreRight`: `Spec => []SatSound`.

None of these is inductive, and each leans on code far from where it is used. The
invariant `SearchInv` is `Inv` with nine more parts, each preserved by its own lemma:

- `PhaseOK`, where the program is; `PairedOK`, each clause watches two of its literals;
  `QueueOK`, which entries of the trail have been propagated, those of the last call
  being all of the current level;
- `WatchOK`, the heart of propagation: when the negation of a watched literal has been
  propagated, the clause has a literal that is true at that level or below (`Witnessed`).
  This holds for every clause only because a watch is moved to a literal that is not
  false, a conflict drops the whole level, and a learnt clause watches its two highest
  levels. Literals of level 0 are exempt (`Exempt`) while the formula is simplified,
  where clauses are attached regardless of values, and after a signal;
- `CurOK` and `CleanOK`, why the exemption may end with the simplification: no clause
  mentions a variable of level 0 that has been through the subsumption queue, so when
  the queue is empty no clause mentions any. This is what a signal breaks;
- `ElimOK`, no clause, resolvent or clause analysed mentions an eliminated variable,
  but for the one being eliminated; `AnalyzedOK`, the clause analysed has no literal of
  level 0;
- `ForcedOK`, the forced phases never hold both literals of a variable. A clause bumps
  literals that are all false, so no two of them are opposite (`BumpedOK`). Whatever
  phase a decision takes, it is a literal of the variable decided (`PhaseIsLiteral`), and
  this is all that the other parts need of it.

From `WatchOK` follow `PropagationComplete`, since the two watches of a clause without
a true literal are not assigned, and from that `LearntIsNew`: before the last decision
of the conflict level every clause had a true literal or two free ones, and the learnt
clause is false but for one literal at the level it jumps back to.

For the models, `RecordsOK` says that what is kept of an eliminated variable mentions
neither it nor one eliminated earlier, `ModelOK` which variables have a value, and
`GoodOK` reads the record backwards without recursion: there is a sequence `G` of sets
of assignments, one for each length of the record, the first the models of the file,
such that filling in the value of the i-th variable leads from `G[i]` to `G[i - 1]`
(`IsChain`); whatever satisfies the clauses left and the literals of level 0 is in the
last. `Eliminate` adds a member to `G`, every other step keeps it. That the value
filled in is right is the resolution argument: if both a kept clause and one that was
dropped needed it, their resolvent would be false. At the end of the search the trail
satisfies every clause, by `PropagationComplete` or, after a signal, unless `CutShort`.

Only model-checked, because liveness and `ENABLED` are out of the prover's reach:
`Termination` of `MonoXPsProperties` and of `SimpSolverProperties`, and the fairness part of
`ImplementsXpEnum` (its initial states and steps are `RefinesXpEnum`). Every safety
invariant and action property of the passing runs is a theorem. The violations are
shown by TLC. Induction over sets and numbers takes a smallest member that fails
(`WFMin`); so do the facts about the sums of `MapThenSumSet`, which `FeatureSpaceProofs`
proves from its definition.

## 5. Not modelled, and why

- *The rest of `tools/`*. OptiMathSAT is a binary with headers, generated wrappers for
  C, Java and Python (by far the most lines of the repository) and examples: there is
  no algorithm in them to model. COMET and monoboost train and load models of
  libraries that are not in the repository. The parallel front end of Glucose is never
  called by `Solver.pm`.
- *The rest of Glucose*. `adaptSolver` and blocked restarts start after 10000 conflicts
  or more, and with `adaptSolver` the random phases it may switch on; incremental mode,
  assumptions, proof output, `asymm` and `rcheck` are off as `Solver.pm` calls it; garbage collection moves clauses in memory without changing
  them; activities choose an order, and the model allows every order.
- *The encoding of a network as SMT* (`nn_encoding`) is the generation of text for an
  external solver; the real numbers of a network are beyond TLC. `Envelope` starts where
  the solver has found an optimum.
- *`-V`, `-k`, `-p`* and the parsing of the command line: one call and a message.
- *Files shared by two runs*. `current_cnt.cnf`, `sat_output` and `clsf_output` have
  fixed names, so two runs in one directory read each other's files and nothing said
  above holds; a composition of two copies of `MonoXPs` would restate that.
- *Short input files*. `parse_spec` and `parse_instance` accept a file that ends early;
  the constants of the models are what complete files give.
- *The layout of the digest* and `gather-stats`, which matches its lines; the counters
  behind it are checked.
- *`mkinst`, `gensg`, `xbounds`, `run-xmono`, `00Saved`*: filters and drivers of one pass
  without state that steps could get wrong.

Possible next steps: `SimpSolver` as an implementation of the solver that `MonoXPs`
assumes (a module of one question and one answer); a run of `MonoXPs` with a solver that
may print a wrong model at a signal; the averages of the digest.
