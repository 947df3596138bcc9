------------------------------ MODULE Envelope ------------------------------
(***************************************************************************)
(* The COMET bridge: monosim.py, run by Model.pm for each classifier call, *)
(* with generate_counter_example (Envelope.py) and the two searches of     *)
(* Solver_OptiMathSat.py.                                                  *)
(*                                                                         *)
(* One run takes an instance, prints the network's prediction, and then    *)
(* the upper and the lower envelope prediction: the network's value at the *)
(* worst counter-example to monotonicity that OptiMathSAT finds, or at the *)
(* instance if it finds none.  The searches overwrite the instance they    *)
(* are given.  The network is any function and the solver any optimum; the *)
(* encoding of one for the other is not modelled.  Numbers are counted in  *)
(* units; Eps is the constant epsilon of the encoding.                     *)
(***************************************************************************)
EXTENDS Integers

CONSTANTS
  NF,      \* number of features
  Value,   \* values of the features, a grid in place of the reals
  Mono,    \* configurations['monotonic_indices']
  Lo, Hi,  \* configurations['min_max_values'] of those features
  Eps,     \* epsilon
  Setup    \* the runs considered, see SetupType

Feature == 1..NF
Point == [Feature -> Value]

\* A configuration: the network, the direction (0 is increasing), whether it
\* classifies, whether the solver process or the reading of its answer may
\* fail (no binary; a number of a form that parseSexp does not index, such as
\* an integer objective or a negative integer), and the points asked for.
SetupType == [net : [Point -> Int], dir : {0, 1}, classifies : BOOLEAN,
              fails : BOOLEAN, points : SUBSET Point]

ASSUME EnvelopeAssumption ==
  /\ NF \in Nat
  /\ Value \subseteq Int
  /\ Mono \subseteq Feature
  /\ Lo \in [Mono -> Int] /\ Hi \in [Mono -> Int]
  /\ Eps \in Nat
  /\ \A s \in Setup : /\ s.net \in [Point -> Int] /\ s.dir \in {0, 1}
                      /\ s.classifies \in BOOLEAN /\ s.fails \in BOOLEAN
                      /\ s.points \subseteq Point

VARIABLES
  run,       \* the configuration
  pc,        \* "idle", "upper" or "lower": the search to come
  given,     \* the instance on the command line (-i)
  instance,  \* the object instance, which the searches overwrite
  fx,        \* f_x: the prediction at the instance
  upper,     \* upper_envelope_prediction
  failed,    \* whether a search of this call failed
  log        \* the calls so far, see Entry

vars == <<run, pc, given, instance, fx, upper, failed, log>>

Entry(u, l) ==
  [inst |-> given, fx |-> fx, up |-> u, low |-> l, failed |-> failed']

-----------------------------------------------------------------------------
(* The constraints of the two searches. *)

\* y differs from p in monotonic features only, and there is within bounds.
InRange(p, y) ==
  /\ \A f \in Feature \ Mono : y[f] = p[f]
  /\ \A f \in Mono : Lo[f] <= y[f] /\ y[f] <= Hi[f]

\* Faulty variant: the constraint that both search functions have commented
\* out, every monotonic feature moves.
BelowStrictly(p, y) == InRange(p, y) /\ \A f \in Mono : y[f] < p[f]

Below(p, y) == InRange(p, y) /\ \A f \in Mono : y[f] <= p[f]

Above(p, y) == InRange(p, y) /\ \A f \in Mono : y[f] >= p[f]

\* The points the searches for p range over.
UpperRegion(p) ==
  {y \in Point : IF run.dir = 0 THEN Below(p, y) ELSE Above(p, y)}

\* Faulty variant: the constraints of the other search function.
LowerRegionCopied(p) == UpperRegion(p)

LowerRegion(p) ==
  {y \in Point : IF run.dir = 0 THEN Above(p, y) ELSE Below(p, y)}

\* What the counter-example is compared with: NN1, the encoding of the network
\* at the current instance, or the label passed in.
Reference == IF run.classifies THEN run.net[instance] ELSE fx

\* Faulty variant: the first point that violates monotonicity is taken.
WorstUpperFirst(y) == run.net[y] - Reference > Eps

\* y is an optimal counter-example: beyond Reference by more than Eps, and no
\* point of the region is further beyond it.
WorstUpper(y) ==
  /\ run.net[y] - Reference > Eps
  /\ \A z \in UpperRegion(instance) : run.net[z] <= run.net[y]

WorstLower(y) ==
  /\ Reference - run.net[y] > Eps
  /\ \A z \in LowerRegion(instance) : run.net[z] >= run.net[y]

NoUpper == \A y \in UpperRegion(instance) : run.net[y] - Reference <= Eps
NoLower == \A y \in LowerRegion(instance) : Reference - run.net[y] <= Eps

-----------------------------------------------------------------------------
Init ==
  /\ run \in Setup
  /\ pc = "idle"
  /\ given \in run.points /\ instance = given
  /\ fx = run.net[given] /\ upper = fx
  /\ failed = FALSE
  /\ log = {}

\* Faulty variant: the object of the call before is used again.
PredictAgain(x) ==
  /\ pc = "idle"
  /\ given' = x /\ UNCHANGED instance
  /\ fx' = run.net[x] /\ upper' = fx'
  /\ failed' = FALSE
  /\ pc' = "upper"
  /\ UNCHANGED <<run, log>>

\* A new process: load the model, predict, print.
Predict(x) ==
  /\ pc = "idle"
  /\ given' = x /\ instance' = x
  /\ fx' = run.net[x] /\ upper' = fx'
  /\ failed' = FALSE
  /\ pc' = "upper"
  /\ UNCHANGED <<run, log>>

\* solve() returns a counter-example: it has overwritten the instance, and the
\* upper prediction is that of the network there.
UpperFound ==
  /\ pc = "upper"
  /\ \E y \in UpperRegion(instance) :
       WorstUpper(y) /\ instance' = y /\ upper' = run.net[y]
  /\ pc' = "lower"
  /\ UNCHANGED <<run, given, fx, failed, log>>

\* solve() returns None: "unsat", or an exception before the instance is
\* touched.
UpperNone ==
  /\ pc = "upper"
  /\ NoUpper \/ run.fails
  /\ upper' = fx
  /\ failed' = ~NoUpper
  /\ pc' = "lower"
  /\ UNCHANGED <<run, given, instance, fx, log>>

LowerFound ==
  /\ pc = "lower"
  /\ failed' = failed
  /\ \E y \in LowerRegion(instance) :
       /\ WorstLower(y) /\ instance' = y
       /\ log' = log \cup {Entry(upper, run.net[y])}
  /\ pc' = "idle"
  /\ UNCHANGED <<run, given, fx, upper>>

LowerNone ==
  /\ pc = "lower"
  /\ NoLower \/ run.fails
  /\ failed' = (failed \/ ~NoLower)
  /\ log' = log \cup {Entry(upper, fx)}
  /\ pc' = "idle"
  /\ UNCHANGED <<run, given, instance, fx, upper>>

Next ==
  \/ \E x \in run.points : Predict(x)
  \/ UpperFound
  \/ UpperNone
  \/ LowerFound
  \/ LowerNone

Spec == Init /\ [][Next]_vars

-----------------------------------------------------------------------------
(* Properties. *)

EntryType == [inst : run.points, fx : Int, up : Int, low : Int,
              failed : BOOLEAN]

\* The types of the variables; the first search starts from the instance that
\* was given, and features that are not monotonic are never touched.
TypeOK ==
  /\ run \in Setup
  /\ pc \in {"idle", "upper", "lower"}
  /\ given \in run.points /\ instance \in Point
  /\ \A f \in Feature : f \notin Mono \/ pc = "upper" => instance[f] = given[f]
  /\ fx \in Int /\ upper \in Int /\ failed \in BOOLEAN
  /\ log \subseteq EntryType

\* v comes after u in the order in which the prediction must not fall.
Precedes(u, v) ==
  /\ \A f \in Feature \ Mono : u[f] = v[f]
  /\ \A f \in Mono : IF run.dir = 0 THEN u[f] <= v[f] ELSE u[f] >= v[f]

InBounds(x) == \A f \in Mono : Lo[f] <= x[f] /\ x[f] <= Hi[f]

\* The upper prediction is the network's value at the instance or at a point
\* within bounds that precedes it, and no such point exceeds it by more than
\* Eps.
UpperIsEnvelope ==
  \A e \in log : ~e.failed =>
    /\ \/ e.up = run.net[e.inst]
       \/ \E y \in Point : /\ InBounds(y) /\ Precedes(y, e.inst)
                           /\ e.up = run.net[y]
    /\ \A y \in Point : InBounds(y) /\ Precedes(y, e.inst)
                          => run.net[y] <= e.up + Eps

\* What Model.pm relies on: the upper predictions of any two instances within
\* bounds are in the order of the instances, up to Eps, whatever the network
\* computes.
UpperMonotone ==
  \A d, e \in log :
    /\ ~d.failed /\ ~e.failed
    /\ InBounds(d.inst) /\ Precedes(d.inst, e.inst)
    => d.up <= e.up + Eps

\* Although it is searched from another point, the lower prediction is never
\* above a value the envelope of the instance itself must lie below.
LowerIsBelow ==
  \A e \in log : ~e.failed /\ InBounds(e.inst) =>
    /\ e.low <= e.fx
    /\ \A z \in Point : InBounds(z) /\ Precedes(e.inst, z)
                          => e.low <= run.net[z] + Eps

\* "per each data point x, find y where x<y and f(x) <f(y) is maximized"
\* (Envelope.py:205): the lower prediction is that of the instance or of a
\* point that follows it.
LowerOfInstance ==
  \A e \in log : ~e.failed =>
    \E z \in Point : (z = e.inst \/ Precedes(e.inst, z)) /\ e.low = run.net[z]
=============================================================================
