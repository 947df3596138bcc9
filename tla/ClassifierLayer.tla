-------------------------- MODULE ClassifierLayer --------------------------
(***************************************************************************)
(* Model.pm as xmono -t CMT uses it (without -k above 5, which selects     *)
(* another classifier): run_classifier calls cmt_classifier,               *)
(* which runs the COMET predictor (monosim.py) as a child process, reads   *)
(* one number from the file the process leaves, and maps it to a class.    *)
(* With -m, enforce_monotonicity then compares that class with the log     *)
(* Preds of all earlier classes, corrects it, and logs it.                 *)
(*                                                                         *)
(* The corrected class of a point depends on the calls made before, so the *)
(* module is about sequences of calls.  The loop over the log is one       *)
(* action per entry.  Statistics (-s) are on.                              *)
(***************************************************************************)
EXTENDS Integers, Sequences

CONSTANTS
  NF,        \* number of features
  Value,     \* values of the features
  Unit,      \* numbers are counted in units of 1/Unit
  Setup,     \* the runs considered, see SetupType
  MaxCalls   \* bound: the number of classifier calls of a run

Feature == 1..NF
Point == [Feature -> Value]

\* What the child process leaves in the file, as far as the pattern
\* "prediction:\s+(\d+\.?\d*)" can tell: a nonnegative decimal number, a
\* negative one, one with an exponent (Python prints a number below 0.0001 as
\* a mantissa and an exponent), or no such line.  val is the number, mant its
\* mantissa, both in units of 1/Unit.
OutputType ==
  {out \in [kind : {"plain", "negative", "exponent", "none"},
            val : Int, mant : Nat] :
     /\ out.kind = "plain" => out.val >= 0
     /\ out.kind = "negative" => out.val <= 0}

NoLine == [kind |-> "none", val |-> 0, mant |-> 0]

\* A run: the points it may ask for, the classes Cls of the specification
\* file, the predictor, whether its process may fail, and the option -m.
SetupType == [points : SUBSET Point, Cls : SUBSET Int,
              net : UNION {[P -> OutputType] : P \in SUBSET Point},
              fails : BOOLEAN, m : BOOLEAN]

ASSUME LayerAssumption ==
  /\ NF \in Nat
  /\ Value \subseteq Int
  /\ Unit \in Nat \ {0}
  /\ MaxCalls \in Nat
  /\ \A s \in Setup : /\ s.points \subseteq Point /\ s.Cls \subseteq Int
                      /\ s.net \in [s.points -> OutputType]
                      /\ s.fails \in BOOLEAN /\ s.m \in BOOLEAN

VARIABLES
  run,     \* the run's setup
  Preds,   \* $mxp->{Preds}: the log, entries [vect, cl]
  pc,      \* "idle", or "scan" in the loop of enforce_monotonicity
  vect,    \* $vect: the point asked for
  class,   \* $class: the class before correction
  i,       \* $i of the loop (from 1)
  rcl,     \* $rcl: the corrected class so far
  rvect,   \* $rvect: the point it was taken from
  hasv,    \* $hasv: whether it was taken from any
  MFIXES,  \* $stats->{MFIXES}: corrections logged
  calls,   \* number of calls so far
  answers  \* the pairs (point, class) returned so far

scanVars == <<vect, class, i, rcl, rvect, hasv>>
vars == <<run, Preds, pc, scanVars, MFIXES, calls, answers>>

-----------------------------------------------------------------------------
(* From the output file to a class. *)

\* Parsers::round, sprintf("%.0f"): the nearest whole number, the even one of
\* two, as the number of units.
Round(x) ==
  LET n == x \div Unit
      rest == 2 * (x % Unit)
      up == rest > Unit \/ (rest = Unit /\ n % 2 = 1)
  IN (IF up THEN n + 1 ELSE n) * Unit

\* parse_cmt_outp.  Its result '' (no line matches, or the number starts with
\* a sign) counts as 0 in the comparisons that follow; of a number with an
\* exponent the pattern takes the mantissa.
ParseCmtOutp(out) ==
  CASE out.kind = "plain"    -> Round(out.val)
    [] out.kind = "exponent" -> Round(out.mant)
    [] OTHER                 -> 0

\* Faulty variant: there must be a next class.
FitsBelowNext(Cls, c, prediction) ==
  c <= prediction /\ \E d \in Cls : d > prediction /\ \A e \in Cls : e <= c \/ e >= d

\* The test of the loop over the sorted classes: class c is not above the
\* prediction and the next one, if any, is.
Fits(Cls, c, prediction) ==
  c <= prediction /\ \A d \in Cls : d <= c \/ d > prediction

\* Faulty variant: class 0 to start from.
ClassOfZero(Cls, prediction) ==
  IF \E c \in Cls : Fits(Cls, c, prediction)
  THEN CHOOSE c \in Cls : Fits(Cls, c, prediction)
  ELSE 0

\* The class of a prediction: the largest class not above it, else -1.
ClassOf(Cls, prediction) ==
  IF \E c \in Cls : Fits(Cls, c, prediction)
  THEN CHOOSE c \in Cls : Fits(Cls, c, prediction)
  ELSE -1

\* The class of point v when the process does not fail.
RawClass(v) == ClassOf(run.Cls, ParseCmtOutp(run.net[v]))

-----------------------------------------------------------------------------
(* enforce_monotonicity. *)

\* Faulty variant: one component decides.
GreaterThanSome(u, v) == \E f \in Feature : u[f] >= v[f]

\* greater_than: componentwise, and not strict.
GreaterThan(u, v) == \A f \in Feature : u[f] >= v[f]

EqualsTo(u, v) == \A f \in Feature : u[f] = v[f]

Entry(v, c) == [vect |-> v, cl |-> c]

\* Faulty variant: the nearest point is sought upwards.
TakeFromAboveFar(p) ==
  /\ GreaterThan(p.vect, vect) /\ p.cl < class
  /\ hasv => GreaterThan(p.vect, rvect) /\ p.cl <= rcl

\* Faulty variant: the last such entry is taken, near or far.
TakeFromAboveLast(p) == GreaterThan(p.vect, vect) /\ p.cl < class

\* Entry p lies above the point and has a lower class, and it is the first
\* such or lies below the one found before.
TakeFromAbove(p) ==
  /\ GreaterThan(p.vect, vect) /\ p.cl < class
  /\ hasv => GreaterThan(rvect, p.vect) /\ p.cl <= rcl

\* The elsif: entry p lies below the point and has a higher class, and it is
\* the first such or lies above the one found before.
TakeFromBelow(p) ==
  /\ ~(GreaterThan(p.vect, vect) /\ p.cl < class)
  /\ GreaterThan(vect, p.vect) /\ class < p.cl
  /\ hasv => GreaterThan(p.vect, rvect) /\ rcl <= p.cl

\* The entry for the same point and the same class, which ends the loop.
SameInstance(p) == EqualsTo(p.vect, vect) /\ p.cl = class

\* What is pushed onto the log.
Logged == Entry(vect, rcl)

-----------------------------------------------------------------------------
Init ==
  /\ run \in Setup
  /\ Preds = <<>>
  /\ pc = "idle"
  /\ vect \in run.points
  /\ class = -1 /\ i = 1 /\ rcl = -1 /\ rvect = vect /\ hasv = FALSE
  /\ MFIXES = 0 /\ calls = 0 /\ answers = {}

\* What the process leaves for point v.
Outputs(v) == {run.net[v]} \cup (IF run.fails THEN {NoLine} ELSE {})

\* cmt_classifier up to the test of -m: run the process, read, map.
Classify(v) ==
  /\ pc = "idle" /\ calls < MaxCalls
  /\ \E out \in Outputs(v) :
       class' = ClassOf(run.Cls, ParseCmtOutp(out))
  /\ vect' = v /\ i' = 1 /\ rcl' = class' /\ rvect' = v /\ hasv' = FALSE
  /\ calls' = calls + 1
  /\ pc' = IF run.m THEN "scan" ELSE "idle"
  /\ answers' = IF run.m THEN answers ELSE answers \cup {Entry(v, class')}
  /\ UNCHANGED <<run, Preds, MFIXES>>

\* One iteration of the loop that does not leave it.
CheckEntry ==
  /\ pc = "scan" /\ i <= Len(Preds)
  /\ LET p == Preds[i] IN
       /\ ~SameInstance(p)
       /\ IF TakeFromAbove(p) \/ TakeFromBelow(p)
          THEN rvect' = p.vect /\ rcl' = p.cl /\ hasv' = TRUE
          ELSE UNCHANGED <<rvect, rcl, hasv>>
  /\ i' = i + 1
  /\ UNCHANGED <<run, Preds, pc, vect, class, MFIXES, calls, answers>>

\* $skip = 1; last: the same instance is in the log, nothing is added to it.
SkipKnown ==
  /\ pc = "scan" /\ i <= Len(Preds) /\ SameInstance(Preds[i])
  /\ pc' = "idle"
  /\ answers' = answers \cup {Entry(vect, rcl)}
  /\ UNCHANGED <<run, Preds, scanVars, MFIXES, calls>>

\* After the loop: log the corrected class and return it.
LogPrediction ==
  /\ pc = "scan" /\ i > Len(Preds)
  /\ Preds' = Append(Preds, Logged)
  /\ MFIXES' = IF rcl # class THEN MFIXES + 1 ELSE MFIXES
  /\ pc' = "idle"
  /\ answers' = answers \cup {Entry(vect, rcl)}
  /\ UNCHANGED <<run, scanVars, calls>>

Next ==
  \/ \E v \in run.points : Classify(v)
  \/ CheckEntry
  \/ SkipKnown
  \/ LogPrediction

Spec == Init /\ [][Next]_vars

-----------------------------------------------------------------------------
(* Properties. *)

\* The classes a run can meet.
Class == run.Cls \cup {-1}
Answer == [vect : run.points, cl : Class]

\* The types of the variables; whatever the predictor prints, the log and the
\* answers hold classes of the specification file, or -1.
TypeOK ==
  /\ Preds \in Seq(Answer)
  /\ pc \in {"idle", "scan"}
  /\ vect \in run.points /\ rvect \in run.points
  /\ class \in Class /\ rcl \in Class /\ hasv \in BOOLEAN
  /\ i \in 1..(Len(Preds) + 1)
  /\ MFIXES \in Nat /\ calls \in Nat
  /\ answers \subseteq Answer

\* The order of the feature space.
Dominates(u, v) == \A f \in Feature : u[f] >= v[f]

IsChain(P) == \A u, v \in P : Dominates(u, v) \/ Dominates(v, u)

OrderKept(A) ==
  \A a, b \in A : Dominates(a.vect, b.vect) => a.cl >= b.cl

\* With -m, on points that are totally ordered (one feature that moves), the
\* classes a run gets are those of a monotone function: no two calls
\* contradict each other, whatever the predictor says, in whatever order the
\* points are asked for, and even when the process fails on some calls.
ChainMonotone == run.m /\ IsChain(run.points) => OrderKept(answers)

\* With -m and a predictor that does not fail, the same point gets the same
\* class however often it is asked for and whatever was logged in between:
\* the engine sees a function of the points (Model.pm:128 to 138).
SingleValued ==
  run.m /\ ~run.fails =>
    \A a, b \in answers : a.vect = b.vect => a.cl = b.cl

\* With -m, a predictor whose classes are monotone is left alone: no class is
\* corrected, none is counted as a fix, and what is returned is the raw class.
Transparent ==
  run.m /\ ~run.fails
    /\ (\A u, v \in run.points :
          Dominates(u, v) => RawClass(u) >= RawClass(v)) =>
    /\ MFIXES = 0
    /\ \A a \in answers : a.cl = RawClass(a.vect)

Before(u, v) == run.net[u].val <= run.net[v].val

\* Without -m the classes of two points are ordered as their predictions,
\* for predictions printed without an exponent: rounding, the clipping of
\* negative numbers and the search among the classes invert no pair.
PlainOrderKept ==
  ~run.m /\ ~run.fails =>
    \A a, b \in answers :
      /\ run.net[a.vect].kind \in {"plain", "negative"}
      /\ run.net[b.vect].kind \in {"plain", "negative"}
      /\ Before(a.vect, b.vect)
      => a.cl <= b.cl

\* "-m enforce monotonicity (in case classifier outputs outliers)"
\* (xmono:165): the classes a run gets with -m are those of a monotone
\* function.
EnforcesMonotonicity == run.m /\ ~run.fails => OrderKept(answers)

\* "Obs: assuming reals for the classification values" (Parsers.pm:116):
\* whatever real the predictor prints, its order is that of the class.
ReadsReals ==
  ~run.m /\ ~run.fails =>
    \A a, b \in answers : Before(a.vect, b.vect) => a.cl <= b.cl
=============================================================================
