----------------------- MODULE ClassifierLayerProofs -----------------------
(***************************************************************************)
(* Theorems on the classifier layer, for any number of features, any       *)
(* predictors, any classes and any sequence of calls: what                 *)
(* enforce_monotonicity guarantees on totally ordered points, and that it  *)
(* leaves a monotone predictor alone.                                      *)
(***************************************************************************)
EXTENDS ClassifierLayer, FiniteSetTheorems, WellFoundedInduction, TLAPS

RunOK == run \in Setup

LEMMA ClassOfType ==
  ASSUME NEW Cls, NEW p
  PROVE  ClassOf(Cls, p) \in Cls \cup {-1}
BY DEF ClassOf

LEMMA DominatesTrans ==
  ASSUME NEW u \in Point, NEW v \in Point, NEW w \in Point,
         Dominates(u, v), Dominates(v, w)
  PROVE  Dominates(u, w)
<1>1. \A f \in Feature : u[f] \in Int /\ v[f] \in Int /\ w[f] \in Int
  BY LayerAssumption DEF Point
<1>. QED  BY <1>1, SMT DEF Dominates

LEMMA DominatesSelf ==
  ASSUME NEW u \in Point
  PROVE  Dominates(u, u)
<1>1. \A f \in Feature : u[f] \in Int
  BY LayerAssumption DEF Point
<1>. QED  BY <1>1, SMT DEF Dominates

\* EqualsTo compares component by component; on points that is equality.
LEMMA EqualPoints ==
  ASSUME NEW u \in Point, NEW v \in Point, EqualsTo(u, v)
  PROVE  u = v
BY DEF Point, EqualsTo

LEMMA RunFields ==
  ASSUME RunOK
  PROVE  /\ run.points \subseteq Point
         /\ run.Cls \subseteq Int
         /\ Class \subseteq Int
BY LayerAssumption DEF RunOK, Class

\* Types: the run is one of those considered and every variable is typed.
TypeInv == RunOK /\ TypeOK

LEMMA TypeStep ==
  ASSUME TypeInv, [Next]_vars
  PROVE  TypeInv'
<1>. USE DEF TypeInv, RunOK, TypeOK
<1>1. ASSUME NEW v \in run.points, Classify(v) PROVE TypeInv'
  <2>1. class' \in run.Cls \cup {-1}
    BY <1>1, ClassOfType DEF Classify
  <2>2. run' = run /\ Preds' = Preds /\ Answer' = Answer /\ Class' = Class
    BY <1>1 DEF Classify, Answer, Class
  <2>3. i' = 1 /\ i' \in 1..(Len(Preds') + 1)
    BY <1>1, <2>2 DEF Classify
  <2>4. answers' \subseteq Answer
    BY <1>1, <2>1 DEF Classify, Answer, Class, Entry
  <2>5. pc' \in {"idle", "scan"} /\ calls' \in Nat /\ MFIXES' \in Nat
    BY <1>1 DEF Classify
  <2>6. rcl' \in Class /\ class' \in Class /\ hasv' \in BOOLEAN
        /\ vect' \in run.points /\ rvect' \in run.points
    BY <1>1, <2>1 DEF Classify, Class
  <2>. QED  BY <2>2, <2>3, <2>4, <2>5, <2>6
<1>2. CASE CheckEntry
  <2>1. run' = run /\ Preds' = Preds /\ Answer' = Answer /\ Class' = Class
    BY <1>2 DEF CheckEntry, Answer, Class
  <2>2. i' \in 1..(Len(Preds) + 1)
    BY <1>2 DEF CheckEntry
  <2>3. Preds[i] \in Answer
    BY <1>2 DEF CheckEntry
  <2>4. rcl' \in Class /\ hasv' \in BOOLEAN /\ rvect' \in run.points
    BY <1>2, <2>3 DEF CheckEntry, Answer
  <2>. QED  BY <1>2, <2>1, <2>2, <2>4 DEF CheckEntry
<1>3. CASE SkipKnown
  <2>1. run' = run /\ Answer' = Answer /\ Class' = Class
    BY <1>3 DEF SkipKnown, Answer, Class
  <2>2. Entry(vect, rcl) \in Answer
    BY DEF Entry, Answer
  <2>. QED  BY <1>3, <2>1, <2>2 DEF SkipKnown, scanVars
<1>4. CASE LogPrediction
  <2>1. run' = run /\ Answer' = Answer /\ Class' = Class
    BY <1>4 DEF LogPrediction, Answer, Class
  <2>2. Entry(vect, rcl) \in Answer
    BY DEF Entry, Answer
  <2>3. Preds' \in Seq(Answer) /\ Len(Preds') = Len(Preds) + 1
    BY <1>4, <2>2 DEF LogPrediction, Logged
  <2>4. i' \in 1..(Len(Preds') + 1)
    BY <1>4, <2>3 DEF LogPrediction, scanVars
  <2>5. MFIXES' \in Nat
    BY <1>4 DEF LogPrediction
  <2>. QED  BY <1>4, <2>1, <2>2, <2>3, <2>4, <2>5 DEF LogPrediction, scanVars
<1>5. CASE UNCHANGED vars
  BY <1>5 DEF vars, scanVars, Answer, Class
<1>. QED  BY <1>1, <1>2, <1>3, <1>4, <1>5 DEF Next

-----------------------------------------------------------------------------
(* The log on totally ordered points. *)

\* The log contradicts itself nowhere.
LogKept ==
  \A j, k \in 1..Len(Preds) :
    Dominates(Preds[j].vect, Preds[k].vect) => Preds[j].cl >= Preds[k].cl

\* Entry p and the raw class of the point asked for contradict each other.
Contradicts(p) ==
  \/ Dominates(p.vect, vect) /\ p.cl < class
  \/ Dominates(vect, p.vect) /\ class < p.cl

\* The correction was taken from an entry above: the lowest found so far.
FromAbove ==
  /\ Dominates(rvect, vect) /\ rcl < class
  /\ \A j \in 1..(i - 1) : Dominates(Preds[j].vect, vect) => Preds[j].cl >= rcl

\* The correction was taken from an entry below: the highest found so far.
FromBelow ==
  /\ Dominates(vect, rvect) /\ class < rcl
  /\ \A j \in 1..(i - 1) : Dominates(vect, Preds[j].vect) => Preds[j].cl <= rcl

\* What the loop has established after the first i - 1 entries.
ScanKept ==
  /\ ~hasv => rcl = class /\ \A j \in 1..(i - 1) : ~Contradicts(Preds[j])
  /\ hasv => /\ \E j \in 1..(i - 1) : Preds[j].vect = rvect /\ Preds[j].cl = rcl
             /\ FromAbove \/ FromBelow

\* With -m every answer was logged.
Answered == \A a \in answers : \E j \in 1..Len(Preds) : a = Preds[j]

ChainInv ==
  run.m /\ IsChain(run.points) =>
    LogKept /\ Answered /\ (pc = "scan" => ScanKept)

LEMMA EntryFacts ==
  ASSUME TypeInv, NEW j \in 1..Len(Preds)
  PROVE  /\ Preds[j] \in Answer
         /\ Preds[j].vect \in Point /\ Preds[j].vect \in run.points
         /\ Preds[j].cl \in Int
<1>1. Preds[j] \in Answer
  BY DEF TypeInv, TypeOK
<1>. QED  BY <1>1, RunFields DEF TypeInv, Answer

LEMMA ScanFacts ==
  ASSUME TypeInv
  PROVE  /\ vect \in Point /\ rvect \in Point
         /\ vect \in run.points /\ rvect \in run.points
         /\ class \in Int /\ rcl \in Int /\ hasv \in BOOLEAN
         /\ i \in 1..(Len(Preds) + 1) /\ Len(Preds) \in Nat
BY RunFields DEF TypeInv, TypeOK

\* An entry that the loop passes keeps the invariant of the loop: on a chain
\* the entry taken is the extreme one among those that contradict the class.
LEMMA ScanStep ==
  ASSUME TypeInv, ChainInv, run.m, IsChain(run.points), CheckEntry
  PROVE  ScanKept'
<1>. DEFINE p == Preds[i]
<1>1. LogKept /\ ScanKept
  BY DEF ChainInv, CheckEntry
<1>2. i \in 1..Len(Preds) /\ i' = i + 1
  BY ScanFacts DEF CheckEntry
<1>3. /\ vect' = vect /\ class' = class /\ Preds' = Preds
  BY DEF CheckEntry
<1>4. p.vect \in Point /\ p.vect \in run.points /\ p.cl \in Int
  BY <1>2, EntryFacts
<1>5. /\ vect \in Point /\ rvect \in Point /\ rvect \in run.points
      /\ class \in Int /\ rcl \in Int /\ hasv \in BOOLEAN
  BY ScanFacts
<1>6. 1..(i' - 1) = 1..(i - 1) \cup {i} /\ 1..(i - 1) \subseteq 1..Len(Preds)
  BY <1>2
<1>7. \A u, v : GreaterThan(u, v) <=> Dominates(u, v)
  BY DEF GreaterThan, Dominates
<1>8. Dominates(p.vect, rvect) \/ Dominates(rvect, p.vect)
  BY <1>4, <1>5 DEF IsChain
<1>9. hasv => /\ Dominates(rvect, p.vect) => rcl >= p.cl
              /\ Dominates(p.vect, rvect) => p.cl >= rcl
  BY <1>1, <1>2, <1>6 DEF ScanKept, LogKept
<1>10. CASE TakeFromAbove(p)
  <2>1. rvect' = p.vect /\ rcl' = p.cl /\ hasv' = TRUE
    BY <1>10 DEF CheckEntry
  <2>2. Dominates(p.vect, vect) /\ p.cl < class
    BY <1>10, <1>7 DEF TakeFromAbove
  <2>3. \A j \in 1..(i - 1) : Dominates(Preds[j].vect, vect) => Preds[j].cl >= p.cl
    <3>1. CASE ~hasv
      <4>. SUFFICES ASSUME NEW j \in 1..(i - 1), Dominates(Preds[j].vect, vect)
                    PROVE  Preds[j].cl >= p.cl
        OBVIOUS
      <4>1. ~(Preds[j].cl < class)
        BY <3>1, <1>1 DEF ScanKept, Contradicts
      <4>2. Preds[j].cl \in Int
        BY <1>6, EntryFacts
      <4>. QED  BY <4>1, <4>2, <2>2, <1>4, <1>5
    <3>2. CASE hasv
      <4>1. p.cl <= rcl
        BY <3>2, <1>10 DEF TakeFromAbove
      <4>2. CASE FromAbove
        <5>1. \A j \in 1..(i - 1) : Preds[j].cl \in Int
          BY <1>6, EntryFacts
        <5>. QED  BY <4>1, <4>2, <5>1, <1>4, <1>5 DEF FromAbove
      <4>3. CASE FromBelow
        <5>1. rcl < rcl
          <6>1. Dominates(p.vect, rvect)
            BY <4>3, <2>2, <1>4, <1>5, DominatesTrans DEF FromBelow
          <6>. QED  BY <6>1, <3>2, <1>9, <4>3, <2>2, <1>4, <1>5 DEF FromBelow
        <5>. QED  BY <5>1, <1>5
      <4>. QED  BY <3>2, <1>1, <4>2, <4>3 DEF ScanKept
    <3>. QED  BY <3>1, <3>2, <1>5
  <2>4. p.cl >= p.cl
    BY <1>4
  <2>. QED  BY <2>1, <2>2, <2>3, <2>4, <1>2, <1>3, <1>6 DEF ScanKept, FromAbove
<1>11. CASE TakeFromBelow(p)
  <2>1. rvect' = p.vect /\ rcl' = p.cl /\ hasv' = TRUE
    BY <1>11 DEF CheckEntry
  <2>2. Dominates(vect, p.vect) /\ class < p.cl
    BY <1>11, <1>7 DEF TakeFromBelow
  <2>3. \A j \in 1..(i - 1) : Dominates(vect, Preds[j].vect) => Preds[j].cl <= p.cl
    <3>1. CASE ~hasv
      <4>. SUFFICES ASSUME NEW j \in 1..(i - 1), Dominates(vect, Preds[j].vect)
                    PROVE  Preds[j].cl <= p.cl
        OBVIOUS
      <4>1. ~(class < Preds[j].cl)
        BY <3>1, <1>1 DEF ScanKept, Contradicts
      <4>2. Preds[j].cl \in Int
        BY <1>6, EntryFacts
      <4>. QED  BY <4>1, <4>2, <2>2, <1>4, <1>5
    <3>2. CASE hasv
      <4>1. rcl <= p.cl
        BY <3>2, <1>11 DEF TakeFromBelow
      <4>2. CASE FromBelow
        <5>1. \A j \in 1..(i - 1) : Preds[j].cl \in Int
          BY <1>6, EntryFacts
        <5>. QED  BY <4>1, <4>2, <5>1, <1>4, <1>5 DEF FromBelow
      <4>3. CASE FromAbove
        <5>1. rcl < rcl
          <6>1. Dominates(rvect, p.vect)
            BY <4>3, <2>2, <1>4, <1>5, DominatesTrans DEF FromAbove
          <6>. QED  BY <6>1, <3>2, <1>9, <4>3, <2>2, <1>4, <1>5 DEF FromAbove
        <5>. QED  BY <5>1, <1>5
      <4>. QED  BY <3>2, <1>1, <4>2, <4>3 DEF ScanKept
    <3>. QED  BY <3>1, <3>2, <1>5
  <2>4. p.cl <= p.cl
    BY <1>4
  <2>. QED  BY <2>1, <2>2, <2>3, <2>4, <1>2, <1>3, <1>6 DEF ScanKept, FromBelow
<1>12. CASE ~TakeFromAbove(p) /\ ~TakeFromBelow(p)
  <2>1. rvect' = rvect /\ rcl' = rcl /\ hasv' = hasv
    BY <1>12 DEF CheckEntry
  <2>2. CASE ~hasv
    <3>1. ~Contradicts(p)
      BY <2>2, <1>12, <1>7 DEF TakeFromAbove, TakeFromBelow, Contradicts
    <3>2. \A j \in 1..(i' - 1) : ~Contradicts(Preds[j])
      BY <3>1, <2>2, <1>1, <1>6 DEF ScanKept
    <3>3. rcl = class
      BY <2>2, <1>1 DEF ScanKept
    <3>. QED  BY <2>1, <2>2, <3>2, <3>3, <1>3 DEF ScanKept, Contradicts
  <2>3. CASE hasv /\ FromAbove
    <3>1. Dominates(p.vect, vect) => p.cl >= rcl
      BY <2>3, <1>12, <1>7, <1>8, <1>9, <1>4, <1>5 DEF TakeFromAbove, FromAbove
    <3>2. \A j \in 1..(i' - 1) : Dominates(Preds[j].vect, vect) => Preds[j].cl >= rcl
      BY <3>1, <2>3, <1>6 DEF FromAbove
    <3>3. FromAbove'
      BY <3>2, <2>1, <2>3, <1>3 DEF FromAbove
    <3>. QED  BY <3>3, <2>1, <2>3, <1>1, <1>3, <1>6 DEF ScanKept
  <2>4. CASE hasv /\ FromBelow
    <3>1. Dominates(vect, p.vect) => p.cl <= rcl
      <4>. SUFFICES ASSUME Dominates(vect, p.vect), ~(p.cl <= rcl) PROVE FALSE
        OBVIOUS
      <4>1. ~Dominates(rvect, p.vect) /\ Dominates(p.vect, rvect)
        BY <2>4, <1>8, <1>9, <1>4, <1>5
      <4>2. class < p.cl /\ rcl <= p.cl /\ ~(p.cl < class)
        BY <2>4, <1>4, <1>5 DEF FromBelow
      <4>. QED  BY <4>1, <4>2, <1>12, <1>7 DEF TakeFromBelow
    <3>2. \A j \in 1..(i' - 1) : Dominates(vect, Preds[j].vect) => Preds[j].cl <= rcl
      BY <3>1, <2>4, <1>6 DEF FromBelow
    <3>3. FromBelow'
      BY <3>2, <2>1, <2>4, <1>3 DEF FromBelow
    <3>. QED  BY <3>3, <2>1, <2>4, <1>1, <1>3, <1>6 DEF ScanKept
  <2>. QED  BY <2>2, <2>3, <2>4, <1>1, <1>5 DEF ScanKept
<1>. QED  BY <1>10, <1>11, <1>12

\* After the loop the corrected class contradicts no entry of the log.
LEMMA LogStep ==
  ASSUME TypeInv, ChainInv, run.m, IsChain(run.points), LogPrediction
  PROVE  LogKept'
<1>1. LogKept /\ ScanKept
  BY DEF ChainInv, LogPrediction
<1>2. /\ vect \in Point /\ rvect \in Point /\ class \in Int /\ rcl \in Int
      /\ hasv \in BOOLEAN /\ 1..(i - 1) = 1..Len(Preds)
  BY ScanFacts DEF LogPrediction
<1>3. \A j \in 1..Len(Preds) :
        /\ Dominates(Preds[j].vect, vect) => Preds[j].cl >= rcl
        /\ Dominates(vect, Preds[j].vect) => rcl >= Preds[j].cl
  <2>. SUFFICES ASSUME NEW j \in 1..Len(Preds)
                PROVE  /\ Dominates(Preds[j].vect, vect) => Preds[j].cl >= rcl
                       /\ Dominates(vect, Preds[j].vect) => rcl >= Preds[j].cl
    OBVIOUS
  <2>1. Preds[j].vect \in Point /\ Preds[j].cl \in Int
    BY EntryFacts
  <2>2. CASE ~hasv
    <3>1. ~Contradicts(Preds[j]) /\ rcl = class
      BY <2>2, <1>1, <1>2 DEF ScanKept
    <3>. QED  BY <3>1, <2>1, <1>2 DEF Contradicts
  <2>3. CASE hasv
    <3>1. PICK k \in 1..Len(Preds) : Preds[k].vect = rvect /\ Preds[k].cl = rcl
      BY <2>3, <1>1, <1>2 DEF ScanKept
    <3>2. CASE FromAbove
      <4>1. Dominates(Preds[j].vect, vect) => Preds[j].cl >= rcl
        BY <3>2, <1>2 DEF FromAbove
      <4>2. ASSUME Dominates(vect, Preds[j].vect) PROVE rcl >= Preds[j].cl
        <5>1. Dominates(Preds[k].vect, Preds[j].vect)
          BY <4>2, <3>1, <3>2, <2>1, <1>2, DominatesTrans DEF FromAbove
        <5>. QED  BY <5>1, <3>1, <1>1 DEF LogKept
      <4>. QED  BY <4>1, <4>2
    <3>3. CASE FromBelow
      <4>1. ASSUME Dominates(Preds[j].vect, vect) PROVE Preds[j].cl >= rcl
        <5>1. Dominates(Preds[j].vect, Preds[k].vect)
          BY <4>1, <3>1, <3>3, <2>1, <1>2, DominatesTrans DEF FromBelow
        <5>. QED  BY <5>1, <3>1, <1>1 DEF LogKept
      <4>2. Dominates(vect, Preds[j].vect) => rcl >= Preds[j].cl
        <5>1. Dominates(vect, Preds[j].vect) => Preds[j].cl <= rcl
          BY <3>3, <1>2 DEF FromBelow
        <5>. QED  BY <5>1, <2>1, <1>2
      <4>. QED  BY <4>1, <4>2
    <3>. QED  BY <2>3, <1>1, <3>2, <3>3 DEF ScanKept
  <2>. QED  BY <2>2, <2>3, <1>2
<1>4. /\ Len(Preds') = Len(Preds) + 1
      /\ \A j \in 1..Len(Preds) : Preds'[j] = Preds[j]
      /\ Preds'[Len(Preds) + 1] = Entry(vect, rcl)
  BY DEF LogPrediction, Logged, TypeInv, TypeOK
<1>. SUFFICES ASSUME NEW j \in 1..Len(Preds'), NEW k \in 1..Len(Preds'),
                     Dominates(Preds'[j].vect, Preds'[k].vect)
              PROVE  Preds'[j].cl >= Preds'[k].cl
  BY DEF LogKept
<1>5. Len(Preds) \in Nat
  BY ScanFacts
<1>6. Entry(vect, rcl).vect = vect /\ Entry(vect, rcl).cl = rcl
  BY DEF Entry
<1>7. CASE j \in 1..Len(Preds) /\ k \in 1..Len(Preds)
  BY <1>7, <1>4, <1>1 DEF LogKept
<1>8. CASE j \in 1..Len(Preds) /\ k = Len(Preds) + 1
  BY <1>8, <1>3, <1>4, <1>6
<1>9. CASE j = Len(Preds) + 1 /\ k \in 1..Len(Preds)
  BY <1>9, <1>3, <1>4, <1>6
<1>10. CASE j = Len(Preds) + 1 /\ k = Len(Preds) + 1
  BY <1>10, <1>2, <1>4, <1>6
<1>. QED  BY <1>4, <1>5, <1>7, <1>8, <1>9, <1>10

\* A point found in the log with its raw class has not been corrected before:
\* what is returned is the entry.
LEMMA SkipStep ==
  ASSUME TypeInv, ChainInv, run.m, IsChain(run.points), SkipKnown
  PROVE  Entry(vect, rcl) = Preds[i]
<1>1. LogKept /\ ScanKept
  BY DEF ChainInv, SkipKnown
<1>2. i \in 1..Len(Preds) /\ 1..(i - 1) \subseteq 1..Len(Preds)
  BY ScanFacts DEF SkipKnown
<1>3. Preds[i] \in Answer /\ Preds[i].vect = vect /\ Preds[i].cl = class
  BY <1>2, EntryFacts, ScanFacts, EqualPoints DEF SkipKnown, SameInstance
<1>4. rcl = class
  <2>1. CASE ~hasv
    BY <2>1, <1>1 DEF ScanKept
  <2>2. CASE hasv
    <3>1. PICK j \in 1..Len(Preds) : Preds[j].vect = rvect /\ Preds[j].cl = rcl
      BY <2>2, <1>1, <1>2 DEF ScanKept
    <3>2. /\ Dominates(rvect, vect) => rcl >= class
          /\ Dominates(vect, rvect) => class >= rcl
      BY <3>1, <1>1, <1>2, <1>3 DEF LogKept
    <3>. QED  BY <2>2, <3>2, <1>1, ScanFacts DEF ScanKept, FromAbove, FromBelow
  <2>. QED  BY <2>1, <2>2, ScanFacts
<1>. QED  BY <1>3, <1>4 DEF Entry, Answer

LEMMA ChainStep ==
  ASSUME TypeInv, ChainInv, [Next]_vars
  PROVE  ChainInv'
<1>1. run' = run
  BY DEF Next, Classify, CheckEntry, SkipKnown, LogPrediction, vars
<1>. SUFFICES ASSUME run.m, IsChain(run.points)
              PROVE  LogKept' /\ Answered' /\ (pc' = "scan" => ScanKept')
  BY <1>1 DEF ChainInv
<1>2. LogKept /\ Answered /\ (pc = "scan" => ScanKept)
  BY DEF ChainInv
<1>3. ASSUME NEW v \in run.points, Classify(v)
      PROVE  LogKept' /\ Answered' /\ ScanKept'
  <2>1. Preds' = Preds /\ answers' = answers
    BY <1>3 DEF Classify
  <2>2. ~hasv' /\ rcl' = class' /\ i' = 1
    BY <1>3 DEF Classify
  <2>3. ScanKept'
    BY <2>2 DEF ScanKept
  <2>. QED  BY <2>1, <2>3, <1>2 DEF LogKept, Answered
<1>4. CASE CheckEntry
  <2>1. Preds' = Preds /\ answers' = answers
    BY <1>4 DEF CheckEntry
  <2>2. ScanKept'
    BY <1>4, ScanStep
  <2>. QED  BY <2>1, <2>2, <1>2 DEF LogKept, Answered
<1>5. CASE SkipKnown
  <2>1. Preds' = Preds /\ answers' = answers \cup {Entry(vect, rcl)} /\ pc' = "idle"
    BY <1>5 DEF SkipKnown
  <2>2. Entry(vect, rcl) = Preds[i] /\ i \in 1..Len(Preds)
    BY <1>5, SkipStep, ScanFacts DEF SkipKnown
  <2>. QED  BY <2>1, <2>2, <1>2 DEF LogKept, Answered
<1>6. CASE LogPrediction
  <2>1. LogKept' /\ pc' = "idle"
    BY <1>6, LogStep DEF LogPrediction
  <2>2. /\ Len(Preds') = Len(Preds) + 1
        /\ \A j \in 1..Len(Preds) : Preds'[j] = Preds[j]
        /\ Preds'[Len(Preds) + 1] = Entry(vect, rcl)
        /\ answers' = answers \cup {Entry(vect, rcl)}
    BY <1>6 DEF LogPrediction, Logged, TypeInv, TypeOK
  <2>3. 1..Len(Preds) \subseteq 1..Len(Preds') /\ Len(Preds) + 1 \in 1..Len(Preds')
    BY <2>2, ScanFacts
  <2>4. Answered'
    BY <2>2, <2>3, <1>2 DEF Answered
  <2>. QED  BY <2>1, <2>4
<1>7. CASE UNCHANGED vars
  BY <1>7, <1>2 DEF vars, scanVars, LogKept, Answered, ScanKept, Contradicts,
                    FromAbove, FromBelow
<1>. QED  BY <1>3, <1>4, <1>5, <1>6, <1>7 DEF Next

LEMMA ChainInit ==
  ASSUME Init
  PROVE  TypeInv /\ ChainInv
<1>1. TypeInv
  <2>1. Preds \in Seq(Answer) /\ Len(Preds) = 0 /\ i \in 1..(Len(Preds) + 1)
    BY DEF Init
  <2>2. class \in Class /\ rcl \in Class /\ hasv \in BOOLEAN
    BY DEF Init, Class
  <2>3. vect \in run.points /\ rvect \in run.points /\ answers \subseteq Answer
    BY DEF Init
  <2>. QED  BY <2>1, <2>2, <2>3 DEF Init, TypeInv, RunOK, TypeOK
<1>2. Len(Preds) = 0 /\ answers = {} /\ pc = "idle"
  BY DEF Init
<1>. QED  BY <1>1, <1>2 DEF ChainInv, LogKept, Answered

\* The variables keep their types, and no class outside the specification
\* file and -1 is ever logged or returned.
THEOREM LayerTypes == Spec => []TypeOK
<1>1. Init => TypeInv
  BY ChainInit
<1>2. TypeInv /\ [Next]_vars => TypeInv'
  BY TypeStep
<1>. QED  BY <1>1, <1>2, PTL DEF Spec, TypeInv

LEMMA ChainImplies ==
  ASSUME ChainInv
  PROVE  ChainMonotone
BY DEF ChainInv, ChainMonotone, OrderKept, LogKept, Answered

\* On totally ordered points -m does enforce monotonicity, whatever the
\* predictor prints, and even if it fails.
THEOREM ChainsAreMonotone == Spec => []ChainMonotone
<1>1. Init => TypeInv /\ ChainInv
  BY ChainInit
<1>2. TypeInv /\ ChainInv /\ [Next]_vars => (TypeInv /\ ChainInv)'
  BY TypeStep, ChainStep
<1>3. TypeInv /\ ChainInv => ChainMonotone
  BY ChainImplies
<1>. QED  BY <1>1, <1>2, <1>3, PTL DEF Spec

-----------------------------------------------------------------------------
(* A monotone predictor is left alone. *)

Reliable ==
  run.m /\ ~run.fails
    /\ \A u, v \in run.points : Dominates(u, v) => RawClass(u) >= RawClass(v)

\* The log is the predictor's, and the loop has found nothing to correct.
RawInv ==
  Reliable =>
    /\ MFIXES = 0
    /\ \A j \in 1..Len(Preds) : Preds[j].cl = RawClass(Preds[j].vect)
    /\ \A a \in answers : a.cl = RawClass(a.vect)
    /\ pc = "scan" => class = RawClass(vect) /\ rcl = class /\ ~hasv

LEMMA RawStep ==
  ASSUME TypeInv, RawInv, [Next]_vars
  PROVE  RawInv'
<1>1. run' = run
  BY DEF Next, Classify, CheckEntry, SkipKnown, LogPrediction, vars
<1>2. \A u : RawClass(u)' = RawClass(u)
  BY <1>1 DEF RawClass
<1>3. Reliable' = Reliable
  BY <1>1 DEF Reliable, RawClass
<1>. SUFFICES
       ASSUME Reliable
       PROVE  /\ MFIXES' = 0
              /\ \A j \in 1..Len(Preds') : Preds'[j].cl = RawClass(Preds'[j].vect)
              /\ \A a \in answers' : a.cl = RawClass(a.vect)
              /\ pc' = "scan" => class' = RawClass(vect') /\ rcl' = class' /\ ~hasv'
  BY <1>1, <1>3 DEF RawInv, RawClass
<1>4. /\ MFIXES = 0
      /\ \A j \in 1..Len(Preds) : Preds[j].cl = RawClass(Preds[j].vect)
      /\ \A a \in answers : a.cl = RawClass(a.vect)
      /\ pc = "scan" => class = RawClass(vect) /\ rcl = class /\ ~hasv
  BY DEF RawInv
<1>5. ASSUME NEW v \in run.points, Classify(v)
      PROVE  class' = RawClass(v) /\ vect' = v
  BY <1>5 DEF Classify, Outputs, Reliable, RawClass
<1>6. ASSUME NEW v \in run.points, Classify(v)
      PROVE  /\ rcl' = class' /\ ~hasv' /\ Preds' = Preds
             /\ MFIXES' = MFIXES /\ answers' = answers
  BY <1>6 DEF Classify, Reliable
<1>7. CASE CheckEntry
  <2>1. i \in 1..Len(Preds)
    BY <1>7, ScanFacts DEF CheckEntry
  <2>2. /\ Dominates(Preds[i].vect, vect) => Preds[i].cl >= class
        /\ Dominates(vect, Preds[i].vect) => class >= Preds[i].cl
    BY <2>1, <1>4, <1>7, EntryFacts, ScanFacts DEF Reliable, CheckEntry
  <2>3. ~TakeFromAbove(Preds[i]) /\ ~TakeFromBelow(Preds[i])
    BY <2>1, <2>2, EntryFacts, ScanFacts
    DEF TakeFromAbove, TakeFromBelow, GreaterThan, Dominates
  <2>. QED  BY <2>3, <1>4, <1>7 DEF CheckEntry
<1>8. CASE SkipKnown
  <2>1. Entry(vect, rcl).cl = RawClass(Entry(vect, rcl).vect)
    BY <1>4, <1>8 DEF SkipKnown, Entry
  <2>. QED  BY <2>1, <1>4, <1>8 DEF SkipKnown
<1>9. CASE LogPrediction
  <2>1. Entry(vect, rcl).cl = RawClass(Entry(vect, rcl).vect)
    BY <1>4, <1>9 DEF LogPrediction, Entry
  <2>2. /\ Len(Preds') = Len(Preds) + 1
        /\ \A j \in 1..Len(Preds) : Preds'[j] = Preds[j]
        /\ Preds'[Len(Preds) + 1] = Entry(vect, rcl)
    BY <1>9 DEF LogPrediction, Logged, TypeInv, TypeOK
  <2>3. \A j \in 1..Len(Preds') : j \in 1..Len(Preds) \/ j = Len(Preds) + 1
    BY <2>2, ScanFacts
  <2>. QED  BY <2>1, <2>2, <2>3, <1>4, <1>9 DEF LogPrediction
<1>10. CASE UNCHANGED vars
  BY <1>10, <1>4 DEF vars, scanVars
<1>. QED  BY <1>4, <1>5, <1>6, <1>7, <1>8, <1>9, <1>10 DEF Next

\* A predictor whose classes are monotone and that does not fail is never
\* corrected: -m then changes nothing, and the digest reports no fixes.
THEOREM MonotoneUntouched == Spec => []Transparent
<1>1. Init => TypeInv /\ RawInv
  <2>1. ASSUME Init PROVE TypeInv /\ RawInv
    <3>1. TypeInv
      BY <2>1, ChainInit
    <3>2. MFIXES = 0 /\ Len(Preds) = 0 /\ answers = {} /\ pc = "idle"
      BY <2>1 DEF Init
    <3>. QED  BY <3>1, <3>2 DEF RawInv
  <2>. QED  BY <2>1
<1>2. TypeInv /\ RawInv /\ [Next]_vars => (TypeInv /\ RawInv)'
  BY TypeStep, RawStep
<1>3. RawInv => Transparent
  BY DEF RawInv, Transparent, Reliable
<1>. QED  BY <1>1, <1>2, <1>3, PTL DEF Spec

-----------------------------------------------------------------------------
(* The class of a point does not change.  The corrected class comes out of *)
(* a walk over the log, and the log has grown when the point is asked for  *)
(* again.  The walk repeats itself up to the entry the first call left,    *)
(* takes that entry, and takes no later one.                               *)

Steady == run.m /\ ~run.fails

\* The state of the walk, at its start for point v, and after entry p.
Walk == [hasv |-> hasv, rvect |-> rvect, rcl |-> rcl]
Start(v) == [hasv |-> FALSE, rvect |-> v, rcl |-> RawClass(v)]
Takes(s, v, p) ==
  LET c == RawClass(v) IN
  \/ /\ GreaterThan(p.vect, v) /\ p.cl < c
     /\ s.hasv => GreaterThan(s.rvect, p.vect) /\ p.cl <= s.rcl
  \/ /\ ~(GreaterThan(p.vect, v) /\ p.cl < c)
     /\ GreaterThan(v, p.vect) /\ c < p.cl
     /\ s.hasv => GreaterThan(p.vect, s.rvect) /\ s.rcl <= p.cl
After(s, v, p) ==
  IF Takes(s, v, p) THEN [hasv |-> TRUE, rvect |-> p.vect, rcl |-> p.cl] ELSE s

\* t is the walk for v over the first n entries.
IsTrace(t, v, n) ==
  /\ t[0] = Start(v)
  /\ \A k \in 1..n : t[k] = After(t[k - 1], v, Preds[k])

\* Entry j came out of a walk over the entries before it, which a walk for
\* the same point that has not yet passed j is repeating.
Derived(j) ==
  \E t : /\ IsTrace(t, Preds[j].vect, j - 1)
         /\ t[j - 1].rcl = Preds[j].cl
         /\ pc = "scan" /\ vect = Preds[j].vect /\ i <= j => t[i - 1] = Walk

\* The walk in progress.
WalkInv ==
  /\ class = RawClass(vect)
  /\ \E t : IsTrace(t, vect, i - 1) /\ t[i - 1] = Walk
  /\ ~hasv => rcl = class
  /\ hasv => \/ GreaterThan(rvect, vect) /\ rcl < class
             \/ GreaterThan(vect, rvect) /\ class < rcl
  /\ \A j \in 1..(i - 1) :
       Preds[j].vect = vect => hasv /\ rvect = vect /\ rcl = Preds[j].cl

OneClass ==
  \A j, k \in 1..Len(Preds) :
    Preds[j].vect = Preds[k].vect => Preds[j].cl = Preds[k].cl

SingleInv ==
  Steady => /\ OneClass /\ Answered
            /\ \A j \in 1..Len(Preds) : Derived(j)
            /\ pc = "scan" => WalkInv

LEMMA GreaterThanSelf ==
  ASSUME NEW u \in Point
  PROVE  GreaterThan(u, u) /\ EqualsTo(u, u)
<1>1. \A f \in Feature : u[f] \in Int
  BY LayerAssumption DEF Point
<1>. QED  BY <1>1, SMT DEF GreaterThan, EqualsTo

LEMMA GreaterThanBoth ==
  ASSUME NEW u \in Point, NEW v \in Point, GreaterThan(u, v), GreaterThan(v, u)
  PROVE  u = v
<1>1. \A f \in Feature : u[f] \in Int /\ v[f] \in Int
  BY LayerAssumption DEF Point
<1>2. \A f \in Feature : u[f] = v[f]
  BY <1>1, SMT DEF GreaterThan
<1>. QED  BY <1>2, EqualPoints DEF EqualsTo

LEMMA WalkStep ==
  ASSUME TypeInv, CheckEntry, class = RawClass(vect)
  PROVE  Walk' = After(Walk, vect, Preds[i])
<1>1. TakeFromAbove(Preds[i]) \/ TakeFromBelow(Preds[i])
        <=> Takes(Walk, vect, Preds[i])
  BY DEF TakeFromAbove, TakeFromBelow, Takes, Walk
<1>. QED  BY <1>1 DEF CheckEntry, After, Walk

\* An entry for the point asked for holds the class the walk has reached.
LEMMA OwnEntry ==
  ASSUME TypeInv, SingleInv, Steady, pc = "scan", i \in 1..Len(Preds),
         Preds[i].vect = vect
  PROVE  Preds[i].cl = rcl
<1>1. PICK t : t[i - 1].rcl = Preds[i].cl /\ t[i - 1] = Walk
  BY ScanFacts DEF SingleInv, Derived
<1>. QED  BY <1>1 DEF Walk

\* An entry that the walk passes: if it is one for the point itself, it is
\* taken, and after it no other is.
LEMMA WalkKept ==
  ASSUME TypeInv, SingleInv, Steady, CheckEntry
  PROVE  WalkInv'
<1>. DEFINE p == Preds[i]
<1>1. WalkInv /\ pc = "scan"
  BY DEF SingleInv, CheckEntry
<1>2. /\ i \in 1..Len(Preds) /\ i' = i + 1 /\ i \in Nat
      /\ run' = run /\ vect' = vect /\ class' = class /\ Preds' = Preds
  BY ScanFacts DEF CheckEntry
<1>3. p.vect \in Point /\ p.cl \in Int
  BY <1>2, EntryFacts
<1>4. /\ vect \in Point /\ rvect \in Point
      /\ class \in Int /\ rcl \in Int /\ hasv \in BOOLEAN
  BY ScanFacts
<1>5. 1..(i' - 1) = 1..(i - 1) \cup {i} /\ 1..(i - 1) \subseteq 1..Len(Preds)
  BY <1>2
<1>6. class' = RawClass(vect)'
  BY <1>1, <1>2 DEF WalkInv, RawClass
<1>7. \E t : IsTrace(t, vect, i - 1)' /\ (t[i - 1] = Walk)'
  <2>1. PICK t : IsTrace(t, vect, i - 1) /\ t[i - 1] = Walk
    BY <1>1 DEF WalkInv
  <2>. DEFINE u == [k \in 0..i |-> IF k = i THEN Walk' ELSE t[k]]
  <2>2. \A k \in 0..(i - 1) : k \in 0..i /\ u[k] = t[k]
    BY <1>2
  <2>3. i \in 0..i /\ u[i] = Walk'
    BY <1>2
  <2>4. u[0] = Start(vect)
    BY <1>2, <2>1, <2>2 DEF IsTrace
  <2>5. Walk' = After(u[i - 1], vect, Preds[i])
    BY <1>1, <1>2, <2>1, <2>2, WalkStep DEF WalkInv
  <2>6. ASSUME NEW k \in 1..i PROVE u[k] = After(u[k - 1], vect, Preds[k])
    <3>1. CASE k = i
      BY <2>3, <2>5, <3>1
    <3>2. CASE k # i
      <4>1. k \in 1..(i - 1) /\ k \in 0..(i - 1) /\ k - 1 \in 0..(i - 1)
        BY <3>2, <1>2
      <4>2. t[k] = After(t[k - 1], vect, Preds[k])
        BY <4>1, <2>1 DEF IsTrace
      <4>. QED  BY <4>1, <4>2, <2>2
    <3>. QED  BY <3>1, <3>2
  <2>. HIDE DEF u
  <2>. PICK w : /\ w[0] = Start(vect) /\ w[i] = Walk'
                /\ \A k \in 1..i : w[k] = After(w[k - 1], vect, Preds[k])
    BY <2>3, <2>4, <2>6
  <2>7. \A v : Start(v)' = Start(v)
    BY <1>2 DEF Start, RawClass
  <2>8. \A s, v, q : After(s, v, q)' = After(s, v, q)
    BY <1>2 DEF After, Takes, RawClass
  <2>9. i' - 1 = i
    BY <1>2
  <2>10. IsTrace(w, vect, i - 1)'
    BY <1>2, <2>7, <2>8, <2>9 DEF IsTrace
  <2>. QED  BY <2>9, <2>10
<1>8. (hasv /\ rvect = vect => ~Takes(Walk, vect, p)) \/ p.vect = vect
  <2>. SUFFICES ASSUME hasv, rvect = vect, Takes(Walk, vect, p) PROVE p.vect = vect
    OBVIOUS
  <2>1. GreaterThan(p.vect, vect) /\ GreaterThan(vect, p.vect)
    BY DEF Takes, Walk
  <2>. QED  BY <2>1, <1>3, <1>4, GreaterThanBoth
<1>9. CASE p.vect = vect
  <2>1. p.cl = rcl /\ p.cl # class
    BY <1>1, <1>2, <1>4, <1>9, OwnEntry, GreaterThanSelf DEF CheckEntry, SameInstance
  <2>2. /\ hasv
        /\ \/ GreaterThan(rvect, vect) /\ rcl < class
           \/ GreaterThan(vect, rvect) /\ class < rcl
    BY <1>1, <1>4, <2>1 DEF WalkInv
  <2>3. TakeFromAbove(p) \/ TakeFromBelow(p)
    BY <1>3, <1>4, <1>9, <2>1, <2>2, GreaterThanSelf
    DEF TakeFromAbove, TakeFromBelow
  <2>4. rvect' = vect /\ rcl' = rcl /\ hasv' = TRUE
    BY <1>9, <2>1, <2>3 DEF CheckEntry
  <2>5. \A j \in 1..(i' - 1) : Preds[j].vect = vect => rcl = Preds[j].cl
    BY <1>1, <1>5, <1>9, <2>1 DEF WalkInv
  <2>6. \/ GreaterThan(rvect', vect) /\ rcl < class
        \/ GreaterThan(vect, rvect') /\ class < rcl
    BY <1>4, <2>2, <2>4, GreaterThanSelf
  <2>. QED  BY <1>2, <1>6, <1>7, <2>4, <2>5, <2>6 DEF WalkInv
<1>10. CASE p.vect # vect
  <2>1. \A j \in 1..(i' - 1) : Preds[j].vect = vect =>
          j \in 1..(i - 1) /\ hasv /\ rvect = vect /\ rcl = Preds[j].cl
    BY <1>1, <1>5, <1>10 DEF WalkInv
  <2>2. CASE TakeFromAbove(p) \/ TakeFromBelow(p)
    <3>1. rvect' = p.vect /\ rcl' = p.cl /\ hasv' = TRUE
      BY <2>2 DEF CheckEntry
    <3>2. \/ GreaterThan(rvect', vect) /\ rcl' < class
          \/ GreaterThan(vect, rvect') /\ class < rcl'
      BY <2>2, <3>1 DEF TakeFromAbove, TakeFromBelow
    <3>3. Takes(Walk, vect, p)
      BY <1>1, <2>2 DEF TakeFromAbove, TakeFromBelow, Takes, Walk, WalkInv
    <3>4. \A j \in 1..(i' - 1) : Preds[j].vect # vect
      BY <1>8, <1>10, <2>1, <3>3
    <3>. QED  BY <1>2, <1>6, <1>7, <3>1, <3>2, <3>4 DEF WalkInv
  <2>3. CASE ~(TakeFromAbove(p) \/ TakeFromBelow(p))
    <3>1. rvect' = rvect /\ rcl' = rcl /\ hasv' = hasv
      BY <2>3 DEF CheckEntry
    <3>. QED  BY <1>1, <1>2, <1>6, <1>7, <2>1, <3>1 DEF WalkInv
  <2>. QED  BY <2>2, <2>3
<1>. QED  BY <1>9, <1>10

\* The entries stay derived, and a walk that repeats one goes on repeating it.
LEMMA DerivedKept ==
  ASSUME TypeInv, SingleInv, Steady, CheckEntry, NEW j \in 1..Len(Preds)
  PROVE  Derived(j)'
<1>1. /\ i \in 1..Len(Preds) /\ i' = i + 1 /\ i \in Nat /\ j \in Nat
      /\ run' = run /\ vect' = vect /\ Preds' = Preds /\ pc = "scan" /\ pc' = pc
  BY ScanFacts DEF CheckEntry
<1>2. Walk' = After(Walk, vect, Preds[i])
  BY <1>1, WalkStep DEF SingleInv, WalkInv
<1>3. PICK t : /\ IsTrace(t, Preds[j].vect, j - 1)
               /\ t[j - 1].rcl = Preds[j].cl
               /\ vect = Preds[j].vect /\ i <= j => t[i - 1] = Walk
  BY <1>1 DEF SingleInv, Derived
<1>4. ASSUME vect = Preds[j].vect, i + 1 <= j
      PROVE  t[i] = Walk'
  <2>1. i \in 1..(j - 1) /\ i <= j
    BY <1>1, <1>4
  <2>2. t[i] = After(t[i - 1], vect, Preds[i])
    BY <1>3, <1>4, <2>1 DEF IsTrace
  <2>. QED  BY <1>2, <1>3, <1>4, <2>1, <2>2
<1>5. \A s, v, q : After(s, v, q)' = After(s, v, q)
  BY <1>1 DEF After, Takes, RawClass
<1>6. \A v : Start(v)' = Start(v)
  BY <1>1 DEF Start, RawClass
<1>7. IsTrace(t, Preds[j].vect, j - 1)'
  BY <1>1, <1>3, <1>5, <1>6 DEF IsTrace
<1>8. i' - 1 = i
  BY <1>1
<1>. QED  BY <1>1, <1>3, <1>4, <1>7, <1>8 DEF Derived

\* When the walk has ended, what is logged is what the point had before, if it
\* was asked for before, and it is derived by the walk that has ended.
LEMMA LogSingle ==
  ASSUME TypeInv, SingleInv, Steady, LogPrediction
  PROVE  OneClass' /\ Answered' /\ \A j \in 1..Len(Preds') : Derived(j)'
<1>1. /\ Len(Preds') = Len(Preds) + 1 /\ Len(Preds) \in Nat
      /\ \A j \in 1..Len(Preds) : Preds'[j] = Preds[j]
      /\ Preds'[Len(Preds) + 1] = Entry(vect, rcl)
      /\ answers' = answers \cup {Entry(vect, rcl)}
      /\ run' = run /\ pc' = "idle"
  BY DEF LogPrediction, Logged, TypeInv, TypeOK
<1>2. i - 1 = Len(Preds)
  BY ScanFacts DEF LogPrediction
<1>3. OneClass /\ Answered /\ WalkInv /\ \A j \in 1..Len(Preds) : Derived(j)
  BY DEF SingleInv, LogPrediction
<1>4. Entry(vect, rcl).vect = vect /\ Entry(vect, rcl).cl = rcl
  BY DEF Entry
<1>5. \A j \in 1..Len(Preds) : Preds[j].vect = vect => Preds[j].cl = rcl
  BY <1>2, <1>3 DEF WalkInv
<1>6. \A j \in 1..Len(Preds') : j \in 1..Len(Preds) \/ j = Len(Preds) + 1
  BY <1>1
<1>7. OneClass'
  BY <1>1, <1>3, <1>4, <1>5, <1>6 DEF OneClass
<1>8. Answered'
  BY <1>1, <1>3, <1>6 DEF Answered
<1>9. /\ \A s, v, q : After(s, v, q)' = After(s, v, q)
      /\ \A v : Start(v)' = Start(v)
  BY <1>1 DEF After, Takes, Start, RawClass
<1>10. ASSUME NEW t, NEW v, NEW n \in Nat, n <= Len(Preds), IsTrace(t, v, n)
       PROVE  IsTrace(t, v, n)'
  <2>1. \A k \in 1..n : k \in 1..Len(Preds)
    BY <1>1, <1>10
  <2>. QED  BY <1>1, <1>9, <1>10, <2>1 DEF IsTrace
<1>11. ASSUME NEW j \in 1..Len(Preds) PROVE Derived(j)'
  <2>1. PICK t : IsTrace(t, Preds[j].vect, j - 1) /\ t[j - 1].rcl = Preds[j].cl
    BY <1>3 DEF Derived
  <2>2. IsTrace(t, Preds[j].vect, j - 1)'
    <3>1. j - 1 \in Nat /\ j - 1 <= Len(Preds)
      BY <1>1
    <3>2. PICK v : v = Preds[j].vect OBVIOUS
    <3>3. IsTrace(t, v, j - 1)'
      BY <2>1, <3>1, <3>2, <1>10
    <3>. QED  BY <1>1, <3>2, <3>3
  <2>. QED  BY <1>1, <2>1, <2>2 DEF Derived
<1>12. ASSUME NEW j, j = Len(Preds) + 1 PROVE Derived(j)'
  <2>1. PICK t : IsTrace(t, vect, j - 1) /\ t[j - 1] = Walk
    BY <1>1, <1>2, <1>3, <1>12 DEF WalkInv
  <2>2. PICK v : v = vect OBVIOUS
  <2>3. IsTrace(t, v, j - 1)' /\ t[j - 1].rcl = rcl
    BY <1>1, <1>10, <1>12, <2>1, <2>2 DEF Walk
  <2>4. Preds'[j].vect = v /\ Preds'[j].cl = rcl
    BY <1>1, <1>4, <1>12, <2>2
  <2>. QED  BY <1>1, <2>3, <2>4 DEF Derived
<1>. QED  BY <1>1, <1>6, <1>7, <1>8, <1>11, <1>12

\* The walk for v has begun: whatever entry for v there is, it is repeating
\* the one that entry came from.
LEMMA WalkBegins ==
  ASSUME TypeInv, SingleInv, Steady, NEW v \in run.points, Classify(v)
  PROVE  WalkInv' /\ \A j \in 1..Len(Preds') : Derived(j)'
<1>1. /\ run' = run /\ Preds' = Preds /\ vect' = v
      /\ i' = 1 /\ rcl' = class' /\ hasv' = FALSE /\ rvect' = v
  BY DEF Classify
<1>2. class' = RawClass(v)
  BY DEF Classify, Outputs, Steady, RawClass
<1>3. /\ \A s, w, q : After(s, w, q)' = After(s, w, q)
      /\ \A w : Start(w)' = Start(w)
  BY <1>1 DEF After, Takes, Start, RawClass
<1>4. Walk' = Start(v)
  BY <1>1, <1>2 DEF Walk, Start
<1>5. ASSUME NEW j \in 1..Len(Preds) PROVE Derived(j)'
  <2>1. PICK t : IsTrace(t, Preds[j].vect, j - 1) /\ t[j - 1].rcl = Preds[j].cl
    BY DEF SingleInv, Derived
  <2>2. IsTrace(t, Preds[j].vect, j - 1)'
    BY <1>1, <1>3, <2>1 DEF IsTrace
  <2>3. vect' = Preds'[j].vect => t[i' - 1] = Walk'
    BY <1>1, <1>4, <2>1 DEF IsTrace
  <2>. QED  BY <1>1, <2>1, <2>2, <2>3 DEF Derived
<1>6. WalkInv'
  <2>1. PICK w : w = v OBVIOUS
  <2>2. PICK t : t = [k \in {0} |-> Start(w)] OBVIOUS
  <2>3. t[0] = Start(w)
    BY <2>2
  <2>4. IsTrace(t, vect, i - 1)'
    BY <1>1, <1>3, <2>1, <2>3 DEF IsTrace
  <2>5. (t[i - 1] = Walk)'
    BY <1>1, <1>4, <2>1, <2>3
  <2>6. (class = RawClass(vect))'
    BY <1>1, <1>2 DEF RawClass
  <2>. QED  BY <1>1, <2>4, <2>5, <2>6 DEF WalkInv
<1>. QED  BY <1>1, <1>5, <1>6

LEMMA SingleStep ==
  ASSUME TypeInv, SingleInv, [Next]_vars
  PROVE  SingleInv'
<1>1. run' = run
  BY DEF Next, Classify, CheckEntry, SkipKnown, LogPrediction, vars
<1>. SUFFICES ASSUME Steady
              PROVE  /\ OneClass' /\ Answered'
                     /\ \A j \in 1..Len(Preds') : Derived(j)'
                     /\ pc' = "scan" => WalkInv'
  BY <1>1 DEF SingleInv, Steady
<1>2. /\ OneClass /\ Answered
      /\ \A j \in 1..Len(Preds) : Derived(j)
      /\ pc = "scan" => WalkInv
  BY DEF SingleInv
<1>3. ASSUME NEW v \in run.points, Classify(v)
      PROVE  OneClass' /\ Answered'
  BY <1>2, <1>3 DEF Classify, Steady, OneClass, Answered
<1>4. CASE CheckEntry
  <2>1. Preds' = Preds /\ answers' = answers
    BY <1>4 DEF CheckEntry
  <2>2. OneClass' /\ Answered'
    BY <1>2, <2>1 DEF OneClass, Answered
  <2>. QED  BY <1>4, <2>1, <2>2, DerivedKept, WalkKept
<1>5. CASE SkipKnown
  <2>1. /\ Preds' = Preds /\ answers' = answers \cup {Entry(vect, rcl)}
        /\ pc = "scan" /\ pc' = "idle" /\ i \in 1..Len(Preds)
    BY <1>5, ScanFacts DEF SkipKnown
  <2>2. Preds[i].vect = vect /\ Preds[i] \in Answer
    BY <1>5, <2>1, EntryFacts, ScanFacts, EqualPoints DEF SkipKnown, SameInstance
  <2>3. Preds[i] = Entry(vect, rcl)
    BY <2>1, <2>2, OwnEntry DEF Entry, Answer
  <2>4. OneClass' /\ Answered'
    BY <1>2, <2>1, <2>3 DEF OneClass, Answered
  <2>5. ASSUME NEW j \in 1..Len(Preds) PROVE Derived(j)'
    <3>1. PICK t : IsTrace(t, Preds[j].vect, j - 1) /\ t[j - 1].rcl = Preds[j].cl
      BY <1>2 DEF Derived
    <3>2. IsTrace(t, Preds[j].vect, j - 1)'
      BY <1>1, <2>1, <3>1 DEF IsTrace, After, Takes, Start, RawClass
    <3>. QED  BY <2>1, <3>1, <3>2 DEF Derived
  <2>. QED  BY <2>1, <2>4, <2>5
<1>6. CASE LogPrediction
  BY <1>6, LogSingle DEF LogPrediction
<1>7. CASE UNCHANGED vars
  <2>1. OneClass' /\ Answered' /\ Preds' = Preds
    BY <1>2, <1>7 DEF vars, OneClass, Answered
  <2>2. Walk' = Walk
    BY <1>7 DEF vars, scanVars, Walk
  <2>3. \A t, v, n : IsTrace(t, v, n)' <=> IsTrace(t, v, n)
    BY <1>7 DEF vars, IsTrace, After, Takes, Start, RawClass
  <2>4. \A j \in 1..Len(Preds) : Derived(j)'
    BY <1>2, <1>7, <2>2, <2>3 DEF vars, scanVars, Derived
  <2>5. pc' = "scan" => WalkInv'
    BY <1>2, <1>7, <2>2, <2>3 DEF vars, scanVars, WalkInv, RawClass
  <2>. QED  BY <2>1, <2>4, <2>5
<1>. QED  BY <1>3, <1>4, <1>5, <1>6, <1>7, WalkBegins DEF Next

\* With -m and a predictor that does not fail the classifier is a function of
\* the points, on any points, whatever it is asked and in whatever order.
THEOREM ClassIsFunction == Spec => []SingleValued
<1>1. Init => TypeInv /\ SingleInv
  <2>1. ASSUME Init PROVE TypeInv /\ SingleInv
    <3>1. TypeInv
      BY <2>1, ChainInit
    <3>2. Len(Preds) = 0 /\ answers = {} /\ pc = "idle"
      BY <2>1 DEF Init
    <3>. QED  BY <3>1, <3>2 DEF SingleInv, OneClass, Answered
  <2>. QED  BY <2>1
<1>2. TypeInv /\ SingleInv /\ [Next]_vars => (TypeInv /\ SingleInv)'
  BY TypeStep, SingleStep
<1>3. SingleInv => SingleValued
  BY DEF SingleInv, SingleValued, Steady, OneClass, Answered
<1>. QED  BY <1>1, <1>2, <1>3, PTL DEF Spec

-----------------------------------------------------------------------------
(* Rounding and the search among the classes keep the order. *)

LEMMA Quotient ==
  ASSUME NEW x \in Int
  PROVE  /\ x \div Unit \in Int /\ x % Unit \in 0..(Unit - 1)
         /\ x = Unit * (x \div Unit) + (x % Unit)
BY LayerAssumption, SMT

LEMMA TimesUnit ==
  ASSUME NEW a \in Int, NEW b \in Int, a <= b
  PROVE  a * Unit \in Int /\ b * Unit \in Int /\ a * Unit <= b * Unit
BY LayerAssumption, SMT

\* Whether the number is rounded up.
RoundsUp(x) ==
  \/ 2 * (x % Unit) > Unit
  \/ 2 * (x % Unit) = Unit /\ (x \div Unit) % 2 = 1

LEMMA RoundIs ==
  ASSUME NEW x \in Int
  PROVE  /\ Round(x) = (IF RoundsUp(x) THEN (x \div Unit) + 1 ELSE x \div Unit) * Unit
         /\ Round(x) \in Int
<1>1. x \div Unit \in Int /\ Unit \in Int
  BY Quotient, LayerAssumption
<1>. QED  BY <1>1 DEF Round, RoundsUp

LEMMA RoundMonotone ==
  ASSUME NEW x \in Int, NEW y \in Int, x <= y
  PROVE  Round(x) <= Round(y)
<1>. DEFINE m == x \div Unit
            n == y \div Unit
<1>1. /\ m \in Int /\ n \in Int /\ Unit \in Nat \ {0}
      /\ x % Unit \in 0..(Unit - 1) /\ y % Unit \in 0..(Unit - 1)
      /\ x = m * Unit + (x % Unit) /\ y = n * Unit + (y % Unit)
  BY Quotient, LayerAssumption, SMT
<1>2. m <= n
  <2>. SUFFICES ASSUME n + 1 <= m PROVE FALSE
    BY <1>1
  <2>1. (n + 1) * Unit <= m * Unit
    BY <1>1, TimesUnit
  <2>2. (n + 1) * Unit = n * Unit + Unit
    BY <1>1, SMT
  <2>3. n * Unit \in Int /\ m * Unit \in Int
    BY <1>1, TimesUnit
  <2>. QED  BY <1>1, <2>1, <2>2, <2>3
<1>3. CASE m = n
  <2>1. x % Unit <= y % Unit
    <3>1. m * Unit \in Int
      BY <1>1, TimesUnit
    <3>. QED  BY <1>1, <1>3, <3>1
  <2>2. RoundsUp(x) => RoundsUp(y)
    BY <1>1, <1>3, <2>1 DEF RoundsUp
  <2>3. m * Unit <= (m + 1) * Unit /\ m * Unit <= m * Unit /\ (m + 1) * Unit <= (m + 1) * Unit
    BY <1>1, TimesUnit
  <2>. HIDE DEF m, n
  <2>4. CASE RoundsUp(x)
    <3>1. Round(x) = (m + 1) * Unit /\ Round(y) = (m + 1) * Unit
      BY <1>3, <2>2, <2>4, RoundIs DEF m, n
    <3>. QED  BY <2>3, <3>1
  <2>5. CASE ~RoundsUp(x)
    <3>1. /\ Round(x) = m * Unit
          /\ Round(y) = m * Unit \/ Round(y) = (m + 1) * Unit
      BY <1>3, <2>5, RoundIs DEF m, n
    <3>. QED  BY <2>3, <3>1
  <2>. QED  BY <2>4, <2>5
<1>4. CASE m # n
  <2>1. /\ Round(x) = m * Unit \/ Round(x) = (m + 1) * Unit
        /\ Round(y) = n * Unit \/ Round(y) = (n + 1) * Unit
    BY RoundIs
  <2>2. m <= n /\ m + 1 <= n /\ m <= n + 1 /\ m + 1 <= n + 1
    BY <1>1, <1>2, <1>4
  <2>. HIDE DEF m, n
  <2>3. /\ m * Unit <= n * Unit /\ (m + 1) * Unit <= n * Unit
        /\ m * Unit <= (n + 1) * Unit /\ (m + 1) * Unit <= (n + 1) * Unit
    BY <1>1, <2>2, TimesUnit
  <2>. QED  BY <2>1, <2>3
<1>. QED  BY <1>3, <1>4

LEMMA RoundZero == Round(0) = 0
<1>1. 0 \div Unit = 0 /\ 0 % Unit = 0
  BY LayerAssumption, SMT
<1>. QED  BY <1>1, LayerAssumption, SMT DEF Round

\* The number read from an output of the predictor.
LEMMA ParseOrder ==
  ASSUME NEW o \in OutputType, NEW p \in OutputType,
         o.kind \in {"plain", "negative"}, p.kind \in {"plain", "negative"},
         o.val <= p.val
  PROVE  /\ ParseCmtOutp(o) \in Nat /\ ParseCmtOutp(p) \in Nat
         /\ ParseCmtOutp(o) <= ParseCmtOutp(p)
<1>1. o.val \in Int /\ p.val \in Int
  BY DEF OutputType
<1>2. /\ ParseCmtOutp(o) = IF o.kind = "plain" THEN Round(o.val) ELSE 0
      /\ ParseCmtOutp(p) = IF p.kind = "plain" THEN Round(p.val) ELSE 0
  BY DEF ParseCmtOutp
<1>3. ASSUME NEW x \in Int, x >= 0 PROVE Round(x) \in Nat
  BY <1>3, RoundMonotone, RoundZero, RoundIs
<1>4. /\ o.kind = "plain" => Round(o.val) \in Nat /\ o.val >= 0
      /\ p.kind = "plain" => Round(p.val) \in Nat /\ p.val >= 0
      /\ o.kind = "negative" => o.val <= 0
      /\ p.kind = "negative" => p.val <= 0
  BY <1>1, <1>3 DEF OutputType
<1>5. o.kind = "plain" /\ p.kind = "plain" => Round(o.val) <= Round(p.val)
  BY <1>1, RoundMonotone
<1>6. o.kind = "plain" /\ p.kind = "negative" => Round(o.val) = 0
  BY <1>1, <1>4, RoundZero
<1>. QED  BY <1>2, <1>4, <1>5, <1>6

\* Among the classes not above a prediction there is a largest, and it is the
\* one found.
LEMMA LargestFits ==
  ASSUME NEW Cls \in SUBSET Int, NEW p \in Int, NEW c \in Cls, c <= p
  PROVE  \E d \in Cls : Fits(Cls, d, p)
<1>. DEFINE W == c..p
            F == {x..p : x \in {d \in Cls : c <= d /\ d <= p}}
<1>1. IsFiniteSet(W)
  BY FS_Interval
<1>2. F \subseteq SUBSET W /\ F # {} /\ FiniteSubsetsOf(W) = SUBSET W
  <2>1. c..p \in F
    OBVIOUS
  <2>2. FiniteSubsetsOf(W) = SUBSET W
    BY <1>1, FS_FiniteSubsetsOfFinite
  <2>3. ASSUME NEW S \in F PROVE S \subseteq W
    OBVIOUS
  <2>. QED  BY <2>1, <2>2, <2>3
<1>3. IsWellFoundedOn(StrictSubsetOrdering(W), FiniteSubsetsOf(W))
  BY FS_StrictSubsetOrderingWellFounded
<1>4. PICK S \in F : \A Z \in F : <<Z, S>> \notin StrictSubsetOrdering(W)
  <2>1. PICK G : G = F OBVIOUS
  <2>2. G \subseteq FiniteSubsetsOf(W) /\ G # {}
    BY <1>2, <2>1
  <2>. HIDE DEF F, W
  <2>3. \E S \in G : \A Z \in G : <<Z, S>> \notin StrictSubsetOrdering(W)
    BY <1>3, <2>2, WFMin
  <2>. QED  BY <2>1, <2>3
<1>5. PICK d \in Cls : c <= d /\ d <= p /\ S = d..p
  OBVIOUS
<1>6. ASSUME NEW e \in Cls, d < e, e <= p PROVE FALSE
  <2>1. e..p \in F /\ e..p \subseteq S /\ d \in S /\ d \notin e..p
    BY <1>5, <1>6
  <2>2. <<e..p, S>> \in StrictSubsetOrdering(W)
    BY <1>2, <2>1 DEF StrictSubsetOrdering
  <2>. QED  BY <1>4, <2>1, <2>2
<1>. QED  BY <1>5, <1>6 DEF Fits

LEMMA ClassOfMonotone ==
  ASSUME NEW Cls \in SUBSET Int, NEW p \in Nat, NEW q \in Nat, p <= q
  PROVE  ClassOf(Cls, p) <= ClassOf(Cls, q)
<1>1. ASSUME NEW r \in Nat
      PROVE  \/ /\ ClassOf(Cls, r) \in Cls /\ Fits(Cls, ClassOf(Cls, r), r)
             \/ /\ ClassOf(Cls, r) = -1 /\ \A d \in Cls : d > r
  <2>1. CASE \E c \in Cls : Fits(Cls, c, r)
    BY <2>1 DEF ClassOf
  <2>2. CASE ~\E c \in Cls : Fits(Cls, c, r)
    <3>1. \A d \in Cls : ~(d <= r)
      BY <2>2, LargestFits
    <3>. QED  BY <2>2, <3>1 DEF ClassOf
  <2>. QED  BY <2>1, <2>2
<1>2. \/ ClassOf(Cls, p) \in Cls /\ Fits(Cls, ClassOf(Cls, p), p)
      \/ ClassOf(Cls, p) = -1 /\ \A d \in Cls : d > p
  BY <1>1
<1>3. \/ ClassOf(Cls, q) \in Cls /\ Fits(Cls, ClassOf(Cls, q), q)
      \/ ClassOf(Cls, q) = -1 /\ \A d \in Cls : d > q
  BY <1>1
<1>4. PICK c, d : c = ClassOf(Cls, p) /\ d = ClassOf(Cls, q)
  OBVIOUS
<1>5. \/ c \in Int /\ c \in Cls /\ c <= p /\ \A e \in Cls : e <= c \/ e > p
      \/ c = -1 /\ \A e \in Cls : e > p
  BY <1>2, <1>4 DEF Fits
<1>6. \/ d \in Int /\ d \in Cls /\ d <= q /\ \A e \in Cls : e <= d \/ e > q
      \/ d = -1 /\ \A e \in Cls : e > q
  BY <1>3, <1>4 DEF Fits
<1>7. c <= d
  BY <1>5, <1>6
<1>. QED  BY <1>4, <1>7

\* Without -m every answer is the class of the point's own output.
PlainInv ==
  ~run.m /\ ~run.fails =>
    /\ pc = "idle"
    /\ \A a \in answers : a.cl = RawClass(a.vect)

LEMMA PlainStep ==
  ASSUME PlainInv, [Next]_vars
  PROVE  PlainInv'
<1>1. run' = run
  BY DEF Next, Classify, CheckEntry, SkipKnown, LogPrediction, vars
<1>2. \A u : RawClass(u)' = RawClass(u)
  BY <1>1 DEF RawClass
<1>. SUFFICES ASSUME ~run.m, ~run.fails
              PROVE  pc' = "idle" /\ \A a \in answers' : a.cl = RawClass(a.vect)
  BY <1>1, <1>2 DEF PlainInv
<1>3. pc = "idle" /\ \A a \in answers : a.cl = RawClass(a.vect)
  BY DEF PlainInv
<1>4. ASSUME NEW v \in run.points, Classify(v)
      PROVE  pc' = "idle" /\ \A a \in answers' : a.cl = RawClass(a.vect)
  <2>1. class' = RawClass(v) /\ pc' = "idle" /\ answers' = answers \cup {Entry(v, class')}
    BY <1>4 DEF Classify, Outputs, RawClass
  <2>2. Entry(v, class').cl = RawClass(Entry(v, class').vect)
    BY <2>1 DEF Entry
  <2>. QED  BY <1>3, <2>1, <2>2
<1>. QED  BY <1>3, <1>4 DEF Next, CheckEntry, SkipKnown, LogPrediction, vars

\* Without -m, whatever numbers the predictor prints, as long as none has an
\* exponent: the classes are in the order of the numbers.
THEOREM PlainOrder == Spec => []PlainOrderKept
<1>1. Init => TypeInv /\ PlainInv
  BY ChainInit DEF Init, PlainInv
<1>2. TypeInv /\ PlainInv /\ [Next]_vars => (TypeInv /\ PlainInv)'
  BY TypeStep, PlainStep
<1>3. TypeInv /\ PlainInv => PlainOrderKept
  <2>. SUFFICES ASSUME TypeInv, PlainInv, ~run.m, ~run.fails,
                       NEW a \in answers, NEW b \in answers,
                       run.net[a.vect].kind \in {"plain", "negative"},
                       run.net[b.vect].kind \in {"plain", "negative"},
                       Before(a.vect, b.vect)
                PROVE  a.cl <= b.cl
    BY DEF PlainOrderKept
  <2>1. a.vect \in run.points /\ b.vect \in run.points
    BY DEF TypeInv, TypeOK, Answer
  <2>2. run.net[a.vect] \in OutputType /\ run.net[b.vect] \in OutputType
    BY <2>1, LayerAssumption DEF TypeInv, RunOK
  <2>3. a.cl = RawClass(a.vect) /\ b.cl = RawClass(b.vect)
    BY DEF PlainInv
  <2>4. /\ ParseCmtOutp(run.net[a.vect]) \in Nat /\ ParseCmtOutp(run.net[b.vect]) \in Nat
        /\ ParseCmtOutp(run.net[a.vect]) <= ParseCmtOutp(run.net[b.vect])
    BY <2>2, ParseOrder DEF Before
  <2>5. run.Cls \in SUBSET Int
    BY RunFields DEF TypeInv
  <2>. QED  BY <2>3, <2>4, <2>5, ClassOfMonotone DEF RawClass
<1>. QED  BY <1>1, <1>2, <1>3, PTL DEF Spec
=============================================================================
