--------------------------- MODULE EnvelopeProofs ---------------------------
(***************************************************************************)
(* The upper predictions of the COMET bridge are monotone, and the lower   *)
(* ones below what they must be below, for any number of features, any     *)
(* network and any grid.  The invariants say of the call in progress what  *)
(* UpperIsEnvelope and LowerIsBelow say of the finished ones.              *)
(***************************************************************************)
EXTENDS Envelope, TLAPS

\* u is the upper envelope at x.
IsUpper(x, u) ==
  /\ \/ u = run.net[x]
     \/ \E y \in Point : InBounds(y) /\ Precedes(y, x) /\ u = run.net[y]
  /\ \A y \in Point : InBounds(y) /\ Precedes(y, x) => run.net[y] <= u + Eps

Inv ==
  /\ TypeOK
  /\ fx = run.net[given]
  /\ pc = "upper" => ~failed /\ instance = given
  /\ pc = "lower" /\ ~failed => IsUpper(given, upper)
  /\ \A e \in log : ~e.failed => IsUpper(e.inst, e.up)

USE EnvelopeAssumption

\* The network's value at a point is a number.
LEMMA NetTypes ==
  ASSUME run \in Setup
  PROVE  /\ run.points \subseteq Point
         /\ \A y \in Point : run.net[y] \in Int
         /\ run.dir \in {0, 1}
  OBVIOUS

\* The region of the upper search are the points within bounds that precede.
LEMMA Region ==
  ASSUME NEW x \in Point, NEW y \in Point
  PROVE  y \in UpperRegion(x) <=> InBounds(y) /\ Precedes(y, x)
  BY DEF UpperRegion, Below, Above, InRange, InBounds, Precedes

LEMMA InitInv == Init => Inv
<1> SUFFICES ASSUME Init PROVE Inv OBVIOUS
<1>1. given \in Point /\ run.net[given] \in Int
  BY NetTypes DEF Init
<1>2. TypeOK
  BY <1>1 DEF Init, TypeOK
<1> QED BY <1>2 DEF Init, Inv

\* What one finished call adds to the log.
LEMMA LogStep ==
  ASSUME Inv, pc = "lower", NEW l \in Int,
         UNCHANGED <<run, given, fx, upper>>, failed' \in BOOLEAN,
         ~failed' => ~failed, log' = log \cup {Entry(upper, l)}
  PROVE  /\ log' \subseteq EntryType'
         /\ \A e \in log' : ~e.failed => IsUpper(e.inst, e.up)'
<1>1. Entry(upper, l) \in EntryType'
  BY DEF Inv, TypeOK, Entry, EntryType
<1>2. log \subseteq EntryType'
  BY DEF Inv, TypeOK, EntryType
<1>3. \A x, u : IsUpper(x, u)' <=> IsUpper(x, u)
  BY DEF IsUpper, InBounds, Precedes
<1>4. ~Entry(upper, l).failed =>
        IsUpper(Entry(upper, l).inst, Entry(upper, l).up)
  BY DEF Inv, Entry
<1>5. ASSUME NEW e \in log', ~e.failed PROVE IsUpper(e.inst, e.up)
  <2>1. CASE e \in log BY <1>5, <2>1 DEF Inv
  <2>2. CASE e = Entry(upper, l) BY <1>4, <1>5, <2>2
  <2> QED BY <2>1, <2>2
<1>6. ASSUME NEW e \in log', ~e.failed PROVE IsUpper(e.inst, e.up)'
  BY <1>3, <1>5, <1>6
<1> QED BY <1>1, <1>2, <1>6

LEMMA NextInv == Inv /\ [Next]_vars => Inv'
<1> SUFFICES ASSUME Inv, [Next]_vars PROVE Inv' OBVIOUS
<1> USE DEF vars
<1>a. /\ run \in Setup /\ given \in Point /\ instance \in Point
      /\ fx \in Int /\ upper \in Int /\ run.points \subseteq Point
      /\ \A y \in Point : run.net[y] \in Int
  BY NetTypes DEF Inv, TypeOK
<1>b. ASSUME UNCHANGED <<run, given>>, NEW x, NEW u
      PROVE  IsUpper(x, u)' <=> IsUpper(x, u)
  BY <1>b DEF IsUpper, InBounds, Precedes
<1>c. ASSUME UNCHANGED <<run, log>>
      PROVE  /\ log' \subseteq EntryType'
             /\ \A e \in log' : ~e.failed => IsUpper(e.inst, e.up)'
  <2>1. \A x, u : IsUpper(x, u)' <=> IsUpper(x, u)
    BY <1>c DEF IsUpper, InBounds, Precedes
  <2> QED BY <1>c, <2>1 DEF Inv, TypeOK, EntryType
<1>1. ASSUME NEW x \in run.points, Predict(x) PROVE Inv'
  <2>1. TypeOK'
    BY <1>1, <1>a, <1>c DEF Inv, TypeOK, Predict
  <2> QED BY <1>1, <1>c, <2>1 DEF Inv, Predict
<1>2. ASSUME UpperFound PROVE Inv'
  <2> PICK y \in UpperRegion(instance) :
        WorstUpper(y) /\ instance' = y /\ upper' = run.net[y]
    BY <1>2 DEF UpperFound
  <2>1. y \in Point
    BY DEF UpperRegion
  <2>2. pc = "upper" /\ pc' = "lower" /\ UNCHANGED <<run, given, fx, failed, log>>
    BY <1>2 DEF UpperFound
  <2>3. instance = given
    BY <2>2 DEF Inv
  <2>4. InBounds(y) /\ Precedes(y, given)
    BY <1>a, <2>1, <2>3, Region
  <2>5. IsUpper(given, upper')
    <3>1. ASSUME NEW z \in Point, InBounds(z), Precedes(z, given)
          PROVE  run.net[z] <= run.net[y]
      BY <1>a, <2>3, <3>1, Region DEF WorstUpper
    <3>2. \A z \in Point : InBounds(z) /\ Precedes(z, given)
                             => run.net[z] <= run.net[y] + Eps
      BY <1>a, <2>1, <3>1
    <3> QED BY <2>1, <2>4, <3>2 DEF IsUpper
  <2>6. TypeOK'
    <3>1. \A f \in Feature \ Mono : y[f] = given[f]
      BY <2>4 DEF Precedes
    <3> QED BY <1>a, <1>c, <2>1, <2>2, <3>1 DEF Inv, TypeOK
  <2>7. IsUpper(given, upper)'
    BY <2>2, <2>5 DEF IsUpper, InBounds, Precedes
  <2> QED BY <1>c, <2>2, <2>6, <2>7 DEF Inv
<1>3. ASSUME UpperNone PROVE Inv'
  <2>1. /\ pc = "upper" /\ pc' = "lower" /\ upper' = fx /\ failed' = ~NoUpper
        /\ UNCHANGED <<run, given, instance, fx, log>>
    BY <1>3 DEF UpperNone
  <2>2. instance = given /\ fx = run.net[given]
    BY <2>1 DEF Inv
  <2>3. Reference = run.net[given]
    BY <2>2 DEF Reference
  <2>4. NoUpper => IsUpper(given, fx)
    <3> SUFFICES ASSUME NoUpper PROVE IsUpper(given, fx) OBVIOUS
    <3>1. ASSUME NEW y \in Point, InBounds(y), Precedes(y, given)
          PROVE  run.net[y] <= fx + Eps
      <4>1. y \in UpperRegion(instance)
        BY <1>a, <2>2, <3>1, Region
      <4>2. run.net[y] - run.net[given] <= Eps
        BY <2>3, <4>1 DEF NoUpper
      <4>3. run.net[y] \in Int /\ run.net[given] \in Int
        BY <1>a
      <4> QED BY <2>2, <4>2, <4>3
    <3> QED BY <2>2, <3>1 DEF IsUpper
  <2>5. failed' \in BOOLEAN
    BY <2>1 DEF NoUpper
  <2>6. TypeOK'
    BY <1>a, <1>c, <2>1, <2>5 DEF Inv, TypeOK
  <2>7. ~failed' => IsUpper(given, upper)'
    BY <2>1, <2>4 DEF IsUpper, InBounds, Precedes
  <2> QED BY <1>c, <2>1, <2>6, <2>7 DEF Inv
<1>4. ASSUME LowerFound PROVE Inv'
  <2> PICK y \in LowerRegion(instance) :
        instance' = y /\ log' = log \cup {Entry(upper, run.net[y])}
    BY <1>4 DEF LowerFound
  <2>1. y \in Point /\ run.net[y] \in Int
    BY <1>a DEF LowerRegion
  <2>2. /\ pc = "lower" /\ pc' = "idle" /\ failed' = failed
        /\ UNCHANGED <<run, given, fx, upper>>
    BY <1>4 DEF LowerFound
  <2>3. /\ log' \subseteq EntryType'
        /\ \A e \in log' : ~e.failed => IsUpper(e.inst, e.up)'
    BY <2>1, <2>2, LogStep DEF Inv, TypeOK
  <2>4. \A f \in Feature \ Mono : y[f] = given[f]
    BY <2>2 DEF LowerRegion, Below, Above, InRange, Inv, TypeOK
  <2>5. TypeOK'
    BY <1>a, <2>1, <2>2, <2>3, <2>4 DEF Inv, TypeOK
  <2> QED BY <2>2, <2>3, <2>5 DEF Inv
<1>5. ASSUME LowerNone PROVE Inv'
  <2>1. /\ pc = "lower" /\ pc' = "idle" /\ failed' = (failed \/ ~NoLower)
        /\ log' = log \cup {Entry(upper, fx)}
        /\ UNCHANGED <<run, given, instance, fx, upper>>
    BY <1>5 DEF LowerNone
  <2>2. failed' \in BOOLEAN /\ (~failed' => ~failed)
    BY <2>1 DEF NoLower
  <2>3. /\ log' \subseteq EntryType'
        /\ \A e \in log' : ~e.failed => IsUpper(e.inst, e.up)'
    BY <1>a, <2>1, <2>2, LogStep
  <2>4. TypeOK'
    BY <1>a, <2>1, <2>2, <2>3 DEF Inv, TypeOK
  <2> QED BY <2>1, <2>3, <2>4 DEF Inv
<1>6. CASE UNCHANGED vars
  <2>1. TypeOK'
    BY <1>6, <1>a, <1>c DEF Inv, TypeOK
  <2>2. IsUpper(given, upper)' <=> IsUpper(given, upper)
    BY <1>6 DEF IsUpper, InBounds, Precedes
  <2> QED BY <1>6, <1>c, <2>1, <2>2 DEF Inv
<1> QED BY <1>1, <1>2, <1>3, <1>4, <1>5, <1>6 DEF Next

LEMMA InvHolds == Spec => []Inv
  BY InitInv, NextInv, PTL DEF Spec

\* Every variable keeps its type, and only monotonic features are overwritten.
THEOREM EnvelopeTypes == Spec => []TypeOK
<1>1. Inv => TypeOK BY DEF Inv
<1> QED BY <1>1, InvHolds, PTL

\* Every upper prediction printed without a failure is the maximum of the
\* network over the points that must not exceed it, up to Eps.
THEOREM UpperCorrect == Spec => []UpperIsEnvelope
<1>1. Inv => UpperIsEnvelope BY DEF Inv, UpperIsEnvelope, IsUpper
<1> QED BY <1>1, InvHolds, PTL

\* The order in which predictions must not fall is transitive.
LEMMA PrecedesTransitive ==
  ASSUME NEW u \in Point, NEW v \in Point, NEW w \in Point,
         Precedes(u, v), Precedes(v, w)
  PROVE  Precedes(u, w)
<1>1. \A f \in Feature : u[f] \in Int /\ v[f] \in Int /\ w[f] \in Int
  BY DEF Point
<1>2. \A f \in Mono : IF run.dir = 0 THEN u[f] <= w[f] ELSE u[f] >= w[f]
  <2>1. CASE run.dir = 0
    BY <1>1, <2>1 DEF Precedes
  <2>2. CASE run.dir # 0
    BY <1>1, <2>2 DEF Precedes
  <2> QED BY <2>1, <2>2
<1>3. \A f \in Feature \ Mono : u[f] = w[f]
  BY DEF Precedes
<1> QED BY <1>2, <1>3 DEF Precedes

\* Upper predictions of comparable instances are ordered, up to Eps: what one
\* call found below its instance another could find below a higher one.
THEOREM UpperOrdered == Spec => []UpperMonotone
<1>1. Inv => UpperMonotone
  <2> SUFFICES ASSUME Inv, NEW d \in log, NEW e \in log,
                      ~d.failed, ~e.failed,
                      InBounds(d.inst), Precedes(d.inst, e.inst)
               PROVE  d.up <= e.up + Eps
    BY DEF UpperMonotone
  <2>1. /\ d.inst \in Point /\ e.inst \in Point
        /\ IsUpper(d.inst, d.up) /\ IsUpper(e.inst, e.up)
    BY NetTypes DEF Inv, TypeOK, EntryType
  <2>2. CASE d.up = run.net[d.inst]
    BY <2>1, <2>2 DEF IsUpper
  <2>3. CASE \E y \in Point : /\ InBounds(y) /\ Precedes(y, d.inst)
                              /\ d.up = run.net[y]
    <3> PICK y \in Point : InBounds(y) /\ Precedes(y, d.inst) /\ d.up = run.net[y]
      BY <2>3
    <3>1. Precedes(y, e.inst)
      BY <2>1, PrecedesTransitive
    <3> QED BY <2>1, <3>1 DEF IsUpper
  <2> QED BY <2>1, <2>2, <2>3 DEF IsUpper
<1> QED BY <1>1, InvHolds, PTL

-----------------------------------------------------------------------------
(* The lower search starts wherever the upper one has left the instance.   *)
(* That is never above the instance given, and its value never below, so   *)
(* that the search sees all the points it should and more.                 *)

\* l is no higher than f, nor than the network anywhere above x.
IsLower(x, f, l) ==
  /\ l <= f
  /\ \A z \in Point : InBounds(z) /\ Precedes(x, z) => l <= run.net[z] + Eps

\* Where the lower search starts.
StartsBelow ==
  /\ Precedes(instance, given)
  /\ run.net[instance] >= fx

LowInv ==
  /\ pc = "lower" /\ ~failed => StartsBelow
  /\ \A e \in log : ~e.failed /\ InBounds(e.inst) => IsLower(e.inst, e.fx, e.low)

\* The region of the lower search are the points within bounds that follow.
LEMMA LowerRegionIs ==
  ASSUME Inv, NEW x \in Point, NEW y \in Point
  PROVE  y \in LowerRegion(x) <=> InBounds(y) /\ Precedes(x, y)
<1>1. \A f \in Feature : x[f] \in Int /\ y[f] \in Int
  BY DEF Point
<1>2. run.dir \in {0, 1} /\ Mono \subseteq Feature
  BY NetTypes DEF Inv, TypeOK
<1>3. \A f \in Mono : (x[f] <= y[f] <=> y[f] >= x[f]) /\ (x[f] >= y[f] <=> y[f] <= x[f])
  BY <1>1, <1>2
<1>4. (\A f \in Feature \ Mono : x[f] = y[f]) <=> (\A f \in Feature \ Mono : y[f] = x[f])
  OBVIOUS
<1>5. CASE run.dir = 0
  BY <1>3, <1>4, <1>5 DEF LowerRegion, Above, InRange, InBounds, Precedes
<1>6. CASE run.dir # 0
  BY <1>3, <1>4, <1>6 DEF LowerRegion, Below, InRange, InBounds, Precedes
<1> QED BY <1>5, <1>6

LEMMA PrecedesSelf ==
  ASSUME NEW x \in Point
  PROVE  Precedes(x, x)
<1>1. \A f \in Feature : x[f] \in Int
  BY DEF Point
<1> QED BY <1>1 DEF Precedes

\* Points within bounds that follow the given instance are in the region the
\* lower search ranges over, and so is the instance itself.
LEMMA RegionCovers ==
  ASSUME Inv, StartsBelow, NEW z \in Point, InBounds(z), Precedes(given, z)
  PROVE  z \in LowerRegion(instance)
<1>1. given \in Point /\ instance \in Point
  BY NetTypes DEF Inv, TypeOK
<1>2. Precedes(instance, z)
  BY <1>1, PrecedesTransitive DEF StartsBelow
<1> QED BY <1>1, <1>2, LowerRegionIs

LEMMA LowStep == Inv /\ LowInv /\ [Next]_vars => LowInv'
<1> SUFFICES ASSUME Inv, LowInv, [Next]_vars PROVE LowInv' OBVIOUS
<1> USE DEF vars
<1>a. /\ given \in Point /\ instance \in Point /\ fx \in Int
      /\ fx = run.net[given] /\ \A y \in Point : run.net[y] \in Int
  BY NetTypes DEF Inv, TypeOK
<1>b. run' = run
  BY DEF Next, Predict, UpperFound, UpperNone, LowerFound, LowerNone
<1>c. /\ \A x, f, l : IsLower(x, f, l)' <=> IsLower(x, f, l)
      /\ \A x : InBounds(x)' <=> InBounds(x)
      /\ \A x, y : Precedes(x, y)' <=> Precedes(x, y)
  BY <1>b DEF IsLower, InBounds, Precedes
<1>d. ASSUME NEW e \in log, ~e.failed, InBounds(e.inst)
      PROVE  IsLower(e.inst, e.fx, e.low)
  BY <1>d DEF LowInv
<1>1. ASSUME NEW x \in run.points, Predict(x) PROVE LowInv'
  <2>1. pc' = "upper" /\ log' = log
    BY <1>1 DEF Predict
  <2> QED BY <1>c, <1>d, <2>1 DEF LowInv
<1>2. ASSUME UpperFound PROVE LowInv'
  <2> PICK y \in UpperRegion(instance) : WorstUpper(y) /\ instance' = y
    BY <1>2 DEF UpperFound
  <2>1. y \in Point
    BY DEF UpperRegion
  <2>2. /\ pc = "upper" /\ instance = given
        /\ UNCHANGED <<run, given, fx, failed, log>>
    BY <1>2 DEF UpperFound, Inv
  <2>3. Precedes(y, given)
    BY <1>a, <2>1, <2>2, Region
  <2>4. Reference = fx
    BY <1>a, <2>2 DEF Reference
  <2>5. run.net[y] - fx > Eps
    BY <2>4 DEF WorstUpper
  <2>6. run.net[y] >= fx
    BY <1>a, <2>1, <2>5
  <2>7. StartsBelow'
    BY <1>c, <2>2, <2>3, <2>6 DEF StartsBelow
  <2> QED BY <1>c, <1>d, <2>2, <2>7 DEF LowInv
<1>3. ASSUME UpperNone PROVE LowInv'
  <2>1. /\ pc = "upper" /\ instance = given
        /\ UNCHANGED <<run, given, instance, fx, log>>
    BY <1>3 DEF UpperNone, Inv
  <2>2. StartsBelow'
    BY <1>a, <1>c, <2>1, PrecedesSelf DEF StartsBelow
  <2> QED BY <1>c, <1>d, <2>1, <2>2 DEF LowInv
<1>4. ASSUME LowerFound PROVE LowInv'
  <2> PICK y \in LowerRegion(instance) :
        WorstLower(y) /\ log' = log \cup {Entry(upper, run.net[y])}
    BY <1>4 DEF LowerFound
  <2>1. /\ pc = "lower" /\ pc' = "idle" /\ failed' = failed
        /\ UNCHANGED <<given, fx>>
    BY <1>4 DEF LowerFound
  <2>2. y \in Point
    BY DEF LowerRegion
  <2>3. ASSUME ~failed, InBounds(given)
        PROVE  IsLower(given, fx, run.net[y])
    <3>1. StartsBelow
      BY <2>1, <2>3 DEF LowInv
    <3>2. \A z \in Point : InBounds(z) /\ Precedes(given, z)
                             => run.net[z] >= run.net[y]
      BY <3>1, RegionCovers DEF WorstLower
    <3>3. run.net[given] >= run.net[y]
      BY <1>a, <2>3, <3>2, PrecedesSelf
    <3>4. \A z \in Point : InBounds(z) /\ Precedes(given, z)
                             => run.net[y] <= run.net[z] + Eps
      BY <1>a, <2>2, <3>2
    <3>5. run.net[y] <= fx
      BY <1>a, <2>2, <3>3
    <3> QED BY <3>4, <3>5 DEF IsLower
  <2>4. ASSUME NEW e \in log', ~e.failed, InBounds(e.inst)
        PROVE  IsLower(e.inst, e.fx, e.low)
    <3>1. CASE e \in log BY <1>d, <2>4, <3>1
    <3>2. CASE e = Entry(upper, run.net[y])
      BY <2>1, <2>3, <2>4, <3>2 DEF Entry
    <3> QED BY <3>1, <3>2
  <2> QED BY <1>c, <2>1, <2>4 DEF LowInv
<1>5. ASSUME LowerNone PROVE LowInv'
  <2>1. /\ pc = "lower" /\ pc' = "idle" /\ failed' = (failed \/ ~NoLower)
        /\ log' = log \cup {Entry(upper, fx)}
        /\ UNCHANGED <<given, fx>>
    BY <1>5 DEF LowerNone
  <2>2. ASSUME ~failed, NoLower
        PROVE  IsLower(given, fx, fx)
    <3>1. StartsBelow
      BY <2>1, <2>2 DEF LowInv
    <3>2. Reference \in Int /\ Reference >= fx
      BY <1>a, <3>1 DEF Reference, StartsBelow
    <3>3. ASSUME NEW z \in Point, InBounds(z), Precedes(given, z)
          PROVE  fx <= run.net[z] + Eps
      <4>1. Reference - run.net[z] <= Eps
        BY <2>2, <3>1, <3>3, RegionCovers DEF NoLower
      <4>2. run.net[z] \in Int
        BY <1>a
      <4> QED BY <1>a, <3>2, <4>1, <4>2
    <3> QED BY <1>a, <3>3 DEF IsLower
  <2>3. ASSUME NEW e \in log', ~e.failed, InBounds(e.inst)
        PROVE  IsLower(e.inst, e.fx, e.low)
    <3>1. CASE e \in log BY <1>d, <2>3, <3>1
    <3>2. CASE e = Entry(upper, fx)
      BY <2>1, <2>2, <2>3, <3>2 DEF Entry
    <3> QED BY <2>1, <3>1, <3>2
  <2> QED BY <1>c, <2>1, <2>3 DEF LowInv
<1>6. CASE UNCHANGED vars
  <2>1. StartsBelow' <=> StartsBelow
    BY <1>6, <1>c DEF StartsBelow
  <2> QED BY <1>6, <1>c, <1>d, <2>1 DEF LowInv
<1> QED BY <1>1, <1>2, <1>3, <1>4, <1>5, <1>6 DEF Next

\* Although the lower search starts from the point the upper one has written
\* over the instance, the lower prediction is below the prediction at the
\* instance, and below every value above it up to Eps.
THEOREM LowerCorrect == Spec => []LowerIsBelow
<1>1. Init => LowInv
  BY DEF Init, LowInv
<1>2. LowInv => LowerIsBelow
  BY DEF LowInv, LowerIsBelow, IsLower
<1> QED BY <1>1, <1>2, InvHolds, LowStep, PTL DEF Spec
=============================================================================
