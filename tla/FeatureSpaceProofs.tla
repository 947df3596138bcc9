------------------------ MODULE FeatureSpaceProofs ------------------------
(***************************************************************************)
(* The facts about explanations of monotone classifiers that the           *)
(* algorithms of MonoXPs.pm rest on.                                       *)
(***************************************************************************)
EXTENDS FeatureSpace, FiniteSetsExt, FiniteSetTheorems, WellFoundedInduction,
        TLAPS

\* The ends of the box that frees the features of U.
LowEnd(v, U)  == [i \in Feature |-> IF i \in U THEN LBs[i] ELSE v[i]]
HighEnd(v, U) == [i \in Feature |-> IF i \in U THEN UBs[i] ELSE v[i]]

LEMMA SpaceValues ==
  ASSUME NEW x \in Space, NEW i \in Feature
  PROVE  /\ x \in [Feature -> Value]
         /\ x[i] \in Value /\ x[i] \in Int
         /\ LBs[i] \in Value /\ LBs[i] \in Int
         /\ UBs[i] \in Value /\ UBs[i] \in Int
         /\ LBs[i] <= x[i] /\ x[i] <= UBs[i]
BY SpaceAssumption DEF Space, Point

\* Both ends of the box are within the bounds ...
LEMMA EndsInSpace ==
  ASSUME NEW v \in Space, NEW U \in SUBSET Feature
  PROVE  LowEnd(v, U) \in Space /\ HighEnd(v, U) \in Space
<1> DEFINE lo == LowEnd(v, U)
           hi == HighEnd(v, U)
<1>1. lo \in [Feature -> Value] /\ hi \in [Feature -> Value]
  BY SpaceValues DEF LowEnd, HighEnd
<1>2. ASSUME NEW i \in Feature
      PROVE  /\ LBs[i] <= lo[i] /\ lo[i] <= UBs[i]
             /\ LBs[i] <= hi[i] /\ hi[i] <= UBs[i]
  <2>1. LBs[i] \in Int /\ UBs[i] \in Int /\ v[i] \in Int
        /\ LBs[i] <= v[i] /\ v[i] <= UBs[i]
    BY SpaceValues
  <2> QED  BY <2>1 DEF LowEnd, HighEnd
<1> HIDE DEF lo, hi
<1> QED
  <2>1. lo \in Space /\ hi \in Space
    BY <1>1, <1>2 DEF Space, Point
  <2> QED  BY <2>1 DEF lo, hi

\* ... agree with v outside U, and bound every point that does.
LEMMA EndsBound ==
  ASSUME NEW v \in Space, NEW U \in SUBSET Feature
  PROVE  /\ LowEnd(v, U) \in Region(v, Feature \ U)
         /\ HighEnd(v, U) \in Region(v, Feature \ U)
         /\ v \in Region(v, Feature \ U)
         /\ \A x \in Region(v, Feature \ U) :
              Leq(LowEnd(v, U), x) /\ Leq(x, HighEnd(v, U))
<1>1. LowEnd(v, U) \in Region(v, Feature \ U)
  BY EndsInSpace DEF Region, LowEnd
<1>2. HighEnd(v, U) \in Region(v, Feature \ U)
  BY EndsInSpace DEF Region, HighEnd
<1>3. v \in Region(v, Feature \ U)
  BY DEF Region
<1>4. ASSUME NEW x \in Region(v, Feature \ U), NEW i \in Feature
      PROVE  LowEnd(v, U)[i] <= x[i] /\ x[i] <= HighEnd(v, U)[i]
  <2>1. x \in Space /\ (i \notin U => x[i] = v[i])
    BY DEF Region
  <2>2. x[i] \in Int /\ LBs[i] <= x[i] /\ x[i] <= UBs[i]
    BY <2>1, SpaceValues
  <2> QED  BY <2>1, <2>2 DEF LowEnd, HighEnd
<1> QED  BY <1>1, <1>2, <1>3, <1>4 DEF Leq

\* The test of the two loops is exact: a monotone classifier predicts the same
\* at both ends of the box if and only if the fixed features force the
\* prediction.
THEOREM TestIsExact ==
  ASSUME NEW k \in MonotoneClassifier, NEW v \in Space, NEW U \in SUBSET Feature
  PROVE  k[LowEnd(v, U)] = k[HighEnd(v, U)] <=> WeakAXp(k, v, Feature \ U)
<1> DEFINE lo == LowEnd(v, U)
           hi == HighEnd(v, U)
           R  == Region(v, Feature \ U)
<1>1. lo \in R /\ hi \in R /\ v \in R /\ \A x \in R : Leq(lo, x) /\ Leq(x, hi)
  BY EndsBound
<1>2. R \subseteq Space
  BY DEF Region
<1>3. \A x \in Space : k[x] \in Int
  BY SpaceAssumption DEF MonotoneClassifier
<1>4. \A x, y \in Space : Leq(x, y) => k[x] <= k[y]
  BY DEF MonotoneClassifier, Monotone
<1> HIDE DEF lo, hi, R
<1>5. ASSUME k[lo] = k[hi], NEW x \in R PROVE k[x] = k[v]
  <2>1. k[lo] <= k[x] /\ k[x] <= k[hi] /\ k[lo] <= k[v] /\ k[v] <= k[hi]
    BY <1>1, <1>2, <1>4
  <2>2. k[lo] \in Int /\ k[hi] \in Int /\ k[x] \in Int /\ k[v] \in Int
    BY <1>1, <1>2, <1>3
  <2> QED  BY <1>5, <2>1, <2>2
<1>6. ASSUME \A x \in R : k[x] = k[v] PROVE k[lo] = k[hi]
  BY <1>1, <1>6
<1>7. k[lo] = k[hi] <=> \A x \in R : k[x] = k[v]
  BY <1>5, <1>6
<1> QED  BY <1>7 DEF lo, hi, R, WeakAXp

\* The two kinds of weak explanation are complementary.
LEMMA WeakDual ==
  ASSUME NEW k, NEW v, NEW Y \in SUBSET Feature
  PROVE  WeakCXp(k, v, Y) <=> ~WeakAXp(k, v, Feature \ Y)
BY DEF WeakCXp, WeakAXp

\* More fixed features force at least as much.
LEMMA WeakAXpGrows ==
  ASSUME NEW k, NEW v, NEW X, NEW Z, X \subseteq Z, WeakAXp(k, v, X)
  PROVE  WeakAXp(k, v, Z)
BY DEF WeakAXp, Region

LEMMA WeakCXpGrows ==
  ASSUME NEW k, NEW v, NEW X \in SUBSET Feature, NEW Z \in SUBSET Feature,
         X \subseteq Z, WeakCXp(k, v, X)
  PROVE  WeakCXp(k, v, Z)
BY DEF WeakCXp, Region

\* A weak explanation is a subset-minimal one if no single feature can be
\* taken out of it: trying the features one at a time is enough.
THEOREM OneAtATime ==
  ASSUME NEW k, NEW v, NEW X \in SUBSET Feature
  PROVE  /\ (WeakAXp(k, v, X) /\ \A j \in X : ~WeakAXp(k, v, X \ {j}))
              => IsAXp(k, v, X)
         /\ (WeakCXp(k, v, X) /\ \A j \in X : ~WeakCXp(k, v, X \ {j}))
              => IsCXp(k, v, X)
<1>1. ASSUME NEW Z \in SUBSET X, Z # X PROVE \E j \in X : Z \subseteq X \ {j}
  BY <1>1
<1>2. ASSUME WeakAXp(k, v, X), \A j \in X : ~WeakAXp(k, v, X \ {j})
      PROVE  IsAXp(k, v, X)
  <2>1. ASSUME NEW Z \in SUBSET X, WeakAXp(k, v, Z), Z # X PROVE FALSE
    <3>1. PICK j \in X : Z \subseteq X \ {j}
      BY <1>1, <2>1
    <3>2. WeakAXp(k, v, X \ {j})
      BY <2>1, <3>1, WeakAXpGrows
    <3> QED  BY <1>2, <3>2
  <2> QED  BY <1>2, <2>1 DEF IsAXp
<1>3. ASSUME WeakCXp(k, v, X), \A j \in X : ~WeakCXp(k, v, X \ {j})
      PROVE  IsCXp(k, v, X)
  <2>1. ASSUME NEW Z \in SUBSET X, WeakCXp(k, v, Z), Z # X PROVE FALSE
    <3>1. PICK j \in X : Z \subseteq X \ {j}
      BY <1>1, <2>1
    <3>2. WeakCXp(k, v, X \ {j})
      BY <2>1, <3>1, WeakCXpGrows
    <3> QED  BY <1>3, <3>2
  <2> QED  BY <1>3, <2>1 DEF IsCXp
<1> QED  BY <1>2, <1>3

\* Fixing every feature forces the prediction.
LEMMA AllFixed ==
  ASSUME NEW k, NEW v \in Space
  PROVE  WeakAXp(k, v, Feature)
<1>1. ASSUME NEW x \in Region(v, Feature) PROVE x = v
  <2>1. x \in [Feature -> Value] /\ v \in [Feature -> Value]
    BY DEF Region, Space, Point
  <2>2. \A i \in Feature : x[i] = v[i]
    BY DEF Region
  <2> QED  BY <2>1, <2>2
<1> QED  BY <1>1 DEF WeakAXp

\* Freeing every feature can change the prediction, unless nothing can.
LEMMA AllFree ==
  ASSUME NEW k, NEW v \in Space
  PROVE  WeakCXp(k, v, Feature) \/ ConstantClassifier(k)
BY DEF WeakCXp, Region, ConstantClassifier

-----------------------------------------------------------------------------
(* The two kinds of explanation against each other. *)

\* An abductive and a contrastive explanation have a feature in common.
LEMMA WeakXpsMeet ==
  ASSUME NEW k, NEW v, NEW X \in SUBSET Feature, NEW Y \in SUBSET Feature,
         WeakAXp(k, v, X), WeakCXp(k, v, Y)
  PROVE  X \cap Y # {}
<1> SUFFICES ASSUME X \cap Y = {} PROVE FALSE
  OBVIOUS
<1>1. X \subseteq Feature \ Y
  OBVIOUS
<1>2. WeakAXp(k, v, Feature \ Y)
  BY <1>1, WeakAXpGrows
<1> QED  BY <1>2, WeakDual

\* The features to make universal so that an explanation is the next one found.
Opens(e) == IF e[1] = "AXp" THEN Feature \ e[2] ELSE e[2]

\* The box of an explanation contains no other: no abductive one among its
\* fixed features, no contrastive one among its universal features.
LEMMA OpensNoOther ==
  ASSUME NEW k, NEW v, NEW e \in AllXps(k, v), NEW r \in AllXps(k, v), e # r
  PROVE  /\ r[1] = "AXp" => r[2] \cap Opens(e) # {}
         /\ r[1] # "AXp" => r[2] \ Opens(e) # {}
<1>1. /\ e = <<e[1], e[2]>> /\ e[1] \in XpType /\ e[2] \in SUBSET Feature
      /\ r = <<r[1], r[2]>> /\ r[1] \in XpType /\ r[2] \in SUBSET Feature
      /\ IsXp(k, v, e[1], e[2]) /\ IsXp(k, v, r[1], r[2])
  BY DEF AllXps
<1>2. CASE e[1] = "AXp" /\ r[1] = "AXp"
  <2>1. IsAXp(k, v, e[2]) /\ IsAXp(k, v, r[2]) /\ e[2] # r[2]
    BY <1>1, <1>2 DEF IsXp
  <2>2. ~(r[2] \subseteq e[2])
    BY <2>1 DEF IsAXp
  <2> QED  BY <1>1, <1>2, <2>2 DEF Opens
<1>3. CASE e[1] # "AXp" /\ r[1] # "AXp"
  <2>1. IsCXp(k, v, e[2]) /\ IsCXp(k, v, r[2]) /\ e[2] # r[2]
    BY <1>1, <1>3 DEF IsXp, XpType
  <2>2. ~(r[2] \subseteq e[2])
    BY <2>1 DEF IsCXp
  <2> QED  BY <1>1, <1>3, <2>2 DEF Opens
<1>4. CASE e[1] = "AXp" /\ r[1] # "AXp"
  <2>1. WeakAXp(k, v, e[2]) /\ WeakCXp(k, v, r[2])
    BY <1>1, <1>4 DEF IsXp, IsAXp, IsCXp
  <2>2. e[2] \cap r[2] # {}
    BY <1>1, <2>1, WeakXpsMeet
  <2> QED  BY <1>4, <2>2 DEF Opens
<1>5. CASE e[1] # "AXp" /\ r[1] = "AXp"
  <2>1. WeakCXp(k, v, e[2]) /\ WeakAXp(k, v, r[2])
    BY <1>1, <1>5 DEF IsXp, IsAXp, IsCXp
  <2>2. r[2] \cap e[2] # {}
    BY <1>1, <2>1, WeakXpsMeet
  <2> QED  BY <1>5, <2>2 DEF Opens
<1> QED  BY <1>2, <1>3, <1>4, <1>5

\* The empty explanation is the only one.
LEMMA EmptyXpIsAlone ==
  ASSUME NEW k, NEW v, NEW t, <<t, {}>> \in AllXps(k, v)
  PROVE  AllXps(k, v) = {<<t, {}>>}
<1>1. ASSUME NEW e \in AllXps(k, v), e # <<t, {}>> PROVE FALSE
  BY <1>1, OpensNoOther
<1> QED  BY <1>1

\* It is the abductive one of a classifier that predicts the same everywhere.
LEMMA EmptyXpIsConstant ==
  ASSUME NEW k, NEW v \in Space, NEW t, <<t, {}>> \in AllXps(k, v)
  PROVE  t = "AXp" /\ ConstantClassifier(k)
<1>1. t \in XpType /\ IsXp(k, v, t, {})
  BY DEF AllXps
<1>2. ~WeakCXp(k, v, {})
  <2>1. Feature \ {} = Feature
    OBVIOUS
  <2> QED  BY <2>1, AllFixed, WeakDual
<1>3. t = "AXp" /\ WeakAXp(k, v, {})
  BY <1>1, <1>2 DEF IsXp, IsAXp, IsCXp, XpType
<1>4. \A x \in Space : k[x] = k[v]
  BY <1>3 DEF WeakAXp, Region
<1> QED  BY <1>3, <1>4 DEF ConstantClassifier

\* Among subsets of a finite set there is one with no smaller one in it.
LEMMA SmallestSet ==
  ASSUME NEW U, IsFiniteSet(U), NEW B \in SUBSET SUBSET U, B # {}
  PROVE  \E S \in B : \A T \in B : T \subseteq S => T = S
<1>1. B \subseteq FiniteSubsetsOf(U)
  BY FS_FiniteSubsetsOfFinite
<1>2. IsWellFoundedOn(StrictSubsetOrdering(U), FiniteSubsetsOf(U))
  BY FS_StrictSubsetOrderingWellFounded
<1>3. PICK S \in B : \A T \in B : <<T, S>> \notin StrictSubsetOrdering(U)
  BY <1>1, <1>2, WFMin
<1>4. ASSUME NEW T \in B, T \subseteq S PROVE T = S
  BY <1>3, <1>4 DEF StrictSubsetOrdering
<1> QED  BY <1>4

\* Among sets of features there is a subset-minimal one.
LEMMA MinimalSet ==
  ASSUME NEW F \in SUBSET SUBSET Feature, F # {}
  PROVE  \E X \in F : \A Z \in F : Z \subseteq X => Z = X
<1>1. IsFiniteSet(Feature)
  BY SpaceAssumption, FS_Interval DEF Feature
<1> QED  BY <1>1, SmallestSet

\* Every weak explanation contains an explanation.
LEMMA WeakContainsXp ==
  ASSUME NEW k, NEW v, NEW W \in SUBSET Feature
  PROVE  /\ WeakAXp(k, v, W) => \E X \in SUBSET W : IsAXp(k, v, X)
         /\ WeakCXp(k, v, W) => \E X \in SUBSET W : IsCXp(k, v, X)
<1>1. ASSUME WeakAXp(k, v, W) PROVE \E X \in SUBSET W : IsAXp(k, v, X)
  <2> DEFINE F == {Z \in SUBSET W : WeakAXp(k, v, Z)}
  <2>1. F \in SUBSET SUBSET Feature /\ F # {}
    BY <1>1
  <2>2. PICK X \in F : \A Z \in F : Z \subseteq X => Z = X
    BY <2>1, MinimalSet
  <2>3. IsAXp(k, v, X)
    BY <2>2 DEF IsAXp
  <2> QED  BY <2>2, <2>3
<1>2. ASSUME WeakCXp(k, v, W) PROVE \E X \in SUBSET W : IsCXp(k, v, X)
  <2> DEFINE F == {Z \in SUBSET W : WeakCXp(k, v, Z)}
  <2>1. F \in SUBSET SUBSET Feature /\ F # {}
    BY <1>2
  <2>2. PICK X \in F : \A Z \in F : Z \subseteq X => Z = X
    BY <2>1, MinimalSet
  <2>3. IsCXp(k, v, X)
    BY <2>2 DEF IsCXp
  <2> QED  BY <2>2, <2>3
<1> QED  BY <1>1, <1>2

AXps(k, v) == {X \in SUBSET Feature : IsAXp(k, v, X)}
CXps(k, v) == {Y \in SUBSET Feature : IsCXp(k, v, Y)}

\* The explanations of each kind are the minimal hitting sets of those of the
\* other, for any classifier, monotone or not.
THEOREM HittingSetDuality ==
  ASSUME NEW k, NEW v, NEW H \in SUBSET Feature
  PROVE  /\ H \in CXps(k, v) <=> MinimalHittingSet(H, AXps(k, v))
         /\ H \in AXps(k, v) <=> MinimalHittingSet(H, CXps(k, v))
<1> DEFINE Hits(S, Sets) == \A s \in Sets : S \cap s # {}
<1>1. ASSUME NEW S \in SUBSET Feature
      PROVE  WeakCXp(k, v, S) <=> Hits(S, AXps(k, v))
  <2>1. ASSUME WeakCXp(k, v, S), NEW X \in AXps(k, v) PROVE S \cap X # {}
    BY <2>1, WeakXpsMeet DEF AXps, IsAXp
  <2>2. ASSUME ~WeakCXp(k, v, S) PROVE ~Hits(S, AXps(k, v))
    <3>1. WeakAXp(k, v, Feature \ S)
      BY <2>2, WeakDual
    <3>2. PICK X \in SUBSET (Feature \ S) : IsAXp(k, v, X)
      BY <3>1, WeakContainsXp
    <3> QED  BY <3>2 DEF AXps
  <2> QED  BY <2>1, <2>2
<1>2. ASSUME NEW S \in SUBSET Feature
      PROVE  WeakAXp(k, v, S) <=> Hits(S, CXps(k, v))
  <2>1. ASSUME WeakAXp(k, v, S), NEW Y \in CXps(k, v) PROVE S \cap Y # {}
    BY <2>1, WeakXpsMeet DEF CXps, IsCXp
  <2>2. ASSUME ~WeakAXp(k, v, S) PROVE ~Hits(S, CXps(k, v))
    <3>1. Feature \ (Feature \ S) = S
      OBVIOUS
    <3>2. WeakCXp(k, v, Feature \ S)
      BY <2>2, <3>1, WeakDual
    <3>3. PICK Y \in SUBSET (Feature \ S) : IsCXp(k, v, Y)
      BY <3>2, WeakContainsXp
    <3> QED  BY <3>3 DEF CXps
  <2> QED  BY <2>1, <2>2
<1> HIDE DEF Hits
<1>3. \A S, Sets : MinimalHittingSet(S, Sets) <=>
        Hits(S, Sets) /\ \A Z \in SUBSET S : Hits(Z, Sets) => Z = S
  BY DEF MinimalHittingSet, Hits
<1>4. H \in CXps(k, v) <=> MinimalHittingSet(H, AXps(k, v))
  BY <1>1, <1>3 DEF CXps, IsCXp
<1>5. H \in AXps(k, v) <=> MinimalHittingSet(H, CXps(k, v))
  BY <1>2, <1>3 DEF AXps, IsAXp
<1> QED  BY <1>4, <1>5

-----------------------------------------------------------------------------
(* The sum of the sizes of finitely many sets, which MapThenSumSet computes *)
(* by picking one set after another: the order does not matter.  The        *)
(* inductions take a smallest set that fails.                               *)

Pick(s) == CHOOSE x \in s : TRUE

\* f sums the sizes of the members of every subset of S.
SumsSizes(f, S) ==
  f = [s \in SUBSET S |->
         IF s = {} THEN 0
         ELSE Cardinality(Pick(s)) + f[s \ {Pick(s)}]]

Sizes(S) == MapThenSumSet(Cardinality, S)

LEMMA SizesIs ==
  ASSUME NEW S
  PROVE  Sizes(S) = (CHOOSE f : SumsSizes(f, S))[S]
BY DEF Sizes, MapThenSumSet, MapThenFoldSet, SumsSizes, Pick

LEMMA PickIn ==
  ASSUME NEW s, s # {}
  PROVE  Pick(s) \in s
BY DEF Pick

\* Two such functions agree where both are defined.
LEMMA SumsAgree ==
  ASSUME NEW U, IsFiniteSet(U), NEW S \in SUBSET U, NEW T \in SUBSET U,
         NEW f, NEW g, SumsSizes(f, S), SumsSizes(g, T),
         NEW s \in SUBSET U, s \subseteq S, s \subseteq T
  PROVE  f[s] = g[s]
<1> DEFINE B == {t \in SUBSET U : t \subseteq S /\ t \subseteq T /\ f[t] # g[t]}
<1>1. SUFFICES ASSUME B # {} PROVE FALSE
  OBVIOUS
<1>2. PICK t \in B : \A r \in B : r \subseteq t => r = t
  <2>1. B \in SUBSET SUBSET U
    OBVIOUS
  <2> HIDE DEF B
  <2> QED  BY <1>1, <2>1, SmallestSet
<1>3. f[t] = IF t = {} THEN 0 ELSE Cardinality(Pick(t)) + f[t \ {Pick(t)}]
  BY <1>2 DEF SumsSizes
<1>4. g[t] = IF t = {} THEN 0 ELSE Cardinality(Pick(t)) + g[t \ {Pick(t)}]
  BY <1>2 DEF SumsSizes
<1>5. t # {}
  BY <1>2, <1>3, <1>4
<1>6. t \ {Pick(t)} \notin B
  BY <1>2, <1>5, PickIn
<1> QED  BY <1>2, <1>3, <1>4, <1>5, <1>6

\* For finite sets there is such a function.
LEMMA SumsExist ==
  ASSUME NEW U, IsFiniteSet(U), NEW S \in SUBSET U
  PROVE  \E f : SumsSizes(f, S)
<1> DEFINE B == {T \in SUBSET U : ~\E f : SumsSizes(f, T)}
<1>1. SUFFICES ASSUME B # {} PROVE FALSE
  OBVIOUS
<1>2. PICK T \in B : \A R \in B : R \subseteq T => R = T
  <2>1. B \in SUBSET SUBSET U
    OBVIOUS
  <2> HIDE DEF B
  <2> QED  BY <1>1, <2>1, SmallestSet
<1> DEFINE g == [s \in SUBSET T |->
                   IF s = {} THEN 0
                   ELSE Cardinality(Pick(s)) + Sizes(s \ {Pick(s)})]
<1>3. ASSUME NEW s \in SUBSET T, s # T PROVE g[s] = Sizes(s)
  <2>1. \E f : SumsSizes(f, s)
    BY <1>2, <1>3
  <2>2. PICK f : SumsSizes(f, s) /\ Sizes(s) = f[s]
    BY <2>1, SizesIs
  <2>3. f[s] = IF s = {} THEN 0 ELSE Cardinality(Pick(s)) + f[s \ {Pick(s)}]
    BY <2>2 DEF SumsSizes
  <2>4. ASSUME s # {} PROVE f[s \ {Pick(s)}] = Sizes(s \ {Pick(s)})
    <3>1. PICK r : r = s \ {Pick(s)}
      OBVIOUS
    <3>2. r \in SUBSET U /\ s \in SUBSET U /\ r \subseteq s /\ r \subseteq T /\ r # T
      BY <1>2, <1>3, <2>4, <3>1, PickIn
    <3>3. PICK h : SumsSizes(h, r) /\ Sizes(r) = h[r]
      BY <1>2, <3>2, SizesIs
    <3>4. f[r] = h[r]
      BY <2>2, <3>2, <3>3, SumsAgree
    <3> QED  BY <3>1, <3>3, <3>4
  <2> QED  BY <2>2, <2>3, <2>4
<1>4. \A s \in SUBSET T : s # {} => s \ {Pick(s)} \in SUBSET T /\ s \ {Pick(s)} # T
  BY PickIn
<1>5. g = [s \in SUBSET T |->
             IF s = {} THEN 0 ELSE Cardinality(Pick(s)) + g[s \ {Pick(s)}]]
  BY <1>3, <1>4, Zenon
<1>6. SumsSizes(g, T)
  BY <1>5 DEF SumsSizes
<1> QED  BY <1>2, <1>6

LEMMA SizesPick ==
  ASSUME NEW S, IsFiniteSet(S)
  PROVE  Sizes(S) = IF S = {} THEN 0
                    ELSE Cardinality(Pick(S)) + Sizes(S \ {Pick(S)})
<1>1. PICK f : SumsSizes(f, S) /\ Sizes(S) = f[S]
  BY SumsExist, SizesIs
<1>2. f[S] = IF S = {} THEN 0 ELSE Cardinality(Pick(S)) + f[S \ {Pick(S)}]
  BY <1>1 DEF SumsSizes
<1>3. PICK r : r = S \ {Pick(S)}
  OBVIOUS
<1>4. PICK h : SumsSizes(h, r) /\ Sizes(r) = h[r]
  BY <1>3, SumsExist, SizesIs
<1>5. f[r] = h[r]
  BY <1>1, <1>3, <1>4, SumsAgree
<1> QED  BY <1>1, <1>2, <1>3, <1>4, <1>5

LEMMA SizesType ==
  ASSUME NEW U, IsFiniteSet(U), \A x \in U : IsFiniteSet(x), NEW S \in SUBSET U
  PROVE  Sizes(S) \in Nat
<1> DEFINE B == {T \in SUBSET U : Sizes(T) \notin Nat}
<1>1. SUFFICES ASSUME B # {} PROVE FALSE
  OBVIOUS
<1>2. PICK T \in B : \A R \in B : R \subseteq T => R = T
  <2>1. B \in SUBSET SUBSET U
    OBVIOUS
  <2> HIDE DEF B
  <2> QED  BY <1>1, <2>1, SmallestSet
<1>3. Sizes(T) = IF T = {} THEN 0
                 ELSE Cardinality(Pick(T)) + Sizes(T \ {Pick(T)})
  <2>1. IsFiniteSet(T)
    BY <1>2, FS_Subset
  <2> QED  BY <2>1, SizesPick
<1>4. T # {}
  BY <1>2, <1>3
<1>5. Sizes(T \ {Pick(T)}) \in Nat
  BY <1>2, <1>4, PickIn
<1>6. Cardinality(Pick(T)) \in Nat
  BY <1>2, <1>4, PickIn, FS_CardinalityType
<1> QED  BY <1>2, <1>3, <1>4, <1>5, <1>6

\* Any member can be counted first.
LEMMA SizesAny ==
  ASSUME NEW U, IsFiniteSet(U), \A x \in U : IsFiniteSet(x),
         NEW S \in SUBSET U, NEW x \in S
  PROVE  Sizes(S) = Cardinality(x) + Sizes(S \ {x})
<1> DEFINE Good(T, y) == Sizes(T) = Cardinality(y) + Sizes(T \ {y})
           B == {T \in SUBSET U : \E y \in T : ~Good(T, y)}
<1>1. SUFFICES ASSUME B # {} PROVE FALSE
  OBVIOUS
<1>2. PICK T \in B : \A R \in B : R \subseteq T => R = T
  <2>1. B \in SUBSET SUBSET U
    OBVIOUS
  <2> HIDE DEF B
  <2> QED  BY <1>1, <2>1, SmallestSet
<1>3. PICK y \in T : ~Good(T, y)
  BY <1>2
<1>4. PICK c : c = Pick(T)
  OBVIOUS
<1>5. c \in T /\ T \in SUBSET U
  BY <1>2, <1>3, <1>4, PickIn
<1>6. Sizes(T) = Cardinality(c) + Sizes(T \ {c})
  <2>1. IsFiniteSet(T)
    BY <1>2, FS_Subset
  <2> QED  BY <1>3, <1>4, <2>1, SizesPick
<1>7. c # y
  BY <1>3, <1>6
<1>8. Good(T \ {c}, y) /\ Good(T \ {y}, c)
  <2>1. T \ {c} \notin B /\ T \ {y} \notin B
    BY <1>2, <1>3, <1>5
  <2>2. y \in T \ {c} /\ c \in T \ {y} /\ T \ {c} \in SUBSET U /\ T \ {y} \in SUBSET U
    BY <1>3, <1>5, <1>7
  <2> QED  BY <2>1, <2>2
<1>9. (T \ {c}) \ {y} = (T \ {y}) \ {c}
  OBVIOUS
<1>10. /\ Cardinality(c) \in Nat /\ Cardinality(y) \in Nat
       /\ Sizes((T \ {c}) \ {y}) \in Nat
  <2>1. (T \ {c}) \ {y} \in SUBSET U
    BY <1>5
  <2> QED  BY <1>3, <1>5, <2>1, SizesType, FS_CardinalityType
<1>11. Good(T, y)
  BY <1>6, <1>8, <1>9, <1>10
<1> QED  BY <1>3, <1>11

\* A set that is added adds its size.
LEMMA SizesAdd ==
  ASSUME NEW U, IsFiniteSet(U), \A x \in U : IsFiniteSet(x),
         NEW S \in SUBSET U, NEW x \in U, x \notin S
  PROVE  Sizes(S \cup {x}) = Sizes(S) + Cardinality(x)
<1>1. S \cup {x} \in SUBSET U /\ (S \cup {x}) \ {x} = S
  OBVIOUS
<1>2. Sizes(S \cup {x}) = Cardinality(x) + Sizes(S)
  BY <1>1, SizesAny
<1>3. Sizes(S) \in Nat /\ Cardinality(x) \in Nat
  BY SizesType, FS_CardinalityType
<1> QED  BY <1>2, <1>3

LEMMA SizesNone == Sizes({}) = 0
BY SizesPick, FS_EmptySet
=============================================================================
